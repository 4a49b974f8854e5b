------------------------- MODULE PacketStreamProofs -------------------------
(***************************************************************************)
(* Theorems about PacketStream, for every set of texts and every Limit.    *)
(*                                                                         *)
(* The invariant behind them says where in the stream each packet lies:    *)
(* packet i fills the bytes e[i-1]+1 .. e[i].  As long as nothing was      *)
(* found damaged, what is parsed ends at such a boundary.                  *)
(***************************************************************************)
EXTENDS PacketStream, TLAPS, SequenceTheorems, Induction

\* Packet p fills the bytes from+1 .. to of the stream s.
Lies(s, p, from, to) ==
    /\ to = from + HeaderSize + Len(p.text)
    /\ to <= Len(s)
    /\ s[from + 1] = Magic
    /\ s[from + 2] = p.type
    /\ s[from + 3] = Len(p.text)
    /\ \A k \in 1..Len(p.text) : s[from + HeaderSize + k] = p.text[k]

Framed(s, q, e) ==
    /\ e \in [Nat -> Nat]
    /\ e[0] = 0
    /\ e[Len(q)] = Len(s)
    /\ \A i \in 1..Len(q) : Lies(s, q[i], e[i - 1], e[i])

Parsed(e) ==
    ~damaged =>
        /\ Len(received) <= Len(sent)
        /\ \A i \in 1..Len(received) : received[i] = sent[i]
        /\ taken = e[Len(received)]

FrameInv == \E e \in [Nat -> Nat] : Framed(stream, sent, e) /\ Parsed(e)

LEMMA TextIsSeq ==
    ASSUME NEW t \in Texts
    PROVE  t \in Seq(Chars) /\ t \in Seq(Nat) /\ Len(t) \in Nat
<1>1. PICK n \in 0..MaxText : t \in [1..n -> Chars]
  BY DEF Texts
<1>2. n \in Nat
  BY <1>1, SizesAssumption
<1>3. t \in Seq(Chars)
  BY <1>1, <1>2, SeqDef
<1>4. t \in [1..n -> Nat]
  BY <1>1, CellsAssumption
<1> QED
  BY <1>2, <1>3, <1>4, SeqDef, LenProperties

LEMMA ConcatParts ==
    ASSUME NEW a \in Seq(Nat), NEW b \in Seq(Nat)
    PROVE  /\ a \o b \in Seq(Nat)
           /\ Len(a) \in Nat /\ Len(b) \in Nat
           /\ Len(a \o b) = Len(a) + Len(b)
           /\ \A i \in 1..Len(a) : (a \o b)[i] = a[i]
           /\ \A k \in 1..Len(b) : (a \o b)[Len(a) + k] = b[k]
<1>1. Len(a) \in Nat /\ Len(b) \in Nat
  BY LenProperties
<1>2. \A i \in 1..Len(a) + Len(b) :
          (a \o b)[i] = IF i <= Len(a) THEN a[i] ELSE b[i - Len(a)]
  BY ConcatProperties
<1>3. ASSUME NEW k \in 1..Len(b)
      PROVE  (a \o b)[Len(a) + k] = b[k]
  <2>1. Len(a) + k \in 1..Len(a) + Len(b) /\ ~(Len(a) + k <= Len(a))
        /\ (Len(a) + k) - Len(a) = k
    BY <1>1
  <2> QED
    BY <1>2, <2>1
<1> QED
  BY <1>1, <1>2, <1>3, ConcatProperties

\* createPacket returns the header and the text.
LEMMA PacketBytes ==
    ASSUME NEW p \in Packets
    PROVE  /\ CreatePacket(p) \in Seq(Nat)
           /\ Len(CreatePacket(p)) = HeaderSize + Len(p.text)
           /\ Len(p.text) \in Nat
           /\ Lies(CreatePacket(p), p, 0, Len(CreatePacket(p)))
<1>1. p.type \in Nat /\ p.text \in Texts
  BY CellsAssumption DEF Packets
<1>2. p.text \in Seq(Nat) /\ Len(p.text) \in Nat
  BY <1>1, TextIsSeq
<1> DEFINE h == <<Magic, p.type, Len(p.text)>>
<1>3. h \in Seq(Nat) /\ Len(h) = 3
  BY <1>1, <1>2, CellsAssumption
<1>4. h[1] = Magic /\ h[2] = p.type /\ h[3] = Len(p.text)
  OBVIOUS
<1> HIDE DEF h
<1>5. CreatePacket(p) = h \o p.text
  BY DEF CreatePacket, h
<1>6. /\ CreatePacket(p) \in Seq(Nat)
      /\ Len(CreatePacket(p)) = 3 + Len(p.text)
      /\ \A i \in 1..3 : CreatePacket(p)[i] = h[i]
      /\ \A k \in 1..Len(p.text) : CreatePacket(p)[3 + k] = p.text[k]
  <2>1. /\ h \o p.text \in Seq(Nat)
        /\ Len(h \o p.text) = Len(h) + Len(p.text)
        /\ \A i \in 1..Len(h) : (h \o p.text)[i] = h[i]
        /\ \A k \in 1..Len(p.text) : (h \o p.text)[Len(h) + k] = p.text[k]
    BY <1>2, <1>3, ConcatParts
  <2> QED
    BY <2>1, <1>3, <1>5
<1> QED
  BY <1>2, <1>4, <1>6 DEF Lies, HeaderSize

\* Bytes stay where they are when more are appended.
LEMMA LiesLonger ==
    ASSUME NEW s \in Seq(Nat), NEW c \in Seq(Nat), NEW p \in Packets,
           NEW from \in Nat, NEW to \in Nat, Lies(s, p, from, to)
    PROVE  Lies(s \o c, p, from, to)
<1>1. PICK n : n = Len(p.text)
  OBVIOUS
<1>2. n \in Nat
  BY <1>1, PacketBytes
<1>3. to = from + 3 + n /\ to <= Len(s) /\ s[from + 1] = Magic
      /\ s[from + 2] = p.type /\ s[from + 3] = n
      /\ \A k \in 1..n : s[from + 3 + k] = p.text[k]
  BY <1>1 DEF Lies, HeaderSize
<1>4. /\ Len(s) \in Nat /\ Len(c) \in Nat /\ Len(s \o c) = Len(s) + Len(c)
      /\ \A i \in 1..Len(s) : (s \o c)[i] = s[i]
  BY ConcatParts
<1>5. /\ from + 1 \in 1..Len(s) /\ from + 2 \in 1..Len(s)
      /\ from + 3 \in 1..Len(s) /\ to <= Len(s \o c)
      /\ \A k \in 1..n : from + 3 + k \in 1..Len(s)
  BY <1>2, <1>3, <1>4
<1> QED
  BY <1>1, <1>3, <1>4, <1>5 DEF Lies, HeaderSize

\* An appended packet lies behind what was there.
LEMMA LiesBehind ==
    ASSUME NEW s \in Seq(Nat), NEW c \in Seq(Nat), NEW p \in Packets,
           Lies(c, p, 0, Len(c))
    PROVE  Lies(s \o c, p, Len(s), Len(s) + Len(c))
<1>1. PICK n : n = Len(p.text)
  OBVIOUS
<1>2. n \in Nat
  BY <1>1, PacketBytes
<1>3. /\ Len(s) \in Nat /\ Len(c) \in Nat /\ Len(s \o c) = Len(s) + Len(c)
      /\ \A i \in 1..Len(c) : (s \o c)[Len(s) + i] = c[i]
  BY ConcatParts
<1>4. Len(c) = 3 + n /\ c[1] = Magic /\ c[2] = p.type /\ c[3] = n
      /\ \A k \in 1..n : c[3 + k] = p.text[k]
  BY <1>1, <1>2 DEF Lies, HeaderSize
<1>5. ASSUME NEW k \in 1..n
      PROVE  (s \o c)[Len(s) + 3 + k] = p.text[k]
  <2>1. 3 + k \in 1..Len(c) /\ Len(s) + (3 + k) = Len(s) + 3 + k
    BY <1>2, <1>3, <1>4
  <2> QED
    BY <2>1, <1>3, <1>4
<1>6. (s \o c)[Len(s) + 1] = Magic /\ (s \o c)[Len(s) + 2] = p.type
      /\ (s \o c)[Len(s) + 3] = n
  BY <1>2, <1>3, <1>4
<1>7. Len(s) + Len(c) = Len(s) + 3 + n /\ Len(s) + Len(c) <= Len(s \o c)
  BY <1>2, <1>3, <1>4
<1> QED
  BY <1>1, <1>3, <1>5, <1>6, <1>7 DEF Lies, HeaderSize

\* A packet appended to a framed stream leaves it framed.
LEMMA AppendFramed ==
    ASSUME NEW s \in Seq(Nat), NEW q \in Seq(Packets), NEW e, Framed(s, q, e),
           NEW p \in Packets
    PROVE  Framed(s \o CreatePacket(p), Append(q, p),
                  [e EXCEPT ![Len(q) + 1] = Len(s) + Len(CreatePacket(p))])
<1> DEFINE c == CreatePacket(p)
           t == s \o c
           n == Len(q)
           f == [e EXCEPT ![n + 1] = Len(s) + Len(c)]
<1>1. c \in Seq(Nat) /\ Len(c) = HeaderSize + Len(p.text) /\ Len(p.text) \in Nat
      /\ Lies(c, p, 0, Len(c))
  BY PacketBytes
<1>2. n \in Nat /\ Len(s) \in Nat /\ Len(c) \in Nat
  BY <1>1, LenProperties
<1>3. e \in [Nat -> Nat] /\ e[0] = 0 /\ e[n] = Len(s)
      /\ \A i \in 1..n : Lies(s, q[i], e[i - 1], e[i])
  BY DEF Framed
<1>4. f \in [Nat -> Nat] /\ f[n + 1] = Len(s) + Len(c)
      /\ \A i \in 0..n : f[i] = e[i]
  <2>1. n + 1 \in Nat /\ Len(s) + Len(c) \in Nat
    BY <1>2
  <2>2. \A i \in 0..n : i # n + 1 /\ i \in Nat
    BY <1>2
  <2> HIDE DEF n, c
  <2> QED
    BY <1>3, <2>1, <2>2
<1>5. /\ Len(t) = Len(s) + Len(c)
      /\ \A i \in 1..Len(s) : t[i] = s[i]
      /\ \A i \in 1..Len(c) : t[Len(s) + i] = c[i]
  BY <1>1, ConcatParts
<1>6. /\ Len(Append(q, p)) = n + 1
      /\ \A i \in 1..n : Append(q, p)[i] = q[i]
      /\ Append(q, p)[n + 1] = p
  BY AppendProperties
<1> HIDE DEF c, t, n, f
<1>7. ASSUME NEW i \in 1..(n + 1)
      PROVE  Lies(t, Append(q, p)[i], f[i - 1], f[i])
  <2>1. CASE i = n + 1
    <3>1. f[i - 1] = Len(s) /\ f[i] = Len(s) + Len(c) /\ Append(q, p)[i] = p
      BY <2>1, <1>2, <1>3, <1>4, <1>6
    <3> QED
      BY <3>1, <1>1, LiesBehind DEF t
  <2>2. CASE i \in 1..n
    <3>1. i \in 0..n /\ i - 1 \in 0..n /\ i \in Nat /\ i - 1 \in Nat
      BY <2>2, <1>2
    <3>2. f[i - 1] = e[i - 1] /\ f[i] = e[i] /\ Append(q, p)[i] = q[i]
          /\ e[i - 1] \in Nat /\ e[i] \in Nat
      BY <2>2, <3>1, <1>3, <1>4, <1>6
    <3>3. Lies(s, q[i], e[i - 1], e[i]) /\ q[i] \in Packets
      BY <2>2, <1>3 DEF n
    <3> QED
      BY <3>2, <3>3, <1>1, LiesLonger DEF t
  <2>3. i = n + 1 \/ i \in 1..n
    BY <1>2
  <2> QED
    BY <2>1, <2>2, <2>3, Zenon
<1>8. f[0] = 0 /\ Len(Append(q, p)) = n + 1 /\ f[n + 1] = Len(t)
  <2>1. 0 \in 0..n
    BY <1>2
  <2> QED
    BY <2>1, <1>3, <1>4, <1>5, <1>6
<1>9. Framed(t, Append(q, p), f)
  BY <1>4, <1>7, <1>8 DEF Framed
<1> QED
  BY <1>9 DEF c, t, n, f

-----------------------------------------------------------------------------
(* Type correctness *)

LEMMA TypeInit == Init => TypeOK
<1>1. <<>> \in Seq(Nat) /\ <<>> \in Seq(Packets)
      /\ <<>> \in Seq([type : Nat, text : Seq(Nat)]) /\ Len(<<>>) = 0
  BY EmptySeq
<1>2. 0 \in 0..0
  OBVIOUS
<1> QED
  BY <1>1, <1>2 DEF Init, TypeOK

\* What extractFromPacket returns is a type and a text.
LEMMA ExtractedType ==
    ASSUME TypeOK, Ready
    PROVE  /\ Extracted \in [type : Nat, text : Seq(Nat)]
           /\ Buf(HeaderSize) \in Nat
           /\ taken + HeaderSize + Buf(HeaderSize) <= read
<1>1. read \in Nat /\ taken \in Nat /\ read <= Len(stream) /\ taken <= read
      /\ Len(stream) \in Nat
  BY LenProperties DEF TypeOK
<1>2. read - taken >= 3
  BY DEF Ready, BufSize, HeaderSize
<1>3. \A i \in Nat : i >= 1 /\ taken + i <= read => Buf(i) \in Nat
  BY <1>1 DEF TypeOK, Buf
<1>4. Buf(2) \in Nat /\ Buf(HeaderSize) \in Nat
  BY <1>1, <1>2, <1>3 DEF HeaderSize
<1>5. taken + 3 + Buf(HeaderSize) <= read
  BY <1>1, <1>4 DEF Ready, BufSize, HeaderSize
<1>6. [i \in 1..Buf(HeaderSize) |-> Buf(HeaderSize + i)]
        \in [1..Buf(HeaderSize) -> Nat]
  BY <1>1, <1>3, <1>4, <1>5 DEF HeaderSize
<1>7. [i \in 1..Buf(HeaderSize) |-> Buf(HeaderSize + i)] \in Seq(Nat)
  BY <1>4, <1>6, SeqDef
<1> QED
  BY <1>1, <1>4, <1>5, <1>7 DEF Extracted, HeaderSize

LEMMA TypeNext == TypeOK /\ [Next]_vars => TypeOK'
<1> SUFFICES ASSUME TypeOK, [Next]_vars
             PROVE  TypeOK'
  OBVIOUS
<1>1. /\ read \in Nat /\ taken \in Nat /\ written \in Nat /\ Len(stream) \in Nat
      /\ taken <= read /\ read <= arrived /\ arrived <= written /\ written <= Len(stream)
      /\ arrived \in Nat
  BY LenProperties DEF TypeOK
<1>2. CASE SendCommand
  <2>1. PICK p \in Packets : /\ sent' = Append(sent, p)
                             /\ stream' = stream \o CreatePacket(p)
    BY <1>2 DEF SendCommand
  <2>2. sent' \in Seq(Packets)
    BY <2>1, AppendProperties DEF TypeOK
  <2>3. stream' \in Seq(Nat) /\ Len(stream') >= Len(stream) /\ Len(stream') \in Nat
    BY <2>1, <1>1, PacketBytes, ConcatProperties, LenProperties DEF TypeOK, HeaderSize
  <2> QED
    BY <1>2, <2>2, <2>3, <1>1 DEF SendCommand, TypeOK
<1>3. CASE Write
  BY <1>3, <1>1 DEF Write, TypeOK
<1>4. CASE ReadyRead
  BY <1>4, <1>1 DEF ReadyRead, TypeOK
<1>5. CASE Extract
  <2>1. received' \in Seq([type : Nat, text : Seq(Nat)])
    BY <1>5, ExtractedType, AppendProperties DEF Extract, TypeOK
  <2>2. taken' \in 0..read
    BY <1>5, <1>1, ExtractedType DEF Extract, HeaderSize
  <2> QED
    BY <1>5, <2>1, <2>2 DEF Extract, TypeOK
<1>6. CASE NotReady
  BY <1>6 DEF NotReady, TypeOK
<1>7. CASE DamagedOnMonkey
  <2>1. read \in 0..read
    BY <1>1
  <2> QED
    BY <1>7, <2>1 DEF DamagedOnMonkey, TypeOK
<1>8. CASE DamagedOnAgent
  BY <1>8 DEF DamagedOnAgent, TypeOK
<1>9. CASE Disconnected
  <2>1. stream' \in Seq(Nat) /\ Len(stream') = 0 /\ sent' \in Seq(Packets)
        /\ received' \in Seq([type : Nat, text : Seq(Nat)])
    BY <1>9, EmptySeq DEF Disconnected
  <2>2. 0 \in 0..0
    OBVIOUS
  <2> QED
    BY <1>9, <2>1, <2>2 DEF Disconnected, TypeOK
<1>10. CASE Poll \/ ScriptOver
  BY <1>10, <1>1 DEF Poll, ScriptOver, TypeOK
<1>11. CASE UNCHANGED vars
  BY <1>11 DEF vars, TypeOK
<1> QED
  BY <1>2, <1>3, <1>4, <1>5, <1>6, <1>7, <1>8, <1>9, <1>10, <1>11 DEF Next, Reader

\* The buffers of a direction are intervals of the stream, in this
\* order: nothing is read that was not written, nor parsed that was not read.
THEOREM TypeCorrect == Spec => []TypeOK
<1> QED
  BY TypeInit, TypeNext, PTL DEF Spec

MonkeyInv == reader = "monkey" => read = arrived /\ slot # "script"

\* Only scripts leave bytes unread that have come in: the monkey, whose slot
\* does not poll, has read all that has arrived (readDataFromClientSocket).
THEOREM MonkeyReadsAll == Spec => [](reader = "monkey" => read = arrived)
<1>1. Init => MonkeyInv
  BY DEF Init, MonkeyInv
<1>2. MonkeyInv /\ [Next]_vars => MonkeyInv'
  BY DEF MonkeyInv, Next, Reader, SendCommand, Write, Poll, ScriptOver, ReadyRead, Extract,
         NotReady, DamagedOnMonkey, DamagedOnAgent, Disconnected, vars
<1>3. MonkeyInv => (reader = "monkey" => read = arrived)
  BY DEF MonkeyInv
<1> QED
  BY <1>1, <1>2, <1>3, PTL DEF Spec

-----------------------------------------------------------------------------
(* The packets received *)

LEMMA FrameInit == Init => FrameInv
<1> SUFFICES ASSUME Init
             PROVE  FrameInv
  OBVIOUS
<1> DEFINE e == [i \in Nat |-> 0]
<1>1. e \in [Nat -> Nat] /\ e[0] = 0 /\ Len(sent) = 0 /\ Len(stream) = 0
      /\ Len(received) = 0 /\ taken = 0
  BY DEF Init
<1> HIDE DEF e
<1>2. Framed(stream, sent, e) /\ Parsed(e)
  BY <1>1 DEF Framed, Parsed
<1> QED
  BY <1>1, <1>2 DEF FrameInv

\* A packet at the head of recvBuf_ is extracted as it was created.
LEMMA ExtractAt ==
    ASSUME TypeOK, NEW e, Framed(stream, sent, e), NEW i \in 1..Len(sent), taken = e[i - 1]
    PROVE  /\ Extracted = sent[i]
           /\ taken + HeaderSize + Buf(HeaderSize) = e[i]
           /\ Buf(1) = Magic /\ Buf(HeaderSize) = Len(sent[i].text)
<1>1. PICK t : t = taken
  OBVIOUS
<1>2. t \in Nat
  BY <1>1 DEF TypeOK
<1>3. Lies(stream, sent[i], t, e[i])
  BY <1>1 DEF Framed
<1>4. PICK p \in Packets : p = sent[i]
  BY DEF TypeOK
<1>5. Len(p.text) \in Nat /\ p.text \in Seq(Nat)
  BY PacketBytes, TextIsSeq DEF Packets
<1>6. Buf(1) = Magic /\ Buf(2) = p.type /\ Buf(3) = Len(p.text)
      /\ \A k \in 1..Len(p.text) : Buf(3 + k) = p.text[k]
  <2>1. \A k \in 1..Len(p.text) : t + (3 + k) = t + 3 + k
    BY <1>2, <1>5
  <2> QED
    BY <1>1, <1>3, <1>4, <2>1 DEF Lies, HeaderSize, Buf
<1>7. [k \in 1..Buf(3) |-> Buf(3 + k)] = p.text
  <2>1. PICK x \in Seq(Nat) : x = p.text
    BY <1>5
  <2>2. x = [k \in 1..Len(x) |-> x[k]]
    OBVIOUS
  <2> QED
    BY <1>6, <2>1, <2>2
<1>8. p = [type |-> p.type, text |-> p.text]
  BY DEF Packets
<1>9. Extracted = p
  BY <1>6, <1>7, <1>8 DEF Extracted, HeaderSize
<1> QED
  BY <1>1, <1>3, <1>4, <1>6, <1>9 DEF Lies, HeaderSize

\* As long as nothing was found damaged, it is the next one that was sent.
LEMMA ExtractIsNext ==
    ASSUME TypeOK, Ready, ~damaged, NEW e, Framed(stream, sent, e), Parsed(e)
    PROVE  /\ Len(received) + 1 <= Len(sent)
           /\ Extracted = sent[Len(received) + 1]
           /\ taken + HeaderSize + Buf(HeaderSize) = e[Len(received) + 1]
<1>m. PICK m \in Nat : m = Len(received)
  BY LenProperties DEF TypeOK
<1>1. /\ read \in Nat /\ taken \in Nat /\ Len(stream) \in Nat
      /\ read <= Len(stream) /\ Len(sent) \in Nat
  BY LenProperties DEF TypeOK
<1>2. m <= Len(sent) /\ taken = e[m]
  BY <1>m DEF Parsed
<1>3. read - taken >= 3
  BY DEF Ready, BufSize, HeaderSize
<1>4. m # Len(sent)
  BY <1>1, <1>2, <1>3 DEF Framed
<1>5. m + 1 \in 1..Len(sent) /\ (m + 1) - 1 = m
  BY <1>1, <1>2, <1>4
<1>6. PICK i \in 1..Len(sent) : i = m + 1 /\ i - 1 = m
  BY <1>5
<1> QED
  BY <1>1, <1>2, <1>5, <1>6, <1>m, ExtractAt

\* An index of a sequence that has grown by one is an old one or the new one.
LEMMA LastOrBefore ==
    ASSUME NEW m \in Nat
    PROVE  \A i \in 1..m + 1 : i \in 1..m \/ i = m + 1
  OBVIOUS

LEMMA FrameNext == TypeOK /\ FrameInv /\ [Next]_vars => FrameInv'
<1> SUFFICES ASSUME TypeOK, FrameInv, [Next]_vars
             PROVE  FrameInv'
  OBVIOUS
<1>1. PICK e \in [Nat -> Nat] : Framed(stream, sent, e) /\ Parsed(e)
  BY DEF FrameInv
<1>2. Len(received) \in Nat /\ Len(sent) \in Nat
  BY LenProperties DEF TypeOK
<1>3. CASE SendCommand
  <2>1. PICK p \in Packets : /\ sent' = Append(sent, p)
                             /\ stream' = stream \o CreatePacket(p)
    BY <1>3 DEF SendCommand
  <2>a. PICK f : f = [e EXCEPT ![Len(sent) + 1] = Len(stream) + Len(CreatePacket(p))]
    OBVIOUS
  <2>2. Framed(stream', sent', f)
    BY <1>1, <2>a, <2>1, AppendFramed DEF TypeOK
  <2>3. UNCHANGED <<damaged, received, taken>>
    BY <1>3 DEF SendCommand
  <2>4. /\ Len(sent') = Len(sent) + 1
        /\ \A i \in 1..Len(sent) : sent'[i] = sent[i]
    BY <2>1, AppendProperties DEF TypeOK
  <2>5. \A i \in 0..Len(sent) : f[i] = e[i]
    BY <1>1, <1>2, <2>a
  <2>b. ~damaged => /\ Len(received) <= Len(sent) + 1
                    /\ \A i \in 1..Len(received) : received[i] = sent'[i]
                    /\ taken = f[Len(received)]
    <3> SUFFICES ASSUME ~damaged
                 PROVE  /\ Len(received) <= Len(sent) + 1
                        /\ \A i \in 1..Len(received) : received[i] = sent'[i]
                        /\ taken = f[Len(received)]
      OBVIOUS
    <3>1. /\ Len(received) <= Len(sent)
          /\ \A i \in 1..Len(received) : received[i] = sent[i]
          /\ taken = e[Len(received)]
      BY <1>1 DEF Parsed
    <3>2. Len(received) \in 0..Len(sent)
      BY <3>1, <1>2
    <3>3. \A i \in 1..Len(received) : i \in 1..Len(sent)
      BY <3>1, <1>2
    <3>4. \A i \in 1..Len(received) : received[i] = sent'[i]
      BY <3>1, <3>3, <2>4, Zenon
    <3>5. taken = f[Len(received)]
      BY <3>1, <3>2, <2>5, Zenon
    <3>6. Len(received) <= Len(sent) + 1
      BY <3>1, <1>2
    <3> QED
      BY <3>4, <3>5, <3>6, Zenon
  <2>6. Parsed(f)'
    BY <2>3, <2>4, <2>b DEF Parsed
  <2>7. f \in [Nat -> Nat]
    BY <2>2 DEF Framed
  <2> QED
    BY <2>2, <2>6, <2>7 DEF FrameInv
<1>4. CASE Extract
  <2>1. UNCHANGED <<stream, sent, damaged>>
        /\ received' = Append(received, Extracted)
        /\ taken' = taken + HeaderSize + Buf(HeaderSize)
    BY <1>4 DEF Extract
  <2>2. /\ Len(received') = Len(received) + 1
        /\ \A i \in 1..Len(received) : received'[i] = received[i]
        /\ received'[Len(received) + 1] = Extracted
    BY <2>1, <1>4, ExtractedType, AppendProperties DEF TypeOK, Extract
  <2>3. ~damaged => /\ Len(received) + 1 <= Len(sent)
                    /\ Extracted = sent[Len(received) + 1]
                    /\ taken' = e[Len(received) + 1]
    BY <1>1, <1>4, <2>1, ExtractIsNext DEF Extract
  <2>a. ~damaged =>
            /\ \A i \in 1..Len(received) + 1 : received'[i] = sent[i]
            /\ taken' = e[Len(received')]
    <3> SUFFICES ASSUME ~damaged
                 PROVE  /\ \A i \in 1..Len(received) + 1 : received'[i] = sent[i]
                        /\ taken' = e[Len(received')]
      OBVIOUS
    <3>1. \A i \in 1..Len(received) : received[i] = sent[i]
      BY <1>1 DEF Parsed
    <3>2. \A i \in 1..Len(received) + 1 :
              i \in 1..Len(received) \/ i = Len(received) + 1
      BY <1>2, LastOrBefore, Zenon
    <3>3. \A i \in 1..Len(received) + 1 : received'[i] = sent[i]
      BY <3>1, <3>2, <2>2, <2>3, Zenon
    <3>4. taken' = e[Len(received')]
      BY <2>2, <2>3, Zenon
    <3> QED
      BY <3>3, <3>4, Zenon
  <2>4. Parsed(e)'
    BY <2>1, <2>2, <2>3, <2>a DEF Parsed
  <2> QED
    BY <1>1, <2>1, <2>4 DEF FrameInv
<1>5. CASE DamagedOnMonkey
  <2>1. UNCHANGED <<stream, sent>> /\ damaged' = TRUE
    BY <1>5 DEF DamagedOnMonkey
  <2> QED
    BY <1>1, <2>1 DEF FrameInv, Parsed
<1>6. CASE DamagedOnAgent
  <2>1. UNCHANGED <<stream, sent>> /\ damaged' = TRUE
    BY <1>6 DEF DamagedOnAgent
  <2> QED
    BY <1>1, <2>1 DEF FrameInv, Parsed
<1>7. CASE Disconnected
  <2>a. PICK f : f = [i \in Nat |-> 0]
    OBVIOUS
  <2>1. f \in [Nat -> Nat] /\ f[0] = 0 /\ Len(sent') = 0 /\ Len(stream') = 0
        /\ Len(received') = 0 /\ taken' = 0
    BY <1>7, <2>a DEF Disconnected
  <2>b. \A i \in 1..Len(sent') : FALSE
    BY <2>1
  <2>2. Framed(stream', sent', f)
    BY <2>1, <2>b DEF Framed
  <2>3. Parsed(f)'
    BY <2>1 DEF Parsed
  <2> QED
    BY <2>1, <2>2, <2>3 DEF FrameInv
<1>8. CASE Write \/ Poll \/ ScriptOver \/ ReadyRead \/ NotReady \/ UNCHANGED vars
  <2>1. UNCHANGED <<stream, sent, damaged, received, taken>>
    BY <1>8 DEF Write, Poll, ScriptOver, ReadyRead, NotReady, vars
  <2> QED
    BY <1>1, <2>1 DEF FrameInv, Parsed
<1> QED
  BY <1>3, <1>4, <1>5, <1>6, <1>7, <1>8 DEF Next, Reader

\* Whatever pieces the stream comes in, and whatever the texts hold, the
\* packets received are a prefix of those sent until one is found damaged.
THEOREM PrefixReceived == Spec => []ReceivedIsPrefix
<1>1. Init => TypeOK /\ FrameInv
  BY TypeInit, FrameInit
<1>2. TypeOK /\ FrameInv /\ [Next]_vars => (TypeOK /\ FrameInv)'
  BY TypeNext, FrameNext
<1>3. FrameInv => ReceivedIsPrefix
  BY DEF FrameInv, Parsed, ReceivedIsPrefix
<1> QED
  BY <1>1, <1>2, <1>3, PTL DEF Spec

-----------------------------------------------------------------------------
(* Damaged packets *)

\* An agent that found a packet damaged is dead until a new process begins.
AgentStops == reader = "agent" /\ damaged => dead /\ slot = "idle"

StreamInv == TypeOK /\ FrameInv /\ DamagedMeansTooLong /\ AgentStops

\* The head of recvBuf_ begins a packet that was sent, so that only the length
\* can be wrong with it.
LEMMA DamagedIsTooLong ==
    ASSUME TypeOK, FrameInv, Damaged, ~damaged
    PROVE  \E i \in 1..Len(sent) : IsTooLong(sent[i])
<1>1. PICK e \in [Nat -> Nat] : Framed(stream, sent, e) /\ Parsed(e)
  BY DEF FrameInv
<1>2. PICK m \in Nat : m = Len(received)
  BY LenProperties DEF TypeOK
<1>3. /\ read \in Nat /\ taken \in Nat /\ Len(stream) \in Nat
      /\ read <= Len(stream) /\ Len(sent) \in Nat
  BY LenProperties DEF TypeOK
<1>4. m <= Len(sent) /\ taken = e[m]
  BY <1>1, <1>2 DEF Parsed
<1>5. read - taken >= 1
  BY <1>3 DEF Damaged, BufSize, HeaderSize
<1>6. m # Len(sent)
  BY <1>1, <1>3, <1>4, <1>5 DEF Framed
<1>7. m + 1 \in 1..Len(sent) /\ (m + 1) - 1 = m
  BY <1>3, <1>4, <1>6
<1>8. Lies(stream, sent[m + 1], e[m], e[m + 1])
  BY <1>1, <1>7 DEF Framed
<1>9. Buf(1) = Magic /\ Buf(HeaderSize) = Len(sent[m + 1].text)
  BY <1>4, <1>8 DEF Lies, HeaderSize, Buf
<1>10. Buf(HeaderSize) > Limit
  BY <1>9 DEF Damaged
<1> QED
  BY <1>7, <1>9, <1>10 DEF IsTooLong

LEMMA StreamInit == Init => StreamInv
BY TypeInit, FrameInit DEF Init, StreamInv, DamagedMeansTooLong, AgentStops

LEMMA StreamNext ==
    ASSUME StreamInv, [Next]_vars
    PROVE  StreamInv'
<1>1. TypeOK' /\ FrameInv'
  BY TypeNext, FrameNext DEF StreamInv
<1>2. DamagedMeansTooLong'
  <2>1. CASE SendCommand
    <3>1. PICK p \in Packets : sent' = Append(sent, p)
      BY <2>1 DEF SendCommand
    <3>2. Len(sent) \in Nat /\ Len(sent') = Len(sent) + 1
          /\ \A i \in 1..Len(sent) : sent'[i] = sent[i]
      BY <3>1, AppendProperties, LenProperties DEF StreamInv, TypeOK
    <3>3. damaged' = damaged
      BY <2>1 DEF SendCommand
    <3> QED
      BY <3>2, <3>3 DEF StreamInv, DamagedMeansTooLong, IsTooLong
  <2>2. CASE DamagedOnMonkey \/ DamagedOnAgent
    <3>1. \E i \in 1..Len(sent) : IsTooLong(sent[i])
      BY <2>2, DamagedIsTooLong DEF StreamInv, DamagedMeansTooLong, DamagedOnMonkey,
                                    DamagedOnAgent
    <3>2. sent' = sent
      BY <2>2 DEF DamagedOnMonkey, DamagedOnAgent
    <3> QED
      BY <3>1, <3>2 DEF DamagedMeansTooLong, IsTooLong
  <2>3. CASE Disconnected
    BY <2>3 DEF Disconnected, DamagedMeansTooLong
  <2>4. CASE Write \/ Poll \/ ScriptOver \/ ReadyRead \/ Extract \/ NotReady \/ UNCHANGED vars
    <3>1. sent' = sent /\ damaged' = damaged
      BY <2>4 DEF Write, Poll, ScriptOver, ReadyRead, Extract, NotReady, vars
    <3> QED
      BY <3>1 DEF StreamInv, DamagedMeansTooLong, IsTooLong
  <2> QED
    BY <2>1, <2>2, <2>3, <2>4 DEF Next, Reader
<1>3. AgentStops'
  <2>1. CASE SendCommand \/ Write \/ Poll \/ ScriptOver \/ UNCHANGED vars
    BY <2>1 DEF SendCommand, Write, Poll, ScriptOver, vars, StreamInv, AgentStops
  <2>2. CASE ReadyRead \/ Extract \/ NotReady
    BY <2>2 DEF ReadyRead, Extract, NotReady, StreamInv, AgentStops
  <2>3. CASE DamagedOnMonkey
    <3>1. reader' = reader /\ reader = "monkey"
      BY <2>3 DEF DamagedOnMonkey
    <3> QED
      BY <3>1 DEF AgentStops
  <2>4. CASE DamagedOnAgent
    BY <2>4 DEF DamagedOnAgent, AgentStops
  <2>5. CASE Disconnected
    BY <2>5 DEF Disconnected, AgentStops
  <2> QED
    BY <2>1, <2>2, <2>3, <2>4, <2>5 DEF Next, Reader
<1> QED
  BY <1>1, <1>2, <1>3 DEF StreamInv

LEMMA StreamInvariance == Spec => []StreamInv
BY StreamInit, StreamNext, PTL DEF Spec

\* calcPacketState says "damaged" only of a packet whose text is longer than
\* the limit, whatever bytes the texts are made of.
THEOREM OnlyLengthDamages == Spec => []DamagedMeansTooLong
<1>1. StreamInv => DamagedMeansTooLong
  BY DEF StreamInv
<1> QED
  BY <1>1, StreamInvariance, PTL

-----------------------------------------------------------------------------
(* What is received after a damaged packet *)

\* A packet ends where the next one begins, and has at least a header.
LEMMA EndsGrow ==
    ASSUME NEW s, NEW q \in Seq(Packets), NEW e, Framed(s, q, e), NEW N \in Nat, N = Len(q)
    PROVE  \A i \in 1..N : e[i - 1] \in Nat /\ e[i] \in Nat /\ e[i - 1] < e[i]
<1>1. ASSUME NEW i \in 1..N
      PROVE  e[i - 1] \in Nat /\ e[i] \in Nat /\ e[i - 1] < e[i]
  <2>1. PICK p \in Packets : p = q[i]
    OBVIOUS
  <2>2. Len(p.text) \in Nat
    BY <2>1, PacketBytes
  <2>3. Lies(s, p, e[i - 1], e[i])
    BY <2>1 DEF Framed
  <2>4. e[i - 1] \in Nat /\ e[i] \in Nat
    BY DEF Framed
  <2> QED
    BY <2>2, <2>3, <2>4 DEF Lies, HeaderSize
<1> QED
  BY <1>1

Grows(e, N) == \A i, j \in 0..N : i <= j => e[i] <= e[j]

LEMMA EndsOrdered ==
    ASSUME NEW e \in [Nat -> Nat], NEW N \in Nat, \A i \in 1..N : e[i - 1] < e[i]
    PROVE  Grows(e, N)
<1>1. PICK S : S = {n \in 0..N : \A i \in 0..n : e[i] <= e[n]}
  OBVIOUS
<1>2. 0 \in S
  BY <1>1
<1>3. ASSUME NEW n \in 0..N - 1, n \in S
      PROVE  n + 1 \in S
  <2>1. e[n] < e[n + 1] /\ n + 1 \in 0..N
    <3>1. n + 1 \in 1..N /\ (n + 1) - 1 = n
      OBVIOUS
    <3> QED
      BY <3>1
  <2>2. ASSUME NEW i \in 0..n + 1
        PROVE  e[i] <= e[n + 1]
    <3>1. CASE i \in 0..n
      <4>1. e[i] <= e[n]
        BY <1>1, <1>3, <3>1
      <4> QED
        BY <2>1, <4>1
    <3>2. CASE i = n + 1
      BY <3>2
    <3> QED
      BY <3>1, <3>2
  <2> QED
    BY <1>1, <2>1, <2>2
<1>4. \A n \in 0..N : n \in S
  BY <1>2, <1>3, UpTo
<1> QED
  BY <1>1, <1>4 DEF Grows

\* Each byte is one of some packet.
LEMMA InSomePacket ==
    ASSUME NEW e \in [Nat -> Nat], NEW N \in Nat, NEW x \in Nat, e[0] < x, x <= e[N]
    PROVE  \E i \in 1..N : e[i - 1] < x /\ x <= e[i]
<1>1. PICK T \in SUBSET Nat : T = {i \in 0..N : x <= e[i]}
  <2>1. {i \in 0..N : x <= e[i]} \in SUBSET Nat
    OBVIOUS
  <2> QED
    BY <2>1
<1>2. PICK i \in T : \A y \in T : i <= y
  <2>1. N \in T
    BY <1>1
  <2> QED
    BY <2>1, LeastNat
<1>3. i \in 1..N /\ i - 1 \in 0..N /\ ~(i <= i - 1)
  BY <1>1
<1>4. ~(x <= e[i - 1])
  BY <1>1, <1>2, <1>3
<1> QED
  BY <1>1, <1>3, <1>4

NoMagic == \A i \in 1..Len(sent) : ~HasMagic(sent[i])

\* The magic number is only where a packet begins.
LEMMA MagicBegins ==
    ASSUME TypeOK, NoMagic, NEW e, Framed(stream, sent, e), NEW x \in 1..Len(stream),
           stream[x] = Magic
    PROVE  \E i \in 1..Len(sent) : x = e[i - 1] + 1
<1>1. Len(stream) \in Nat /\ Len(sent) \in Nat
  BY LenProperties DEF TypeOK
<1>2. e \in [Nat -> Nat] /\ e[0] < x /\ x <= e[Len(sent)]
  BY <1>1 DEF Framed
<1>N. PICK N \in Nat : N = Len(sent)
  BY <1>1
<1>3. PICK i \in 1..N : e[i - 1] < x /\ x <= e[i]
  <2>1. x \in Nat /\ x <= e[N]
    BY <1>1, <1>2, <1>N
  <2> QED
    BY <1>2, <2>1, InSomePacket
<1>4. PICK p \in Packets : p = sent[i]
  BY <1>N DEF TypeOK
<1>5. PICK n \in Nat : n = Len(p.text)
  BY PacketBytes
<1>6. PICK a \in Nat : a = e[i - 1]
  BY <1>2
<1>7. /\ x \in Nat /\ a < x /\ x <= a + 3 + n
      /\ stream[a + 2] = p.type /\ stream[a + 3] = n
      /\ \A k \in 1..n : stream[a + 3 + k] = p.text[k]
  <2>1. Lies(stream, p, a, e[i])
    BY <1>4, <1>6, <1>N DEF Framed
  <2>2. e[i] = a + 3 + n
    BY <1>5, <2>1 DEF Lies, HeaderSize
  <2> QED
    BY <1>1, <1>3, <1>5, <1>6, <2>1, <2>2 DEF Lies, HeaderSize
<1>8. p.type # Magic /\ n # Magic /\ \A k \in 1..n : p.text[k] # Magic
  BY <1>4, <1>5, <1>N DEF NoMagic, HasMagic
<1>9. x # a + 2 /\ x # a + 3
  BY <1>7, <1>8
<1>10. ~(x > a + 3)
  <2>1. ASSUME x > a + 3
        PROVE  x - (a + 3) \in 1..n /\ a + 3 + (x - (a + 3)) = x
    BY <1>7, <2>1
  <2> QED
    BY <1>7, <1>8, <2>1
<1>11. x = a + 1
  BY <1>7, <1>9, <1>10
<1> QED
  BY <1>6, <1>11, <1>N

\* Packet k of those received is packet f[k] of those sent, which lies in what
\* is parsed.
Matches(e, f) ==
    /\ f \in [1..Len(received) -> 1..Len(sent)]
    /\ \A k \in 1..Len(received) : received[k] = sent[f[k]] /\ e[f[k]] <= taken
    /\ \A k, m \in 1..Len(received) : k < m => f[k] < f[m]

Matched(e) == NoMagic => \E f : Matches(e, f)

MatchInv == \E e \in [Nat -> Nat] : Framed(stream, sent, e) /\ Matched(e)

LEMMA MatchInit == Init => MatchInv
<1> SUFFICES ASSUME Init
             PROVE  MatchInv
  OBVIOUS
<1>1. PICK e : e = [i \in Nat |-> 0]
  OBVIOUS
<1>2. e \in [Nat -> Nat] /\ e[0] = 0 /\ Len(sent) = 0 /\ Len(stream) = 0
      /\ Len(received) = 0
  BY <1>1 DEF Init
<1>3. Framed(stream, sent, e)
  BY <1>2 DEF Framed
<1>4. Matches(e, <<>>)
  BY <1>2 DEF Matches
<1> QED
  BY <1>2, <1>3, <1>4 DEF MatchInv, Matched

\* A packet that is extracted lies behind those that were received before it.
LEMMA ExtractMatches ==
    ASSUME TypeOK, NoMagic, Extract, NEW e, Framed(stream, sent, e), NEW f, Matches(e, f)
    PROVE  \E g : Matches(e, g)'
<1>1. /\ read \in Nat /\ taken \in Nat /\ Len(stream) \in Nat /\ Len(sent) \in Nat
      /\ read <= Len(stream)
  BY LenProperties DEF TypeOK
<1>N. PICK N \in Nat : N = Len(sent)
  BY <1>1
<1>m. PICK m \in Nat : m = Len(received)
  BY LenProperties DEF TypeOK
<1>2. taken + 1 \in 1..Len(stream) /\ stream[taken + 1] = Magic
  <2>1. Ready /\ ~Damaged /\ read - taken >= 3
    BY DEF Extract, Ready, BufSize, HeaderSize
  <2>2. Buf(1) = Magic
    BY <1>1, <2>1 DEF Damaged, BufSize
  <2> QED
    BY <1>1, <2>1, <2>2 DEF Buf
<1>3. PICK i \in 1..N : taken + 1 = e[i - 1] + 1
  <2>1. PICK x \in 1..Len(stream) : x = taken + 1 /\ stream[x] = Magic
    BY <1>2
  <2> QED
    BY <1>N, <2>1, MagicBegins
<1>4. \A k \in 1..N : e[k - 1] \in Nat /\ e[k] \in Nat /\ e[k - 1] < e[k]
  BY <1>N, EndsGrow DEF TypeOK
<1>5. taken = e[i - 1] /\ e[i - 1] < e[i]
  BY <1>1, <1>3, <1>4
<1>6. Extracted = sent[i] /\ taken + HeaderSize + Buf(HeaderSize) = e[i]
  BY <1>5, <1>N, ExtractAt
<1>7. Grows(e, N)
  BY <1>4, EndsOrdered DEF Framed
<1>8. \A k \in 1..m : f[k] \in 1..N /\ f[k] < i
  <2>1. ASSUME NEW k \in 1..m
        PROVE  f[k] \in 1..N /\ f[k] < i
    <3>1. f[k] \in 1..N /\ e[f[k]] <= taken
      BY <1>m, <1>N DEF Matches
    <3>2. PICK j \in 1..N : j = f[k]
      BY <3>1
    <3>3. e[j] \in Nat /\ e[i] \in Nat /\ ~(e[i] <= e[j])
      BY <1>1, <1>4, <1>5, <3>1, <3>2
    <3>4. ~(i <= j)
      BY <1>7, <3>3 DEF Grows
    <3> QED
      BY <3>2, <3>4
  <2> QED
    BY <2>1
<1>9. /\ Len(received') = m + 1
      /\ \A k \in 1..m : received'[k] = received[k]
      /\ received'[m + 1] = sent[i]
  BY <1>6, <1>m, ExtractedType, AppendProperties DEF Extract, TypeOK
<1>10. taken' = e[i] /\ UNCHANGED <<sent, stream>>
  BY <1>6 DEF Extract
<1>g. PICK g : g = [k \in 1..m + 1 |-> IF k = m + 1 THEN i ELSE f[k]]
  OBVIOUS
<1>11. \A k \in 1..m + 1 : k \in 1..m \/ k = m + 1
  OBVIOUS
<1>12. g[m + 1] = i /\ \A k \in 1..m : g[k] = f[k]
  BY <1>g
<1>13. g \in [1..m + 1 -> 1..N]
  BY <1>8, <1>11, <1>g
<1>14. \A k \in 1..m + 1 : received'[k] = sent[g[k]] /\ e[g[k]] <= taken'
  <2>1. ASSUME NEW k \in 1..m
        PROVE  received'[k] = sent[g[k]] /\ e[g[k]] <= taken'
    <3>1. received[k] = sent[f[k]] /\ e[f[k]] <= taken
      BY <1>m DEF Matches
    <3>2. e[f[k]] \in Nat /\ e[i] \in Nat
      BY <1>4, <1>8
    <3> QED
      BY <1>1, <1>5, <1>9, <1>10, <1>12, <3>1, <3>2
  <2>2. e[i] <= e[i]
    BY <1>4
  <2> QED
    BY <1>9, <1>10, <1>11, <1>12, <2>1, <2>2
<1>15. ASSUME NEW k \in 1..m + 1, NEW l \in 1..m + 1, k < l
       PROVE  g[k] < g[l]
  <2>1. k \in 1..m
    BY <1>15
  <2>2. CASE l \in 1..m
    BY <1>12, <1>15, <1>m, <2>1, <2>2 DEF Matches
  <2>3. CASE l = m + 1
    BY <1>8, <1>12, <2>1, <2>3
  <2> QED
    BY <1>11, <2>2, <2>3
<1>16. Matches(e, g)'
  BY <1>9, <1>10, <1>13, <1>14, <1>15, <1>N DEF Matches
<1> QED
  BY <1>16

\* Nothing changes for those received when a packet is sent.
LEMMA SendMatches ==
    ASSUME TypeOK, SendCommand, NEW e, Framed(stream, sent, e), Matched(e), NEW h,
           \A i \in 0..Len(sent) : h[i] = e[i]
    PROVE  Matched(h)'
<1>1. PICK p \in Packets : sent' = Append(sent, p)
  BY DEF SendCommand
<1>2. UNCHANGED <<received, taken>>
  BY DEF SendCommand
<1>N. PICK N \in Nat : N = Len(sent)
  BY LenProperties DEF TypeOK
<1>3. Len(sent') = N + 1 /\ \A i \in 1..N : sent'[i] = sent[i]
  BY <1>1, <1>N, AppendProperties DEF TypeOK
<1>4. SUFFICES ASSUME NoMagic'
               PROVE  \E f : Matches(h, f)'
  BY DEF Matched
<1>5. NoMagic
  BY <1>3, <1>4, <1>N DEF NoMagic, HasMagic
<1>6. PICK f : Matches(e, f)
  BY <1>5 DEF Matched
<1>7. \A k \in 1..Len(received) :
          /\ f[k] \in 1..N /\ f[k] \in 1..N + 1
          /\ h[f[k]] = e[f[k]] /\ sent'[f[k]] = sent[f[k]]
  <2>1. ASSUME NEW k \in 1..Len(received)
        PROVE  f[k] \in 1..N /\ f[k] \in 1..N + 1 /\ f[k] \in 0..N
    BY <1>6, <1>N DEF Matches
  <2> QED
    BY <1>3, <1>N, <2>1
<1>8. f \in [1..Len(received) -> 1..N + 1]
  BY <1>6, <1>7 DEF Matches
<1>9. Matches(h, f)'
  BY <1>2, <1>3, <1>6, <1>7, <1>8 DEF Matches
<1> QED
  BY <1>9

LEMMA MatchNext == TypeOK /\ MatchInv /\ [Next]_vars => MatchInv'
<1> SUFFICES ASSUME TypeOK, MatchInv, [Next]_vars
             PROVE  MatchInv'
  OBVIOUS
<1>1. PICK e \in [Nat -> Nat] : Framed(stream, sent, e) /\ Matched(e)
  BY DEF MatchInv
<1>2. CASE SendCommand
  <2>1. PICK p \in Packets : sent' = Append(sent, p) /\ stream' = stream \o CreatePacket(p)
    BY <1>2 DEF SendCommand
  <2>2. PICK h : h = [e EXCEPT ![Len(sent) + 1] = Len(stream) + Len(CreatePacket(p))]
    OBVIOUS
  <2>3. Framed(stream', sent', h)
    BY <1>1, <2>1, <2>2, AppendFramed DEF TypeOK
  <2>4. \A i \in 0..Len(sent) : h[i] = e[i]
    BY <1>1, <2>2, LenProperties DEF TypeOK
  <2>5. Matched(h)'
    BY <1>1, <1>2, <2>4, SendMatches
  <2>6. h \in [Nat -> Nat]
    BY <2>3 DEF Framed
  <2> QED
    BY <2>3, <2>5, <2>6 DEF MatchInv
<1>3. CASE Extract
  <2>1. UNCHANGED <<stream, sent>>
    BY <1>3 DEF Extract
  <2>2. Matched(e)'
    <3>1. NoMagic' <=> NoMagic
      BY <2>1 DEF NoMagic, HasMagic
    <3>2. NoMagic => \E g : Matches(e, g)'
      BY <1>1, <1>3, ExtractMatches DEF Matched
    <3> QED
      BY <3>1, <3>2 DEF Matched
  <2> QED
    BY <1>1, <2>1, <2>2 DEF MatchInv
<1>4. CASE DamagedOnMonkey
  <2>1. UNCHANGED <<stream, sent, received>> /\ taken' = read /\ taken <= taken'
    BY <1>4 DEF DamagedOnMonkey, TypeOK
  <2>2. ASSUME NEW f, Matches(e, f)
        PROVE  Matches(e, f)'
    <3>1. \A k \in 1..Len(received) : e[f[k]] <= taken'
      <4>1. ASSUME NEW k \in 1..Len(received)
            PROVE  e[f[k]] <= taken'
        <5>1. e[f[k]] <= taken
          BY <2>2 DEF Matches
        <5>3. f[k] \in Nat
          <6>1. f[k] \in 1..Len(sent)
            BY <2>2 DEF Matches
          <6> QED
            BY <6>1
        <5>4. PICK b \in Nat : b = e[f[k]]
          BY <5>3
        <5>2. taken \in Nat /\ taken' \in Nat
          BY <2>1 DEF TypeOK
        <5>5. b <= taken
          BY <5>1, <5>4
        <5>6. b <= taken'
          BY <2>1, <5>2, <5>5
        <5> QED
          BY <5>4, <5>6
      <4> QED
        BY <4>1
    <3> QED
      BY <2>1, <2>2, <3>1 DEF Matches
  <2>3. NoMagic' <=> NoMagic
    BY <2>1 DEF NoMagic, HasMagic
  <2>4. Matched(e)'
    BY <1>1, <2>2, <2>3 DEF Matched
  <2> QED
    BY <1>1, <2>1, <2>4 DEF MatchInv
<1>5. CASE Disconnected
  <2>1. PICK h : h = [i \in Nat |-> 0]
    OBVIOUS
  <2>2. h \in [Nat -> Nat] /\ h[0] = 0 /\ Len(sent') = 0 /\ Len(stream') = 0
        /\ Len(received') = 0
    BY <1>5, <2>1 DEF Disconnected
  <2>3. \A i \in 1..Len(sent') : FALSE
    BY <2>2
  <2>4. Framed(stream', sent', h)
    BY <2>2, <2>3 DEF Framed
  <2>5. Matches(h, <<>>)'
    BY <2>2 DEF Matches
  <2> QED
    BY <2>2, <2>4, <2>5 DEF MatchInv, Matched
<1>6. CASE Write \/ Poll \/ ScriptOver \/ ReadyRead \/ NotReady \/ DamagedOnAgent \/ UNCHANGED vars
  <2>1. UNCHANGED <<stream, sent, received, taken>>
    BY <1>6 DEF Write, Poll, ScriptOver, ReadyRead, NotReady, DamagedOnAgent, vars
  <2>2. NoMagic' <=> NoMagic
    BY <2>1 DEF NoMagic, HasMagic
  <2>3. \A f : Matches(e, f)' <=> Matches(e, f)
    BY <2>1 DEF Matches
  <2>4. Matched(e)'
    BY <1>1, <2>2, <2>3 DEF Matched
  <2> QED
    BY <1>1, <2>1, <2>4 DEF MatchInv
<1> QED
  BY <1>2, <1>3, <1>4, <1>5, <1>6 DEF Next, Reader

\* The monkey goes on behind a damaged packet, wherever it has stopped: what it
\* takes for packets are packets that were sent, in their order and each at
\* most once, unless the magic number is in the middle of one.
THEOREM OnlySentPackets == Spec => []NothingMadeUp
<1>1. Init => TypeOK /\ MatchInv
  BY TypeInit, MatchInit
<1>2. TypeOK /\ MatchInv /\ [Next]_vars => (TypeOK /\ MatchInv)'
  BY TypeNext, MatchNext
<1>3. MatchInv => NothingMadeUp
  BY DEF MatchInv, Matched, Matches, NoMagic, NothingMadeUp
<1> QED
  BY <1>1, <1>2, <1>3, PTL DEF Spec

-----------------------------------------------------------------------------
(* The direction that the agent reads *)

LEMMA ChannelInit == Init => Channel!Init
BY DEF Init, Channel!Init

LEMMA AgentReceives ==
    ASSUME StreamInv, Extract, reader = "agent"
    PROVE  Channel!Receive
<1>1. ~damaged
  BY DEF StreamInv, AgentStops, Extract
<1>2. PICK e \in [Nat -> Nat] : Framed(stream, sent, e) /\ Parsed(e)
  BY DEF StreamInv, FrameInv
<1>3. Len(received) + 1 <= Len(sent) /\ Extracted = sent[Len(received) + 1]
  BY <1>1, <1>2, ExtractIsNext DEF StreamInv, Extract
<1>4. Len(received) \in Nat /\ Len(sent) \in Nat
  BY LenProperties DEF StreamInv, TypeOK
<1>5. Len(received) < Len(sent)
  BY <1>3, <1>4
<1>6. reader' = reader /\ sent' = sent /\ received' = Append(received, Extracted)
  BY DEF Extract
<1> QED
  BY <1>3, <1>5, <1>6 DEF Channel!Receive

LEMMA ChannelNext ==
    ASSUME StreamInv, [Next]_vars
    PROVE  [Channel!Next]_Channel!channelVars
<1>1. reader' = reader
  BY DEF Next, Reader, SendCommand, Write, Poll, ScriptOver, ReadyRead, Extract, NotReady, DamagedOnMonkey,
         DamagedOnAgent, Disconnected, vars
<1>2. CASE reader # "agent"
  BY <1>1, <1>2 DEF Channel!channelVars
<1>3. CASE reader = "agent"
  <2>1. CASE SendCommand
    BY <1>1, <1>3, <2>1 DEF SendCommand, Channel!Next, Channel!Send
  <2>2. CASE Extract
    BY <1>3, <2>2, AgentReceives DEF Channel!Next
  <2>3. CASE Disconnected
    BY <1>1, <1>3, <2>3 DEF Disconnected, Channel!Next, Channel!EndSession
  <2>4. CASE Write \/ Poll \/ ScriptOver \/ ReadyRead \/ NotReady \/ DamagedOnMonkey \/ DamagedOnAgent
             \/ UNCHANGED vars
    <3>1. sent' = sent /\ received' = received
      BY <2>4 DEF Write, Poll, ScriptOver, ReadyRead, NotReady, DamagedOnMonkey, DamagedOnAgent, vars
    <3> QED
      BY <1>1, <3>1 DEF Channel!channelVars
  <2> QED
    BY <2>1, <2>2, <2>3, <2>4 DEF Next, Reader
<1> QED
  BY <1>2, <1>3

\* The bytes that the agent reads are a channel of packets: whatever pieces
\* they come in, a session's packets are received in order, each once and
\* unchanged, up to the end of the session or of the agent.
THEOREM StreamRefines == Spec => ChannelSpec
BY StreamInvariance, ChannelInit, ChannelNext, PTL DEF Spec, ChannelSpec, Channel!Spec
=============================================================================
