-------------------------- MODULE MonkeyGuiProofs --------------------------
(***************************************************************************)
(* Theorems about MonkeyGui, for every set of scripts and all bounds.      *)
(*                                                                         *)
(* Both pipes are read the same way: what was written and not yet handled  *)
(* is in the pipe and in the buffer behind it, in order, wherever the pipe *)
(* was cut.  For stdout that is OutputInv; for stdin, InputInv, which also *)
(* says what became of the commands before those.  With both of them, the  *)
(* window is busy with one script at a time (IdleInv).                     *)
(***************************************************************************)
EXTENDS MonkeyGui, Induction, SequenceTheorems, FiniteSetTheorems

-----------------------------------------------------------------------------
(* Splitting a script *)

PartType == [line : Nat, code : Seq(Pieces)]

LEMMA ExtendedSeq ==
    ASSUME NEW S, NEW q \in Seq(S), NEW e \in S
    PROVE  /\ Append(q, e) \in Seq(S)
           /\ Len(q) \in Nat
           /\ Len(Append(q, e)) = Len(q) + 1
           /\ \A i \in 1..Len(q) : Append(q, e)[i] = q[i]
           /\ Append(q, e)[Len(q) + 1] = e
BY AppendProperties, LenProperties

LEMMA CutFacts ==
    ASSUME NEW S, NEW q \in Seq(S), NEW m \in 1..Len(q) + 1, NEW n \in 0..Len(q), m <= n + 1
    PROVE  /\ SubSeq(q, m, n) \in Seq(S)
           /\ Len(SubSeq(q, m, n)) = n + 1 - m
           /\ n + 1 - m \in Nat
           /\ \A i \in 1..n + 1 - m : SubSeq(q, m, n)[i] = q[m + i - 1]
<1>1. Len(q) \in Nat /\ m \in Nat /\ n \in Nat /\ n + 1 - m \in Nat /\ n - m + 1 = n + 1 - m
  BY LenProperties
<1>2. \A i \in m..n : q[i] \in S
  BY <1>1, ElementOfSeq
<1>3. /\ SubSeq(q, m, n) \in Seq(S)
      /\ Len(SubSeq(q, m, n)) = IF m <= n THEN n - m + 1 ELSE 0
      /\ \A i \in 1..n - m + 1 : SubSeq(q, m, n)[i] = q[m + i - 1]
  BY <1>1, <1>2, SubSeqProperties
<1> QED
  BY <1>1, <1>3

\* What lies in a part of the beginning does not change when the end grows.
LEMMA CutOfAppended ==
    ASSUME NEW S, NEW q \in Seq(S), NEW e \in S, NEW n \in 0..Len(q)
    PROVE  SubSeq(Append(q, e), 1, n) = SubSeq(q, 1, n)
<1>1. /\ Append(q, e) \in Seq(S) /\ Len(q) \in Nat /\ Len(Append(q, e)) = Len(q) + 1
      /\ \A i \in 1..Len(q) : Append(q, e)[i] = q[i]
  BY ExtendedSeq
<1>2. 1 \in 1..Len(q) + 1 /\ 1 \in 1..Len(Append(q, e)) + 1 /\ n \in 0..Len(Append(q, e)) /\ 1 <= n + 1 /\ n + 1 - 1 = n
  BY <1>1
<1>3. /\ SubSeq(q, 1, n) \in Seq(S) /\ Len(SubSeq(q, 1, n)) = n + 1 - 1
      /\ \A i \in 1..n + 1 - 1 : SubSeq(q, 1, n)[i] = q[1 + i - 1]
  BY <1>2, CutFacts
<1>4. /\ SubSeq(Append(q, e), 1, n) \in Seq(S) /\ Len(SubSeq(Append(q, e), 1, n)) = n + 1 - 1
      /\ \A i \in 1..n + 1 - 1 : SubSeq(Append(q, e), 1, n)[i] = Append(q, e)[1 + i - 1]
  BY <1>1, <1>2, CutFacts
<1>5. \A i \in 1..n : SubSeq(Append(q, e), 1, n)[i] = SubSeq(q, 1, n)[i]
  BY <1>1, <1>2, <1>3, <1>4
<1> QED
  BY <1>2, <1>3, <1>4, <1>5, SeqEqual

LEMMA WholeCut ==
    ASSUME NEW S, NEW q \in Seq(S)
    PROVE  SubSeq(q, 1, Len(q)) = q /\ SubSeq(q, 1, 0) = <<>>
BY SubSeqFull, SubSeqEmpty

\* A cut and the cut behind it make one cut.
LEMMA CutsMeet ==
    ASSUME NEW S, NEW q \in Seq(S), NEW m \in 1..Len(q) + 1, NEW n \in 0..Len(q), m <= n + 1
    PROVE  SubSeq(q, 1, m - 1) \o SubSeq(q, m, n) = SubSeq(q, 1, n)
<1>1. /\ Len(q) \in Nat /\ 1 \in 1..Len(q) + 1 /\ m - 1 \in 0..Len(q)
      /\ n \in m - 1..Len(q) /\ (m - 1) + 1 = m /\ 1 - 1 = 0
  BY LenProperties
<1>2. SubSeq(q, 1, m - 1) \o SubSeq(q, (m - 1) + 1, n) = SubSeq(q, 1, n)
  BY <1>1, ConcatAdjacentSubSeq
<1> QED
  BY <1>1, <1>2

-----------------------------------------------------------------------------
(* Lines *)

LEMMA LinesOfAppended ==
    ASSUME NEW code \in Seq(Pieces), NEW piece \in Pieces
    PROVE  /\ Lines(code) \in Nat
           /\ Lines(Append(code, piece)) = Lines(code) + (IF piece = "newline" THEN 1 ELSE 0)
<1>1. /\ Append(code, piece) \in Seq(Pieces) /\ Len(code) \in Nat
      /\ Len(Append(code, piece)) = Len(code) + 1
      /\ \A i \in 1..Len(code) : Append(code, piece)[i] = code[i]
      /\ Append(code, piece)[Len(code) + 1] = piece
  BY ExtendedSeq
<1>n. PICK n \in Nat : n = Len(code)
  BY <1>1
<1>2. DOMAIN code = 1..n /\ DOMAIN Append(code, piece) = 1..n + 1
  BY <1>1, <1>n, LenProperties
<1>a. PICK A \in SUBSET (1..n) : A = {i \in 1..n : code[i] = "newline"}
  OBVIOUS
<1>3. IsFiniteSet(A)
  <2>1. IsFiniteSet(1..n)
    BY <1>n, FS_Interval
  <2> QED
    BY <2>1, FS_Subset
<1>4. Cardinality(A) \in Nat /\ Lines(code) = Cardinality(A)
  BY <1>2, <1>3, <1>a, FS_CardinalityType DEF Lines
<1>5. CASE piece = "newline"
  <2>1. {i \in 1..n + 1 : Append(code, piece)[i] = "newline"} = A \cup {n + 1}
    BY <1>1, <1>n, <1>a, <1>5
  <2>2. n + 1 \notin A
    OBVIOUS
  <2>3. Cardinality(A \cup {n + 1}) = Cardinality(A) + 1
    BY <1>3, <2>2, FS_AddElement
  <2> QED
    BY <1>2, <1>4, <1>5, <2>1, <2>3 DEF Lines
<1>6. CASE piece # "newline"
  <2>1. {i \in 1..n + 1 : Append(code, piece)[i] = "newline"} = A
    BY <1>1, <1>n, <1>a, <1>6
  <2>2. Lines(Append(code, piece)) = Cardinality(A)
    BY <1>2, <2>1 DEF Lines
  <2> QED
    BY <1>4, <1>6, <2>2
<1> QED
  BY <1>4, <1>5, <1>6

LEMMA LinesOfNothing == Lines(<<>>) = 0
<1>1. {i \in DOMAIN <<>> : <<>>[i] = "newline"} = {}
  OBVIOUS
<1> QED
  BY <1>1, FS_EmptySet DEF Lines

-----------------------------------------------------------------------------
(* Joined *)

\* What comes before the next part
Lead(parts) == IF parts = <<>> THEN <<>> ELSE Append(Joined(parts), "restart")

\* u[k] is made of the first k parts.
Joins(u, parts) ==
    /\ u \in [0..Len(parts) -> Seq(Pieces)]
    /\ u[0] = <<>>
    /\ \A k \in 1..Len(parts) :
         u[k] = (IF k = 1 THEN <<>> ELSE Append(u[k - 1], "restart")) \o parts[k].code

\* Have all that are in T a code?
HaveCodes(T) == \A p \in T : p.code \in Seq(Pieces)

LEMMA JoinedSteps ==
    ASSUME NEW T, HaveCodes(T), NEW parts \in Seq(T)
    PROVE  \E u : Joins(u, parts) /\ Joined(parts) = u[Len(parts)]
<1> USE DEF HaveCodes
<1>n. PICK N \in Nat : N = Len(parts)
  BY LenProperties
<1>c. \A k \in 1..N : parts[k].code \in Seq(Pieces)
  BY <1>n, ElementOfSeq
<1>e. <<>> \in Seq(Pieces) /\ \A v \in Seq(Pieces) : Append(v, "restart") \in Seq(Pieces)
  <2>1. "restart" \in Pieces
    BY DEF Pieces
  <2> QED
    BY <2>1, EmptySeq, AppendProperties
<1>f. \A k \in 1..N, v \in Seq(Pieces) :
        (IF k = 1 THEN <<>> ELSE Append(v, "restart")) \o parts[k].code \in Seq(Pieces)
  BY <1>c, <1>e, ConcatProperties
<1>1. PICK F \in [(1..N) \X Seq(Pieces) -> Seq(Pieces)] :
        \A k \in 1..N, v \in Seq(Pieces) :
          F[<<k, v>>] = (IF k = 1 THEN <<>> ELSE Append(v, "restart")) \o parts[k].code
  <2> DEFINE G == [x \in (1..N) \X Seq(Pieces) |->
                      (IF x[1] = 1 THEN <<>> ELSE Append(x[2], "restart")) \o parts[x[1]].code]
  <2>1. G \in [(1..N) \X Seq(Pieces) -> Seq(Pieces)]
    BY <1>f
  <2>2. \A k \in 1..N, v \in Seq(Pieces) :
          G[<<k, v>>] = (IF k = 1 THEN <<>> ELSE Append(v, "restart")) \o parts[k].code
    OBVIOUS
  <2> QED
    BY <2>1, <2>2
<1>2. PICK p \in [1..N -> Nat] : \A i \in 1..N : p[i] = i - 1
  <2>1. [i \in 1..N |-> i - 1] \in [1..N -> Nat]
    OBVIOUS
  <2> QED
    BY <2>1
<1>3. PICK g \in [0..N -> Seq(Pieces)] :
        g[0] = <<>> /\ \A i \in 1..N : g[i] = F[<<i, g[p[i]]>>]
  <2>1. Earlier(p, N)
    BY <1>2 DEF Earlier
  <2>2. PICK V : V = Seq(Pieces)
    OBVIOUS
  <2>3. PICK a \in V : a = <<>>
    BY <1>e, <2>2
  <2>4. F \in [(1..N) \X V -> V]
    BY <2>2
  <2>5. \E g \in [0..N -> V] : Solves(g, N, a, F, p)
    BY <2>1, <2>4, RecursionExists
  <2> QED
    BY <2>2, <2>3, <2>5 DEF Solves
<1>4. g = [k \in 0..N |->
             IF k = 0 THEN <<>>
             ELSE (IF k = 1 THEN <<>> ELSE Append(g[k - 1], "restart")) \o parts[k].code]
  <2>1. ASSUME NEW k \in 1..N
        PROVE  g[k] = (IF k = 1 THEN <<>> ELSE Append(g[k - 1], "restart")) \o parts[k].code
    <3>1. p[k] = k - 1 /\ k - 1 \in 0..N
      BY <1>2
    <3>2. g[k - 1] \in Seq(Pieces)
      BY <3>1
    <3>3. g[k] = F[<<k, g[k - 1]>>]
      BY <1>3, <3>1
    <3>4. F[<<k, g[k - 1]>>]
            = (IF k = 1 THEN <<>> ELSE Append(g[k - 1], "restart")) \o parts[k].code
      BY <1>1, <3>2, Zenon
    <3> QED
      BY <3>3, <3>4
  <2>2. g = [k \in 0..N |-> g[k]]
    OBVIOUS
  <2>3. \A k \in 0..N : k = 0 \/ k \in 1..N
    OBVIOUS
  <2>4. \A k \in 0..N : g[k] = IF k = 0 THEN <<>>
             ELSE (IF k = 1 THEN <<>> ELSE Append(g[k - 1], "restart")) \o parts[k].code
    BY <1>3, <2>1, <2>3, Zenon
  <2> QED
    BY <2>2, <2>4
<1> DEFINE u == CHOOSE f : f = [k \in 0..N |->
             IF k = 0 THEN <<>>
             ELSE (IF k = 1 THEN <<>> ELSE Append(f[k - 1], "restart")) \o parts[k].code]
<1>5. u = [k \in 0..N |->
             IF k = 0 THEN <<>>
             ELSE (IF k = 1 THEN <<>> ELSE Append(u[k - 1], "restart")) \o parts[k].code]
  BY <1>4
<1>6. Joined(parts) = u[N]
  BY <1>n DEF Joined
<1> HIDE DEF u
<1>7. u[0] = <<>>
  BY <1>5
<1>8. \A k \in 1..N :
        u[k] = (IF k = 1 THEN <<>> ELSE Append(u[k - 1], "restart")) \o parts[k].code
  <2>1. \A k \in 1..N : k \in 0..N /\ k # 0
    OBVIOUS
  <2> QED
    BY <1>5, <2>1
<1>9. \A k \in 0..N : u[k] \in Seq(Pieces)
  <2>1. PICK S : S = {k \in 0..N : u[k] \in Seq(Pieces)}
    OBVIOUS
  <2>2. 0 \in S
    <3>1. u[0] \in Seq(Pieces)
      BY <1>7, <1>e
    <3> QED
      BY <2>1, <3>1
  <2>3. ASSUME NEW k \in 0..N - 1, k \in S
        PROVE  k + 1 \in S
    <3>1. k + 1 \in 1..N /\ (k + 1) - 1 = k /\ k + 1 \in 0..N
      OBVIOUS
    <3>2. u[k] \in Seq(Pieces)
      BY <2>1, <2>3
    <3>4. u[k + 1] = (IF k + 1 = 1 THEN <<>> ELSE Append(u[(k + 1) - 1], "restart"))
                        \o parts[k + 1].code
      BY <1>8, <3>1
    <3>5. (IF k + 1 = 1 THEN <<>> ELSE Append(u[k], "restart")) \o parts[k + 1].code
            \in Seq(Pieces)
      BY <1>f, <3>1, <3>2, Zenon
    <3>3. u[k + 1] \in Seq(Pieces)
      BY <3>1, <3>4, <3>5
    <3> QED
      BY <2>1, <3>1, <3>3
  <2>4. \A k \in 0..N : k \in S
    BY <2>2, <2>3, UpTo
  <2> QED
    BY <2>1, <2>4
<1>10. u \in [0..N -> Seq(Pieces)]
  BY <1>5, <1>9
<1> QED
  BY <1>n, <1>6, <1>7, <1>8, <1>10 DEF Joins

\* Only the codes of the parts matter.
LEMMA JoinedByCodes ==
    ASSUME NEW T, HaveCodes(T), NEW parts \in Seq(T),
           NEW U, HaveCodes(U), NEW others \in Seq(U),
           NEW n \in 0..Len(parts), n <= Len(others),
           \A k \in 1..n : others[k].code = parts[k].code,
           NEW u, Joins(u, parts), NEW v, Joins(v, others)
    PROVE  u[n] = v[n]
<1> USE DEF Joins
<1>1. Len(parts) \in Nat /\ Len(others) \in Nat /\ n \in Nat
  BY LenProperties
<1>2. PICK S : S = {k \in 0..n : u[k] = v[k]}
  OBVIOUS
<1>3. 0 \in S
  BY <1>1, <1>2
<1>4. ASSUME NEW k \in 0..n - 1, k \in S
      PROVE  k + 1 \in S
  <2>1. /\ k + 1 \in 1..Len(parts) /\ k + 1 \in 1..Len(others) /\ k + 1 \in 1..n
        /\ k + 1 \in 0..n /\ (k + 1) - 1 = k
    BY <1>1
  <2>2. u[k] = v[k]
    BY <1>2, <1>4
  <2>3. u[k + 1] = (IF k + 1 = 1 THEN <<>> ELSE Append(u[k], "restart")) \o parts[k + 1].code
    BY <2>1
  <2>4. v[k + 1] = (IF k + 1 = 1 THEN <<>> ELSE Append(v[k], "restart")) \o others[k + 1].code
    BY <2>1
  <2>5. u[k + 1] = v[k + 1]
    BY <2>1, <2>2, <2>3, <2>4
  <2> QED
    BY <1>2, <2>1, <2>5
<1>5. \A k \in 0..n : k \in S
  BY <1>1, <1>3, <1>4, UpTo
<1> QED
  BY <1>1, <1>2, <1>5

LEMMA JoinedSame ==
    ASSUME NEW T, HaveCodes(T), NEW parts \in Seq(T),
           NEW U, HaveCodes(U), NEW others \in Seq(U),
           Len(parts) = Len(others),
           \A k \in 1..Len(parts) : others[k].code = parts[k].code
    PROVE  Joined(parts) = Joined(others)
<1>1. Len(parts) \in 0..Len(parts) /\ Len(parts) <= Len(others)
  BY LenProperties
<1>2. PICK u : Joins(u, parts) /\ Joined(parts) = u[Len(parts)]
  BY JoinedSteps
<1>3. PICK v : Joins(v, others) /\ Joined(others) = v[Len(others)]
  BY JoinedSteps
<1>4. u[Len(parts)] = v[Len(parts)]
  BY <1>1, <1>2, <1>3, JoinedByCodes
<1> QED
  BY <1>2, <1>3, <1>4

LEMMA JoinedOfAppended ==
    ASSUME NEW T, HaveCodes(T), NEW parts \in Seq(T), NEW part \in T
    PROVE  Joined(Append(parts, part)) = Lead(parts) \o part.code
<1>1. /\ Append(parts, part) \in Seq(T) /\ Len(parts) \in Nat
      /\ Len(Append(parts, part)) = Len(parts) + 1
      /\ \A k \in 1..Len(parts) : Append(parts, part)[k] = parts[k]
      /\ Append(parts, part)[Len(parts) + 1] = part
  BY ExtendedSeq
<1>q. PICK q \in Seq(T) : q = Append(parts, part)
  BY <1>1
<1>2. PICK u : Joins(u, parts) /\ Joined(parts) = u[Len(parts)]
  BY JoinedSteps
<1>3. PICK v : Joins(v, q) /\ Joined(q) = v[Len(q)]
  BY JoinedSteps
<1>4. u[Len(parts)] = v[Len(parts)]
  <2>1. Len(parts) \in 0..Len(parts) /\ Len(parts) <= Len(q)
    BY <1>1, <1>q
  <2>2. \A k \in 1..Len(parts) : q[k].code = parts[k].code
    BY <1>1, <1>q
  <2> QED
    BY <1>2, <1>3, <2>1, <2>2, JoinedByCodes
<1>n. PICK n \in Nat : n = Len(parts)
  BY <1>1
<1>5. Joined(q) = (IF n + 1 = 1 THEN <<>> ELSE Append(v[n], "restart")) \o part.code
  <2>1. Len(q) = n + 1 /\ n + 1 \in 1..n + 1 /\ (n + 1) - 1 = n /\ q[n + 1] = part
    BY <1>1, <1>q, <1>n
  <2> QED
    BY <1>3, <2>1 DEF Joins
<1>6. parts = <<>> <=> n + 1 = 1
  BY <1>n, EmptySeq
<1>7. v[n] = Joined(parts)
  BY <1>2, <1>4, <1>n
<1> QED
  BY <1>5, <1>6, <1>7, <1>q DEF Lead

LEMMA JoinedFacts ==
    ASSUME NEW T, HaveCodes(T), NEW parts \in Seq(T)
    PROVE  /\ Joined(parts) \in Seq(Pieces)
           /\ parts = <<>> => Joined(parts) = <<>>
           /\ Lead(parts) \in Seq(Pieces)
           /\ Lines(Lead(parts)) = Lines(Joined(parts))
<1>1. PICK u : Joins(u, parts) /\ Joined(parts) = u[Len(parts)]
  BY JoinedSteps
<1>2. Len(parts) \in 0..Len(parts) /\ (parts = <<>> => Len(parts) = 0)
  BY LenProperties, EmptySeq
<1>3. Joined(parts) \in Seq(Pieces)
  BY <1>1, <1>2 DEF Joins
<1>4. parts = <<>> => Joined(parts) = <<>>
  BY <1>1, <1>2 DEF Joins
<1>5. "restart" \in Pieces
  BY DEF Pieces
<1>6. CASE parts = <<>>
  BY <1>3, <1>4, <1>6 DEF Lead
<1>7. CASE parts # <<>>
  <2>1. Lead(parts) = Append(Joined(parts), "restart")
    BY <1>7 DEF Lead
  <2>2. Append(Joined(parts), "restart") \in Seq(Pieces)
    BY <1>3, <1>5, AppendProperties
  <2>3. /\ Lines(Joined(parts)) \in Nat
        /\ Lines(Append(Joined(parts), "restart")) = Lines(Joined(parts)) + 0
    BY <1>3, <1>5, LinesOfAppended
  <2> QED
    BY <1>3, <1>7, <2>1, <2>2, <2>3
<1> QED
  BY <1>3, <1>4, <1>6, <1>7
-----------------------------------------------------------------------------
(* splitToExecutableParts *)

LoopStates == [res : Seq(PartType), lineno : Nat, curLine : Nat, prevPos : Nat \ {0}]

\* Does each part know the line on which it begins?
LinesKnown(q) == \A k \in 1..Len(q) : q[k].line = 1 + Lines(Joined(SubSeq(q, 1, k - 1)))

\* What the loop has found in the first pos pieces
LoopInv(s, text, pos) ==
    /\ s \in LoopStates
    /\ s.prevPos \in 1..pos + 1
    /\ s.curLine = 1 + Lines(SubSeq(text, 1, pos))
    /\ s.lineno = 1 + Lines(SubSeq(text, 1, s.prevPos - 1))
    /\ Lead(s.res) = SubSeq(text, 1, s.prevPos - 1)
    /\ LinesKnown(s.res)

LEMMA PartsHaveCodes == HaveCodes(PartType)
BY DEF HaveCodes, PartType

LEMMA LoopBegins ==
    ASSUME NEW text \in Seq(Pieces)
    PROVE  LoopInv(LoopStart, text, 0)
<1>1. SubSeq(text, 1, 0) = <<>>
  BY WholeCut
<1>2. <<>> \in Seq(PartType) /\ Len(<<>>) = 0
  OBVIOUS
<1>3. LoopStart \in LoopStates
  BY <1>2 DEF LoopStart, LoopStates
<1>4. /\ LoopStart.prevPos = 1 /\ LoopStart.curLine = 1 /\ LoopStart.lineno = 1
      /\ LoopStart.res = <<>>
  BY DEF LoopStart
<1>5. Lead(<<>>) = <<>> /\ 1 - 1 = 0 /\ 1 + 0 = 1 /\ 1 \in 1..0 + 1
  BY DEF Lead
<1>6. LinesKnown(LoopStart.res)
  BY <1>2, <1>4 DEF LinesKnown
<1> QED
  BY <1>1, <1>3, <1>4, <1>5, <1>6, LinesOfNothing DEF LoopInv

\* A part that ends before pos is put behind the others.
LEMMA PartAdded ==
    ASSUME NEW text \in Seq(Pieces), NEW pos \in 0..Len(text), NEW s, LoopInv(s, text, pos),
           NEW q, q = Append(s.res, APart(s.lineno, SubSeq(text, s.prevPos, pos)))
    PROVE  /\ q \in Seq(PartType)
           /\ q # <<>>
           /\ Joined(q) = SubSeq(text, 1, pos)
           /\ LinesKnown(q)
<1>1. s.res \in Seq(PartType) /\ s.lineno \in Nat /\ s.prevPos \in Nat
  BY DEF LoopInv, LoopStates
<1>2. Len(text) \in Nat /\ s.prevPos \in 1..Len(text) + 1 /\ s.prevPos <= pos + 1
  BY LenProperties DEF LoopInv
<1>p. PICK p \in PartType : p = APart(s.lineno, SubSeq(text, s.prevPos, pos))
  <2>1. SubSeq(text, s.prevPos, pos) \in Seq(Pieces)
    BY <1>2, CutFacts
  <2> QED
    BY <1>1, <2>1 DEF APart, PartType
<1>3. p.line = s.lineno /\ p.code = SubSeq(text, s.prevPos, pos)
  BY <1>p DEF APart
<1>4. q = Append(s.res, p)
  BY <1>p
<1>5. /\ q \in Seq(PartType) /\ Len(s.res) \in Nat /\ Len(q) = Len(s.res) + 1
      /\ \A k \in 1..Len(s.res) : q[k] = s.res[k]
      /\ q[Len(s.res) + 1] = p
  BY <1>1, <1>4, ExtendedSeq
<1>6. q # <<>>
  BY <1>5, EmptySeq
<1>7. Joined(q) = SubSeq(text, 1, pos)
  <2>1. Joined(q) = Lead(s.res) \o p.code
    BY <1>1, <1>4, PartsHaveCodes, JoinedOfAppended
  <2>2. Lead(s.res) = SubSeq(text, 1, s.prevPos - 1)
    BY DEF LoopInv
  <2>3. SubSeq(text, 1, s.prevPos - 1) \o SubSeq(text, s.prevPos, pos) = SubSeq(text, 1, pos)
    BY <1>2, CutsMeet
  <2> QED
    BY <1>3, <2>1, <2>2, <2>3
<1>8. ASSUME NEW k \in 1..Len(q)
      PROVE  q[k].line = 1 + Lines(Joined(SubSeq(q, 1, k - 1)))
  <2>1. k - 1 \in 0..Len(s.res)
    BY <1>5
  <2>2. SubSeq(q, 1, k - 1) = SubSeq(s.res, 1, k - 1)
    BY <1>1, <1>4, <2>1, CutOfAppended
  <2>3. CASE k = Len(s.res) + 1
    <3>1. k - 1 = Len(s.res) /\ q[k] = p
      BY <1>5, <2>3
    <3>2. SubSeq(s.res, 1, Len(s.res)) = s.res
      BY <1>1, WholeCut
    <3>3. s.lineno = 1 + Lines(Lead(s.res))
      BY DEF LoopInv
    <3>4. Lines(Lead(s.res)) = Lines(Joined(s.res))
      BY <1>1, PartsHaveCodes, JoinedFacts
    <3> QED
      BY <1>3, <2>2, <3>1, <3>2, <3>3, <3>4
  <2>4. CASE k # Len(s.res) + 1
    <3>1. k \in 1..Len(s.res)
      BY <1>5, <2>4
    <3>2. s.res[k].line = 1 + Lines(Joined(SubSeq(s.res, 1, k - 1)))
      BY <3>1 DEF LoopInv, LinesKnown
    <3>3. q[k] = s.res[k]
      BY <1>5, <3>1
    <3> QED
      BY <2>2, <3>2, <3>3
  <2> QED
    BY <2>3, <2>4
<1> QED
  BY <1>5, <1>6, <1>7, <1>8 DEF LinesKnown

LEMMA LoopKeeps ==
    ASSUME NEW text \in Seq(Pieces), NEW pos \in 1..Len(text), NEW s, LoopInv(s, text, pos - 1)
    PROVE  LoopInv(LoopTurn(text, pos, s), text, pos)
<1>1. Len(text) \in Nat /\ pos - 1 \in 0..Len(text) /\ pos \in 0..Len(text) /\ text[pos] \in Pieces
  BY LenProperties, ElementOfSeq
<1>2. /\ s \in LoopStates
      /\ s.prevPos \in 1..(pos - 1) + 1
      /\ s.curLine = 1 + Lines(SubSeq(text, 1, pos - 1))
      /\ s.lineno = 1 + Lines(SubSeq(text, 1, s.prevPos - 1))
      /\ Lead(s.res) = SubSeq(text, 1, s.prevPos - 1)
      /\ LinesKnown(s.res)
  BY DEF LoopInv
<1>3. s.prevPos \in 1..pos + 1
  BY <1>1, <1>2
<1>4. /\ SubSeq(text, 1, pos) = Append(SubSeq(text, 1, pos - 1), text[pos])
      /\ SubSeq(text, 1, pos - 1) \in Seq(Pieces)
  <2>1. /\ SubSeq(text, 1, pos - 1) \in Seq(Pieces)
        /\ Len(SubSeq(text, 1, pos - 1)) = (pos - 1) + 1 - 1
        /\ \A i \in 1..(pos - 1) + 1 - 1 : SubSeq(text, 1, pos - 1)[i] = text[1 + i - 1]
    <3>1. 1 \in 1..Len(text) + 1 /\ 1 <= (pos - 1) + 1
      BY <1>1
    <3> QED
      BY <1>1, <3>1, CutFacts
  <2>2. /\ SubSeq(text, 1, pos) \in Seq(Pieces) /\ Len(SubSeq(text, 1, pos)) = pos + 1 - 1
        /\ \A i \in 1..pos + 1 - 1 : SubSeq(text, 1, pos)[i] = text[1 + i - 1]
    <3>1. 1 \in 1..Len(text) + 1 /\ 1 <= pos + 1
      BY <1>1
    <3> QED
      BY <1>1, <3>1, CutFacts
  <2>c. PICK c \in Seq(Pieces) : c = SubSeq(text, 1, pos - 1)
    BY <2>1
  <2>3. /\ Append(c, text[pos]) \in Seq(Pieces)
        /\ Len(Append(c, text[pos])) = Len(c) + 1
        /\ \A i \in 1..Len(c) : Append(c, text[pos])[i] = c[i]
        /\ Append(c, text[pos])[Len(c) + 1] = text[pos]
    BY <1>1, ExtendedSeq
  <2>4. Len(c) = pos - 1 /\ Len(SubSeq(text, 1, pos)) = pos /\ Len(c) + 1 = pos
    BY <2>1, <2>2, <2>c
  <2>5. ASSUME NEW i \in 1..pos
        PROVE  SubSeq(text, 1, pos)[i] = Append(c, text[pos])[i]
    <3>1. SubSeq(text, 1, pos)[i] = text[i]
      BY <2>2
    <3>2. CASE i = pos
      BY <2>3, <2>4, <3>1, <3>2
    <3>3. CASE i # pos
      <4>1. i \in 1..pos - 1
        BY <3>3
      <4> QED
        BY <2>1, <2>3, <2>4, <2>c, <3>1, <4>1
    <3> QED
      BY <3>2, <3>3
  <2>6. SubSeq(text, 1, pos) = Append(c, text[pos])
    BY <2>2, <2>3, <2>4, <2>5, SeqEqual
  <2> QED
    BY <2>1, <2>6, <2>c
<1>5. /\ Lines(SubSeq(text, 1, pos - 1)) \in Nat
      /\ Lines(SubSeq(text, 1, pos))
            = Lines(SubSeq(text, 1, pos - 1)) + (IF text[pos] = "newline" THEN 1 ELSE 0)
  BY <1>1, <1>4, LinesOfAppended
<1>6. CASE text[pos] = "newline"
  <2>1. LoopTurn(text, pos, s) = [s EXCEPT !.curLine = @ + 1]
    BY <1>6 DEF LoopTurn
  <2>2. /\ LoopTurn(text, pos, s) \in LoopStates
        /\ LoopTurn(text, pos, s).curLine = s.curLine + 1
        /\ LoopTurn(text, pos, s).lineno = s.lineno
        /\ LoopTurn(text, pos, s).prevPos = s.prevPos
        /\ LoopTurn(text, pos, s).res = s.res
    BY <1>2, <2>1 DEF LoopStates
  <2>3. s.curLine + 1 = 1 + Lines(SubSeq(text, 1, pos))
    BY <1>2, <1>5, <1>6
  <2> QED
    BY <1>2, <1>3, <2>2, <2>3 DEF LoopInv
<1>7. CASE text[pos] = "restart"
  <2>q. PICK q : q = Append(s.res, APart(s.lineno, SubSeq(text, s.prevPos, pos - 1)))
    OBVIOUS
  <2>1. /\ q \in Seq(PartType)
        /\ q # <<>>
        /\ Joined(q) = SubSeq(text, 1, pos - 1)
        /\ LinesKnown(q)
    <3>1. PICK n \in 0..Len(text) : n = pos - 1
      BY <1>1
    <3>2. LoopInv(s, text, n)
      BY <3>1
    <3>3. q = Append(s.res, APart(s.lineno, SubSeq(text, s.prevPos, n)))
      BY <2>q, <3>1
    <3>4. /\ q \in Seq(PartType)
          /\ q # <<>>
          /\ Joined(q) = SubSeq(text, 1, n)
          /\ LinesKnown(q)
      BY <3>2, <3>3, PartAdded
    <3> QED
      BY <3>1, <3>4
  <2>2. LoopTurn(text, pos, s)
          = [res |-> q, lineno |-> s.curLine, curLine |-> s.curLine, prevPos |-> pos + 1]
    BY <1>7, <2>q DEF LoopTurn
  <2>3. /\ LoopTurn(text, pos, s).curLine = s.curLine
        /\ LoopTurn(text, pos, s).lineno = s.curLine
        /\ LoopTurn(text, pos, s).prevPos = pos + 1
        /\ LoopTurn(text, pos, s).res = q
    BY <2>2
  <2>4. s.curLine \in Nat /\ pos + 1 \in Nat
    BY <1>2 DEF LoopStates
  <2>5. LoopTurn(text, pos, s) \in LoopStates
    BY <2>1, <2>2, <2>4 DEF LoopStates
  <2>6. Lead(q) = SubSeq(text, 1, pos)
    BY <1>4, <1>7, <2>1 DEF Lead
  <2>7. s.curLine = 1 + Lines(SubSeq(text, 1, pos))
    BY <1>2, <1>5, <1>7
  <2>8. pos + 1 \in 1..pos + 1 /\ (pos + 1) - 1 = pos
    OBVIOUS
  <2> QED
    BY <2>1, <2>3, <2>5, <2>6, <2>7, <2>8 DEF LoopInv
<1>8. CASE text[pos] \notin {"newline", "restart"}
  <2>1. LoopTurn(text, pos, s) = s
    BY <1>8 DEF LoopTurn
  <2>2. s.curLine = 1 + Lines(SubSeq(text, 1, pos))
    BY <1>2, <1>5, <1>8
  <2> QED
    BY <1>2, <1>3, <2>1, <2>2 DEF LoopInv
<1> QED
  BY <1>6, <1>7, <1>8

\* f gives the variables of the loop after each turn.
Loops(f, text) ==
    f = [pos \in 0..Len(text) |->
            IF pos = 0 THEN LoopStart ELSE LoopTurn(text, pos, f[pos - 1])]

LEMMA LoopTyped ==
    ASSUME NEW text \in Seq(Pieces), NEW pos \in 1..Len(text), NEW s \in LoopStates
    PROVE  LoopTurn(text, pos, s) \in LoopStates
<1>1. /\ s.res \in Seq(PartType) /\ s.lineno \in Nat /\ s.curLine \in Nat
      /\ s.prevPos \in Nat \ {0} /\ Len(text) \in Nat
  BY LenProperties DEF LoopStates
<1>2. SubSeq(text, s.prevPos, pos - 1) \in Seq(Pieces)
  <2>1. \A i \in s.prevPos..pos - 1 : text[i] \in Pieces
    <3>1. \A i \in s.prevPos..pos - 1 : i \in 1..Len(text)
      BY <1>1
    <3> QED
      BY <3>1, ElementOfSeq
  <2>2. s.prevPos \in Int /\ pos - 1 \in Int
    BY <1>1
  <2> QED
    BY <2>1, <2>2, SubSeqProperties
<1>3. APart(s.lineno, SubSeq(text, s.prevPos, pos - 1)) \in PartType
  BY <1>1, <1>2 DEF APart, PartType
<1>4. Append(s.res, APart(s.lineno, SubSeq(text, s.prevPos, pos - 1))) \in Seq(PartType)
  BY <1>1, <1>3, AppendProperties
<1>5. pos + 1 \in Nat \ {0}
  OBVIOUS
<1>6. CASE text[pos] = "newline"
  <2>1. LoopTurn(text, pos, s) = [s EXCEPT !.curLine = @ + 1]
    BY <1>6 DEF LoopTurn
  <2> QED
    BY <1>1, <2>1 DEF LoopStates
<1>7. CASE text[pos] = "restart"
  BY <1>1, <1>4, <1>5, <1>7 DEF LoopTurn, LoopStates
<1>8. CASE text[pos] \notin {"newline", "restart"}
  BY <1>8 DEF LoopTurn
<1> QED
  BY <1>6, <1>7, <1>8

LEMMA LoopRuns ==
    ASSUME NEW text \in Seq(Pieces)
    PROVE  \E f : Loops(f, text)
<1>n. PICK N \in Nat : N = Len(text)
  BY LenProperties
<1>1. PICK F \in [(1..N) \X LoopStates -> LoopStates] :
        \A pos \in 1..N, s \in LoopStates : F[<<pos, s>>] = LoopTurn(text, pos, s)
  <2> DEFINE G == [x \in (1..N) \X LoopStates |-> LoopTurn(text, x[1], x[2])]
  <2>1. \A pos \in 1..N, s \in LoopStates : LoopTurn(text, pos, s) \in LoopStates
    BY <1>n, LoopTyped
  <2>2. G \in [(1..N) \X LoopStates -> LoopStates]
    BY <2>1
  <2>3. \A pos \in 1..N, s \in LoopStates : G[<<pos, s>>] = LoopTurn(text, pos, s)
    OBVIOUS
  <2> QED
    BY <2>2, <2>3
<1>2. PICK p \in [1..N -> Nat] : \A i \in 1..N : p[i] = i - 1
  <2>1. [i \in 1..N |-> i - 1] \in [1..N -> Nat]
    OBVIOUS
  <2> QED
    BY <2>1
<1>3. PICK V : V = LoopStates
  OBVIOUS
<1>4. PICK a \in V : a = LoopStart
  <2>1. LoopStart \in LoopStates
    BY EmptySeq DEF LoopStart, LoopStates
  <2> QED
    BY <1>3, <2>1
<1>5. PICK g \in [0..N -> V] : Solves(g, N, a, F, p)
  <2>1. Earlier(p, N)
    BY <1>2 DEF Earlier
  <2>2. F \in [(1..N) \X V -> V]
    BY <1>3
  <2> QED
    BY <2>1, <2>2, RecursionExists
<1>6. ASSUME NEW pos \in 1..N
      PROVE  g[pos] = LoopTurn(text, pos, g[pos - 1])
  <2>1. p[pos] = pos - 1 /\ pos - 1 \in 0..N
    BY <1>2
  <2>2. g[pos - 1] \in LoopStates
    BY <1>3, <2>1
  <2>3. g[pos] = F[<<pos, g[pos - 1]>>]
    BY <1>5, <2>1 DEF Solves
  <2>4. F[<<pos, g[pos - 1]>>] = LoopTurn(text, pos, g[pos - 1])
    BY <1>1, <2>2, Zenon
  <2> QED
    BY <2>3, <2>4
<1>7. g = [pos \in 0..N |-> g[pos]]
  OBVIOUS
<1>8. \A pos \in 0..N : pos = 0 \/ pos \in 1..N
  OBVIOUS
<1>9. g[0] = LoopStart
  BY <1>4, <1>5 DEF Solves
<1>10. \A pos \in 0..N : g[pos] = IF pos = 0 THEN LoopStart ELSE LoopTurn(text, pos, g[pos - 1])
  BY <1>6, <1>8, <1>9, Zenon
<1> QED
  BY <1>7, <1>10, <1>n DEF Loops

LEMMA LoopRight ==
    ASSUME NEW text \in Seq(Pieces), NEW f, Loops(f, text)
    PROVE  LoopInv(f[Len(text)], text, Len(text))
<1>n. PICK N \in Nat : N = Len(text)
  BY LenProperties
<1>1. /\ f[0] = LoopStart
      /\ \A pos \in 1..N : f[pos] = LoopTurn(text, pos, f[pos - 1])
  <2>1. \A pos \in 1..N : pos \in 0..N /\ pos # 0
    OBVIOUS
  <2> QED
    BY <1>n, <2>1 DEF Loops
<1>2. PICK S : S = {pos \in 0..N : LoopInv(f[pos], text, pos)}
  OBVIOUS
<1>3. 0 \in S
  <2>1. LoopInv(f[0], text, 0)
    BY <1>1, LoopBegins
  <2> QED
    BY <1>2, <2>1
<1>4. ASSUME NEW n \in 0..N - 1, n \in S
      PROVE  n + 1 \in S
  <2>1. n + 1 \in 1..N /\ (n + 1) - 1 = n /\ n + 1 \in 0..N
    OBVIOUS
  <2>2. LoopInv(f[n], text, (n + 1) - 1)
    BY <1>2, <1>4, <2>1
  <2>3. LoopInv(LoopTurn(text, n + 1, f[n]), text, n + 1)
    BY <1>n, <2>1, <2>2, LoopKeeps
  <2>4. f[n + 1] = LoopTurn(text, n + 1, f[n])
    BY <1>1, <2>1
  <2>5. LoopInv(f[n + 1], text, n + 1)
    BY <2>3, <2>4
  <2> QED
    BY <1>2, <2>1, <2>5
<1>5. \A n \in 0..N : n \in S
  BY <1>3, <1>4, UpTo
<1>6. N \in S
  BY <1>5
<1> QED
  BY <1>2, <1>6, <1>n

\* splitToExecutableParts loses and doubles nothing of any text, whatever
\* its markers and newlines, and numbers the lines of its parts rightly.
THEOREM SplitRight ==
    ASSUME NEW text \in Seq(Pieces)
    PROVE  /\ SplitToExecutableParts(text) \in Seq(PartType)
           /\ PartsOf(SplitToExecutableParts(text), text)
<1>n. PICK N \in Nat : N = Len(text)
  BY LenProperties
<1>1. PICK f : f = CHOOSE g : Loops(g, text)
  OBVIOUS
<1>2. Loops(f, text)
  BY <1>1, LoopRuns
<1>3. PICK s : s = f[N]
  OBVIOUS
<1>4. LoopInv(s, text, N)
  BY <1>2, <1>3, <1>n, LoopRight
<1>5. SplitToExecutableParts(text)
        = IF s.prevPos <= N THEN Append(s.res, APart(s.lineno, SubSeq(text, s.prevPos, N)))
          ELSE s.res
  BY <1>1, <1>3, <1>n DEF SplitToExecutableParts, Loops
<1>q. PICK q : q = SplitToExecutableParts(text)
  OBVIOUS
<1>6. s.res \in Seq(PartType) /\ s.prevPos \in 1..N + 1 /\ LinesKnown(s.res)
      /\ Lead(s.res) = SubSeq(text, 1, s.prevPos - 1)
  BY <1>4 DEF LoopInv, LoopStates
<1>7. SubSeq(text, 1, N) = text
  BY <1>n, WholeCut
<1>8. CASE s.prevPos <= N
  <2>1. q = Append(s.res, APart(s.lineno, SubSeq(text, s.prevPos, N))) /\ N \in 0..Len(text)
    BY <1>5, <1>8, <1>n, <1>q
  <2>2. q \in Seq(PartType) /\ Joined(q) = SubSeq(text, 1, N) /\ LinesKnown(q)
    BY <1>4, <2>1, PartAdded
  <2>3. \A k \in DOMAIN q : q[k].line = 1 + Lines(Joined(SubSeq(q, 1, k - 1)))
    BY <2>2, LenProperties DEF LinesKnown
  <2> QED
    BY <1>7, <1>q, <2>2, <2>3 DEF PartsOf
<1>9. CASE ~(s.prevPos <= N)
  <2>1. q = s.res /\ s.prevPos - 1 = N
    BY <1>5, <1>6, <1>9, <1>q
  <2>2. Lead(q) = text
    BY <1>6, <1>7, <2>1
  <2>3. \A k \in DOMAIN q : q[k].line = 1 + Lines(Joined(SubSeq(q, 1, k - 1)))
    BY <1>6, <2>1, LenProperties DEF LinesKnown
  <2>4. q = <<>> => Joined(q) = <<>>
    BY <1>6, <2>1, PartsHaveCodes, JoinedFacts
  <2>5. text \in {Joined(q), Append(Joined(q), "restart")}
    BY <2>2, <2>4 DEF Lead
  <2> QED
    BY <1>6, <1>q, <2>1, <2>3, <2>5 DEF PartsOf
<1> QED
  BY <1>8, <1>9

-----------------------------------------------------------------------------
(* The window's invariants *)

\* What the window holds and what is in the pipe are the halves of the
\* elements that were printed and not yet shown, in order.
OutputInv ==
    /\ Len(tail) <= 1
    /\ Len(tail) + Len(stdout) = 2 * (Len(printed) - Len(shown))
    /\ \A i \in 1..Len(tail) : tail[i] = Len(shown) + 1
    /\ \A i \in 1..Len(stdout) : stdout[i] = Len(shown) + ((Len(tail) + i + 1) \div 2)
    /\ \A i \in 1..Len(shown) : shown[i] = i

\* A box tells what became of the process, unless that was dropped before.
BoxFits ==
    /\ box = "noBinary" => ~ctrl
    /\ box = "error" => status \in {"failing", "crashed"}
    /\ box = "finished" => ~ctrl \/ status = "failure"

-----------------------------------------------------------------------------
(* Types *)

LEMMA SeqFacts ==
    ASSUME NEW S, NEW s \in Seq(S)
    PROVE  /\ Len(s) \in Nat
           /\ DOMAIN s = 1..Len(s)
           /\ \A i \in 1..Len(s) : s[i] \in S
           /\ s # <<>> => Tail(s) \in Seq(S) /\ Head(s) \in S
           /\ \A e \in S : Append(s, e) \in Seq(S)
           /\ \A k \in 0..Len(s) :
                /\ SubSeq(s, 1, k) \in Seq(S)
                /\ SubSeq(s, k + 1, Len(s)) \in Seq(S)
<1>1. Len(s) \in Nat /\ DOMAIN s = 1..Len(s) /\ \A i \in 1..Len(s) : s[i] \in S
  BY LenProperties, ElementOfSeq
<1>2. s # <<>> => Tail(s) \in Seq(S) /\ Head(s) \in S
  BY HeadTailProperties
<1>3. \A e \in S : Append(s, e) \in Seq(S)
  BY AppendProperties
<1>4. ASSUME NEW k \in 0..Len(s)
      PROVE  SubSeq(s, 1, k) \in Seq(S) /\ SubSeq(s, k + 1, Len(s)) \in Seq(S)
  BY <1>1, <1>4, SubSeqProperties
<1> QED
  BY <1>1, <1>2, <1>3, <1>4

LEMMA SingleTyped ==
    ASSUME NEW S, NEW e \in S
    PROVE  <<e>> \in Seq(S)
OBVIOUS

LEMMA Halving ==
    ASSUME NEW n \in Nat
    PROVE  /\ n \div 2 \in Nat
           /\ 2 * (n \div 2) <= n
           /\ n <= 2 * (n \div 2) + 1
OBVIOUS

LEMMA Shifted ==
    ASSUME NEW m \in Nat, NEW n \in Nat, NEW r \in Nat, n = 2 * m + r, NEW i \in Nat
    PROVE  (n + i + 1) \div 2 = m + ((r + i + 1) \div 2)
OBVIOUS

LEMMA ElementsAreTyped ==
    ASSUME NEW d \in Seq(Nat)
    PROVE  Whole(d) \in Seq(Nat) /\ Rest(d) \in Seq(Nat)
<1>1. Len(d) \in Nat /\ \A i \in 1..Len(d) : d[i] \in Nat
  BY SeqFacts
<1>2. Len(d) \div 2 \in Nat /\ \A i \in 1..(Len(d) \div 2) : 2 * i \in 1..Len(d)
  BY <1>1
<1>3. Whole(d) \in Seq(Nat)
  BY <1>1, <1>2, SeqDef DEF Whole
<1>4. PICK m \in Nat : m = 2 * (Len(d) \div 2) + 1
  BY <1>2
<1>5. \A i \in m..Len(d) : d[i] \in Nat
  BY <1>1, <1>4
<1>6. SubSeq(d, m, Len(d)) \in Seq(Nat)
  BY <1>1, <1>5, SubSeqProperties
<1> QED
  BY <1>3, <1>4, <1>6 DEF Rest

LEMMA HalvesAreTyped ==
    ASSUME NEW s \in Seq(Nat), NEW n \in Nat
    PROVE  s \o Halves(n) \in Seq(Nat)
BY ConcatProperties DEF Halves

\* onAgentReadyToRunScript adds one script to those that the agent was sent.
LEMMA AgentTyped ==
    ASSUME NEW c \in BOOLEAN, NEW r \in BOOLEAN, NEW q, NEW f \in Seq(BOOLEAN),
           AgentReadyToRunScript(c, r, q, f)
    PROVE  scriptRunning' \in BOOLEAN /\ inFlight' \in Seq(BOOLEAN)
<1>1. Append(f, FALSE) \in Seq(BOOLEAN)
  BY AppendProperties
<1> QED
  BY <1>1 DEF AgentReadyToRunScript

LEMMA FreshTyped ==
    ASSUME NEW s \in Over \cup {"none", "running", "lost"},
           NEW w \in Seq([text : Seq(Pieces), good : BOOLEAN]), Fresh(s, w)
    PROVE  ProcessTypeOK'
<1>1. Halves(1) \in Seq(Nat)
  BY DEF Halves
<1>2. \A S : <<>> \in Seq(S)
  BY EmptySeq
<1> QED
  BY <1>1, <1>2 DEF Fresh, ProcessTypeOK

LEMMA CommandsTyped ==
    ASSUME NEW text \in Texts, NEW good \in BOOLEAN
    PROVE  /\ ACommand(text, good) \in [text : Seq(Pieces), good : BOOLEAN]
           /\ ACommand(WithMode(text), good) \in [text : Seq(Pieces), good : BOOLEAN]
           /\ ACommand(<<>>, good) \in [text : Seq(Pieces), good : BOOLEAN]
<1>1. text \in Seq(Pieces) /\ <<"code">> \in Seq(Pieces) /\ <<>> \in Seq(Pieces)
  BY TextsAssumption DEF Pieces
<1>2. WithMode(text) \in Seq(Pieces)
  BY <1>1, ConcatProperties DEF WithMode
<1> QED
  BY <1>1, <1>2 DEF ACommand

LEMMA WriteTyped ==
    ASSUME ProcessTypeOK, NEW text, NEW good,
           ACommand(text, good) \in [text : Seq(Pieces), good : BOOLEAN], Write(text, good)
    PROVE  ProcessTypeOK'
<1>1. Len(written) + 1 \in Nat
  BY LenProperties DEF ProcessTypeOK
<1>2. stdin' \in Seq(Nat)
  BY <1>1, HalvesAreTyped DEF ProcessTypeOK, Write
<1>3. written' \in Seq([text : Seq(Pieces), good : BOOLEAN])
  BY AppendProperties DEF ProcessTypeOK, Write
<1> QED
  BY <1>2, <1>3 DEF ProcessTypeOK, Write, runVars, outVars

LEMMA EmitTyped ==
    ASSUME ProcessTypeOK, NEW kind \in Reports \cup {"error", "end"}, Emit(kind)
    PROVE  stdout' \in Seq(Nat) /\ printed' \in Seq(Reports \cup {"error", "end"})
<1>1. Len(printed) + 1 \in Nat
  BY LenProperties DEF ProcessTypeOK
<1>2. stdout' \in Seq(Nat)
  BY <1>1, HalvesAreTyped DEF ProcessTypeOK, Emit
<1>3. printed' \in Seq(Reports \cup {"error", "end"})
  BY AppendProperties DEF ProcessTypeOK, Emit
<1> QED
  BY <1>2, <1>3

LEMMA ProcessTyped ==
    ASSUME ProcessTypeOK, ProcessStep
    PROVE  ProcessTypeOK'
<1> USE DEF ProcessTypeOK
<1>1. CASE ReadStdin
  <2>1. stdin' \in Seq(Nat) /\ data' \in Seq(Nat)
    BY <1>1, HeadTailProperties, AppendProperties DEF ReadStdin
  <2> QED
    BY <1>1, <2>1 DEF ReadStdin, runVars, outVars
<1>2. CASE ConnectDataReady
  BY <1>2 DEF ConnectDataReady, runVars, outVars
<1>3. CASE StdinDataReady
  <2>1. data' \in Seq(Nat) /\ signals' \in Nat
    BY <1>3, ElementsAreTyped DEF StdinDataReady, Unparsed
  <2>2. PICK new : AgentReadyToRunScript(agent, scriptRunning,
                       toRunList \o [i \in DOMAIN new |-> new[i].code], inFlight)
    BY <1>3 DEF StdinDataReady
  <2>3. scriptRunning' \in BOOLEAN /\ inFlight' \in Seq(BOOLEAN)
    BY <2>2, AgentTyped
  <2> QED
    BY <1>3, <2>1, <2>3 DEF StdinDataReady, outVars
<1>4. CASE AgentConnects
  <2>1. scriptRunning' \in BOOLEAN /\ inFlight' \in Seq(BOOLEAN)
    BY <1>4, AgentTyped DEF AgentConnects
  <2> QED
    BY <1>4, <2>1 DEF AgentConnects, stdinVars, outVars
<1>5. CASE OnScriptEnd
  <2>1. Tail(inFlight) \in Seq(BOOLEAN)
    BY <1>5, HeadTailProperties DEF OnScriptEnd
  <2>2. scriptRunning' \in BOOLEAN /\ inFlight' \in Seq(BOOLEAN)
    BY <1>5, <2>1, AgentTyped DEF OnScriptEnd
  <2>3. stdout' \in Seq(Nat) /\ printed' \in Seq(Reports \cup {"error", "end"})
    BY <1>5, EmitTyped DEF OnScriptEnd
  <2> QED
    BY <1>5, <2>2, <2>3 DEF OnScriptEnd, stdinVars
<1>6. CASE PrintReport
  <2>1. stdout' \in Seq(Nat) /\ printed' \in Seq(Reports \cup {"error", "end"})
    BY <1>6, EmitTyped DEF PrintReport, Reports
  <2> QED
    BY <1>6, <2>1 DEF PrintReport, stdinVars, runVars
<1>7. CASE OnScriptError
  <2>1. [inFlight EXCEPT ![1] = TRUE] \in Seq(BOOLEAN)
    <3>1. inFlight # <<>> /\ inFlight \in Seq(BOOLEAN)
      BY <1>7 DEF OnScriptError
    <3>2. 1 \in 1..Len(inFlight)
      BY <3>1, LenProperties, EmptySeq
    <3> QED
      BY <3>1, <3>2, ExceptSeq
  <2>2. scriptRunning' \in BOOLEAN /\ inFlight' \in Seq(BOOLEAN)
    BY <1>7, <2>1, AgentTyped DEF OnScriptError
  <2>3. stdout' \in Seq(Nat) /\ printed' \in Seq(Reports \cup {"error", "end"})
    BY <1>7, EmitTyped DEF OnScriptError
  <2> QED
    BY <1>7, <2>2, <2>3 DEF OnScriptError, stdinVars
<1>8. CASE UserAppFinished
  BY <1>8, EmptySeq DEF UserAppFinished, stdinVars, outVars, Over
<1>9. CASE ProcessEnds
  BY <1>9 DEF ProcessEnds, stdinVars, runVars, outVars, Over
<1> QED
  BY <1>1, <1>2, <1>3, <1>4, <1>5, <1>6, <1>7, <1>8, <1>9 DEF ProcessStep, ProcessRuns

LEMMA HandleOutputTyped ==
    ASSUME TypeOK, HandleOutput
    PROVE  TypeOK'
<1> USE DEF TypeOK, ProcessTypeOK
<1>1. PICK k \in DOMAIN stdout :
        /\ tail' = Kept(tail \o SubSeq(stdout, 1, k))
        /\ shown' = shown \o Whole(tail \o SubSeq(stdout, 1, k))
        /\ stdout' = SubSeq(stdout, k + 1, Len(stdout))
        /\ state' \in {"DoNothing", state}
  BY DEF HandleOutput
<1>2. k \in 0..Len(stdout)
  BY <1>1, LenProperties
<1>3. SubSeq(stdout, 1, k) \in Seq(Nat) /\ stdout' \in Seq(Nat)
  BY <1>1, <1>2, SeqFacts
<1>4. tail \o SubSeq(stdout, 1, k) \in Seq(Nat)
  BY <1>3, ConcatProperties
<1>5. tail' \in Seq(Nat) /\ shown' \in Seq(Nat)
  BY <1>1, <1>4, ElementsAreTyped, ConcatProperties DEF Kept
<1> QED
  BY <1>1, <1>3, <1>5 DEF HandleOutput, stdinVars, runVars

LEMMA DropTyped ==
    ASSUME TypeOK, Drop
    PROVE  /\ ProcessTypeOK' /\ ctrl' \in BOOLEAN
           /\ driver' \in {"window", "plugin"} /\ sessions' \in Nat
           /\ state' \in {"DoNothing", "RecordEvents", "PlayingEvents"}
           /\ tail' \in Seq(Nat) /\ shown' \in Seq(Nat)
<1>1. \A S : <<>> \in Seq(S)
  BY EmptySeq
<1>2. ProcessTypeOK'
  BY <1>1, FreshTyped DEF Drop
<1> QED
  BY <1>1, <1>2 DEF Drop, TypeOK

LEMMA StartTyped ==
    ASSUME TypeOK, NewSession
    PROVE  /\ ctrl' \in BOOLEAN /\ sessions' \in Nat
           /\ tail' \in Seq(Nat) /\ shown' \in Seq(Nat)
BY EmptySeq DEF TypeOK, NewSession

LEMMA SameProcess ==
    ASSUME ProcessTypeOK, UNCHANGED processVars
    PROVE  ProcessTypeOK'
BY DEF ProcessTypeOK, processVars, stdinVars, runVars, outVars

LEMMA PressTyped ==
    ASSUME TypeOK, PressRecord \/ PressRun
    PROVE  TypeOK'
<1> USE DEF TypeOK
<1>1. CASE NoBinary
  BY <1>1, SameProcess DEF NoBinary, Boxes
<1>2. CASE ctrl /\ UNCHANGED <<processVars, ctrl, tail, shown, sessions, driver>>
             /\ box' \in {box, "writeFailed"}
             /\ state' \in {state, "RecordEvents"}
  BY <1>2, SameProcess DEF Boxes
<1>3. CASE /\ NewSession
           /\ \E s \in {"running", "failing", "lost"} : Fresh(s, <<>>)
           /\ UNCHANGED driver /\ box' \in {box, "writeFailed"}
           /\ state' \in {state, "RecordEvents"}
  <2>1. ProcessTypeOK'
    BY <1>3, FreshTyped, EmptySeq DEF Over
  <2> QED
    BY <1>3, <2>1, StartTyped DEF Boxes
<1>4. ASSUME NEW text \in Texts, RunScript(WithMode(text)), UNCHANGED <<driver, box>>,
             state' = "PlayingEvents"
      PROVE  TypeOK'
  <2>1. CASE /\ Write(WithMode(text), TRUE)
             /\ UNCHANGED <<ctrl, tail, shown, sessions>>
    BY <1>4, <2>1, WriteTyped, CommandsTyped
  <2>2. CASE NewSession /\ \E s \in {"running", "failing"} :
                              Fresh(s, <<ACommand(WithMode(text), TRUE)>>)
    <3>1. <<ACommand(WithMode(text), TRUE)>> \in Seq([text : Seq(Pieces), good : BOOLEAN])
      BY CommandsTyped, SingleTyped
    <3>2. ProcessTypeOK'
      BY <2>2, <3>1, FreshTyped DEF Over
    <3> QED
      BY <1>4, <2>2, <3>2, StartTyped
  <2> QED
    BY <1>4, <2>1, <2>2 DEF RunScript
<1>5. CASE PressRecord
  BY <1>1, <1>2, <1>3, <1>5 DEF PressRecord
<1>6. CASE PressRun
  <2>1. CASE CannotSend /\ box' = "writeFailed" /\ UNCHANGED <<driver, state>>
    BY <1>2, <1>3, <2>1 DEF CannotSend
  <2> QED
    BY <1>1, <1>4, <1>6, <2>1 DEF PressRun
<1> QED
  BY <1>5, <1>6

LEMMA TypeStep ==
    ASSUME TypeOK, [Next]_vars
    PROVE  TypeOK'
<1>1. CASE Process
  BY <1>1, ProcessTyped DEF Process, TypeOK, guiVars
<1>2. CASE PressRecord \/ PressRun
  BY <1>2, PressTyped
<1>3. CASE PluginWrites
  <2>1. ProcessTypeOK
    BY DEF TypeOK
  <2>2. ASSUME Write(<<>>, FALSE)
        PROVE  ProcessTypeOK'
    <3>1. ACommand(<<>>, FALSE) \in [text : Seq(Pieces), good : BOOLEAN]
      BY EmptySeq DEF ACommand
    <3> QED
      BY <2>1, <2>2, <3>1, WriteTyped, Zenon
  <2>3. ASSUME \E text \in Texts : Write(text, TRUE)
        PROVE  ProcessTypeOK'
    <3>1. PICK text \in Texts : Write(text, TRUE)
      BY <2>3
    <3>2. TRUE \in BOOLEAN
      OBVIOUS
    <3>3. ACommand(text, TRUE) \in [text : Seq(Pieces), good : BOOLEAN]
      BY <3>2, CommandsTyped, Zenon
    <3> QED
      BY <2>1, <3>1, <3>3, WriteTyped, Zenon
  <2>4. ProcessTypeOK'
    BY <1>3, <2>2, <2>3, Zenon DEF PluginWrites
  <2> QED
    BY <1>3, <2>4 DEF PluginWrites, TypeOK, guiVars
<1>4. CASE HandleOutput
  BY <1>4, HandleOutputTyped
<1>5. CASE MonkeyAppError
  BY <1>5, SameProcess DEF MonkeyAppError, TypeOK, Boxes
<1>6. CASE MonkeyAppFinished
  <2>1. CASE Drop /\ UNCHANGED box
    BY <2>1, DropTyped DEF TypeOK
  <2> QED
    BY <1>6, <2>1, SameProcess DEF MonkeyAppFinished, TypeOK, Boxes
<1>7. CASE CloseBox
  <2>1. CASE Drop /\ box' \in {"finished", "none"}
    BY <2>1, DropTyped DEF TypeOK, Boxes
  <2> QED
    BY <1>7, <2>1, SameProcess DEF CloseBox, TypeOK, Boxes
<1>8. CASE UNCHANGED vars
  BY <1>8, SameProcess DEF TypeOK, vars, guiVars
<1> QED
  BY <1>1, <1>2, <1>3, <1>4, <1>5, <1>6, <1>7, <1>8 DEF Next, WindowRuns

-----------------------------------------------------------------------------
(* What is shown *)

LEMMA NothingPrinted ==
    ASSUME tail' = <<>>, shown' = <<>>, stdout' = <<>>, printed' = <<>>
    PROVE  OutputInv'
BY EmptySeq DEF OutputInv

LEMMA SameOutput ==
    ASSUME OutputInv, UNCHANGED <<tail, shown, stdout, printed>>
    PROVE  OutputInv'
BY DEF OutputInv

LEMMA ConcatNats ==
    ASSUME NEW a \in Seq(Nat), NEW c \in Seq(Nat),
           NEW m \in Nat, NEW n \in Nat, m = Len(a), n = Len(c)
    PROVE  /\ Len(a \o c) = m + n
           /\ \A i \in 1..m + n : (a \o c)[i] = IF i <= m THEN a[i] ELSE c[i - m]
BY ConcatProperties

LEMMA SubSeqNats ==
    ASSUME NEW a \in Seq(Nat), NEW m \in Nat, NEW n \in Nat, n <= Len(a), m <= n
    PROVE  /\ SubSeq(a, m + 1, n) \in Seq(Nat)
           /\ Len(SubSeq(a, m + 1, n)) = n - m
           /\ \A i \in 1..n - m : SubSeq(a, m + 1, n)[i] = a[m + i]
<1>1. \A i \in m + 1..n : a[i] \in Nat
  BY SeqFacts
<1>2. m + 1 \in Int /\ n \in Int /\ n - (m + 1) + 1 = n - m
      /\ (IF m + 1 <= n THEN n - (m + 1) + 1 ELSE 0) = n - m
      /\ \A i \in 1..n - m : m + 1 + i - 1 = m + i
  OBVIOUS
<1>3. /\ SubSeq(a, m + 1, n) \in Seq(Nat)
      /\ Len(SubSeq(a, m + 1, n)) = IF m + 1 <= n THEN n - (m + 1) + 1 ELSE 0
      /\ \A i \in 1..n - (m + 1) + 1 : SubSeq(a, m + 1, n)[i] = a[m + 1 + i - 1]
  BY <1>1, <1>2, SubSeqProperties
<1> QED
  BY <1>2, <1>3

LEMMA StillPrinted ==
    ASSUME NEW t \in Nat, NEW o \in Nat, NEW p \in Nat, NEW s \in Nat,
           NEW k \in Nat, NEW m \in Nat, NEW r \in Nat,
           t + o = 2 * (p - s), t + k = 2 * m + r
    PROVE  r + (o - k) = 2 * (p - (s + m))
OBVIOUS

LEMMA LastPrinted ==
    ASSUME NEW t \in Nat, NEW o \in Nat, NEW p \in Nat, NEW s \in Nat,
           t + o = 2 * (p - s), t <= 1
    PROVE  /\ s + ((t + (o + 1) + 1) \div 2) = p + 1
           /\ s + ((t + (o + 2) + 1) \div 2) = p + 1
           /\ t + (o + 2) = 2 * ((p + 1) - s)
OBVIOUS

LEMMA EmitKeepsOrder ==
    ASSUME TypeOK, OutputInv, NEW kind, Emit(kind), UNCHANGED <<tail, shown>>
    PROVE  OutputInv'
<1>1. stdout \in Seq(Nat) /\ printed \in Seq(Reports \cup {"error", "end"})
      /\ tail \in Seq(Nat) /\ shown \in Seq(Nat)
  BY DEF TypeOK, ProcessTypeOK
<1>t. PICK t \in Nat : t = Len(tail)
  BY <1>1, LenProperties
<1>o. PICK o \in Nat : o = Len(stdout)
  BY <1>1, LenProperties
<1>p. PICK p \in Nat : p = Len(printed)
  BY <1>1, LenProperties
<1>s. PICK s \in Nat : s = Len(shown)
  BY <1>1, LenProperties
<1>2. /\ t <= 1 /\ t + o = 2 * (p - s)
      /\ \A i \in 1..t : tail[i] = s + 1
      /\ \A i \in 1..o : stdout[i] = s + ((t + i + 1) \div 2)
      /\ \A i \in 1..s : shown[i] = i
  BY <1>t, <1>o, <1>p, <1>s DEF OutputInv
<1>3. Len(printed') = p + 1
  BY <1>p, AppendProperties DEF Emit, TypeOK, ProcessTypeOK
<1>h. PICK h \in Seq(Nat) : h = Halves(p + 1) /\ Len(h) = 2 /\ h[1] = p + 1 /\ h[2] = p + 1
  <2>1. /\ Halves(p + 1) \in Seq(Nat) /\ Len(Halves(p + 1)) = 2
        /\ Halves(p + 1)[1] = p + 1 /\ Halves(p + 1)[2] = p + 1
    BY DEF Halves
  <2> QED
    BY <2>1
<1>4. stdout' = stdout \o h
  BY <1>p, <1>h DEF Emit
<1>5. /\ Len(stdout') = o + 2
      /\ \A i \in 1..o + 2 : stdout'[i] = IF i <= o THEN stdout[i] ELSE h[i - o]
  <2>1. stdout \in Seq(Nat) /\ o = Len(stdout) /\ 2 \in Nat /\ 2 = Len(h)
    BY <1>1, <1>o, <1>h
  <2>2. Len(stdout \o h) = o + 2
    <3>1. Len(stdout \o h) = Len(stdout) + Len(h)
      BY <2>1, ConcatProperties
    <3> QED
      BY <2>1, <3>1
  <2>3. \A i \in 1..o + 2 : (stdout \o h)[i] = IF i <= o THEN stdout[i] ELSE h[i - o]
    BY <2>1, ConcatNats
  <2> QED
    BY <1>4, <2>2, <2>3
<1>6. ASSUME NEW i \in 1..o + 2
      PROVE  stdout'[i] = s + ((t + i + 1) \div 2)
  <2>1. CASE i <= o
    BY <1>2, <1>5, <2>1
  <2>2. CASE i = o + 1
    <3>1. stdout'[i] = p + 1
      BY <1>5, <1>h, <2>2
    <3> QED
      BY <1>2, <2>2, <3>1, LastPrinted
  <2>3. CASE i = o + 2
    <3>1. stdout'[i] = p + 1
      BY <1>5, <1>h, <2>3
    <3> QED
      BY <1>2, <2>3, <3>1, LastPrinted
  <2> QED
    BY <2>1, <2>2, <2>3
<1>7. t + (o + 2) = 2 * ((p + 1) - s)
  BY <1>2, LastPrinted
<1>8. tail' = tail /\ shown' = shown
  OBVIOUS
<1> QED
  BY <1>2, <1>3, <1>5, <1>6, <1>7, <1>8, <1>t, <1>s DEF OutputInv

LEMMA HandlingKeepsOrder ==
    ASSUME TypeOK, OutputInv, HandleOutput
    PROVE  OutputInv'
<1>1. stdout \in Seq(Nat) /\ printed \in Seq(Reports \cup {"error", "end"})
      /\ tail \in Seq(Nat) /\ shown \in Seq(Nat)
  BY DEF TypeOK, ProcessTypeOK
<1>t. PICK t \in Nat : t = Len(tail)
  BY <1>1, LenProperties
<1>o. PICK o \in Nat : o = Len(stdout)
  BY <1>1, LenProperties
<1>p. PICK p \in Nat : p = Len(printed)
  BY <1>1, LenProperties
<1>s. PICK s \in Nat : s = Len(shown)
  BY <1>1, LenProperties
<1>2. /\ t <= 1 /\ t + o = 2 * (p - s)
      /\ \A i \in 1..t : tail[i] = s + 1
      /\ \A i \in 1..o : stdout[i] = s + ((t + i + 1) \div 2)
      /\ \A i \in 1..s : shown[i] = i
  BY <1>t, <1>o, <1>p, <1>s DEF OutputInv
<1>3. PICK k \in Nat :
        /\ k \in 1..o
        /\ tail' = Rest(tail \o SubSeq(stdout, 1, k))
        /\ shown' = shown \o Whole(tail \o SubSeq(stdout, 1, k))
        /\ stdout' = SubSeq(stdout, k + 1, Len(stdout))
  <2>1. DOMAIN stdout = 1..o /\ \A k \in 1..o : k \in Nat
    BY <1>1, <1>o, LenProperties
  <2> QED
    BY <2>1 DEF HandleOutput, Kept
<1>4. k <= o /\ o - k \in Nat
  BY <1>3
<1>h. PICK h \in Seq(Nat) :
        /\ h = SubSeq(stdout, 1, k) /\ Len(h) = k
        /\ \A i \in 1..k : h[i] = stdout[i]
  <2>1. 0 + 1 = 1 /\ k - 0 = k /\ 0 <= k /\ \A i \in 1..k : 0 + i = i
    OBVIOUS
  <2>2. /\ SubSeq(stdout, 1, k) \in Seq(Nat) /\ Len(SubSeq(stdout, 1, k)) = k
        /\ \A i \in 1..k : SubSeq(stdout, 1, k)[i] = stdout[i]
    BY <1>1, <1>4, <1>o, <2>1, SubSeqNats
  <2> QED
    BY <2>2
<1>b. PICK b \in Seq(Nat) : b = tail \o h
  BY <1>1, ConcatProperties
<1>n. PICK n \in Nat : n = t + k
  OBVIOUS
<1>5. Len(b) = n /\ \A i \in 1..n : b[i] = s + ((i + 1) \div 2)
  <2>1. Len(b) = n /\ \A i \in 1..n : b[i] = IF i <= t THEN tail[i] ELSE h[i - t]
    BY <1>1, <1>t, <1>h, <1>b, <1>n, ConcatNats
  <2>2. ASSUME NEW i \in 1..n, i <= t
        PROVE  b[i] = s + ((i + 1) \div 2)
    <3>1. i = 1 /\ tail[i] = s + 1
      BY <1>2, <2>2
    <3> QED
      BY <2>1, <2>2, <3>1
  <2>3. ASSUME NEW i \in 1..n, ~(i <= t)
        PROVE  b[i] = s + ((i + 1) \div 2)
    <3>1. i - t \in 1..k /\ i - t \in 1..o /\ t + (i - t) + 1 = i + 1
      BY <1>4, <1>n, <2>3
    <3>2. b[i] = stdout[i - t]
      BY <1>h, <2>1, <2>3, <3>1
    <3>3. stdout[i - t] = s + ((t + (i - t) + 1) \div 2)
      BY <1>2, <3>1
    <3> QED
      BY <3>1, <3>2, <3>3
  <2> QED
    BY <2>1, <2>2, <2>3
<1>m. PICK m \in Nat : m = n \div 2 /\ 2 * m <= n /\ n <= 2 * m + 1
  BY Halving
<1>r. PICK r \in Nat : n = 2 * m + r /\ r <= 1
  <2>1. n - 2 * m \in Nat /\ n = 2 * m + (n - 2 * m) /\ n - 2 * m <= 1
    BY <1>m
  <2> QED
    BY <2>1
<1>w. PICK w \in Seq(Nat) : /\ w = Whole(b) /\ Len(w) = m
                            /\ \A i \in 1..m : w[i] = s + i
  <2>1. Whole(b) \in Seq(Nat) /\ Whole(b) = [i \in 1..m |-> b[2 * i]]
    BY <1>5, <1>m, ElementsAreTyped DEF Whole
  <2>2. Len(Whole(b)) = m
    BY <2>1, LenProperties
  <2>3. \A i \in 1..m : 2 * i \in 1..n /\ s + ((2 * i + 1) \div 2) = s + i
    BY <1>m
  <2>4. \A i \in 1..m : Whole(b)[i] = s + i
    BY <1>5, <2>1, <2>3
  <2> QED
    BY <2>1, <2>2, <2>4
<1>6. Len(shown') = s + m /\ \A i \in 1..s + m : shown'[i] = i
  <2>1. /\ Len(shown') = s + m
        /\ \A i \in 1..s + m : shown'[i] = IF i <= s THEN shown[i] ELSE w[i - s]
    <3>1. shown' = shown \o w
      BY <1>3, <1>h, <1>b, <1>w
    <3> QED
      <4>1. shown \in Seq(Nat) /\ s = Len(shown) /\ m = Len(w)
        BY <1>1, <1>s, <1>w
      <4>2. Len(shown \o w) = s + m
        BY <4>1, ConcatNats
      <4>3. \A i \in 1..s + m : (shown \o w)[i] = IF i <= s THEN shown[i] ELSE w[i - s]
        BY <4>1, ConcatNats
      <4> QED
        BY <3>1, <4>2, <4>3
  <2>2. ASSUME NEW i \in 1..s + m
        PROVE  shown'[i] = i
    <3>1. CASE i <= s
      BY <1>2, <2>1, <3>1
    <3>2. CASE ~(i <= s)
      <4>1. i - s \in 1..m /\ s + (i - s) = i
        BY <3>2
      <4> QED
        BY <1>w, <2>1, <3>2, <4>1
    <3> QED
      BY <3>1, <3>2
  <2> QED
    BY <2>1, <2>2
<1>7. /\ Len(stdout') = o - k /\ o - k \in Nat
      /\ \A i \in 1..o - k : stdout'[i] = s + ((n + i + 1) \div 2)
  <2>2. Len(stdout') = o - k /\ \A i \in 1..o - k : stdout'[i] = stdout[k + i]
    <3>1. stdout' = SubSeq(stdout, k + 1, o) /\ o <= Len(stdout)
      BY <1>3, <1>o
    <3> QED
      <4>1. /\ Len(SubSeq(stdout, k + 1, o)) = o - k
            /\ \A i \in 1..o - k : SubSeq(stdout, k + 1, o)[i] = stdout[k + i]
        BY <1>1, <1>4, <3>1, SubSeqNats
      <4> QED
        BY <3>1, <4>1
  <2>3. ASSUME NEW i \in 1..o - k
        PROVE  stdout'[i] = s + ((n + i + 1) \div 2)
    <3>1. k + i \in 1..o /\ t + (k + i) + 1 = n + i + 1
      BY <1>4, <1>n
    <3>2. stdout[k + i] = s + ((t + (k + i) + 1) \div 2)
      BY <1>2, <3>1
    <3> QED
      BY <2>2, <3>1, <3>2
  <2> QED
    BY <1>4, <2>2, <2>3
<1>8. Len(tail') = r /\ \A i \in 1..r : tail'[i] = (s + m) + 1
  <2>1. tail' = SubSeq(b, 2 * m + 1, n)
    BY <1>3, <1>5, <1>h, <1>b, <1>m DEF Rest
  <2>2. 2 * m \in Nat /\ 2 * m <= n /\ n - 2 * m = r
    BY <1>r
  <2>5. Len(tail') = r /\ \A i \in 1..r : tail'[i] = b[2 * m + i]
    <3>1. /\ Len(SubSeq(b, 2 * m + 1, n)) = n - 2 * m
          /\ \A i \in 1..n - 2 * m : SubSeq(b, 2 * m + 1, n)[i] = b[2 * m + i]
      <4>1. n <= Len(b)
        BY <1>5
      <4> QED
        BY <2>2, <4>1, SubSeqNats
    <3> QED
      BY <2>1, <2>2, <3>1
  <2>6. ASSUME NEW i \in 1..r
        PROVE  tail'[i] = (s + m) + 1
    <3>1. 2 * m + i \in 1..n
          /\ s + ((2 * m + i + 1) \div 2) = (s + m) + 1
      BY <1>r
    <3>2. b[2 * m + i] = s + ((2 * m + i + 1) \div 2)
      BY <1>5, <3>1
    <3> QED
      BY <2>5, <3>1, <3>2
  <2> QED
    BY <2>5, <2>6
<1>9. ASSUME NEW i \in 1..o - k
      PROVE  stdout'[i] = (s + m) + ((r + i + 1) \div 2)
  <2>1. i \in Nat
    OBVIOUS
  <2>2. (n + i + 1) \div 2 = m + ((r + i + 1) \div 2)
    BY <1>r, <2>1, Shifted
  <2>3. PICK q \in Nat : q = (r + i + 1) \div 2
    BY <2>1
  <2>4. stdout'[i] = s + (m + q)
    BY <1>7, <2>2, <2>3
  <2> QED
    BY <2>3, <2>4
<1>10. r + (o - k) = 2 * (p - (s + m))
  BY <1>2, <1>n, <1>r, StillPrinted
<1>11. Len(printed') = p
  BY <1>p DEF HandleOutput
<1> QED
  BY <1>6, <1>7, <1>8, <1>9, <1>10, <1>11, <1>r DEF OutputInv

LEMMA ProcessKeepsOrder ==
    ASSUME TypeOK, OutputInv, Process
    PROVE  OutputInv'
<1>1. UNCHANGED <<tail, shown>>
  BY DEF Process, guiVars
<1>2. CASE UNCHANGED <<stdout, printed>>
  BY <1>1, <1>2, SameOutput
<1>3. ASSUME NEW kind, Emit(kind)
      PROVE  OutputInv'
  BY <1>1, <1>3, EmitKeepsOrder
<1> QED
  BY <1>2, <1>3 DEF Process, ProcessStep, ProcessRuns, ReadStdin, ConnectDataReady,
     StdinDataReady, AgentConnects, OnScriptEnd, PrintReport, OnScriptError,
     UserAppFinished, ProcessEnds, outVars

LEMMA PressKeepsOrder ==
    ASSUME OutputInv, PressRecord \/ PressRun
    PROVE  OutputInv'
<1>1. CASE NoBinary
  BY <1>1, SameOutput DEF NoBinary, processVars, outVars
<1>2. CASE UNCHANGED <<processVars, ctrl, tail, shown, sessions>>
  BY <1>2, SameOutput DEF processVars, outVars
<1>3. ASSUME NEW st, NEW w, NewSession, Fresh(st, w)
      PROVE  OutputInv'
  BY <1>3, NothingPrinted DEF NewSession, Fresh
<1>4. ASSUME NEW text, Write(text, TRUE), UNCHANGED <<ctrl, tail, shown, sessions>>
      PROVE  OutputInv'
  BY <1>4, SameOutput DEF Write, outVars
<1>5. CASE PressRecord
  BY <1>1, <1>2, <1>3, <1>5 DEF PressRecord
<1>6. CASE PressRun
  BY <1>1, <1>2, <1>3, <1>4, <1>6 DEF PressRun, RunScript, CannotSend
<1> QED
  BY <1>5, <1>6

LEMMA OutputStep ==
    ASSUME TypeOK, OutputInv, [Next]_vars
    PROVE  OutputInv'
<1>1. CASE Process
  BY <1>1, ProcessKeepsOrder
<1>2. CASE PressRecord \/ PressRun
  BY <1>2, PressKeepsOrder
<1>3. CASE PluginWrites
  BY <1>3, SameOutput DEF PluginWrites, Write, guiVars, outVars
<1>4. CASE HandleOutput
  BY <1>4, HandlingKeepsOrder
<1>5. CASE Drop
  BY <1>5, NothingPrinted DEF Drop, Fresh
<1>6. CASE UNCHANGED <<processVars, tail, shown>>
  BY <1>6, SameOutput DEF processVars, outVars
<1>7. CASE MonkeyAppError \/ MonkeyAppFinished \/ CloseBox
  BY <1>5, <1>6, <1>7 DEF MonkeyAppError, MonkeyAppFinished, CloseBox
<1>8. CASE UNCHANGED vars
  BY <1>6, <1>8 DEF vars, guiVars
<1> QED
  BY <1>1, <1>2, <1>3, <1>4, <1>7, <1>8 DEF Next, WindowRuns

-----------------------------------------------------------------------------
(* The box *)

LEMMA BoxStep ==
    ASSUME BoxFits, [Next]_vars
    PROVE  BoxFits'
<1> USE DEF BoxFits
<1>1. CASE Process
  BY <1>1 DEF Process, ProcessStep, ProcessRuns, ReadStdin, ConnectDataReady,
     StdinDataReady, AgentConnects, OnScriptEnd, PrintReport, OnScriptError,
     UserAppFinished, ProcessEnds, guiVars, Over
<1>2. CASE PressRecord \/ PressRun
  <2>1. box = "none" /\ box' \in {"none", "noBinary", "writeFailed"}
    BY <1>2 DEF PressRecord, PressRun, NoBinary, WindowIsFree
  <2>2. box' = "noBinary" => ~ctrl'
    BY <1>2, <2>1 DEF PressRecord, PressRun, NoBinary
  <2> QED
    BY <2>1, <2>2
<1>3. CASE PluginWrites
  BY <1>3 DEF PluginWrites, Write, guiVars
<1>4. CASE HandleOutput
  BY <1>4 DEF HandleOutput
<1>5. CASE MonkeyAppError
  BY <1>5 DEF MonkeyAppError, processVars
<1>6. CASE MonkeyAppFinished
  BY <1>6 DEF MonkeyAppFinished, NoticeEnd, Drop, processVars
<1>7. CASE CloseBox
  <2>1. CASE box' = "none"
    BY <2>1
  <2>2. CASE Drop /\ box' = "finished"
    BY <2>2 DEF Drop
  <2> QED
    BY <1>7, <2>1, <2>2 DEF CloseBox
<1>8. CASE UNCHANGED vars
  BY <1>8 DEF vars, guiVars, processVars
<1> QED
  BY <1>1, <1>2, <1>3, <1>4, <1>5, <1>6, <1>7, <1>8 DEF Next, WindowRuns

-----------------------------------------------------------------------------
(* Joined and cut sequences *)

LEMMA JoinOfCuts ==
    ASSUME NEW S, NEW q \in Seq(S), NEW r \in Seq(S)
    PROVE  /\ q \o r \in Seq(S)
           /\ Len(q) \in Nat /\ Len(r) \in Nat
           /\ Len(q \o r) = Len(q) + Len(r)
           /\ \A i \in 1..Len(q) + Len(r) :
                 (q \o r)[i] = IF i <= Len(q) THEN q[i] ELSE r[i - Len(q)]
BY ConcatProperties, LenProperties

\* It does not matter which two are joined first.
Associate(q, r, s) == (q \o r) \o s = q \o (r \o s)

LEMMA JoinedAnyhow ==
    ASSUME NEW S, NEW q \in Seq(S), NEW r \in Seq(S), NEW s \in Seq(S)
    PROVE  Associate(q, r, s)
BY ConcatAssociative DEF Associate

LEMMA CutOfConcat ==
    ASSUME NEW S, NEW q \in Seq(S), NEW r \in Seq(S),
           NEW n \in 0..Len(q), NEW m \in 1..n + 1
    PROVE  SubSeq(q \o r, m, n) = SubSeq(q, m, n)
<1>1. Len(q) \in Nat
  BY LenProperties
<1>2. CASE m = n + 1
  BY <1>1, <1>2, SubSeqEmpty
<1>3. CASE m # n + 1
  <2>1. m \in 1..Len(q) /\ n \in 1..Len(q)
    BY <1>1, <1>3
  <2> QED
    BY <2>1, SubSeqOfConcat1
<1> QED
  BY <1>2, <1>3

LEMMA CutOfEnd ==
    ASSUME NEW S, NEW q \in Seq(S), NEW r \in Seq(S)
    PROVE  SubSeq(q \o r, Len(q) + 1, Len(q) + Len(r)) = r
<1>1. Len(q) \in Nat /\ Len(r) \in Nat
  BY LenProperties
<1>2. CASE r = <<>>
  <2>1. Len(q) + Len(r) < Len(q) + 1
    BY <1>1, <1>2, EmptySeq
  <2> QED
    BY <1>1, <1>2, <2>1, SubSeqEmpty
<1>3. CASE r # <<>>
  <2>1. /\ Len(q) + 1 \in Len(q) + 1..Len(q) + Len(r)
        /\ Len(q) + Len(r) \in Len(q) + 1..Len(q) + Len(r)
        /\ Len(q) + 1 - Len(q) = 1 /\ Len(q) + Len(r) - Len(q) = Len(r)
    <3>1. Len(r) # 0
      BY <1>3, EmptySeq
    <3> QED
      BY <1>1, <3>1
  <2>2. SubSeq(q \o r, Len(q) + 1, Len(q) + Len(r))
          = SubSeq(r, Len(q) + 1 - Len(q), Len(q) + Len(r) - Len(q))
    BY <2>1, SubSeqOfConcat2
  <2> QED
    BY <2>1, <2>2, SubSeqFull
<1> QED
  BY <1>2, <1>3

-----------------------------------------------------------------------------
(* The parts of the commands that were read *)

TakenPart == [n : Nat, line : Nat, code : Seq(Pieces)]

LEMMA TakenHaveCodes == HaveCodes(TakenPart)
BY DEF HaveCodes, TakenPart

\* Are all parts in r parts of command n?
AllOf(r, n) == \A k \in 1..Len(r) : r[k].n = n

LEMMA PartsInFacts ==
    ASSUME ProcessTypeOK, NEW n \in 1..Len(written)
    PROVE  /\ PartsIn(n) \in Seq(TakenPart)
           /\ Len(PartsIn(n)) = Len(SplitToExecutableParts(written[n].text))
           /\ AllOf(PartsIn(n), n)
           /\ PartsOf(PartsIn(n), written[n].text)
<1>1. written[n].text \in Seq(Pieces) /\ n \in Nat
  <2>1. written \in Seq([text : Seq(Pieces), good : BOOLEAN])
    BY DEF ProcessTypeOK
  <2>2. written[n] \in [text : Seq(Pieces), good : BOOLEAN]
    BY <2>1, ElementOfSeq
  <2>3. Len(written) \in Nat
    BY <2>1, LenProperties
  <2> QED
    BY <2>2, <2>3
<1>p. PICK parts \in Seq(PartType) :
        parts = SplitToExecutableParts(written[n].text) /\ PartsOf(parts, written[n].text)
  BY <1>1, SplitRight
<1>N. PICK N \in Nat : N = Len(parts) /\ DOMAIN parts = 1..N
  BY LenProperties
<1>2. \A k \in 1..N : parts[k].line \in Nat /\ parts[k].code \in Seq(Pieces)
  <2>1. \A k \in 1..N : parts[k] \in PartType
    BY <1>N, ElementOfSeq
  <2> QED
    BY <2>1 DEF PartType
<1>q. PICK q : q = [k \in 1..N |-> [n |-> n, line |-> parts[k].line, code |-> parts[k].code]]
  OBVIOUS
<1>3. PartsIn(n) = q
  BY <1>p, <1>N, <1>q DEF PartsIn
<1>4. q \in [1..N -> TakenPart]
  BY <1>1, <1>2, <1>q DEF TakenPart
<1>5. q \in Seq(TakenPart) /\ Len(q) = N /\ DOMAIN q = 1..N
  <2>1. q \in Seq(TakenPart)
    BY <1>4, SeqDef
  <2> QED
    BY <1>4, <2>1, LenProperties
<1>6. \A k \in 1..N : q[k].n = n /\ q[k].line = parts[k].line /\ q[k].code = parts[k].code
  BY <1>q
<1>7. Joined(q) = Joined(parts)
  <2>1. \A k \in 1..Len(q) : parts[k].code = q[k].code
    BY <1>5, <1>6
  <2> QED
    BY <1>5, <1>N, <2>1, TakenHaveCodes, PartsHaveCodes, JoinedSame
<1>8. ASSUME NEW k \in 1..N
      PROVE  q[k].line = 1 + Lines(Joined(SubSeq(q, 1, k - 1)))
  <2>1. /\ k - 1 \in 0..Len(q) /\ k - 1 \in 0..Len(parts) /\ 1 \in 1..Len(q) + 1
        /\ 1 \in 1..Len(parts) + 1 /\ 1 <= (k - 1) + 1 /\ (k - 1) + 1 - 1 = k - 1
    BY <1>5, <1>N
  <2>a. PICK a \in Seq(TakenPart) : /\ a = SubSeq(q, 1, k - 1) /\ Len(a) = k - 1
                                    /\ \A i \in 1..k - 1 : a[i] = q[1 + i - 1]
    <3>1. /\ SubSeq(q, 1, k - 1) \in Seq(TakenPart) /\ Len(SubSeq(q, 1, k - 1)) = (k - 1) + 1 - 1
          /\ \A i \in 1..(k - 1) + 1 - 1 : SubSeq(q, 1, k - 1)[i] = q[1 + i - 1]
      BY <1>5, <2>1, CutFacts
    <3> QED
      BY <2>1, <3>1
  <2>b. PICK b \in Seq(PartType) : /\ b = SubSeq(parts, 1, k - 1) /\ Len(b) = k - 1
                                   /\ \A i \in 1..k - 1 : b[i] = parts[1 + i - 1]
    <3>1. /\ SubSeq(parts, 1, k - 1) \in Seq(PartType)
          /\ Len(SubSeq(parts, 1, k - 1)) = (k - 1) + 1 - 1
          /\ \A i \in 1..(k - 1) + 1 - 1 : SubSeq(parts, 1, k - 1)[i] = parts[1 + i - 1]
      BY <2>1, CutFacts
    <3> QED
      BY <2>1, <3>1
  <2>2. \A i \in 1..Len(a) : b[i].code = a[i].code
    <3>1. \A i \in 1..k - 1 : 1 + i - 1 = i /\ i \in 1..N
      OBVIOUS
    <3> QED
      BY <1>6, <2>a, <2>b, <3>1
  <2>3. Joined(a) = Joined(b)
    BY <2>a, <2>b, <2>2, TakenHaveCodes, PartsHaveCodes, JoinedSame
  <2>4. parts[k].line = 1 + Lines(Joined(SubSeq(parts, 1, k - 1)))
    BY <1>p, <1>N DEF PartsOf
  <2> QED
    BY <1>6, <2>a, <2>b, <2>3, <2>4
<1>9. PartsOf(q, written[n].text)
  BY <1>p, <1>5, <1>7, <1>8 DEF PartsOf
<1> QED
  BY <1>3, <1>5, <1>6, <1>9, <1>p, <1>N DEF AllOf

\* u[i] is made of the parts of the first i commands of the batch.
Gathers(u, batch) ==
    /\ u \in [0..Len(batch) -> Seq(TakenPart)]
    /\ u[0] = <<>>
    /\ \A i \in 1..Len(batch) : u[i] = u[i - 1] \o PartsIn(batch[i])

LEMMA AllPartsSteps ==
    ASSUME ProcessTypeOK, NEW batch \in Seq(1..Len(written))
    PROVE  \E u : Gathers(u, batch) /\ AllPartsIn(batch) = u[Len(batch)]
<1>n. PICK N \in Nat : N = Len(batch)
  BY LenProperties
<1>c. \A i \in 1..N : PartsIn(batch[i]) \in Seq(TakenPart)
  <2>1. \A i \in 1..N : batch[i] \in 1..Len(written)
    BY <1>n, ElementOfSeq
  <2> QED
    BY <2>1, PartsInFacts
<1>f. \A i \in 1..N, v \in Seq(TakenPart) : v \o PartsIn(batch[i]) \in Seq(TakenPart)
  BY <1>c, ConcatProperties
<1>V. PICK V : V = Seq(TakenPart)
  OBVIOUS
<1>a. PICK a \in V : a = <<>>
  BY <1>V, EmptySeq
<1>1. PICK F \in [(1..N) \X V -> V] :
        \A i \in 1..N, v \in V : F[<<i, v>>] = v \o PartsIn(batch[i])
  <2> DEFINE G == [x \in (1..N) \X V |-> x[2] \o PartsIn(batch[x[1]])]
  <2>1. G \in [(1..N) \X V -> V]
    BY <1>f, <1>V
  <2>2. \A i \in 1..N, v \in V : G[<<i, v>>] = v \o PartsIn(batch[i])
    OBVIOUS
  <2> QED
    BY <2>1, <2>2
<1>2. PICK p \in [1..N -> Nat] : \A i \in 1..N : p[i] = i - 1
  <2>1. [i \in 1..N |-> i - 1] \in [1..N -> Nat]
    OBVIOUS
  <2> QED
    BY <2>1
<1>3. PICK g \in [0..N -> V] : Solves(g, N, a, F, p)
  <2>1. Earlier(p, N)
    BY <1>2 DEF Earlier
  <2> QED
    BY <2>1, RecursionExists
<1>4. g = [i \in 0..N |-> IF i = 0 THEN <<>> ELSE g[i - 1] \o PartsIn(batch[i])]
  <2>1. ASSUME NEW i \in 1..N
        PROVE  g[i] = g[i - 1] \o PartsIn(batch[i])
    <3>1. p[i] = i - 1 /\ i - 1 \in 0..N
      BY <1>2
    <3>2. g[i - 1] \in V
      BY <3>1
    <3>3. g[i] = F[<<i, g[i - 1]>>]
      BY <1>3, <3>1 DEF Solves
    <3>4. F[<<i, g[i - 1]>>] = g[i - 1] \o PartsIn(batch[i])
      BY <1>1, <3>2, Zenon
    <3> QED
      BY <3>3, <3>4
  <2>2. g = [i \in 0..N |-> g[i]]
    OBVIOUS
  <2>3. \A i \in 0..N : i = 0 \/ i \in 1..N
    OBVIOUS
  <2>4. g[0] = <<>>
    BY <1>3, <1>a DEF Solves
  <2>5. \A i \in 0..N : g[i] = IF i = 0 THEN <<>> ELSE g[i - 1] \o PartsIn(batch[i])
    BY <2>1, <2>3, <2>4, Zenon
  <2> QED
    BY <2>2, <2>5
<1> DEFINE u == CHOOSE f : f = [i \in 0..N |->
                    IF i = 0 THEN <<>> ELSE f[i - 1] \o PartsIn(batch[i])]
<1>5. u = [i \in 0..N |-> IF i = 0 THEN <<>> ELSE u[i - 1] \o PartsIn(batch[i])]
  BY <1>4
<1>6. AllPartsIn(batch) = u[N]
  BY <1>n DEF AllPartsIn
<1> HIDE DEF u
<1>7. u[0] = <<>>
  BY <1>5
<1>8. \A i \in 1..N : u[i] = u[i - 1] \o PartsIn(batch[i])
  <2>1. \A i \in 1..N : i \in 0..N /\ i # 0
    OBVIOUS
  <2> QED
    BY <1>5, <2>1
<1>9. \A i \in 0..N : u[i] \in V
  <2>1. PICK S : S = {i \in 0..N : u[i] \in V}
    OBVIOUS
  <2>2. 0 \in S
    BY <1>7, <1>a, <2>1
  <2>3. ASSUME NEW i \in 0..N - 1, i \in S
        PROVE  i + 1 \in S
    <3>1. i + 1 \in 1..N /\ (i + 1) - 1 = i /\ i + 1 \in 0..N
      OBVIOUS
    <3>2. u[i] \in V
      BY <2>1, <2>3
    <3>3. u[i + 1] = u[i] \o PartsIn(batch[i + 1])
      BY <1>8, <3>1
    <3>4. u[i] \o PartsIn(batch[i + 1]) \in V
      BY <1>f, <1>V, <3>1, <3>2, Zenon
    <3> QED
      BY <2>1, <3>1, <3>3, <3>4
  <2>4. \A i \in 0..N : i \in S
    BY <2>2, <2>3, UpTo
  <2> QED
    BY <2>1, <2>4
<1>10. u \in [0..N -> V]
  BY <1>5, <1>9
<1> QED
  BY <1>n, <1>6, <1>7, <1>8, <1>10, <1>V DEF Gathers

NoneOf(q, n) == \A i \in 1..Len(q) : q[i].n # n

\* Command n is done with: its parts are in the list, or it came behind one
\* that was not understood.
Settled(q, n, w) ==
    \/ TakenWhole(q, n, w[n].text)
    \/ NoneOf(q, n) /\ \E m \in 1..n : ~w[m].good

InOrder(q, done) ==
    /\ \A i \in 1..Len(q) : q[i].n \in 1..done
    /\ \A i, j \in 1..Len(q) : i < j => q[i].n <= q[j].n

\* The list of the parts of the first commands
ListInv(q, done, w) ==
    /\ q \in Seq(TakenPart)
    /\ InOrder(q, done)
    /\ \A n \in 1..done : Settled(q, n, w)

LEMMA OrderGrows ==
    ASSUME NEW q \in Seq(TakenPart), NEW done \in Nat, InOrder(q, done),
           NEW r \in Seq(TakenPart), AllOf(r, done + 1)
    PROVE  InOrder(q \o r, done + 1)
<1>1. PICK c \in Seq(TakenPart) : c = q \o r
  BY JoinOfCuts
<1>2. /\ Len(q) \in Nat /\ Len(r) \in Nat /\ Len(c) = Len(q) + Len(r)
      /\ \A i \in 1..Len(q) + Len(r) : c[i] = IF i <= Len(q) THEN q[i] ELSE r[i - Len(q)]
  BY <1>1, JoinOfCuts
<1>3. \A i \in 1..Len(q) : q[i].n \in 1..done /\ c[i] = q[i]
  BY <1>2 DEF InOrder
<1>4. ASSUME NEW i \in 1..Len(c), ~(i <= Len(q))
      PROVE  c[i].n = done + 1
  <2>1. i - Len(q) \in 1..Len(r) /\ i \in 1..Len(q) + Len(r)
    BY <1>2, <1>4
  <2> QED
    BY <1>2, <1>4, <2>1 DEF AllOf
<1>5. ASSUME NEW i \in 1..Len(c)
      PROVE  c[i].n \in 1..done + 1 /\ (i <= Len(q) => c[i].n \in 1..done)
  <2>1. CASE i <= Len(q)
    <3>1. i \in 1..Len(q)
      BY <1>2, <2>1
    <3>2. c[i].n \in 1..done
      BY <1>3, <3>1
    <3> QED
      BY <3>2
  <2>2. CASE ~(i <= Len(q))
    BY <1>4, <2>2
  <2> QED
    BY <2>1, <2>2
<1>6. ASSUME NEW i \in 1..Len(c), NEW j \in 1..Len(c), i < j
      PROVE  c[i].n <= c[j].n
  <2>1. CASE j <= Len(q)
    <3>1. i \in 1..Len(q) /\ j \in 1..Len(q)
      BY <1>2, <1>6, <2>1
    <3>2. q[i].n <= q[j].n
      BY <1>6, <3>1 DEF InOrder
    <3> QED
      BY <1>3, <3>1, <3>2
  <2>2. CASE ~(j <= Len(q))
    <3>1. c[j].n = done + 1
      BY <1>4, <2>2
    <3>2. c[i].n \in 1..done + 1
      BY <1>5
    <3> QED
      BY <3>1, <3>2
  <2> QED
    BY <2>1, <2>2
<1> QED
  BY <1>1, <1>5, <1>6 DEF InOrder

LEMMA SettledStays ==
    ASSUME NEW q \in Seq(TakenPart), NEW r \in Seq(TakenPart), NEW done \in Nat,
           AllOf(r, done + 1), NEW n \in 1..done, NEW w, Settled(q, n, w)
    PROVE  Settled(q \o r, n, w)
<1>1. PICK c \in Seq(TakenPart) : c = q \o r
  BY JoinOfCuts
<1>2. /\ Len(q) \in Nat /\ Len(r) \in Nat /\ Len(c) = Len(q) + Len(r)
      /\ DOMAIN q = 1..Len(q) /\ DOMAIN c = 1..Len(c)
      /\ \A i \in 1..Len(q) + Len(r) : c[i] = IF i <= Len(q) THEN q[i] ELSE r[i - Len(q)]
  BY <1>1, JoinOfCuts, LenProperties
<1>3. \A i \in 1..Len(c) : i <= Len(q) => i \in 1..Len(q) /\ c[i] = q[i]
  BY <1>2
<1>4. ASSUME NEW i \in 1..Len(c), ~(i <= Len(q))
      PROVE  c[i].n # n
  <2>1. i - Len(q) \in 1..Len(r) /\ i \in 1..Len(q) + Len(r)
    BY <1>2, <1>4
  <2>2. c[i].n = done + 1
    BY <1>2, <1>4, <2>1 DEF AllOf
  <2> QED
    BY <2>2
<1>5. CASE NoneOf(q, n) /\ \E m \in 1..n : ~w[m].good
  BY <1>1, <1>3, <1>4, <1>5 DEF NoneOf, Settled
<1>6. CASE TakenWhole(q, n, w[n].text)
  <2>1. PICK last \in 0..Len(q) : \E first \in 1..last + 1 :
          /\ \A i \in 1..Len(q) : q[i].n = n <=> i \in first..last
          /\ PartsOf(SubSeq(q, first, last), w[n].text)
    BY <1>2, <1>6 DEF TakenWhole
  <2>2. PICK first \in 1..last + 1 :
          /\ \A i \in 1..Len(q) : q[i].n = n <=> i \in first..last
          /\ PartsOf(SubSeq(q, first, last), w[n].text)
    BY <2>1
  <2>3. PartsOf(SubSeq(c, first, last), w[n].text)
    <3>1. SubSeq(q \o r, first, last) = SubSeq(q, first, last)
      BY CutOfConcat
    <3> QED
      BY <1>1, <2>2, <3>1
  <2>4. ASSUME NEW i \in 1..Len(c)
        PROVE  c[i].n = n <=> i \in first..last
    <3>1. CASE i <= Len(q)
      BY <1>3, <2>2, <3>1
    <3>2. CASE ~(i <= Len(q))
      <4>1. i \notin first..last
        BY <1>2, <3>2
      <4> QED
        BY <1>4, <3>2, <4>1
    <3> QED
      BY <3>1, <3>2
  <2>5. last \in 0..Len(c)
    BY <1>2
  <2>6. TakenWhole(c, n, w[n].text)
    BY <1>2, <2>3, <2>4, <2>5 DEF TakenWhole
  <2> QED
    BY <1>1, <2>6 DEF Settled
<1> QED
  BY <1>5, <1>6 DEF Settled

LEMMA ListGrows ==
    ASSUME ProcessTypeOK, NEW done \in Nat, done + 1 <= Len(written), NEW q,
           ListInv(q, done, written)
    PROVE  ListInv(q \o PartsIn(done + 1), done + 1, written)
<1>0. Len(written) \in Nat /\ done + 1 \in 1..Len(written)
  BY LenProperties DEF ProcessTypeOK
<1>r. PICK r \in Seq(TakenPart) : r = PartsIn(done + 1) /\ AllOf(r, done + 1)
                                  /\ PartsOf(r, written[done + 1].text)
  BY <1>0, PartsInFacts
<1>1. q \in Seq(TakenPart) /\ InOrder(q, done) /\ \A n \in 1..done : Settled(q, n, written)
  BY DEF ListInv
<1>2. InOrder(q \o r, done + 1)
  BY <1>1, <1>r, OrderGrows
<1>3. \A n \in 1..done : Settled(q \o r, n, written)
  BY <1>1, <1>r, SettledStays
<1>c. PICK c \in Seq(TakenPart) : c = q \o r
  BY <1>1, JoinOfCuts
<1>4. /\ Len(q) \in Nat /\ Len(r) \in Nat /\ Len(c) = Len(q) + Len(r)
      /\ DOMAIN c = 1..Len(c)
      /\ \A i \in 1..Len(q) + Len(r) : c[i] = IF i <= Len(q) THEN q[i] ELSE r[i - Len(q)]
  BY <1>1, <1>c, JoinOfCuts, LenProperties
<1>5. ASSUME NEW i \in 1..Len(c)
      PROVE  c[i].n = done + 1 <=> i \in Len(q) + 1..Len(c)
  <2>1. CASE i <= Len(q)
    <3>1. i \in 1..Len(q) /\ c[i] = q[i]
      BY <1>4, <2>1
    <3>2. q[i].n \in 1..done
      BY <1>1, <3>1 DEF InOrder
    <3>3. i \notin Len(q) + 1..Len(c)
      BY <1>4, <2>1
    <3> QED
      BY <3>1, <3>2, <3>3
  <2>2. CASE ~(i <= Len(q))
    <3>1. i - Len(q) \in 1..Len(r) /\ i \in Len(q) + 1..Len(c) /\ i \in 1..Len(q) + Len(r)
      BY <1>4, <2>2
    <3>2. c[i].n = done + 1
      BY <1>4, <1>r, <2>2, <3>1 DEF AllOf
    <3> QED
      BY <3>1, <3>2
  <2> QED
    BY <2>1, <2>2
<1>6. SubSeq(c, Len(q) + 1, Len(c)) = r
  BY <1>1, <1>4, <1>c, CutOfEnd
<1>7. Len(c) \in 0..Len(c) /\ Len(q) + 1 \in 1..Len(c) + 1
  BY <1>4
<1>8. TakenWhole(c, done + 1, written[done + 1].text)
  <2>1. PartsOf(SubSeq(c, Len(q) + 1, Len(c)), written[done + 1].text)
    BY <1>6, <1>r
  <2> QED
    BY <1>4, <1>5, <1>7, <2>1 DEF TakenWhole
<1>9. \A n \in 1..done + 1 : Settled(c, n, written)
  <2>1. \A n \in 1..done + 1 : n \in 1..done \/ n = done + 1
    OBVIOUS
  <2>2. Settled(c, done + 1, written)
    BY <1>8 DEF Settled
  <2> QED
    BY <1>3, <1>c, <2>1, <2>2
<1> QED
  BY <1>2, <1>9, <1>c, <1>r DEF ListInv

\* What comes behind a command that is not understood is left out.
LEMMA ListSkips ==
    ASSUME NEW w, NEW done \in Nat, NEW more \in Nat, done <= more, NEW q, ListInv(q, done, w),
           done < more => ~w[done + 1].good
    PROVE  ListInv(q, more, w)
<1>1. q \in Seq(TakenPart) /\ InOrder(q, done) /\ Len(q) \in Nat
  BY LenProperties DEF ListInv
<1>2. InOrder(q, more)
  <2>1. \A i \in 1..done : i \in 1..more
    OBVIOUS
  <2> QED
    BY <1>1, <2>1 DEF InOrder
<1>3. ASSUME NEW n \in 1..more
      PROVE  Settled(q, n, w)
  <2>1. CASE n \in 1..done
    BY <2>1 DEF ListInv
  <2>2. CASE n \notin 1..done
    <3>1. done < more /\ done + 1 \in 1..n
      BY <2>2
    <3>2. NoneOf(q, n)
      BY <1>1, <2>2 DEF InOrder, NoneOf
    <3> QED
      BY <3>1, <3>2 DEF Settled
  <2> QED
    BY <2>1, <2>2
<1> QED
  BY <1>1, <1>2, <1>3 DEF ListInv

\* The list does not mind what is written later.
LEMMA ListOfLonger ==
    ASSUME NEW C, NEW w \in Seq(C), NEW v \in Seq(C), Len(w) <= Len(v),
           \A i \in 1..Len(w) : v[i] = w[i],
           NEW done \in 0..Len(w), NEW q, ListInv(q, done, w)
    PROVE  ListInv(q, done, v)
<1>1. Len(w) \in Nat /\ \A n \in 1..done : n \in 1..Len(w) /\ \A m \in 1..n : m \in 1..Len(w)
  BY LenProperties
<1>2. ASSUME NEW n \in 1..done
      PROVE  Settled(q, n, v)
  <2>1. Settled(q, n, w)
    BY DEF ListInv
  <2>2. v[n] = w[n] /\ \A m \in 1..n : v[m] = w[m]
    BY <1>1
  <2> QED
    BY <2>1, <2>2, Zenon DEF Settled
<1> QED
  BY <1>2 DEF ListInv

-----------------------------------------------------------------------------
(* Commands in the pipe and in the buffer *)

\* Of n commands the halves behind the first "done" are in the buffer and in
\* the pipe, in order.
HalvesInv(done, buffer, pipe, n) ==
    /\ Len(buffer) + Len(pipe) = 2 * (n - done)
    /\ \A i \in 1..Len(buffer) : buffer[i] = done + ((i + 1) \div 2)
    /\ \A i \in 1..Len(pipe) : pipe[i] = done + ((Len(buffer) + i + 1) \div 2)

LEMMA HalvesWritten ==
    ASSUME NEW b \in Seq(Nat), NEW p \in Seq(Nat), NEW n \in Nat, NEW done \in 0..n,
           HalvesInv(done, b, p, n)
    PROVE  HalvesInv(done, b, p \o Halves(n + 1), n + 1)
<1>l. PICK l \in Nat : l = Len(b)
  BY LenProperties
<1>o. PICK o \in Nat : o = Len(p)
  BY LenProperties
<1>1. /\ l + o = 2 * (n - done)
      /\ \A i \in 1..l : b[i] = done + ((i + 1) \div 2)
      /\ \A i \in 1..o : p[i] = done + ((l + i + 1) \div 2)
  BY <1>l, <1>o DEF HalvesInv
<1>h. PICK h \in Seq(Nat) : h = Halves(n + 1) /\ Len(h) = 2 /\ h[1] = n + 1 /\ h[2] = n + 1
  <2>1. /\ Halves(n + 1) \in Seq(Nat) /\ Len(Halves(n + 1)) = 2
        /\ Halves(n + 1)[1] = n + 1 /\ Halves(n + 1)[2] = n + 1
    BY DEF Halves
  <2> QED
    BY <2>1
<1>2. /\ Len(p \o h) = o + 2
      /\ \A i \in 1..o + 2 : (p \o h)[i] = IF i <= o THEN p[i] ELSE h[i - o]
  <2>t. PICK t \in Nat : t = 2
    OBVIOUS
  <2>1. p \in Seq(Nat) /\ o = Len(p) /\ t = Len(h)
    BY <1>o, <1>h, <2>t
  <2>2. Len(p \o h) = o + t
    BY <2>1, ConcatNats
  <2>3. \A i \in 1..o + t : (p \o h)[i] = IF i <= o THEN p[i] ELSE h[i - o]
    BY <2>1, ConcatNats
  <2> QED
    BY <2>2, <2>3, <2>t
<1>3. /\ l + (o + 2) = 2 * ((n + 1) - done)
      /\ done + ((l + (o + 1) + 1) \div 2) = n + 1
      /\ done + ((l + (o + 2) + 1) \div 2) = n + 1
  BY <1>1
<1>4. ASSUME NEW i \in 1..o + 2
      PROVE  (p \o h)[i] = done + ((l + i + 1) \div 2)
  <2>1. CASE i <= o
    BY <1>1, <1>2, <2>1
  <2>2. CASE i = o + 1
    <3>1. (p \o h)[i] = n + 1
      BY <1>2, <1>h, <2>2
    <3> QED
      BY <1>3, <2>2, <3>1
  <2>3. CASE i = o + 2
    <3>1. (p \o h)[i] = n + 1
      BY <1>2, <1>h, <2>3
    <3> QED
      BY <1>3, <2>3, <3>1
  <2>4. i <= o \/ i = o + 1 \/ i = o + 2
    OBVIOUS
  <2> QED
    BY <2>1, <2>2, <2>3, <2>4
<1> QED
  BY <1>1, <1>2, <1>3, <1>4, <1>h, <1>l DEF HalvesInv

LEMMA HalvesRead ==
    ASSUME NEW b \in Seq(Nat), NEW p \in Seq(Nat), p # <<>>, NEW n \in Nat,
           NEW done \in 0..n, HalvesInv(done, b, p, n)
    PROVE  HalvesInv(done, Append(b, Head(p)), Tail(p), n)
<1>l. PICK l \in Nat : l = Len(b)
  BY LenProperties
<1>o. PICK o \in Nat : o = Len(p)
  BY LenProperties
<1>0. o # 0
  BY <1>o, EmptySeq
<1>1. /\ l + o = 2 * (n - done)
      /\ \A i \in 1..l : b[i] = done + ((i + 1) \div 2)
      /\ \A i \in 1..o : p[i] = done + ((l + i + 1) \div 2)
  BY <1>l, <1>o DEF HalvesInv
<1>2. /\ Head(p) = p[1] /\ Head(p) \in Nat /\ Tail(p) \in Seq(Nat) /\ Len(Tail(p)) = o - 1
      /\ \A i \in 1..o - 1 : Tail(p)[i] = p[i + 1]
  BY <1>o, HeadTailProperties
<1>3. /\ Len(Append(b, Head(p))) = l + 1
      /\ \A i \in 1..l : Append(b, Head(p))[i] = b[i]
      /\ Append(b, Head(p))[l + 1] = Head(p)
  BY <1>2, <1>l, AppendProperties
<1>4. ASSUME NEW i \in 1..l + 1
      PROVE  Append(b, Head(p))[i] = done + ((i + 1) \div 2)
  <2>1. CASE i = l + 1
    <3>1. p[1] = done + ((l + 1 + 1) \div 2)
      BY <1>0, <1>1
    <3> QED
      BY <1>2, <1>3, <2>1, <3>1
  <2>2. CASE i # l + 1
    <3>1. i \in 1..l
      BY <2>2
    <3> QED
      BY <1>1, <1>3, <3>1
  <2> QED
    BY <2>1, <2>2
<1>5. ASSUME NEW i \in 1..o - 1
      PROVE  Tail(p)[i] = done + (((l + 1) + i + 1) \div 2)
  <2>1. i + 1 \in 1..o /\ l + (i + 1) + 1 = (l + 1) + i + 1
    BY <1>0
  <2>2. p[i + 1] = done + ((l + (i + 1) + 1) \div 2)
    BY <1>1, <2>1
  <2> QED
    BY <1>2, <2>1, <2>2
<1>6. (l + 1) + (o - 1) = 2 * (n - done)
  BY <1>1
<1> QED
  BY <1>2, <1>3, <1>4, <1>5, <1>6 DEF HalvesInv

\* The commands m + 1, m + 2 and so on
InSequence(batch, m) == \A i \in 1..Len(batch) : batch[i] = m + i

LEMMA HalvesParsed ==
    ASSUME NEW b \in Seq(Nat), NEW p \in Seq(Nat), NEW n \in Nat, NEW done \in 0..n,
           HalvesInv(done, b, p, n)
    PROVE  \E m \in Nat :
              /\ m = Len(b) \div 2
              /\ done + m \in 0..n
              /\ HalvesInv(done + m, Rest(b), p, n)
              /\ Whole(b) \in Seq(Nat) /\ Len(Whole(b)) = m
              /\ InSequence(Whole(b), done)
<1>l. PICK l \in Nat : l = Len(b)
  BY LenProperties
<1>o. PICK o \in Nat : o = Len(p)
  BY LenProperties
<1>1. /\ l + o = 2 * (n - done)
      /\ \A i \in 1..l : b[i] = done + ((i + 1) \div 2)
      /\ \A i \in 1..o : p[i] = done + ((l + i + 1) \div 2)
  BY <1>l, <1>o DEF HalvesInv
<1>m. PICK m \in Nat : m = l \div 2 /\ 2 * m <= l /\ l <= 2 * m + 1
  BY Halving
<1>r. PICK r \in Nat : l = 2 * m + r /\ r <= 1
  <2>1. l - 2 * m \in Nat /\ l = 2 * m + (l - 2 * m) /\ l - 2 * m <= 1
    BY <1>m
  <2> QED
    BY <2>1
<1>2. /\ Whole(b) \in Seq(Nat) /\ Len(Whole(b)) = m
      /\ \A i \in 1..m : Whole(b)[i] = done + i
  <2>1. Whole(b) \in Seq(Nat) /\ Whole(b) = [i \in 1..m |-> b[2 * i]]
    BY <1>l, <1>m, ElementsAreTyped DEF Whole
  <2>2. Len(Whole(b)) = m
    BY <2>1, LenProperties
  <2>3. \A i \in 1..m : 2 * i \in 1..l /\ done + ((2 * i + 1) \div 2) = done + i
    BY <1>m
  <2>4. \A i \in 1..m : Whole(b)[i] = done + i
    BY <1>1, <2>1, <2>3
  <2> QED
    BY <2>1, <2>2, <2>4
<1>3. Rest(b) \in Seq(Nat) /\ Len(Rest(b)) = r /\ \A i \in 1..r : Rest(b)[i] = b[2 * m + i]
  <2>1. Rest(b) = SubSeq(b, 2 * m + 1, l)
    BY <1>l, <1>m DEF Rest
  <2>2. 2 * m \in Nat /\ 2 * m <= l /\ l <= Len(b) /\ l - 2 * m = r
    BY <1>r, <1>l
  <2>3. /\ SubSeq(b, 2 * m + 1, l) \in Seq(Nat)
        /\ Len(SubSeq(b, 2 * m + 1, l)) = l - 2 * m
        /\ \A i \in 1..l - 2 * m : SubSeq(b, 2 * m + 1, l)[i] = b[2 * m + i]
    BY <2>2, SubSeqNats
  <2> QED
    BY <2>1, <2>2, <2>3
<1>4. ASSUME NEW i \in 1..r
      PROVE  Rest(b)[i] = (done + m) + ((i + 1) \div 2)
  <2>1. i = 1 /\ 2 * m + i \in 1..l /\ (2 * m + 1 + 1) \div 2 = m + 1 /\ (1 + 1) \div 2 = 1
    BY <1>r
  <2>2. b[2 * m + i] = done + ((2 * m + i + 1) \div 2)
    BY <1>1, <2>1
  <2> QED
    BY <1>3, <2>1, <2>2
<1>5. ASSUME NEW i \in 1..o
      PROVE  p[i] = (done + m) + ((r + i + 1) \div 2)
  <2>1. i \in Nat
    OBVIOUS
  <2>2. (l + i + 1) \div 2 = m + ((r + i + 1) \div 2)
    BY <1>r, <2>1, Shifted
  <2>3. PICK k \in Nat : k = (r + i + 1) \div 2
    BY <2>1
  <2>4. p[i] = done + (m + k)
    BY <1>1, <2>2, <2>3
  <2> QED
    BY <2>3, <2>4
<1>6. r + o = 2 * (n - (done + m)) /\ done + m \in 0..n
  BY <1>1, <1>r
<1>7. HalvesInv(done + m, Rest(b), p, n)
  BY <1>3, <1>4, <1>5, <1>6, <1>o DEF HalvesInv
<1>8. InSequence(Whole(b), done)
  BY <1>2 DEF InSequence
<1> QED
  BY <1>2, <1>6, <1>7, <1>8, <1>l, <1>m

LEMMA UnderstoodFacts ==
    ASSUME NEW batch \in Seq(Nat), NEW done \in Nat, InSequence(batch, done)
    PROVE  \E k \in 0..Len(batch) :
              /\ Understood(batch) = SubSeq(batch, 1, k)
              /\ k < Len(batch) => ~written[done + k + 1].good
<1>1. Len(batch) \in Nat /\ DOMAIN batch = 1..Len(batch)
  BY LenProperties
<1>b. PICK bad \in SUBSET Nat : bad = {i \in 1..Len(batch) : ~written[batch[i]].good}
  <2>1. {i \in 1..Len(batch) : ~written[batch[i]].good} \in SUBSET Nat
    BY <1>1
  <2> QED
    BY <2>1
<1>x. bad = {i \in DOMAIN batch : ~written[batch[i]].good}
  BY <1>1, <1>b
<1>2. Understood(batch) = IF bad = {} THEN batch
                          ELSE SubSeq(batch, 1, (CHOOSE i \in bad : \A j \in bad : i <= j) - 1)
  BY <1>1, <1>b DEF Understood
<1>3. CASE bad = {}
  <2>1. SubSeq(batch, 1, Len(batch)) = batch
    BY SubSeqFull
  <2>2. Understood(batch) = SubSeq(batch, 1, Len(batch))
    BY <1>2, <1>3, <2>1
  <2>3. Len(batch) \in 0..Len(batch) /\ ~(Len(batch) < Len(batch))
    BY <1>1
  <2> QED
    BY <2>2, <2>3
<1>4. CASE bad # {}
  <2>1. PICK c : c = CHOOSE i \in bad : \A j \in bad : i <= j
    OBVIOUS
  <2>2. c \in bad
    <3>1. \E i \in bad : \A j \in bad : i <= j
      BY <1>4, LeastNat
    <3> QED
      BY <2>1, <3>1
  <2>3. c \in 1..Len(batch) /\ ~written[batch[c]].good
    BY <1>b, <2>2
  <2>4. batch[c] = done + c /\ done + (c - 1) + 1 = done + c /\ c - 1 \in 0..Len(batch)
    BY <1>1, <2>3 DEF InSequence
  <2>5. Understood(batch) = SubSeq(batch, 1, c - 1)
    BY <1>2, <1>4, <2>1
  <2>6. ~written[done + (c - 1) + 1].good
    BY <2>3, <2>4
  <2> QED
    BY <2>4, <2>5, <2>6
<1> QED
  BY <1>3, <1>4

\* Of a batch that follows the first "done" commands, b are the commands that
\* were understood.
UnderstoodAs(b, batch, done) ==
    /\ b = Understood(batch)
    /\ Len(b) <= Len(batch)
    /\ \A i \in 1..Len(b) : b[i] = done + i
    /\ Len(b) < Len(batch) => ~written[done + Len(b) + 1].good

LEMMA UnderstoodBatch ==
    ASSUME ProcessTypeOK, NEW done \in Nat, NEW batch \in Seq(Nat), InSequence(batch, done),
           done + Len(batch) <= Len(written)
    PROVE  \E b \in Seq(1..Len(written)) : UnderstoodAs(b, batch, done)
<1>0. Len(batch) \in Nat /\ Len(written) \in Nat
  BY LenProperties DEF ProcessTypeOK
<1>k. PICK k \in 0..Len(batch) : /\ Understood(batch) = SubSeq(batch, 1, k)
                                 /\ k < Len(batch) => ~written[done + k + 1].good
  BY UnderstoodFacts
<1>k1. Understood(batch) = SubSeq(batch, 1, k)
  BY <1>k, Zenon
<1>k2. k < Len(batch) => ~written[done + k + 1].good
  BY <1>k, Zenon
<1>1. \A i \in 1..k : i \in 1..Len(batch) /\ 1 + i - 1 = i
  BY <1>0
<1>2. \A i \in 1..k : batch[i] = done + i /\ done + i \in 1..Len(written)
  BY <1>0, <1>1 DEF InSequence
<1>3. 1 \in Int /\ k \in Int /\ k - 1 + 1 = k /\ (IF 1 <= k THEN k ELSE 0) = k
  BY <1>0
<1>4. \A i \in 1..k : batch[i] \in 1..Len(written)
  BY <1>2
<1>5. /\ SubSeq(batch, 1, k) \in Seq(1..Len(written))
      /\ Len(SubSeq(batch, 1, k)) = IF 1 <= k THEN k - 1 + 1 ELSE 0
      /\ \A i \in 1..k - 1 + 1 : SubSeq(batch, 1, k)[i] = batch[1 + i - 1]
  BY <1>3, <1>4, SubSeqProperties
<1>b. PICK b \in Seq(1..Len(written)) : b = SubSeq(batch, 1, k)
  BY <1>5
<1>6. Len(b) = k /\ Len(b) <= Len(batch) /\ \A i \in 1..Len(b) : b[i] = done + i
  BY <1>0, <1>1, <1>2, <1>3, <1>5, <1>b
<1>7. Len(b) < Len(batch) => ~written[done + Len(b) + 1].good
  <2>1. Len(b) = k
    BY <1>6
  <2> QED
    BY <1>k2, <2>1, Zenon
<1>8. b = Understood(batch)
  BY <1>k1, <1>b, Zenon
<1> QED
  BY <1>6, <1>7, <1>8, Zenon DEF UnderstoodAs

\* What stdinDataReady does to the list
LEMMA BatchTaken ==
    ASSUME ProcessTypeOK, NEW done \in Nat, ListInv(taken, done, written),
           NEW batch \in Seq(Nat), InSequence(batch, done), done + Len(batch) <= Len(written)
    PROVE  /\ AllPartsIn(Understood(batch)) \in Seq(TakenPart)
           /\ ListInv(taken \o AllPartsIn(Understood(batch)), done + Len(batch), written)
<1>0. Len(batch) \in Nat /\ Len(written) \in Nat /\ taken \in Seq(TakenPart)
  BY LenProperties DEF ProcessTypeOK, ListInv
<1>b. PICK b \in Seq(1..Len(written)) : UnderstoodAs(b, batch, done)
  BY UnderstoodBatch
<1>k. PICK k \in Nat : k = Len(b)
  BY LenProperties
<1>k1. b = Understood(batch) /\ k \in 0..Len(batch) /\ \A i \in 1..k : b[i] = done + i
  BY <1>0, <1>b, <1>k DEF UnderstoodAs
<1>k2. k < Len(batch) => ~written[done + k + 1].good
  BY <1>b, <1>k, Zenon DEF UnderstoodAs
<1>K. k \in 0..k /\ k <= Len(batch) /\ done + k <= Len(written)
  BY <1>0, <1>k1
<1>u. PICK u : Gathers(u, b) /\ AllPartsIn(b) = u[k]
  <2>1. \E u : Gathers(u, b) /\ AllPartsIn(b) = u[Len(b)]
    BY AllPartsSteps
  <2> QED
    BY <1>k, <2>1
<1>1. /\ u \in [0..k -> Seq(TakenPart)] /\ u[0] = <<>>
      /\ \A i \in 1..k : u[i] = u[i - 1] \o PartsIn(done + i)
  BY <1>k, <1>k1, <1>u DEF Gathers
<1>2. PICK S : S = {i \in 0..k : ListInv(taken \o u[i], done + i, written)}
  OBVIOUS
<1>3. 0 \in S
  <2>1. taken \o <<>> = taken /\ done + 0 = done
    BY <1>0, ConcatEmptySeq
  <2>2. ListInv(taken \o u[0], done + 0, written)
    BY <1>1, <2>1
  <2> QED
    BY <1>2, <2>2
<1>4. ASSUME NEW i \in 0..k - 1, i \in S
      PROVE  i + 1 \in S
  <2>1. i + 1 \in 1..k /\ (i + 1) - 1 = i /\ i + 1 \in 0..k /\ i \in 0..k
    OBVIOUS
  <2>q. PICK q : q = taken \o u[i]
    OBVIOUS
  <2>2. ListInv(q, done + i, written)
    BY <1>2, <1>4, <2>q
  <2>3. done + i \in Nat /\ (done + i) + 1 <= Len(written) /\ (done + i) + 1 = done + (i + 1)
    BY <1>0, <1>K
  <2>4. ListInv(q \o PartsIn((done + i) + 1), (done + i) + 1, written)
    BY <2>2, <2>3, ListGrows
  <2>5. u[i + 1] = u[i] \o PartsIn(done + (i + 1))
    BY <1>1, <2>1
  <2>6. taken \o u[i + 1] = q \o PartsIn(done + (i + 1))
    <3>1. done + (i + 1) \in 1..Len(written)
      BY <2>3, <1>0
    <3>2. PartsIn(done + (i + 1)) \in Seq(TakenPart) /\ u[i] \in Seq(TakenPart)
      BY <1>1, <2>1, <3>1, PartsInFacts
    <3>V. PICK V : V = TakenPart
      OBVIOUS
    <3>r. PICK r \in Seq(V) : r = PartsIn(done + (i + 1))
      BY <3>2, <3>V
    <3>v. PICK v \in Seq(V) : v = u[i]
      BY <3>2, <3>V
    <3>t. PICK t \in Seq(V) : t = taken
      BY <1>0, <3>V
    <3>3. Associate(t, v, r)
      BY JoinedAnyhow
    <3> QED
      BY <2>5, <2>q, <3>r, <3>v, <3>t, <3>3 DEF Associate
  <2>7. ListInv(taken \o u[i + 1], done + (i + 1), written)
    BY <2>3, <2>4, <2>6
  <2> QED
    BY <1>2, <2>1, <2>7
<1>5. \A i \in 0..k : i \in S
  BY <1>3, <1>4, UpTo
<1>6. ListInv(taken \o u[k], done + k, written)
  BY <1>K, <1>2, <1>5
<1>7. AllPartsIn(Understood(batch)) = u[k] /\ u[k] \in Seq(TakenPart)
  <2>1. u[k] \in Seq(TakenPart)
    BY <1>K, <1>1
  <2>2. Understood(batch) = b
    BY <1>k1
  <2> QED
    BY <1>u, <2>1, <2>2, Zenon
<1>8. ListInv(taken \o u[k], done + Len(batch), written)
  <2>1. /\ done + k \in Nat /\ done + Len(batch) \in Nat /\ done + k <= done + Len(batch)
        /\ (done + k < done + Len(batch) => k < Len(batch)) /\ (done + k) + 1 = done + k + 1
    BY <1>0, <1>K
  <2>a. PICK a \in Nat : a = done + k
    BY <2>1
  <2>b. PICK e \in Nat : e = done + Len(batch)
    BY <2>1
  <2>2. a <= e /\ (a < e => ~written[a + 1].good) /\ ListInv(taken \o u[k], a, written)
    <3>1. a <= e /\ (a < e => k < Len(batch))
      BY <2>1, <2>a, <2>b
    <3>2. k < Len(batch) => ~written[a + 1].good
      <4>1. done + k + 1 = a + 1
        BY <2>a, <2>1
      <4>2. (done + k + 1 = a + 1 /\ ~written[done + k + 1].good) => ~written[a + 1].good
        BY Zenon
      <4> QED
        BY <1>k2, <4>1, <4>2, Zenon
    <3> QED
      BY <1>6, <2>a, <3>1, <3>2
  <2>3. ListInv(taken \o u[k], e, written)
    BY <2>2, ListSkips
  <2> QED
    BY <2>3, <2>b
<1> QED
  BY <1>7, <1>8

\* The first "done" commands are in the list of parts, or were left out; the
\* others are in the buffer and in the pipe.
InputAt(done, buffer, pipe, list, w) ==
    /\ HalvesInv(done, buffer, pipe, Len(w))
    /\ ListInv(list, done, w)

InputInv == \E done \in 0..Len(written) : InputAt(done, data, stdin, taken, written)

Commands == [text : Seq(Pieces), good : BOOLEAN]

LEMMA NoInput ==
    ASSUME NEW w \in Seq(Commands)
    PROVE  ListInv(<<>>, 0, w)
<1>1. <<>> \in Seq(TakenPart) /\ Len(<<>>) = 0
  BY EmptySeq
<1>2. InOrder(<<>>, 0)
  BY <1>1 DEF InOrder
<1> QED
  BY <1>1, <1>2 DEF ListInv

LEMMA FreshInput ==
    ASSUME NEW s, NEW w \in Seq(Commands), w = <<>> \/ Len(w) = 1, Fresh(s, w)
    PROVE  InputInv'
<1>1. written' = w /\ taken' = <<>> /\ data' = <<>> /\ Len(w) \in Nat
  BY LenProperties DEF Fresh
<1>2. HalvesInv(0, <<>>, stdin', Len(w))
  <2>1. CASE w = <<>>
    <3>1. stdin' = <<>> /\ Len(w) = 0 /\ Len(<<>>) = 0
      BY <2>1, EmptySeq DEF Fresh
    <3> QED
      BY <3>1 DEF HalvesInv
  <2>2. CASE w # <<>>
    <3>1. stdin' = <<1, 1>> /\ Len(w) = 1
      BY <2>2 DEF Fresh, Halves
    <3>2. Len(<<>>) = 0 /\ Len(<<1, 1>>) = 2 /\ \A i \in 1..2 : <<1, 1>>[i] = 1
      OBVIOUS
    <3>3. \A i \in 1..2 : 0 + ((0 + i + 1) \div 2) = 1
      OBVIOUS
    <3> QED
      BY <3>1, <3>2, <3>3 DEF HalvesInv
  <2> QED
    BY <2>1, <2>2
<1>3. ListInv(<<>>, 0, w)
  BY NoInput
<1>4. 0 \in 0..Len(w) /\ InputAt(0, data', stdin', taken', written')
  BY <1>1, <1>2, <1>3 DEF InputAt
<1> QED
  BY <1>1, <1>4 DEF InputInv

LEMMA WriteInput ==
    ASSUME ProcessTypeOK, InputInv, NEW text, NEW good,
           ACommand(text, good) \in Commands, Write(text, good)
    PROVE  InputInv'
<1>1. PICK n \in Nat : n = Len(written)
  BY LenProperties DEF ProcessTypeOK
<1>2. PICK done \in 0..n : InputAt(done, data, stdin, taken, written)
  BY <1>1 DEF InputInv
<1>w. written \in Seq(Commands) /\ data \in Seq(Nat) /\ stdin \in Seq(Nat)
  BY DEF ProcessTypeOK, Commands
<1>3. /\ data' = data /\ taken' = taken /\ stdin' = stdin \o Halves(n + 1)
      /\ written' = Append(written, ACommand(text, good))
  BY <1>1 DEF Write, runVars
<1>4. /\ written' \in Seq(Commands) /\ Len(written') = n + 1
      /\ \A i \in 1..n : written'[i] = written[i]
  BY <1>1, <1>3, <1>w, AppendProperties
<1>5. HalvesInv(done, data, stdin \o Halves(n + 1), n + 1)
  BY <1>1, <1>2, <1>w, HalvesWritten DEF InputAt
<1>6. ListInv(taken, done, written')
  <2>v. PICK v \in Seq(Commands) : v = written'
    BY <1>4
  <2>1. ListInv(taken, done, written)
    BY <1>2 DEF InputAt
  <2>2. Len(written) <= Len(v) /\ \A i \in 1..Len(written) : v[i] = written[i]
    BY <1>1, <1>4, <2>v
  <2>3. ListInv(taken, done, v)
    BY <1>1, <1>w, <2>1, <2>2, ListOfLonger
  <2> QED
    BY <2>3, <2>v
<1>7. done \in 0..Len(written') /\ InputAt(done, data', stdin', taken', written')
  BY <1>3, <1>4, <1>5, <1>6 DEF InputAt
<1> QED
  BY <1>7 DEF InputInv

LEMMA SameInput ==
    ASSUME InputInv, UNCHANGED <<data, stdin, taken, written>>
    PROVE  InputInv'
BY DEF InputInv

LEMMA ReadInput ==
    ASSUME ProcessTypeOK, InputInv, ReadStdin
    PROVE  InputInv'
<1>1. PICK n \in Nat : n = Len(written)
  BY LenProperties DEF ProcessTypeOK
<1>2. PICK done \in 0..n : InputAt(done, data, stdin, taken, written)
  BY <1>1 DEF InputInv
<1>3. /\ taken' = taken /\ written' = written /\ stdin # <<>>
      /\ stdin' = Tail(stdin) /\ data' = Append(data, Head(stdin))
  BY DEF ReadStdin, runVars
<1>4. HalvesInv(done, Append(data, Head(stdin)), Tail(stdin), n)
  BY <1>1, <1>2, <1>3, HalvesRead DEF InputAt, ProcessTypeOK
<1>5. InputAt(done, data', stdin', taken', written')
  BY <1>1, <1>2, <1>3, <1>4 DEF InputAt
<1> QED
  BY <1>1, <1>3, <1>5 DEF InputInv

LEMMA ParsedInput ==
    ASSUME ProcessTypeOK, InputInv, StdinDataReady
    PROVE  InputInv'
<1>1. PICK n \in Nat : n = Len(written)
  BY LenProperties DEF ProcessTypeOK
<1>2. PICK done \in 0..n : InputAt(done, data, stdin, taken, written)
  BY <1>1 DEF InputInv
<1>3. /\ taken' = taken \o AllPartsIn(Understood(Whole(data))) /\ written' = written
      /\ stdin' = stdin /\ data' = Rest(data)
  BY DEF StdinDataReady, Unparsed
<1>m. PICK m \in Nat : /\ done + m \in 0..n
                       /\ HalvesInv(done + m, Rest(data), stdin, n)
                       /\ Whole(data) \in Seq(Nat) /\ Len(Whole(data)) = m
                       /\ InSequence(Whole(data), done)
  <2>1. HalvesInv(done, data, stdin, n)
    BY <1>1, <1>2 DEF InputAt
  <2> QED
    BY <2>1, HalvesParsed DEF ProcessTypeOK
<1>b. PICK batch \in Seq(Nat) : batch = Whole(data)
  BY <1>m
<1>4. ListInv(taken \o AllPartsIn(Understood(batch)), done + Len(batch), written)
  <2>1. ListInv(taken, done, written)
    BY <1>2 DEF InputAt
  <2>2. done \in Nat /\ InSequence(batch, done) /\ done + Len(batch) <= Len(written)
    BY <1>1, <1>m, <1>b
  <2> QED
    BY <2>1, <2>2, BatchTaken
<1>5. InputAt(done + m, data', stdin', taken', written')
  BY <1>1, <1>3, <1>m, <1>b, <1>4 DEF InputAt
<1> QED
  BY <1>1, <1>3, <1>m, <1>5 DEF InputInv

LEMMA ProcessInput ==
    ASSUME ProcessTypeOK, InputInv, ProcessStep
    PROVE  InputInv'
<1>1. CASE ReadStdin
  BY <1>1, ReadInput
<1>2. CASE StdinDataReady
  BY <1>2, ParsedInput
<1>3. CASE UNCHANGED <<data, stdin, taken, written>>
  BY <1>3, SameInput
<1>4. CASE ConnectDataReady \/ AgentConnects \/ OnScriptEnd \/ PrintReport \/ OnScriptError
           \/ UserAppFinished \/ ProcessEnds
  <2>1. UNCHANGED <<data, stdin, taken, written>>
    BY <1>4 DEF ConnectDataReady, AgentConnects, OnScriptEnd, PrintReport, OnScriptError,
       UserAppFinished, ProcessEnds, stdinVars, runVars
  <2> QED
    BY <1>3, <2>1
<1> QED
  BY <1>1, <1>2, <1>4 DEF ProcessStep, ProcessRuns

LEMMA NoCommands ==
    ASSUME NEW s, Fresh(s, <<>>)
    PROVE  InputInv'
<1>1. <<>> \in Seq(Commands)
  BY EmptySeq
<1>w. PICK w \in Seq(Commands) : w = <<>>
  BY <1>1
<1> QED
  BY <1>w, FreshInput

LEMMA PressInput ==
    ASSUME TypeOK, InputInv, PressRecord \/ PressRun
    PROVE  InputInv'
<1>1. CASE UNCHANGED processVars
  BY <1>1, SameInput DEF processVars, stdinVars, runVars
<1>2. CASE \E s : Fresh(s, <<>>)
  BY <1>2, NoCommands
<1>3. ASSUME NEW text \in Texts, RunScript(WithMode(text))
      PROVE  InputInv'
  <2>1. ACommand(WithMode(text), TRUE) \in Commands
    BY CommandsTyped DEF Commands
  <2>2. CASE Write(WithMode(text), TRUE)
    BY <2>1, <2>2, WriteInput DEF TypeOK
  <2>3. ASSUME NEW s, Fresh(s, <<ACommand(WithMode(text), TRUE)>>)
        PROVE  InputInv'
    <3>c. PICK c \in Commands : c = ACommand(WithMode(text), TRUE)
      BY <2>1
    <3>w. PICK w \in Seq(Commands) : w = <<c>>
      BY SingleTyped
    <3>1. Len(w) = 1 /\ Fresh(s, w)
      BY <2>3, <3>c, <3>w
    <3> QED
      BY <3>1, FreshInput
  <2> QED
    BY <1>3, <2>2, <2>3 DEF RunScript
<1>4. CASE PressRecord
  BY <1>1, <1>2, <1>4 DEF PressRecord, NoBinary
<1>5. CASE PressRun
  BY <1>1, <1>2, <1>3, <1>5 DEF PressRun, NoBinary, CannotSend
<1> QED
  BY <1>4, <1>5

LEMMA InputStep ==
    ASSUME TypeOK, InputInv, [Next]_vars
    PROVE  InputInv'
<1>1. CASE Process
  BY <1>1, ProcessInput DEF Process, TypeOK
<1>2. CASE PressRecord \/ PressRun
  BY <1>2, PressInput
<1>3. CASE PluginWrites
  <2>1. CASE Write(<<>>, FALSE)
    <3>1. ACommand(<<>>, FALSE) \in Commands
      BY EmptySeq DEF ACommand, Commands
    <3> QED
      BY <2>1, <3>1, WriteInput, Zenon DEF TypeOK
  <2>2. ASSUME NEW text \in Texts, Write(text, TRUE)
        PROVE  InputInv'
    <3>1. ACommand(text, TRUE) \in Commands
      BY CommandsTyped DEF Commands
    <3> QED
      BY <2>2, <3>1, WriteInput, Zenon DEF TypeOK
  <2> QED
    BY <1>3, <2>1, <2>2 DEF PluginWrites
<1>4. CASE Drop
  BY <1>4, NoCommands DEF Drop
<1>5. CASE UNCHANGED <<data, stdin, taken, written>>
  BY <1>5, SameInput
<1>6. CASE WindowRuns
  <2>1. CASE UNCHANGED processVars
    BY <1>5, <2>1 DEF processVars, stdinVars, runVars
  <2>2. CASE HandleOutput
    BY <1>5, <2>2 DEF HandleOutput, stdinVars, runVars
  <2> QED
    BY <1>4, <1>6, <2>1, <2>2 DEF WindowRuns, MonkeyAppError, MonkeyAppFinished, CloseBox
<1>7. CASE UNCHANGED vars
  BY <1>5, <1>7 DEF vars, processVars, stdinVars, runVars
<1> QED
  BY <1>1, <1>2, <1>3, <1>6, <1>7 DEF Next

LEMMA InitInput ==
    ASSUME Init
    PROVE  InputInv
<1>1. /\ written = <<>> /\ taken = <<>> /\ data = <<>> /\ stdin = <<>>
      /\ Len(<<>>) = 0 /\ <<>> \in Seq(Commands)
  BY EmptySeq DEF Init, ProcessInit
<1>2. HalvesInv(0, <<>>, <<>>, 0)
  BY <1>1 DEF HalvesInv
<1>3. ListInv(<<>>, 0, written)
  BY <1>1, NoInput
<1> QED
  BY <1>1, <1>2, <1>3 DEF InputInv, InputAt

\* What is not in the list yet is still on its way to it.
LEMMA InputMeans ==
    ASSUME ProcessTypeOK, InputInv
    PROVE  TakenInOrder
<1>n. PICK n \in Nat : n = Len(written) /\ DOMAIN written = 1..n
  BY LenProperties DEF ProcessTypeOK
<1>1. PICK done \in 0..n : InputAt(done, data, stdin, taken, written)
  BY <1>n DEF InputInv
<1>2. taken \in Seq(TakenPart) /\ InOrder(taken, done) /\ DOMAIN taken = 1..Len(taken)
  BY <1>1, LenProperties DEF InputAt, ListInv
<1>3. \A i, j \in DOMAIN taken : i < j => taken[i].n <= taken[j].n
  BY <1>2 DEF InOrder
<1>4. ASSUME NEW c \in 1..done
      PROVE  \/ TakenWhole(taken, c, written[c].text)
             \/ /\ \A i \in DOMAIN taken : taken[i].n # c
                /\ \E m \in 1..c : ~written[m].good
  <2>1. Settled(taken, c, written)
    BY <1>1 DEF InputAt, ListInv
  <2> QED
    BY <1>2, <2>1, Zenon DEF Settled, NoneOf
<1>5. ASSUME NEW c \in done + 1..n
      PROVE  /\ \A i \in DOMAIN taken : taken[i].n # c
             /\ \E i \in DOMAIN (data \o stdin) : (data \o stdin)[i] = c
  <2>1. \A i \in DOMAIN taken : taken[i].n # c
    BY <1>2 DEF InOrder
  <2>l. PICK l \in Nat : l = Len(data)
    BY LenProperties DEF ProcessTypeOK
  <2>o. PICK o \in Nat : o = Len(stdin)
    BY LenProperties DEF ProcessTypeOK
  <2>2. /\ l + o = 2 * (n - done)
        /\ \A i \in 1..l : data[i] = done + ((i + 1) \div 2)
        /\ \A i \in 1..o : stdin[i] = done + ((l + i + 1) \div 2)
    BY <1>n, <1>1, <2>l, <2>o DEF InputAt, HalvesInv
  <2>k. PICK k \in 1..l + o : k = 2 * (c - done)
    BY <2>2
  <2>3. /\ DOMAIN (data \o stdin) = 1..l + o
        /\ (data \o stdin)[k] = IF k <= l THEN data[k] ELSE stdin[k - l]
    <3>a. PICK a \in Seq(Nat) : a = data \o stdin
      BY ConcatProperties DEF ProcessTypeOK
    <3>1. Len(a) = l + o /\ DOMAIN a = 1..Len(a)
      BY <2>l, <2>o, <3>a, ConcatNats, LenProperties DEF ProcessTypeOK
    <3>2. a[k] = IF k <= l THEN data[k] ELSE stdin[k - l]
      BY <2>l, <2>o, <3>a, ConcatNats DEF ProcessTypeOK
    <3> QED
      BY <3>a, <3>1, <3>2
  <2>4. done + ((k + 1) \div 2) = c
    BY <2>k
  <2>5. CASE k <= l
    <3>1. data[k] = c
      BY <2>2, <2>4, <2>5
    <3> QED
      BY <2>1, <2>3, <2>5, <3>1
  <2>6. CASE ~(k <= l)
    <3>1. k - l \in 1..o /\ l + (k - l) + 1 = k + 1
      BY <2>6
    <3>2. stdin[k - l] = c
      BY <2>2, <2>4, <3>1
    <3> QED
      BY <2>1, <2>3, <2>6, <3>2
  <2> QED
    BY <2>5, <2>6
<1>6. ASSUME NEW c \in DOMAIN written
      PROVE  \/ TakenWhole(taken, c, written[c].text)
             \/ /\ \A i \in DOMAIN taken : taken[i].n # c
                /\ \/ \E m \in 1..c : ~written[m].good
                   \/ \E i \in DOMAIN (data \o stdin) : (data \o stdin)[i] = c
  <2>1. c \in 1..done \/ c \in done + 1..n
    BY <1>n, <1>6
  <2> QED
    BY <1>4, <1>5, <2>1, Zenon
<1> QED
  BY <1>3, <1>6, Zenon DEF TakenInOrder

-----------------------------------------------------------------------------
(* One script at a time *)

QueueTyped == toRunList \in Seq(Seq(Pieces))

\* The scripts that are not over, as far as the window can know: commands not
\* yet taken, parts to be run, and parts sent to the agent
Busy == ((Len(data) + Len(stdin)) \div 2) + Len(toRunList) + Len(inFlight)

\* Ends of scripts that were printed and not yet shown
PendingEnds == {i \in Len(shown) + 1..Len(printed) : printed[i] = "end"}

OneAtATime ==
    /\ Busy <= 1
    /\ \A i \in PendingEnds : Busy = 0 /\ \A j \in PendingEnds : i = j
    /\ state # "PlayingEvents" => Busy = 0 /\ PendingEnds = {}

IdleInv == driver = "window" /\ status = "running" /\ ~OfManyParts => OneAtATime

LEMMA BusyTyped ==
    ASSUME ProcessTypeOK, QueueTyped
    PROVE  /\ Len(data) \in Nat /\ Len(stdin) \in Nat /\ Len(toRunList) \in Nat
           /\ Len(inFlight) \in Nat /\ Busy \in Nat
<1>1. /\ Len(data) \in Nat /\ Len(stdin) \in Nat /\ Len(toRunList) \in Nat
      /\ Len(inFlight) \in Nat
  BY LenProperties DEF ProcessTypeOK, QueueTyped
<1> QED
  BY <1>1 DEF Busy

LEMMA AgentMoves ==
    ASSUME NEW c, NEW r, NEW q \in Seq(Seq(Pieces)), NEW f \in Seq(BOOLEAN),
           AgentReadyToRunScript(c, r, q, f)
    PROVE  /\ toRunList' \in Seq(Seq(Pieces))
           /\ inFlight' \in Seq(BOOLEAN)
           /\ Len(toRunList') + Len(inFlight') = Len(q) + Len(f)
<1>0. Len(q) \in Nat /\ Len(f) \in Nat
  BY LenProperties
<1>1. CASE toRunList' = q /\ inFlight' = f
  BY <1>1
<1>2. CASE q # <<>> /\ toRunList' = Tail(q) /\ inFlight' = Append(f, FALSE)
  <2>1. Tail(q) \in Seq(Seq(Pieces)) /\ Len(Tail(q)) = Len(q) - 1
    BY <1>2, HeadTailProperties
  <2>2. Append(f, FALSE) \in Seq(BOOLEAN) /\ Len(Append(f, FALSE)) = Len(f) + 1
    BY AppendProperties
  <2> QED
    BY <1>0, <1>2, <2>1, <2>2
<1> QED
  BY <1>1, <1>2 DEF AgentReadyToRunScript

\* The same ends are pending, and no more scripts than before are not over.
LEMMA NoBusier ==
    ASSUME OneAtATime, Busy \in Nat, Busy' \in Nat, Busy' <= Busy,
           PendingEnds' \subseteq PendingEnds, state' = state
    PROVE  OneAtATime'
BY DEF OneAtATime

LEMMA SameEnds ==
    ASSUME UNCHANGED <<shown, printed>>
    PROVE  PendingEnds' = PendingEnds
BY DEF PendingEnds

LEMMA EmittedEnds ==
    ASSUME TypeOK, OutputInv, NEW kind, kind \in Reports \cup {"error", "end"}, Emit(kind),
           shown' = shown
    PROVE  PendingEnds' = PendingEnds \cup IF kind = "end" THEN {Len(printed) + 1} ELSE {}
<1>p. PICK p \in Nat : p = Len(printed)
  BY LenProperties DEF TypeOK, ProcessTypeOK
<1>s. PICK s \in Nat : s = Len(shown) /\ s <= p
  <2>1. Len(shown) \in Nat /\ Len(tail) \in Nat /\ Len(stdout) \in Nat
    BY LenProperties DEF TypeOK, ProcessTypeOK
  <2> QED
    BY <1>p, <2>1 DEF OutputInv
<1>1. /\ Len(printed') = p + 1 /\ printed'[p + 1] = kind
      /\ \A i \in 1..p : printed'[i] = printed[i]
  BY <1>p, AppendProperties DEF Emit, TypeOK, ProcessTypeOK
<1>2. PendingEnds' = {i \in s + 1..p + 1 : printed'[i] = "end"}
  BY <1>s, <1>1 DEF PendingEnds
<1>3. PendingEnds = {i \in s + 1..p : printed[i] = "end"}
  BY <1>s, <1>p DEF PendingEnds
<1>4. \A i \in s + 1..p + 1 : i \in s + 1..p \/ i = p + 1
  OBVIOUS
<1>5. \A i \in s + 1..p : i \in 1..p /\ i \in s + 1..p + 1
  OBVIOUS
<1>6. p + 1 \in s + 1..p + 1
  BY <1>s
<1> QED
  BY <1>p, <1>1, <1>2, <1>3, <1>4, <1>5, <1>6

\* A command of one part at most adds one part at most.
LEMMA FewParts ==
    ASSUME ProcessTypeOK, ~OfManyParts, NEW b \in Seq(1..Len(written))
    PROVE  AllPartsIn(b) \in Seq(TakenPart) /\ Len(AllPartsIn(b)) <= Len(b)
<1>k. PICK k \in Nat : k = Len(b) /\ \A i \in 1..k : b[i] \in 1..Len(written)
  <2>1. Len(b) \in Nat /\ \A i \in 1..Len(b) : b[i] \in 1..Len(written)
    BY LenProperties, ElementOfSeq
  <2> QED
    BY <2>1
<1>u. PICK u : Gathers(u, b) /\ AllPartsIn(b) = u[k]
  BY <1>k, AllPartsSteps
<1>1. /\ u \in [0..k -> Seq(TakenPart)] /\ u[0] = <<>>
      /\ \A i \in 1..k : u[i] = u[i - 1] \o PartsIn(b[i])
  BY <1>k, <1>u DEF Gathers
<1>2. \A i \in 1..k : PartsIn(b[i]) \in Seq(TakenPart) /\ Len(PartsIn(b[i])) <= 1
  <2>1. DOMAIN written = 1..Len(written)
    BY LenProperties DEF ProcessTypeOK
  <2>2. ASSUME NEW n \in 1..Len(written)
        PROVE  PartsIn(n) \in Seq(TakenPart) /\ Len(PartsIn(n)) <= 1
    <3>1. Len(PartsIn(n)) = Len(SplitToExecutableParts(written[n].text))
          /\ PartsIn(n) \in Seq(TakenPart)
      BY PartsInFacts
    <3>2. ~(Len(SplitToExecutableParts(written[n].text)) > 1)
      BY <2>1 DEF OfManyParts
    <3>3. Len(PartsIn(n)) \in Nat
      BY <3>1, LenProperties
    <3> QED
      BY <3>1, <3>2, <3>3
  <2> QED
    BY <1>k, <2>2
<1>3. PICK S : S = {i \in 0..k : Len(u[i]) <= i}
  OBVIOUS
<1>4. 0 \in S
  <2>1. Len(u[0]) = 0
    BY <1>1, EmptySeq
  <2> QED
    BY <1>3, <2>1
<1>5. ASSUME NEW i \in 0..k - 1, i \in S
      PROVE  i + 1 \in S
  <2>1. i + 1 \in 1..k /\ (i + 1) - 1 = i /\ i \in 0..k /\ i + 1 \in 0..k
    OBVIOUS
  <2>r. PICK r \in Seq(TakenPart) : r = PartsIn(b[i + 1]) /\ Len(r) <= 1
    BY <1>2, <2>1
  <2>v. PICK v \in Seq(TakenPart) : v = u[i] /\ Len(v) <= i
    BY <1>1, <1>3, <1>5, <2>1
  <2>2. Len(v \o r) = Len(v) + Len(r) /\ Len(v) \in Nat /\ Len(r) \in Nat
    BY ConcatProperties, LenProperties
  <2>3. u[i + 1] = v \o r
    BY <1>1, <2>1, <2>r, <2>v
  <2>4. Len(u[i + 1]) <= i + 1
    <3>1. PICK x \in Nat, y \in Nat : x = Len(v) /\ y = Len(r)
      BY <2>2
    <3>2. x <= i /\ y <= 1
      BY <2>r, <2>v, <3>1
    <3>3. x + y <= i + 1
      BY <3>2
    <3> QED
      BY <2>2, <2>3, <3>1, <3>3
  <2> QED
    BY <1>3, <2>1, <2>4
<1>6. \A i \in 0..k : i \in S
  BY <1>4, <1>5, UpTo
<1>7. k \in 0..k
  OBVIOUS
<1> QED
  BY <1>1, <1>3, <1>6, <1>7, <1>k, <1>u

\* A command stays a command of many parts.
LEMMA StillOfManyParts ==
    ASSUME ProcessTypeOK, NEW text, NEW good, Write(text, good), OfManyParts,
           ACommand(text, good) \in Commands
    PROVE  OfManyParts'
<1>w. written \in Seq(Commands)
  BY DEF ProcessTypeOK, Commands
<1>1. PICK i \in DOMAIN written : Len(SplitToExecutableParts(written[i].text)) > 1
  BY DEF OfManyParts
<1>2. i \in DOMAIN written' /\ written'[i] = written[i]
  <2>v. PICK v \in Seq(Commands) : v = written' /\ v = Append(written, ACommand(text, good))
    BY <1>w, AppendProperties DEF Write
  <2>1. /\ Len(written) \in Nat /\ DOMAIN written = 1..Len(written)
        /\ Len(v) = Len(written) + 1 /\ DOMAIN v = 1..Len(v)
        /\ \A j \in 1..Len(written) : v[j] = written[j]
    BY <1>w, <2>v, AppendProperties, LenProperties
  <2> QED
    BY <1>1, <2>1, <2>v
<1> QED
  BY <1>1, <1>2 DEF OfManyParts

-----------------------------------------------------------------------------

\* What a step of the process needs for IdleInv
Settling ==
    /\ QueueTyped'
    /\ status' = "running" => status = "running"
    /\ OneAtATime /\ ~OfManyParts => OneAtATime'

LEMMA MovedOnly ==
    ASSUME TypeOK, QueueTyped, UNCHANGED <<data, stdin>>,
           toRunList' \in Seq(Seq(Pieces)), inFlight' \in Seq(BOOLEAN),
           Len(toRunList') + Len(inFlight') = Len(toRunList) + Len(inFlight)
    PROVE  Busy' = Busy /\ Busy \in Nat
<1>1. PICK h \in Nat : h = (Len(data) + Len(stdin)) \div 2
  BY BusyTyped DEF TypeOK
<1>2. Busy = h + Len(toRunList) + Len(inFlight) /\ Busy' = h + Len(toRunList') + Len(inFlight')
  BY <1>1 DEF Busy
<1>3. Len(toRunList') \in Nat /\ Len(inFlight') \in Nat
  BY LenProperties
<1> QED
  BY <1>2, <1>3, BusyTyped DEF TypeOK

LEMMA ReadIdle ==
    ASSUME TypeOK, QueueTyped, InputInv, ReadStdin, UNCHANGED guiVars
    PROVE  Settling
<1>1. /\ toRunList' = toRunList /\ inFlight' = inFlight /\ status' = status
      /\ shown' = shown /\ printed' = printed /\ state' = state
  BY DEF ReadStdin, runVars, outVars, guiVars
<1>2. QueueTyped'
  BY <1>1 DEF QueueTyped
<1>3. Len(data') + Len(stdin') = Len(data) + Len(stdin)
  <2>1. data \in Seq(Nat) /\ stdin \in Seq(Nat) /\ stdin # <<>>
    BY DEF ReadStdin, TypeOK, ProcessTypeOK
  <2>2. Len(Tail(stdin)) = Len(stdin) - 1 /\ Head(stdin) \in Nat /\ Len(stdin) \in Nat
    BY <2>1, HeadTailProperties, LenProperties
  <2>3. Len(Append(data, Head(stdin))) = Len(data) + 1 /\ Len(data) \in Nat
    BY <2>1, <2>2, AppendProperties, LenProperties
  <2> QED
    BY <2>2, <2>3 DEF ReadStdin
<1>4. Busy' = Busy
  BY <1>1, <1>3 DEF Busy
<1>5. Busy \in Nat
  BY BusyTyped DEF TypeOK
<1>6. PendingEnds' = PendingEnds
  BY <1>1, SameEnds
<1>7. OneAtATime => OneAtATime'
  BY <1>1, <1>4, <1>5, <1>6, NoBusier
<1> QED
  BY <1>1, <1>2, <1>7 DEF Settling

LEMMA ParsedIdle ==
    ASSUME TypeOK, QueueTyped, InputInv, StdinDataReady, UNCHANGED guiVars
    PROVE  Settling
<1>1. /\ status' = status /\ shown' = shown /\ printed' = printed /\ state' = state
      /\ stdin' = stdin /\ data' = Rest(data)
  BY DEF StdinDataReady, Unparsed, outVars, guiVars
<1>n. PICK n \in Nat : n = Len(written)
  BY LenProperties DEF TypeOK, ProcessTypeOK
<1>2. PICK done \in 0..n : InputAt(done, data, stdin, taken, written)
  BY <1>n DEF InputInv
<1>m. PICK m \in Nat : /\ done + m \in 0..n
                       /\ HalvesInv(done + m, Rest(data), stdin, n)
                       /\ Whole(data) \in Seq(Nat) /\ Len(Whole(data)) = m
                       /\ InSequence(Whole(data), done)
  <2>1. HalvesInv(done, data, stdin, n)
    BY <1>n, <1>2 DEF InputAt
  <2> QED
    BY <2>1, HalvesParsed DEF TypeOK, ProcessTypeOK
<1>b. PICK batch \in Seq(Nat) : batch = Whole(data)
  BY <1>m
<1>u. PICK b \in Seq(1..n) : b = Understood(batch) /\ Len(b) <= m
  <2>1. \E b \in Seq(1..Len(written)) : UnderstoodAs(b, batch, done)
    <3>1. done \in Nat /\ InSequence(batch, done) /\ done + Len(batch) <= Len(written)
      BY <1>n, <1>m, <1>b
    <3> QED
      BY <3>1, UnderstoodBatch DEF TypeOK
  <2> QED
    BY <1>n, <1>m, <1>b, <2>1 DEF UnderstoodAs
<1>3. AgentReadyToRunScript(agent, scriptRunning,
          toRunList \o [i \in DOMAIN AllPartsIn(b) |-> AllPartsIn(b)[i].code], inFlight)
  BY <1>b, <1>u DEF StdinDataReady
<1>4. AllPartsIn(b) \in Seq(TakenPart)
  <2>1. AllPartsIn(Understood(batch)) \in Seq(TakenPart)
    <3>1. /\ done \in Nat /\ ListInv(taken, done, written) /\ InSequence(batch, done)
          /\ done + Len(batch) <= Len(written)
      BY <1>n, <1>2, <1>m, <1>b DEF InputAt
    <3> QED
      BY <3>1, BatchTaken DEF TypeOK
  <2> QED
    BY <1>u, <2>1
<1>w. PICK new \in Seq(TakenPart) : new = AllPartsIn(b)
  BY <1>4
<1>c. PICK codes \in Seq(Seq(Pieces)) : /\ codes = [i \in DOMAIN new |-> new[i].code]
                                        /\ Len(codes) = Len(new)
  <2>1. DOMAIN new = 1..Len(new) /\ Len(new) \in Nat /\ \A i \in 1..Len(new) : new[i] \in TakenPart
    BY LenProperties, ElementOfSeq
  <2>2. [i \in DOMAIN new |-> new[i].code] \in [1..Len(new) -> Seq(Pieces)]
    BY <2>1 DEF TakenPart
  <2>3. [i \in DOMAIN new |-> new[i].code] \in Seq(Seq(Pieces))
    BY <2>1, <2>2, SeqDef
  <2>4. Len([i \in DOMAIN new |-> new[i].code]) = Len(new)
    BY <2>1, <2>2, <2>3, LenProperties
  <2> QED
    BY <2>3, <2>4
<1>5. /\ toRunList \o codes \in Seq(Seq(Pieces))
      /\ Len(toRunList \o codes) = Len(toRunList) + Len(codes)
  BY ConcatProperties DEF QueueTyped
<1>6. /\ toRunList' \in Seq(Seq(Pieces)) /\ inFlight' \in Seq(BOOLEAN)
      /\ Len(toRunList') + Len(inFlight') = Len(toRunList \o codes) + Len(inFlight)
  <2>q. PICK q \in Seq(Seq(Pieces)) : q = toRunList \o codes
    BY <1>5
  <2>1. AgentReadyToRunScript(agent, scriptRunning, q, inFlight)
    BY <1>3, <1>w, <1>c, <2>q
  <2>2. inFlight \in Seq(BOOLEAN)
    BY DEF TypeOK, ProcessTypeOK
  <2>3. /\ toRunList' \in Seq(Seq(Pieces)) /\ inFlight' \in Seq(BOOLEAN)
        /\ Len(toRunList') + Len(inFlight') = Len(q) + Len(inFlight)
    BY <2>1, <2>2, AgentMoves
  <2> QED
    BY <2>3, <2>q
<1>7. /\ Len(data) + Len(stdin) = 2 * (n - done)
      /\ Len(Rest(data)) + Len(stdin) = 2 * (n - (done + m))
  BY <1>n, <1>2, <1>m DEF InputAt, HalvesInv
<1>8. /\ (Len(data) + Len(stdin)) \div 2 = n - done
      /\ (Len(data') + Len(stdin')) \div 2 = n - (done + m)
  <2>1. PICK x \in Nat, y \in Nat : x = n - done /\ y = n - (done + m)
    BY <1>m
  <2>2. (2 * x) \div 2 = x /\ (2 * y) \div 2 = y
    OBVIOUS
  <2> QED
    BY <1>1, <1>7, <2>1, <2>2
<1>9. ASSUME ~OfManyParts
      PROVE  Busy' <= Busy
  <2>1. Len(new) <= Len(b)
    BY <1>n, <1>w, <1>9, FewParts DEF TypeOK
  <2>2. Len(new) \in Nat /\ Len(b) \in Nat
    BY LenProperties
  <2>3. Len(codes) <= m /\ Len(codes) \in Nat
    BY <1>u, <1>c, <2>1, <2>2
  <2>4. /\ Busy = (n - done) + Len(toRunList) + Len(inFlight)
        /\ Busy' = (n - (done + m)) + Len(toRunList') + Len(inFlight')
    BY <1>8 DEF Busy
  <2>5. PICK x \in Nat, y \in Nat, z \in Nat, v \in Nat :
          x = Len(toRunList) /\ y = Len(inFlight) /\ z = Len(toRunList') /\ v = Len(inFlight')
    BY <1>6, BusyTyped, LenProperties DEF TypeOK
  <2> QED
    BY <1>5, <1>6, <2>3, <2>4, <2>5
<1>10. Busy \in Nat /\ Busy' \in Nat
  <2>1. Len(toRunList') \in Nat /\ Len(inFlight') \in Nat /\ n - (done + m) \in Nat
    BY <1>m, <1>6, LenProperties
  <2> QED
    BY <1>8, <2>1, BusyTyped DEF TypeOK, Busy
<1>11. PendingEnds' = PendingEnds
  BY <1>1, SameEnds
<1>12. OneAtATime /\ ~OfManyParts => OneAtATime'
  BY <1>1, <1>9, <1>10, <1>11, NoBusier
<1> QED
  BY <1>1, <1>6, <1>12 DEF Settling, QueueTyped

LEMMA EndIdle ==
    ASSUME TypeOK, QueueTyped, OutputInv, OnScriptEnd, UNCHANGED guiVars
    PROVE  Settling
<1>1. /\ status' = status /\ shown' = shown /\ state' = state
      /\ stdin' = stdin /\ data' = data /\ inFlight # <<>> /\ Emit("end")
      /\ AgentReadyToRunScript(agent, FALSE, toRunList, Tail(inFlight))
  BY DEF OnScriptEnd, stdinVars, guiVars
<1>2. /\ Tail(inFlight) \in Seq(BOOLEAN) /\ Len(Tail(inFlight)) = Len(inFlight) - 1
      /\ Len(inFlight) \in Nat \ {0}
  BY <1>1, HeadTailProperties, LenProperties, EmptySeq DEF TypeOK, ProcessTypeOK
<1>3. /\ toRunList' \in Seq(Seq(Pieces)) /\ inFlight' \in Seq(BOOLEAN)
      /\ Len(toRunList') + Len(inFlight') = Len(toRunList) + Len(inFlight) - 1
  <2>f. PICK f \in Seq(BOOLEAN) : f = Tail(inFlight)
    BY <1>2
  <2>1. AgentReadyToRunScript(agent, FALSE, toRunList, f)
    BY <1>1, <2>f
  <2>2. /\ toRunList' \in Seq(Seq(Pieces)) /\ inFlight' \in Seq(BOOLEAN)
        /\ Len(toRunList') + Len(inFlight') = Len(toRunList) + Len(f)
    BY <2>1, AgentMoves DEF QueueTyped
  <2> QED
    BY <1>2, <2>f, <2>2, BusyTyped DEF TypeOK
<1>4. Busy' = Busy - 1 /\ Busy \in Nat \ {0} /\ Busy' \in Nat
  <2>1. PICK h \in Nat : h = (Len(data) + Len(stdin)) \div 2
    BY BusyTyped DEF TypeOK
  <2>2. Busy = h + Len(toRunList) + Len(inFlight) /\ Busy' = h + Len(toRunList') + Len(inFlight')
    BY <1>1, <2>1 DEF Busy
  <2>3. PICK x \in Nat, y \in Nat \ {0} : x = Len(toRunList) /\ y = Len(inFlight)
    BY <1>2, BusyTyped DEF TypeOK
  <2>4. PICK z \in Nat, v \in Nat : z = Len(toRunList') /\ v = Len(inFlight')
    BY <1>3, LenProperties
  <2>5. z + v = x + y - 1
    BY <1>3, <2>3, <2>4
  <2>6. Busy = h + x + y /\ Busy' = h + z + v
    BY <2>2, <2>3, <2>4
  <2> QED
    BY <2>5, <2>6
<1>5. PendingEnds' = PendingEnds \cup {Len(printed) + 1}
  BY <1>1, EmittedEnds
<1>6. ASSUME OneAtATime
      PROVE  OneAtATime'
  <2>1. Busy = 1 /\ Busy' = 0 /\ PendingEnds = {} /\ state = "PlayingEvents"
    BY <1>4, <1>6 DEF OneAtATime
  <2>2. PendingEnds' = {Len(printed) + 1}
    BY <1>5, <2>1
  <2> QED
    BY <1>1, <2>1, <2>2 DEF OneAtATime
<1> QED
  BY <1>1, <1>3, <1>6 DEF Settling, QueueTyped

LEMMA ReportIdle ==
    ASSUME TypeOK, QueueTyped, OutputInv, PrintReport, UNCHANGED guiVars
    PROVE  Settling
<1>1. /\ status' = status /\ shown' = shown /\ state' = state
      /\ UNCHANGED <<stdin, data, toRunList, inFlight>>
      /\ Emit("event") \/ Emit("log")
  BY DEF PrintReport, stdinVars, runVars, guiVars
<1>k. PICK kind \in Reports : kind # "end" /\ Emit(kind)
  BY <1>1 DEF Reports
<1>2. PendingEnds' = PendingEnds
  BY <1>1, <1>k, EmittedEnds
<1>3. Busy' = Busy /\ Busy \in Nat
  BY <1>1, BusyTyped DEF Busy, TypeOK
<1>4. OneAtATime => OneAtATime'
  BY <1>1, <1>2, <1>3, NoBusier
<1> QED
  BY <1>1, <1>4 DEF Settling, QueueTyped

LEMMA ErrorIdle ==
    ASSUME TypeOK, QueueTyped, OutputInv, OnScriptError, UNCHANGED guiVars
    PROVE  Settling
<1>1. /\ status' = status /\ shown' = shown /\ state' = state
      /\ UNCHANGED <<stdin, data>> /\ inFlight # <<>> /\ Emit("error")
      /\ AgentReadyToRunScript(agent, FALSE, toRunList, [inFlight EXCEPT ![1] = TRUE])
  BY DEF OnScriptError, stdinVars, guiVars
<1>k. PICK kind \in {"error"} : kind # "end" /\ Emit(kind)
  BY <1>1
<1>2. PendingEnds' = PendingEnds
  BY <1>1, <1>k, EmittedEnds
<1>f. PICK f \in Seq(BOOLEAN) : f = [inFlight EXCEPT ![1] = TRUE] /\ Len(f) = Len(inFlight)
  <2>1. inFlight \in Seq(BOOLEAN) /\ 1 \in 1..Len(inFlight)
    BY <1>1, LenProperties, EmptySeq DEF TypeOK, ProcessTypeOK
  <2> QED
    BY <2>1, ExceptSeq
<1>3. /\ toRunList' \in Seq(Seq(Pieces))
      /\ Len(toRunList') + Len(inFlight') = Len(toRunList) + Len(inFlight)
      /\ inFlight' \in Seq(BOOLEAN)
  <2>1. AgentReadyToRunScript(agent, FALSE, toRunList, f)
    BY <1>1, <1>f
  <2>2. /\ toRunList' \in Seq(Seq(Pieces)) /\ inFlight' \in Seq(BOOLEAN)
        /\ Len(toRunList') + Len(inFlight') = Len(toRunList) + Len(f)
    BY <2>1, AgentMoves DEF QueueTyped
  <2> QED
    BY <1>f, <2>2
<1>4. Busy' = Busy /\ Busy \in Nat
  BY <1>1, <1>3, MovedOnly
<1>5. OneAtATime => OneAtATime'
  BY <1>1, <1>2, <1>4, NoBusier
<1> QED
  BY <1>1, <1>3, <1>5 DEF Settling, QueueTyped

LEMMA ConnectIdle ==
    ASSUME TypeOK, QueueTyped, AgentConnects, UNCHANGED guiVars
    PROVE  Settling
<1>1. /\ status' = status /\ UNCHANGED <<shown, printed, state, stdin, data>>
      /\ AgentReadyToRunScript(TRUE, scriptRunning, toRunList, inFlight)
  BY DEF AgentConnects, stdinVars, outVars, guiVars
<1>2. PendingEnds' = PendingEnds
  BY <1>1, SameEnds
<1>3. /\ toRunList' \in Seq(Seq(Pieces)) /\ inFlight' \in Seq(BOOLEAN)
      /\ Len(toRunList') + Len(inFlight') = Len(toRunList) + Len(inFlight)
  BY <1>1, AgentMoves DEF QueueTyped, TypeOK, ProcessTypeOK
<1>4. Busy' = Busy /\ Busy \in Nat
  BY <1>1, <1>3, MovedOnly
<1>5. OneAtATime => OneAtATime'
  BY <1>1, <1>2, <1>4, NoBusier
<1> QED
  BY <1>1, <1>3, <1>5 DEF Settling, QueueTyped

LEMMA FinishIdle ==
    ASSUME TypeOK, QueueTyped, UserAppFinished, UNCHANGED guiVars
    PROVE  Settling
<1>1. /\ status = "running" /\ UNCHANGED <<shown, printed, state, stdin, data, toRunList>>
      /\ inFlight' = <<>>
  BY DEF UserAppFinished, stdinVars, outVars, guiVars
<1>2. PendingEnds' = PendingEnds
  BY <1>1, SameEnds
<1>3. Busy' \in Nat /\ Busy \in Nat /\ Busy' <= Busy
  <2>1. PICK h \in Nat : h = (Len(data) + Len(stdin)) \div 2
    BY BusyTyped DEF TypeOK
  <2>2. Busy = h + Len(toRunList) + Len(inFlight) /\ Busy' = h + Len(toRunList) + 0
    BY <1>1, <2>1, EmptySeq DEF Busy
  <2> QED
    BY <2>2, BusyTyped DEF TypeOK
<1>4. OneAtATime => OneAtATime'
  BY <1>1, <1>2, <1>3, NoBusier
<1> QED
  BY <1>1, <1>4 DEF Settling, QueueTyped

LEMMA ProcessIdle ==
    ASSUME TypeOK, QueueTyped, OutputInv, InputInv, IdleInv, Process
    PROVE  QueueTyped' /\ IdleInv'
<1>1. ProcessStep /\ UNCHANGED guiVars
  BY DEF Process
<1>2. UNCHANGED <<driver, written>>
  BY <1>1 DEF ProcessStep, ProcessRuns, ReadStdin, ConnectDataReady, StdinDataReady,
     AgentConnects, OnScriptEnd, PrintReport, OnScriptError, UserAppFinished, ProcessEnds,
     stdinVars, guiVars
<1>3. CASE Settling
  <2>1. OfManyParts' = OfManyParts
    BY <1>2 DEF OfManyParts
  <2> QED
    BY <1>2, <1>3, <2>1 DEF Settling, IdleInv
<1>4. CASE ConnectDataReady
  <2>1. UNCHANGED <<status, stdin, data, toRunList, inFlight, shown, printed, state>>
    BY <1>1, <1>4 DEF ConnectDataReady, runVars, outVars, guiVars
  <2>2. Settling
    BY <2>1 DEF Settling, QueueTyped, OneAtATime, Busy, PendingEnds
  <2> QED
    BY <1>3, <2>2
<1>5. CASE ProcessEnds
  <2>1. status' # "running" /\ toRunList' = toRunList
    BY <1>5 DEF ProcessEnds, runVars
  <2> QED
    BY <2>1 DEF IdleInv, QueueTyped
<1>6. CASE ReadStdin
  BY <1>1, <1>3, <1>6, ReadIdle
<1>7. CASE StdinDataReady
  BY <1>1, <1>3, <1>7, ParsedIdle
<1>8. CASE AgentConnects
  BY <1>1, <1>3, <1>8, ConnectIdle
<1>9. CASE OnScriptEnd
  BY <1>1, <1>3, <1>9, EndIdle
<1>10. CASE PrintReport
  BY <1>1, <1>3, <1>10, ReportIdle
<1>11. CASE OnScriptError
  BY <1>1, <1>3, <1>11, ErrorIdle
<1>12. CASE UserAppFinished
  BY <1>1, <1>3, <1>12, FinishIdle
<1> QED
  BY <1>1, <1>4, <1>5, <1>6, <1>7, <1>8, <1>9, <1>10, <1>11, <1>12 DEF ProcessStep, ProcessRuns

\* A process without a past is busy with what is written to it at its start.
LEMMA FreshIdle ==
    ASSUME NEW s, NEW w, Fresh(s, w), shown' = <<>>
    PROVE  /\ QueueTyped' /\ PendingEnds' = {}
           /\ Busy' = IF w = <<>> THEN 0 ELSE 1
<1>1. /\ toRunList' = <<>> /\ inFlight' = <<>> /\ data' = <<>> /\ printed' = <<>>
      /\ stdin' = IF w = <<>> THEN <<>> ELSE <<1, 1>>
      /\ Len(<<>>) = 0 /\ Len(<<1, 1>>) = 2 /\ <<>> \in Seq(Seq(Pieces))
  BY EmptySeq DEF Fresh, Halves
<1>2. PendingEnds' = {}
  <2>1. 0 + 1..0 = {}
    OBVIOUS
  <2>2. Len(shown') = 0 /\ Len(printed') = 0
    BY <1>1
  <2> QED
    BY <2>1, <2>2 DEF PendingEnds
<1>3. CASE w = <<>>
  <2>1. (0 + 0) \div 2 = 0
    OBVIOUS
  <2> QED
    BY <1>1, <1>2, <1>3, <2>1 DEF Busy, QueueTyped
<1>4. CASE w # <<>>
  <2>1. (0 + 2) \div 2 = 1
    OBVIOUS
  <2> QED
    BY <1>1, <1>2, <1>4, <2>1 DEF Busy, QueueTyped
<1> QED
  BY <1>3, <1>4

LEMMA WriteIdle ==
    ASSUME TypeOK, QueueTyped, IdleInv, NEW text, ACommand(text, TRUE) \in Commands,
           Write(text, TRUE), state # "PlayingEvents", state' = "PlayingEvents",
           UNCHANGED <<driver, shown>>
    PROVE  QueueTyped' /\ IdleInv'
<1>1. /\ UNCHANGED <<data, status, toRunList, inFlight, printed>>
      /\ stdin' = stdin \o Halves(Len(written) + 1)
  BY DEF Write, runVars, outVars
<1>2. OfManyParts => OfManyParts'
  BY StillOfManyParts DEF TypeOK
<1>3. PendingEnds' = PendingEnds
  BY <1>1, SameEnds
<1>4. Busy' = Busy + 1 /\ Busy \in Nat
  <2>1. Len(written) + 1 \in Nat
    BY LenProperties DEF TypeOK, ProcessTypeOK
  <2>c. PICK c \in Nat : c = Len(written) + 1
    BY <2>1
  <2>h. PICK h \in Seq(Nat) : h = Halves(Len(written) + 1) /\ Len(h) = 2
    <3>1. Halves(c) \in Seq(Nat) /\ Len(Halves(c)) = 2
      BY DEF Halves
    <3> QED
      BY <2>c, <3>1
  <2>2. Len(stdin \o h) = Len(stdin) + Len(h)
    BY ConcatProperties DEF TypeOK, ProcessTypeOK
  <2>x. PICK x \in Nat, y \in Nat, z \in Nat, v \in Nat :
          x = Len(data) /\ y = Len(stdin) /\ z = Len(toRunList) /\ v = Len(inFlight)
    BY BusyTyped DEF TypeOK
  <2>3. Len(stdin') = y + 2
    BY <1>1, <2>h, <2>2, <2>x
  <2>4. Busy = ((x + y) \div 2) + z + v /\ Busy' = ((x + (y + 2)) \div 2) + z + v
    BY <1>1, <2>x, <2>3 DEF Busy
  <2> QED
    BY <2>4
<1>5. OneAtATime => OneAtATime'
  BY <1>3, <1>4 DEF OneAtATime
<1> QED
  BY <1>1, <1>2, <1>5 DEF IdleInv, QueueTyped

LEMMA SameIdle ==
    ASSUME QueueTyped, IdleInv, UNCHANGED <<processVars, driver, shown>>,
           state' = state \/ state' = "PlayingEvents"
                          \/ (state # "PlayingEvents" /\ state' = "RecordEvents")
    PROVE  QueueTyped' /\ IdleInv'
BY DEF QueueTyped, IdleInv, OneAtATime, OfManyParts, Busy, PendingEnds,
   processVars, stdinVars, runVars, outVars

LEMMA PressIdle ==
    ASSUME TypeOK, QueueTyped, IdleInv, PressRecord \/ PressRun
    PROVE  QueueTyped' /\ IdleInv'
<1>1. CASE NoBinary
  BY <1>1, SameIdle DEF NoBinary
<1>2. ASSUME NEW s, NewSession, Fresh(s, <<>>)
      PROVE  QueueTyped' /\ IdleInv'
  <2>1. QueueTyped' /\ PendingEnds' = {} /\ Busy' = 0
    BY <1>2, FreshIdle DEF NewSession
  <2> QED
    BY <2>1 DEF IdleInv, OneAtATime
<1>3. ASSUME NEW text \in Texts, RunScript(WithMode(text)), state' = "PlayingEvents",
             state # "PlayingEvents", UNCHANGED driver
      PROVE  QueueTyped' /\ IdleInv'
  <2>1. ACommand(WithMode(text), TRUE) \in Commands
    BY CommandsTyped DEF Commands
  <2>2. CASE Write(WithMode(text), TRUE) /\ UNCHANGED shown
    BY <1>3, <2>1, <2>2, WriteIdle
  <2>3. ASSUME NEW s, NewSession, Fresh(s, <<ACommand(WithMode(text), TRUE)>>)
        PROVE  QueueTyped' /\ IdleInv'
    <3>1. QueueTyped' /\ PendingEnds' = {} /\ Busy' \in {0, 1}
      BY <2>3, FreshIdle DEF NewSession
    <3> QED
      BY <1>3, <3>1 DEF IdleInv, OneAtATime
  <2> QED
    BY <1>3, <2>2, <2>3 DEF RunScript
<1>4. CASE PressRecord
  <2>1. CASE UNCHANGED <<processVars, shown>> /\ state' = "RecordEvents" /\ UNCHANGED driver
    BY <1>4, <2>1, SameIdle DEF PressRecord
  <2> QED
    BY <1>1, <1>2, <1>4, <2>1 DEF PressRecord
<1>5. CASE PressRun
  <2>1. CASE CannotSend /\ UNCHANGED <<driver, state>>
    BY <1>2, <2>1, SameIdle DEF CannotSend
  <2> QED
    BY <1>1, <1>3, <1>5, <2>1 DEF PressRun
<1> QED
  BY <1>4, <1>5

\* The one end that is pending lets the window go on.
LEMMA HandleIdle ==
    ASSUME TypeOK, QueueTyped, OutputInv, IdleInv, HandleOutput
    PROVE  QueueTyped' /\ IdleInv'
<1>0. UNCHANGED <<status, stdin, data, written, toRunList, inFlight, printed, driver>>
  BY DEF HandleOutput, stdinVars, runVars
<1>1. Busy' = Busy /\ Busy \in Nat /\ QueueTyped' /\ OfManyParts' = OfManyParts
  BY <1>0, BusyTyped DEF Busy, QueueTyped, OfManyParts, TypeOK
<1>k. PICK k \in DOMAIN stdout :
        /\ shown' = shown \o Whole(tail \o SubSeq(stdout, 1, k))
        /\ state' = IF \E i \in DOMAIN Whole(tail \o SubSeq(stdout, 1, k)) :
                          printed[Whole(tail \o SubSeq(stdout, 1, k))[i]] = "end"
                    THEN "DoNothing" ELSE state
  BY DEF HandleOutput, EndsPlaying
<1>w. PICK w \in Seq(Nat) : w = Whole(tail \o SubSeq(stdout, 1, k))
  <2>1. DOMAIN stdout = 1..Len(stdout) /\ k \in 0..Len(stdout)
    BY LenProperties DEF TypeOK, ProcessTypeOK
  <2>2. SubSeq(stdout, 1, k) \in Seq(Nat)
    BY <2>1, SeqFacts DEF TypeOK, ProcessTypeOK
  <2>3. tail \o SubSeq(stdout, 1, k) \in Seq(Nat)
    BY <2>2, ConcatProperties DEF TypeOK
  <2> QED
    BY <2>3, ElementsAreTyped
<1>s. PICK s \in Nat : s = Len(shown)
  BY LenProperties DEF TypeOK
<1>m. PICK m \in Nat : m = Len(w) /\ DOMAIN w = 1..m
  BY LenProperties
<1>2. Len(shown') = s + m /\ \A i \in 1..m : w[i] = s + i
  <2>1. OutputInv'
    BY HandlingKeepsOrder
  <2>2. shown' = shown \o w
    BY <1>k, <1>w
  <2>3. /\ Len(shown \o w) = s + m
        /\ \A i \in 1..s + m : (shown \o w)[i] = IF i <= s THEN shown[i] ELSE w[i - s]
    BY <1>s, <1>m, ConcatNats DEF TypeOK
  <2>4. \A i \in 1..s + m : shown'[i] = i
    BY <2>1, <2>2, <2>3 DEF OutputInv
  <2>5. ASSUME NEW i \in 1..m
        PROVE  w[i] = s + i
    <3>1. s + i \in 1..s + m /\ ~(s + i <= s) /\ s + i - s = i
      OBVIOUS
    <3>2. (shown \o w)[s + i] = w[s + i - s]
      BY <2>3, <3>1
    <3>3. shown'[s + i] = s + i
      BY <2>4, <3>1
    <3> QED
      BY <2>2, <3>1, <3>2, <3>3
  <2> QED
    BY <2>2, <2>3, <2>5
<1>p. PICK p \in Nat : p = Len(printed) /\ s + m <= p
  <2>1. OutputInv'
    BY HandlingKeepsOrder
  <2>2. Len(tail') \in Nat /\ Len(stdout') \in Nat /\ Len(printed) \in Nat
    BY HandleOutputTyped, LenProperties DEF TypeOK, ProcessTypeOK
  <2>3. Len(tail') + Len(stdout') = 2 * (Len(printed) - (s + m))
    BY <1>0, <1>2, <2>1 DEF OutputInv
  <2> QED
    BY <2>2, <2>3
<1>3. /\ PendingEnds = {i \in s + 1..p : printed[i] = "end"}
      /\ PendingEnds' = {i \in s + m + 1..p : printed[i] = "end"}
  BY <1>0, <1>2, <1>s, <1>p DEF PendingEnds
<1>4. PendingEnds' \subseteq PendingEnds
  <2>1. \A i \in s + m + 1..p : i \in s + 1..p
    OBVIOUS
  <2> QED
    BY <1>3, <2>1
<1>5. CASE \E i \in 1..m : printed[w[i]] = "end"
  <2>1. PICK i \in 1..m : printed[s + i] = "end"
    BY <1>2, <1>5
  <2>2. s + i \in PendingEnds
    BY <1>3, <1>p, <2>1
  <2>3. s + i \notin PendingEnds'
    BY <1>3
  <2>4. OneAtATime => OneAtATime'
    <3>1. OneAtATime => Busy = 0 /\ PendingEnds' = {}
      BY <1>4, <2>2, <2>3 DEF OneAtATime
    <3> QED
      BY <1>1, <3>1 DEF OneAtATime
  <2> QED
    BY <1>0, <1>1, <2>4 DEF IdleInv
<1>6. CASE ~ \E i \in 1..m : printed[w[i]] = "end"
  <2>1. state' = state
    BY <1>k, <1>w, <1>m, <1>6
  <2>2. OneAtATime => OneAtATime'
    BY <1>1, <1>4, <2>1, NoBusier
  <2> QED
    BY <1>0, <1>1, <2>2 DEF IdleInv
<1> QED
  BY <1>5, <1>6

LEMMA IdleStep ==
    ASSUME TypeOK, QueueTyped, OutputInv, InputInv, IdleInv, [Next]_vars
    PROVE  QueueTyped' /\ IdleInv'
<1>1. CASE Process
  BY <1>1, ProcessIdle
<1>2. CASE PressRecord \/ PressRun
  BY <1>2, PressIdle
<1>3. CASE PluginWrites
  BY <1>3 DEF PluginWrites, Write, runVars, guiVars, QueueTyped, IdleInv
<1>4. CASE HandleOutput
  BY <1>4, HandleIdle
<1>5. CASE Drop
  <2>1. status' = "none" /\ toRunList' = <<>> /\ <<>> \in Seq(Seq(Pieces))
    BY <1>5, EmptySeq DEF Drop, Fresh
  <2> QED
    BY <2>1 DEF IdleInv, QueueTyped
<1>6. CASE UNCHANGED <<processVars, driver, shown>> /\ state' \in {state, "PlayingEvents"}
  BY <1>6, SameIdle
<1>7. CASE MonkeyAppError \/ MonkeyAppFinished \/ CloseBox
  BY <1>5, <1>6, <1>7 DEF MonkeyAppError, MonkeyAppFinished, CloseBox
<1>8. CASE UNCHANGED vars
  BY <1>6, <1>8 DEF vars, guiVars
<1> QED
  BY <1>1, <1>2, <1>3, <1>4, <1>7, <1>8 DEF Next, WindowRuns

LEMMA InitIdle ==
    ASSUME Init
    PROVE  QueueTyped /\ IdleInv
<1>1. toRunList = <<>> /\ <<>> \in Seq(Seq(Pieces))
  BY EmptySeq DEF Init, ProcessInit
<1>2. ~(driver = "window" /\ status = "running")
  BY DEF Init, ProcessInit
<1> QED
  BY <1>1, <1>2 DEF QueueTyped, IdleInv

LEMMA IdleMeans ==
    ASSUME TypeOK, QueueTyped, InputInv, IdleInv
    PROVE  IdleMeansDone
<1>1. ASSUME Busy = 0
      PROVE  ~Outstanding
  <2>x. PICK x \in Nat, y \in Nat, z \in Nat, v \in Nat :
          x = Len(data) /\ y = Len(stdin) /\ z = Len(toRunList) /\ v = Len(inFlight)
    BY BusyTyped DEF TypeOK
  <2>n. PICK n \in Nat : n = Len(written)
    BY LenProperties DEF TypeOK, ProcessTypeOK
  <2>1. PICK done \in 0..n : x + y = 2 * (n - done)
    BY <2>n, <2>x DEF InputInv, InputAt, HalvesInv
  <2>2. ((x + y) \div 2) + z + v = 0
    BY <1>1, <2>x DEF Busy
  <2>3. x = 0 /\ y = 0 /\ z = 0 /\ v = 0
    BY <2>1, <2>2
  <2>4. data = <<>> /\ stdin = <<>> /\ toRunList = <<>> /\ inFlight = <<>>
    BY <2>x, <2>3, EmptySeq DEF TypeOK, ProcessTypeOK, QueueTyped
  <2> QED
    BY <2>4 DEF Outstanding
<1> QED
  BY <1>1 DEF IdleInv, OneAtATime, IdleMeansDone

-----------------------------------------------------------------------------
(* The whole invariant *)

Inv == TypeOK /\ OutputInv /\ BoxFits /\ QueueTyped /\ InputInv /\ IdleInv

LEMMA InitInv ==
    ASSUME Init
    PROVE  Inv
<1>1. TypeOK
  <2>1. \A S : <<>> \in Seq(S)
    BY EmptySeq
  <2>2. ProcessTypeOK
    BY <2>1 DEF Init, ProcessInit, ProcessTypeOK
  <2> QED
    BY <2>1, <2>2, DriversAssumption DEF Init, TypeOK, Boxes
<1>2. OutputInv
  BY EmptySeq DEF Init, ProcessInit, OutputInv
<1>3. BoxFits
  BY DEF Init, BoxFits
<1> QED
  BY <1>1, <1>2, <1>3, InitInput, InitIdle DEF Inv

LEMMA InvStep ==
    ASSUME Inv, [Next]_vars
    PROVE  Inv'
BY TypeStep, OutputStep, BoxStep, InputStep, IdleStep DEF Inv

\* The invariant of the whole development holds of every behaviour.
THEOREM Invariance == Spec => []Inv
<1>1. Init => Inv
  BY InitInv
<1>2. Inv /\ [Next]_vars => Inv'
  BY InvStep
<1> QED
  BY <1>1, <1>2, PTL DEF Spec

\* Every variable of the window and of its qtmonkey_app has its type.
THEOREM TypeCorrect == Spec => []TypeOK
<1>1. Inv => TypeOK
  BY DEF Inv
<1> QED
  BY <1>1, Invariance, PTL

\* monkeyAppNewOutput and parseOutputFromMonkeyApp handle each element that
\* qtmonkey_app printed once and in order, and all of them before the
\* controller is ended, wherever the pipe cuts them.
THEOREM OutputInOrder == Spec => []ShownInOrder
<1>1. ASSUME Inv
      PROVE  ShownInOrder
  <2>1. /\ Len(tail) \in Nat /\ Len(stdout) \in Nat
        /\ Len(printed) \in Nat /\ Len(shown) \in Nat
    BY <1>1, LenProperties DEF Inv, TypeOK, ProcessTypeOK
  <2>2. Len(tail) <= 1 /\ Len(tail) + Len(stdout) = 2 * (Len(printed) - Len(shown))
    BY <1>1 DEF Inv, OutputInv
  <2>3. Len(shown) <= Len(printed)
    BY <2>1, <2>2
  <2>4. \A i \in DOMAIN shown : shown[i] = i
    BY <1>1, LenProperties DEF Inv, OutputInv, TypeOK
  <2>5. ASSUME stdout = <<>>
        PROVE  Len(shown) = Len(printed)
    <3>1. Len(stdout) = 0
      BY <2>5, EmptySeq
    <3> QED
      BY <2>1, <2>2, <3>1
  <2> QED
    BY <2>3, <2>4, <2>5 DEF ShownInOrder
<1> QED
  BY <1>1, Invariance, PTL

\* error() and finished() of QProcess, which onMonkeyAppFinishedSignal answers
\* alike, end a controller only when its own process is over.
THEOREM OwnFinishOnly == Spec => NoStrayFinish
<1>1. ASSUME Inv, [Next]_vars
      PROVE  [ctrl /\ ~ctrl' => status \in Over]_vars
  <2>1. ASSUME ctrl, ~ctrl', MonkeyAppFinished
        PROVE  status \in Over
    BY <2>1 DEF MonkeyAppFinished, Over
  <2>2. ASSUME ctrl, ~ctrl', CloseBox
        PROVE  status \in Over
    BY <1>1, <2>2 DEF CloseBox, Inv, BoxFits, Over
  <2>3. CASE PressRecord \/ PressRun
    BY <2>3 DEF PressRecord, PressRun, NoBinary, RunScript, CannotSend, NewSession
  <2>4. CASE Process \/ PluginWrites \/ HandleOutput \/ MonkeyAppError \/ UNCHANGED vars
    BY <2>4 DEF Process, PluginWrites, HandleOutput, MonkeyAppError, guiVars, vars
  <2> QED
    BY <1>1, <2>1, <2>2, <2>3, <2>4 DEF Next, WindowRuns
<1> QED
  BY <1>1, Invariance, PTL DEF Spec, NoStrayFinish

\* stdinDataReady puts the parts of every command that was written into
\* toRunList_, in order, once and whole, wherever the pipe cut the text; what
\* it leaves out came behind a command that was not understood, and what is
\* not there yet is on its way.
THEOREM CommandsTaken == Spec => []TakenInOrder
<1>1. Inv => TakenInOrder
  BY InputMeans DEF Inv, TypeOK
<1> QED
  BY <1>1, Invariance, PTL

\* The window does not offer to record or to run before the script that was
\* run last is over (onMonkeyScriptEnd), unless a script has many parts.
THEOREM WaitsForTheEnd == Spec => []IdleMeansDone
<1>1. Inv => IdleMeansDone
  BY IdleMeans DEF Inv
<1> QED
  BY <1>1, Invariance, PTL
=============================================================================
