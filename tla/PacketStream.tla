---------------------------- MODULE PacketStream ----------------------------
(***************************************************************************)
(* agent_qtmonkey_communication.cpp: how packets become a stream of bytes  *)
(* and packets again, in one direction of the connection, either of them.  *)
(*                                                                         *)
(* A number stands for each field of four bytes of a header and for each   *)
(* piece of a text: a field that has come in by half tests like one that   *)
(* has not come in.  All bytes of a session are in "stream"; the buffers   *)
(* that they pass through are intervals of it, which end at the cursors:   *)
(*                                                                         *)
(*    1 .. taken   | .. read  | .. arrived   | .. written | .. Len(stream) *)
(*    parsed       | recvBuf_ | the reader's | the        | sendBuf_       *)
(*                 |          | QTcpSocket   | connection |                *)
(*                                                                         *)
(* The agent runs a script inside its slot of readyRead, and the script    *)
(* polls the event loop.  A poll moves bytes into the socket, but Qt does  *)
(* not emit readyRead while its slot runs: these bytes are announced only  *)
(* when more come after the slot is over.                                  *)
(* The operators named ...Bug are mistakes the code does not make.         *)
(***************************************************************************)
EXTENDS Naturals, Sequences

CONSTANTS
    Magic,      \* magicNumber
    Types,      \* PacketTypeForMonkey, or PacketTypeForAgent
    RunScript,  \* the types of those that the agent runs a script for
    Chars,      \* pieces of texts
    MaxText,    \* bound: the longest text
    Limit,      \* the longest text calcPacketState accepts (1024 * 1024)
    MaxPackets  \* bound: packets sent in a session

ASSUME CellsAssumption == Magic \in Nat /\ Types \subseteq Nat /\ Chars \subseteq Nat
ASSUME SizesAssumption == MaxText \in Nat /\ Limit \in Nat /\ MaxPackets \in Nat

VARIABLES
    reader,     \* "monkey" or "agent", never changed
    stream,     \* the bytes of this session
    written,    \* how many of them the sender's socket took
    arrived,    \* how many of them have come into the reader's socket
    read,       \* how many of them the reader took from its socket
    taken,      \* how many of them have left recvBuf_
    slot,       \* of readyRead: "idle", in its "loop", or in a "script"
    dead,       \* qFatal was called
    damaged,    \* history: was a packet found to be damaged in this session?
    sent,       \* history: the packets of this session
    received    \* history: the packets the reader has extracted

vars == <<reader, stream, written, arrived, read, taken, slot, dead, damaged, sent, received>>

Texts   == UNION {[1..n -> Chars] : n \in 0..MaxText}
Packets == [type : Types, text : Texts]

TypeOK ==
    /\ reader \in {"monkey", "agent"}
    /\ stream \in Seq(Nat)
    /\ written \in 0..Len(stream)
    /\ arrived \in 0..written
    /\ read \in 0..arrived
    /\ taken \in 0..read
    /\ slot \in {"idle", "loop", "script"}
    /\ dead \in BOOLEAN
    /\ damaged \in BOOLEAN
    /\ sent \in Seq(Packets)
    /\ received \in Seq([type : Nat, text : Seq(Nat)])

Init ==
    /\ reader \in {"monkey", "agent"}
    /\ stream = <<>>
    /\ written = 0
    /\ arrived = 0
    /\ read = 0
    /\ taken = 0
    /\ slot = "idle"
    /\ dead = FALSE
    /\ damaged = FALSE
    /\ sent = <<>>
    /\ received = <<>>

HeaderSize == 3

\* Mistake: the length counts a byte more.
CreatePacketBug(p) == <<Magic, p.type, Len(p.text) + 1>> \o p.text

CreatePacket(p) == <<Magic, p.type, Len(p.text)>> \o p.text

-----------------------------------------------------------------------------
(* calcPacketState of the bytes in recvBuf_, the i-th of which is Buf(i) *)

BufSize == read - taken
Buf(i)  == stream[taken + i]

\* Mistake: the longest text that is allowed is refused.
LimitBug ==
    \/ BufSize >= 1 /\ Buf(1) # Magic
    \/ BufSize >= HeaderSize /\ Buf(HeaderSize) >= Limit

Damaged ==
    \/ BufSize >= 1 /\ Buf(1) # Magic
    \/ BufSize >= HeaderSize /\ Buf(HeaderSize) > Limit

\* Mistake: the bytes of the text are not waited for.
ReadyBug == ~Damaged /\ BufSize >= HeaderSize

Ready ==
    /\ ~Damaged
    /\ BufSize >= HeaderSize
    /\ BufSize >= HeaderSize + Buf(HeaderSize)

\* extractFromPacket
Extracted ==
    [type |-> Buf(2),
     text |-> [i \in 1..Buf(HeaderSize) |-> Buf(HeaderSize + i)]]

-----------------------------------------------------------------------------

\* sendCommand appends to sendBuf_, whatever the length of the text.
SendCommand ==
    /\ Len(sent) < MaxPackets
    /\ \E p \in Packets :
         /\ sent' = Append(sent, p)
         /\ stream' = stream \o CreatePacket(p)
    /\ UNCHANGED <<reader, written, arrived, read, taken, slot, dead, damaged, received>>

\* Mistake: what the socket did not take is removed from sendBuf_ too.
WriteBug ==
    /\ written' \in written + 1..Len(stream)
    /\ stream' = SubSeq(stream, 1, written')
    /\ UNCHANGED <<reader, arrived, read, taken, slot, dead, damaged, sent, received>>

\* flushSendData, sendData: the socket may take a part of sendBuf_ only.
Write ==
    /\ written' \in written + 1..Len(stream)
    /\ UNCHANGED <<reader, stream, arrived, read, taken, slot, dead, damaged, sent, received>>

\* More bytes come: the slot of readyRead takes all that the socket has.
ReadyRead ==
    /\ ~dead /\ slot = "idle"
    /\ arrived' \in arrived + 1..written
    /\ read' = arrived'
    /\ slot' = "loop"
    /\ UNCHANGED <<reader, stream, written, taken, dead, damaged, sent, received>>

\* Mistake: the length field is not taken into account.
ExtractBug ==
    /\ slot = "loop" /\ Ready
    /\ received' = Append(received, Extracted)
    /\ taken' = taken + HeaderSize
    /\ UNCHANGED <<reader, stream, written, arrived, read, slot, dead, damaged, sent>>

\* The loop of the slot, by the state of the packet at the head of recvBuf_
Extract ==
    /\ slot = "loop" /\ Ready
    /\ received' = Append(received, Extracted)
    /\ taken' = taken + HeaderSize + Buf(HeaderSize)
    /\ slot' = IF reader = "agent" /\ Extracted.type \in RunScript THEN "script" ELSE "loop"
    /\ UNCHANGED <<reader, stream, written, arrived, read, dead, damaged, sent>>

\* The script polls the event loop: external, the rule of QAbstractSocket that
\* readyRead is not emitted recursively
Poll ==
    /\ slot = "script"
    /\ arrived' \in arrived + 1..written
    /\ UNCHANGED <<reader, stream, written, read, taken, slot, dead, damaged, sent, received>>

\* The signal runScript returns.
ScriptOver ==
    /\ slot = "script"
    /\ slot' = "loop"
    /\ UNCHANGED <<reader, stream, written, arrived, read, taken, dead, damaged, sent, received>>

NotReady ==
    /\ slot = "loop" /\ ~Damaged /\ ~Ready
    /\ slot' = "idle"
    /\ UNCHANGED <<reader, stream, written, arrived, read, taken, dead, damaged, sent, received>>

\* The monkey drops all that it has and goes on with the bytes to come.
DamagedOnMonkey ==
    /\ reader = "monkey"
    /\ slot = "loop" /\ Damaged
    /\ damaged' = TRUE
    /\ taken' = read
    /\ slot' = "idle"
    /\ UNCHANGED <<reader, stream, written, arrived, read, dead, sent, received>>

\* The agent emits error, which ends in qFatal.
DamagedOnAgent ==
    /\ reader = "agent"
    /\ slot = "loop" /\ Damaged
    /\ damaged' = TRUE
    /\ dead' = TRUE
    /\ slot' = "idle"
    /\ UNCHANGED <<reader, stream, written, arrived, read, taken, sent, received>>

\* The slot of clientDisconnected runs in the monkey's event loop; the process
\* of the agent may end at any time.
MayEnd == slot = "idle" \/ reader = "agent"

\* Mistake: recvBuf_ is kept for the next connection.
DisconnectedBug ==
    /\ MayEnd
    /\ stream' = SubSeq(stream, taken + 1, read)
    /\ written' = read - taken
    /\ arrived' = read - taken
    /\ read' = read - taken
    /\ taken' = 0
    /\ slot' = "idle"
    /\ dead' = FALSE
    /\ damaged' = FALSE
    /\ sent' = <<>>
    /\ received' = <<>>
    /\ UNCHANGED reader

\* clientDisconnected clears the monkey's buffers; at the other end a new
\* process begins with empty ones.
Disconnected ==
    /\ MayEnd
    /\ stream' = <<>>
    /\ written' = 0
    /\ arrived' = 0
    /\ read' = 0
    /\ taken' = 0
    /\ slot' = "idle"
    /\ dead' = FALSE
    /\ damaged' = FALSE
    /\ sent' = <<>>
    /\ received' = <<>>
    /\ UNCHANGED reader

Reader == ReadyRead \/ Extract \/ NotReady \/ DamagedOnMonkey \/ DamagedOnAgent

Next == SendCommand \/ Write \/ Reader \/ Poll \/ ScriptOver \/ Disconnected

Spec == Init /\ [][Next]_vars

\* The timer, or bytesWritten, flushes sendBuf_; the event loop emits
\* readyRead for bytes that come in while its slot does not run, and the slot
\* goes on as long as no script runs in it.  Nothing is assumed of scripts:
\* they may poll or not, and never be over.
FairSpec == Spec /\ WF_vars(Write) /\ WF_vars(Reader)

-----------------------------------------------------------------------------

\* As long as nothing was found damaged, the reader has extracted the packets
\* in the order in which they were sent, whatever pieces they came in.
ReceivedIsPrefix ==
    ~damaged =>
        /\ Len(received) <= Len(sent)
        /\ \A i \in 1..Len(received) : received[i] = sent[i]

\* The agent, which does not survive a damaged packet, reads its direction as
\* PacketChannel says.  (The monkey does too, up to a damaged packet.)
Channel == INSTANCE PacketChannel WITH
    sent     <- IF reader = "agent" THEN sent ELSE <<>>,
    received <- IF reader = "agent" THEN received ELSE <<>>
ChannelSpec == Channel!Spec

IsTooLong(p) == Len(p.text) > Limit

\* A packet is found damaged only on account of one that is too long, though
\* createPacket does not look at the length.
DamagedMeansTooLong == damaged => \E i \in 1..Len(sent) : IsTooLong(sent[i])

\* Is the magic number in the packet, but for its beginning?
HasMagic(p) ==
    \/ Magic \in {p.type, Len(p.text)}
    \/ \E i \in 1..Len(p.text) : p.text[i] = Magic

\* After a damaged packet the monkey may miss packets, but it neither makes
\* one up nor repeats one, if the magic number is nowhere but at the beginning
\* of packets.
NothingMadeUp ==
    \/ \E i \in 1..Len(sent) : HasMagic(sent[i])
    \/ \E f \in [1..Len(received) -> 1..Len(sent)] :
         /\ \A i \in 1..Len(received) : received[i] = sent[f[i]]
         /\ \A i, j \in 1..Len(received) : i < j => f[i] < f[j]

\* Bytes have come in that the agent has not read: they came while a script
\* polled the event loop, and nobody looks at them before more come.
Unannounced == reader = "agent" /\ slot = "idle" /\ read < arrived

\* A packet that was sent is received, in whatever pieces it is written and
\* read, unless the session ends, a packet was too long, or one of two things
\* is so for ever: it has come in unannounced and nothing more comes, or the
\* agent runs a script.  (readDataFromClientSocket; readCommands and
\* the polls of the scripts that it runs.)
EachIsReceived ==
    \A n \in 1..MaxPackets :
        Len(sent) >= n ~> \/ Len(received) >= n
                         \/ Len(sent) < n \/ damaged
                         \/ []Unannounced \/ [](slot = "script")
=============================================================================
