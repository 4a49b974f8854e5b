--------------------------- MODULE PacketChannel ---------------------------
(***************************************************************************)
(* What one direction of a connection promises: the packets of a session   *)
(* are received in the order in which they were sent, none twice and none  *)
(* changed.  The session may end at any time, and what is not received by  *)
(* then is lost.                                                           *)
(***************************************************************************)
EXTENDS Naturals, Sequences

CONSTANT Packets

VARIABLES
    sent,       \* the packets sent in this session
    received    \* the packets received in this session

channelVars == <<sent, received>>

Init == sent = <<>> /\ received = <<>>

Send ==
    /\ \E p \in Packets : sent' = Append(sent, p)
    /\ UNCHANGED received

Receive ==
    /\ Len(received) < Len(sent)
    /\ received' = Append(received, sent[Len(received) + 1])
    /\ UNCHANGED sent

EndSession ==
    /\ sent' = <<>>
    /\ received' = <<>>

Next == Send \/ Receive \/ EndSession

Spec == Init /\ [][Next]_channelVars
=============================================================================
