-------------------------------- MODULE Wire --------------------------------
(***************************************************************************)
(* What qtmonkey_app and the agent inside the user's application share:    *)
(* the user application as a process, and the localhost TCP connection.    *)
(* The kernel keeps the two directions as FIFO streams of whole packets;   *)
(* how packets are cut into bytes is the subject of another module.        *)
(***************************************************************************)
EXTENDS Naturals, Sequences

VARIABLES
    app,        \* "alive", or how the user application's process ended
    link,       \* the TCP connection: "none", "pending" (made by the agent,
                \* not yet accepted by the monkey) or "accepted"
    toAgent,    \* packets written by the monkey and not read by the agent
    toMonkey    \* packets written by the agent and not read by the monkey

wireVars == <<app, link, toAgent, toMonkey>>

PacketTypeForAgent  == {"RunScript", "SetScriptFileName", "CloseAck"}
PacketTypeForMonkey == {"NewUserAppEvent", "ScriptError", "ScriptEnd",
                        "ScriptLog", "Close"}

\* "id" is the script a packet is about: its code, its file name, or the
\* script that reports.  0 stands for no script.
AgentPacket  == [type : PacketTypeForAgent,  id : Nat]
MonkeyPacket == [type : PacketTypeForMonkey, id : Nat]

Packet(type, id) == [type |-> type, id |-> id]

\* exitCode = 0, exitCode # 0, and QProcess::Crashed / FailedToStart
AppState == {"alive", "ok", "error", "crash"}

WireTypeOK ==
    /\ app \in AppState
    /\ link \in {"none", "pending", "accepted"}
    /\ toAgent \in Seq(AgentPacket)
    /\ toMonkey \in Seq(MonkeyPacket)

\* CommunicationMonkeyPart::isConnectedState
IsConnected == link = "accepted"

WireInit ==
    /\ app = "alive"
    /\ link = "none"
    /\ toAgent = <<>>
    /\ toMonkey = <<>>
=============================================================================
