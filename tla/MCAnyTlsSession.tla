-------------------------- MODULE MCAnyTlsSession --------------------------
(* Small instances of AnyTlsSession for TLC. *)
EXTENDS AnyTlsSession, TLC

CONSTANTS
    ClientCmds,   \* commands of the frames the client chooses from
    FirstCmds,    \* commands of the frame that may follow authentication at once
    PeerVersions  \* versions the client may announce

(* Each stream-level command on each id; session-level ones on one id, and a version   *)
(* only where one is announced.                                                        *)
AnyId == CHOOSE i \in StreamIds : TRUE
PerStream == {"Syn", "Psh", "Fin"}
Announcing == {"Settings", "SettingsPad"}
SessionFrames(cmds) ==
    {[cmd |-> c, id |-> AnyId, arg |-> v] : c \in cmds \cap Announcing, v \in PeerVersions}
    \cup {[cmd |-> c, id |-> AnyId, arg |-> 0] : c \in cmds \ Announcing}
MCClientFrames ==
    {[cmd |-> c, id |-> i, arg |-> 0] : c \in ClientCmds \cap PerStream, i \in StreamIds}
    \cup SessionFrames(ClientCmds \ PerStream)

(* Authentication read nothing ahead, or one frame, or all that a client sends at once  *)
(* to open its first stream.                                                            *)
FirstFrame(cmd) == [cmd |-> cmd, id |-> AnyId, arg |-> 1]
MCInitialData ==
    (IF FirstCmds = {} THEN {<<>>} ELSE {<<f>> : f \in SessionFrames(FirstCmds \ {"Syn"})})
    \cup (IF "Syn" \in FirstCmds
           THEN {<<f, FirstFrame("Syn"), FirstFrame("Psh")>> : f \in SessionFrames({"Settings"})}
           ELSE {})

TaskSymmetry == Permutations(Tasks)
=============================================================================
