----------------------------- MODULE MCHysteria2 -----------------------------
(* UDP of a Hysteria2 connection in both directions: the task that forwards the         *)
(* client's datagrams, and the split of one session's replies.  They meet only in the  *)
(* tokens and the connection, which Hysteria2Udp has, so a behaviour is one of one.     *)
EXTENDS MCHysteria2Udp, Hysteria2Reply

VARIABLE direction

bothVars == <<direction, vars, replyVars>>

Forwarding(A) == direction = "forward" /\ A /\ UNCHANGED <<direction, replyVars>>
Replying(A) == direction = "reply" /\ A /\ UNCHANGED <<direction, vars>>

BothInit == direction \in {"forward", "reply"} /\ Init /\ ReplyInit
BothNext == Forwarding(Next) \/ Replying(ReplyNext)

(* What FairSpec of Hysteria2Udp assumes. *)
BothSpec ==
    /\ BothInit /\ [][BothNext]_bothVars /\ WF_bothVars(Forwarding(ForwardStep))
    /\ \A i \in 1 .. MaxDatagrams :
          WF_bothVars(Forwarding(i \in DOMAIN loops /\ LoopEnds(i)))
=============================================================================
