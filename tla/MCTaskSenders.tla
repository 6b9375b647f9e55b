--------------------------- MODULE MCTaskSenders ---------------------------
(* An instance of ChimpTask for TLC with more tasks and handles than every *)
(* choice of a program could be tried with.  Main spawns Receiver and then *)
(* the Senders, to which it gives its handle of Receiver, and from then on *)
(* Main and Senders send plain messages to Receiver, or join it, as often  *)
(* as they like.  Receiver goes on receiving, ends or fails; Senders may   *)
(* end as well.                                                            *)
EXTENDS ChimpTask

CONSTANTS Receiver, Senders

Rivals(t) ==
  \/ t = Main /\ Spawn(t, Receiver)
  \/ t = Main /\ Receiver \in Handles(t) /\ \E s \in Senders : Spawn(t, s)
  \/ \E s \in Senders : arg[t] = s /\ SendPack(t, s, Receiver)
  \/ t # Receiver /\ SendPack(t, Receiver, None)
  \/ t # Receiver /\ Join(t, Receiver)
  \/ t = Receiver /\ (Recv(t) \/ Fail(t))
  \/ Finish(t)

NextRivals ==
  \E t \in Tasks : \/ Rivals(t)
                   \/ Step(t)
                   \/ \E u \in Tasks : SpuriousWakeup(t, u)

SpecRivals == Init /\ [][NextRivals]_vars /\ Fairness
=============================================================================
