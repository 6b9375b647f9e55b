------------------------------ MODULE ChimpTask ------------------------------
(***************************************************************************)
(* The task runtime of libchimp/task.c after a task is READY: handles and  *)
(* their reference counts, the one-slot inbox with its condition variable, *)
(* send, recv, join, the end of a task and the release of its internals,   *)
(* together with the task cells of libchimp/msg.c that carry a handle from *)
(* one heap to another.                                                    *)
(*                                                                         *)
(* Every routine modelled here takes task->lock, so a critical section is  *)
(* one step, guarded by the lock being free; pthread_cond_wait ends the    *)
(* step with the thread in the wait set.  The one path that returns with   *)
(* the lock still held (chimp_task_send to a DONE task) leaves it held     *)
(* here.  The creation handshake, which does not respect the lock, is      *)
(* taken apart in ChimpSpawn; here it is a single step.                    *)
(***************************************************************************)
EXTENDS Naturals, FiniteSets

CONSTANTS
  Tasks,    \* the ChimpTaskInternal structures, each with its own thread
  Main,     \* the task of the process' first thread
  Slots,    \* objects of class task a heap can hold at once (a bound)
  MaxRefs,  \* bound on a reference count: leaked references add up forever
  None      \* no task

(* Where a counted reference to a task can live, besides the handles of    *)
(* class task in a heap: the task's own local handle, the extra reference  *)
(* its thread takes, the message a thread is packing or unpacking, and the *)
(* message in an inbox.                                                    *)
OwnPlaces == {"self", "thread", "hand", "inbox"}
Places == Slots \cup OwnPlaces

ASSUME TaskAssumption ==
  /\ Main \in Tasks
  /\ None \notin Tasks
  /\ IsFiniteSet(Tasks)
  /\ IsFiniteSet(Slots)
  /\ Slots \cap OwnPlaces = {}
  /\ MaxRefs \in Nat

VARIABLES
  pc,       \* what the thread of each task is doing
  arg,      \* the task a send, join or spawn of the thread is about
  holds,    \* holds[t][p]: the task referenced from place p of task t
  inbox,    \* the sender of the message in task->inbox, None for NULL
  full,     \* CHIMP_TASK_FLAG_INBOX_FULL
  done,     \* CHIMP_TASK_FLAG_DONE
  lock,     \* the thread left holding task->lock between steps
  waiting,  \* the threads in pthread_cond_wait on task->flags_cond
  refs,     \* task->refs
  freed     \* the tasks chimp_task_cleanup has released

vars == <<pc, arg, holds, inbox, full, done, lock, waiting, refs, freed>>

PCs == {"unborn", "idle", "spawned", "sending", "sendwait", "recvwait",
        "unpack", "unref", "joinwait", "gcdelete", "ended", "failed"}

TypeOK ==
  /\ pc \in [Tasks -> PCs]
  /\ arg \in [Tasks -> Tasks \cup {None}]
  /\ holds \in [Tasks -> [Places -> Tasks \cup {None}]]
  /\ inbox \in [Tasks -> Tasks \cup {None}]
  /\ full \in [Tasks -> BOOLEAN]
  /\ done \in [Tasks -> BOOLEAN]
  /\ lock \in [Tasks -> Tasks \cup {None}]
  /\ waiting \in [Tasks -> SUBSET Tasks]
  /\ refs \in [Tasks -> Nat]
  /\ freed \subseteq Tasks

Init ==
  /\ pc = [t \in Tasks |-> IF t = Main THEN "idle" ELSE "unborn"]
  /\ arg = [t \in Tasks |-> None]
  /\ holds = [t \in Tasks |-> [p \in Places |->
                IF t = Main /\ p = "self" THEN Main ELSE None]]
  /\ inbox = [t \in Tasks |-> None]
  /\ full = [t \in Tasks |-> FALSE]
  /\ done = [t \in Tasks |-> FALSE]
  /\ lock = [t \in Tasks |-> None]
  /\ waiting = [t \in Tasks |-> {}]
  /\ refs = [t \in Tasks |-> IF t = Main THEN 1 ELSE 0]
  /\ freed = {}

-----------------------------------------------------------------------------
(* Helpers.                                                                *)

Handles(t) == {holds[t][s] : s \in Slots} \ {None}
FreeSlots(t) == {s \in Slots : holds[t][s] = None}
FreeSlot(t) == CHOOSE s \in Slots : holds[t][s] = None

(* pthread_cond_broadcast wakes every waiter; each then competes for the   *)
(* lock and looks at the flags again.                                      *)
Signal(u) ==  \* mutant: only one of them is woken
  waiting' \in {[waiting EXCEPT ![u] = @ \ {t}] : t \in waiting[u]}
                 \cup {w \in {waiting} : w[u] = {}}

Broadcast(u) == waiting' = [waiting EXCEPT ![u] = {}]

CondWait(t, u) == waiting' = [waiting EXCEPT ![u] = @ \cup {t}]

Runnable(t, u) == t \notin waiting[u] /\ lock[u] = None

Ref(u) == refs' = [refs EXCEPT ![u] = @ + 1]

(* chimp_task_unref(u) for the reference at place p of task t: the last    *)
(* one cleans up, and frees a message still in the inbox without releasing *)
(* the reference its task cell holds.                                      *)
UnrefTwice(t, p) ==  \* mutant: the reference is released two times over
  LET u == holds[t][p]
      last == refs[u] = 1
  IN /\ lock[u] = None
     /\ refs' = [refs EXCEPT ![u] = IF @ > 0 THEN @ - 2 ELSE @]
     /\ freed' = IF last THEN freed \cup {u} ELSE freed
     /\ inbox' = IF last THEN [inbox EXCEPT ![u] = None] ELSE inbox
     /\ holds' = IF last THEN [holds EXCEPT ![t][p] = None, ![u]["inbox"] = None]
                         ELSE [holds EXCEPT ![t][p] = None]

Unref(t, p) ==
  LET u == holds[t][p]
      last == refs[u] = 1
  IN /\ lock[u] = None
     /\ refs' = [refs EXCEPT ![u] = IF @ > 0 THEN @ - 1 ELSE @]
     /\ freed' = IF last THEN freed \cup {u} ELSE freed
     /\ inbox' = IF last THEN [inbox EXCEPT ![u] = None] ELSE inbox
     /\ holds' = IF last THEN [holds EXCEPT ![t][p] = None, ![u]["inbox"] = None]
                         ELSE [holds EXCEPT ![t][p] = None]
-----------------------------------------------------------------------------
(* Creation.  The new task has a reference of its creator's handle, one of *)
(* its local handle and one of its thread, which starts out in recv for    *)
(* its arguments; the creator goes on to send them.                        *)
SpawnUncounted(p, c) ==  \* mutant: no extra reference for the thread
  /\ pc[p] = "idle"
  /\ pc[c] = "unborn"
  /\ FreeSlots(p) # {}
  /\ pc' = [pc EXCEPT ![p] = "spawned", ![c] = "recvwait"]
  /\ arg' = [arg EXCEPT ![p] = c]
  /\ holds' = [holds EXCEPT ![p][FreeSlot(p)] = c, ![c]["self"] = c,
                            ![c]["thread"] = c]
  /\ refs' = [refs EXCEPT ![c] = 2]
  /\ UNCHANGED <<inbox, full, done, lock, waiting, freed>>

Spawn(p, c) ==
  /\ pc[p] = "idle"
  /\ pc[c] = "unborn"
  /\ FreeSlots(p) # {}
  /\ pc' = [pc EXCEPT ![p] = "spawned", ![c] = "recvwait"]
  /\ arg' = [arg EXCEPT ![p] = c]
  /\ holds' = [holds EXCEPT ![p][FreeSlot(p)] = c, ![c]["self"] = c,
                            ![c]["thread"] = c]
  /\ refs' = [refs EXCEPT ![c] = 3]
  /\ UNCHANGED <<inbox, full, done, lock, waiting, freed>>

(* chimp_task_send packs the value before it takes the lock; packing a     *)
(* task, possibly the sender's own local handle, takes a reference on it.  *)
SendPack(t, u, cell) ==
  /\ \/ pc[t] = "idle" /\ u \in Handles(t)
     \/ pc[t] = "spawned" /\ u = arg[t]
  /\ cell \in Handles(t) \cup {t, None}
  /\ \/ cell = None /\ UNCHANGED refs
     \/ cell # None /\ lock[cell] = None /\ refs[cell] < MaxRefs /\ Ref(cell)
  /\ pc' = [pc EXCEPT ![t] = "sending"]
  /\ arg' = [arg EXCEPT ![t] = u]
  /\ holds' = [holds EXCEPT ![t]["hand"] = cell]
  /\ UNCHANGED <<inbox, full, done, lock, waiting, freed>>

(* The recipient is DONE: the message is freed, its task cell's reference  *)
(* is not released, and the function returns without unlocking.            *)
SendToDead(t) ==
  LET u == arg[t] IN
  /\ pc[t] = "sending"
  /\ Runnable(t, u)
  /\ done[u]
  /\ lock' = [lock EXCEPT ![u] = t]
  /\ holds' = [holds EXCEPT ![t]["hand"] = None]
  /\ pc' = [pc EXCEPT ![t] = "idle"]
  /\ arg' = [arg EXCEPT ![t] = None]
  /\ UNCHANGED <<inbox, full, done, waiting, refs, freed>>

(* DONE is looked at once, on entry; the loop only looks at INBOX_FULL.    *)
MaySend(t) ==
  /\ pc[t] \in {"sending", "sendwait"}
  /\ Runnable(t, arg[t])
  /\ pc[t] = "sending" => ~done[arg[t]]

SendBlock(t) ==
  LET u == arg[t] IN
  /\ MaySend(t)
  /\ full[u]
  /\ CondWait(t, u)
  /\ pc' = [pc EXCEPT ![t] = "sendwait"]
  /\ UNCHANGED <<arg, holds, inbox, full, done, lock, refs, freed>>

SendDepositIf(t) ==  \* mutant: INBOX_FULL is not looked at again after a wait
  LET u == arg[t] IN
  /\ MaySend(t)
  /\ pc[t] = "sending" => ~full[u]
  /\ inbox' = [inbox EXCEPT ![u] = t]
  /\ full' = [full EXCEPT ![u] = TRUE]
  /\ holds' = [holds EXCEPT ![t]["hand"] = None,
                            ![u]["inbox"] = holds[t]["hand"]]
  /\ Broadcast(u)
  /\ pc' = [pc EXCEPT ![t] = "idle"]
  /\ arg' = [arg EXCEPT ![t] = None]
  /\ UNCHANGED <<done, lock, refs, freed>>

SendDepositQuiet(t) ==  \* mutant: no broadcast
  LET u == arg[t] IN
  /\ MaySend(t)
  /\ ~full[u]
  /\ inbox' = [inbox EXCEPT ![u] = t]
  /\ full' = [full EXCEPT ![u] = TRUE]
  /\ holds' = [holds EXCEPT ![t]["hand"] = None,
                            ![u]["inbox"] = holds[t]["hand"]]
  /\ pc' = [pc EXCEPT ![t] = "idle"]
  /\ arg' = [arg EXCEPT ![t] = None]
  /\ UNCHANGED <<done, lock, waiting, refs, freed>>

SendDeposit(t) ==
  LET u == arg[t] IN
  /\ MaySend(t)
  /\ ~full[u]
  /\ inbox' = [inbox EXCEPT ![u] = t]
  /\ full' = [full EXCEPT ![u] = TRUE]
  /\ holds' = [holds EXCEPT ![t]["hand"] = None,
                            ![u]["inbox"] = holds[t]["hand"]]
  /\ Broadcast(u)
  /\ pc' = [pc EXCEPT ![t] = "idle"]
  /\ arg' = [arg EXCEPT ![t] = None]
  /\ UNCHANGED <<done, lock, refs, freed>>
-----------------------------------------------------------------------------
(* chimp_task_recv, always on the thread's own local handle.  Its exits    *)
(* for a DONE task cannot be taken: only the thread itself sets DONE, when *)
(* it is past its last recv.                                               *)
Recv(t) ==
  /\ pc[t] = "idle"
  /\ pc' = [pc EXCEPT ![t] = "recvwait"]
  /\ UNCHANGED <<arg, holds, inbox, full, done, lock, waiting, refs, freed>>

RecvBlock(t) ==
  /\ pc[t] = "recvwait"
  /\ Runnable(t, t)
  /\ ~done[t] /\ ~full[t]
  /\ CondWait(t, t)
  /\ UNCHANGED <<pc, arg, holds, inbox, full, done, lock, refs, freed>>

RecvTake(t) ==
  /\ pc[t] = "recvwait"
  /\ Runnable(t, t)
  /\ ~done[t] /\ full[t]
  /\ inbox' = [inbox EXCEPT ![t] = None]
  /\ full' = [full EXCEPT ![t] = FALSE]
  /\ holds' = [holds EXCEPT ![t]["hand"] = holds[t]["inbox"],
                            ![t]["inbox"] = None]
  /\ Broadcast(t)
  /\ pc' = [pc EXCEPT ![t] =
              IF holds[t]["inbox"] = None THEN "idle" ELSE "unpack"]
  /\ UNCHANGED <<arg, done, lock, refs, freed>>

(* Decoding a task cell: chimp_task_new_from_internal makes a handle with  *)
(* a reference of its own, and only then is the cell's released.           *)
UnpackHandleUncounted(t) ==  \* mutant: the handle has no reference of its own
  LET u == holds[t]["hand"] IN
  /\ pc[t] = "unpack"
  /\ FreeSlots(t) # {}
  /\ lock[u] = None
  /\ holds' = [holds EXCEPT ![t][FreeSlot(t)] = u]
  /\ pc' = [pc EXCEPT ![t] = "unref"]
  /\ UNCHANGED <<arg, inbox, full, done, lock, waiting, refs, freed>>

UnpackHandle(t) ==
  LET u == holds[t]["hand"] IN
  /\ pc[t] = "unpack"
  /\ FreeSlots(t) # {}
  /\ lock[u] = None
  /\ Ref(u)
  /\ holds' = [holds EXCEPT ![t][FreeSlot(t)] = u]
  /\ pc' = [pc EXCEPT ![t] = "unref"]
  /\ UNCHANGED <<arg, inbox, full, done, lock, waiting, freed>>

UnpackUnref(t) ==
  /\ pc[t] = "unref"
  /\ Unref(t, "hand")
  /\ pc' = [pc EXCEPT ![t] = "idle"]
  /\ UNCHANGED <<arg, full, done, lock, waiting>>
-----------------------------------------------------------------------------
(* chimp_task_join on a handle, or on the task's own local handle.         *)
Join(t, u) ==
  /\ pc[t] = "idle"
  /\ u \in Handles(t) \cup {t}
  /\ pc' = [pc EXCEPT ![t] = "joinwait"]
  /\ arg' = [arg EXCEPT ![t] = u]
  /\ UNCHANGED <<holds, inbox, full, done, lock, waiting, refs, freed>>

JoinBlock(t) ==
  LET u == arg[t] IN
  /\ pc[t] = "joinwait"
  /\ Runnable(t, u)
  /\ u # Main /\ ~done[u]
  /\ CondWait(t, u)
  /\ UNCHANGED <<pc, arg, holds, inbox, full, done, lock, refs, freed>>

JoinReturn(t) ==
  LET u == arg[t] IN
  /\ pc[t] = "joinwait"
  /\ Runnable(t, u)
  /\ u = Main \/ done[u]
  /\ pc' = [pc EXCEPT ![t] = "idle"]
  /\ arg' = [arg EXCEPT ![t] = None]
  /\ UNCHANGED <<holds, inbox, full, done, lock, waiting, refs, freed>>

(* pthread_cond_wait may return without a broadcast.                       *)
SpuriousWakeup(t, u) ==
  /\ t \in waiting[u]
  /\ waiting' = [waiting EXCEPT ![u] = @ \ {t}]
  /\ UNCHANGED <<pc, arg, holds, inbox, full, done, lock, refs, freed>>
-----------------------------------------------------------------------------
(* A collection in t's heap finds a handle dead; its destructor unrefs.    *)
(* Collections run at allocations, so never while t is blocked; the handle *)
(* of a task being spawned is on the VM's stack and survives.              *)
CollectUnrooted(t, s) ==  \* mutant: a handle in use by spawn is not a root
  /\ pc[t] \in {"idle", "spawned", "unpack"}
  /\ holds[t][s] # None
  /\ Unref(t, s)
  /\ UNCHANGED <<pc, arg, full, done, lock, waiting>>

CollectHandle(t, s) ==
  /\ pc[t] \in {"idle", "spawned", "unpack"}
  /\ holds[t][s] # None
  /\ pc[t] = "spawned" => holds[t][s] # arg[t]
  /\ Unref(t, s)
  /\ UNCHANGED <<pc, arg, full, done, lock, waiting>>

(* The task's method returns: chimp_gc_delete destroys the heap, handle by *)
(* handle, the local one included.                                         *)
Finish(t) ==
  /\ t # Main
  /\ pc[t] = "idle"
  /\ pc' = [pc EXCEPT ![t] = "gcdelete"]
  /\ UNCHANGED <<arg, holds, inbox, full, done, lock, waiting, refs, freed>>

DestroyHandle(t, p) ==
  /\ pc[t] = "gcdelete"
  /\ holds[t][p] # None
  /\ Unref(t, p)
  /\ UNCHANGED <<pc, arg, full, done, lock, waiting>>

HeapIgnored(t) == TRUE  \* mutant: DONE is set before the heap is destroyed

HeapEmpty(t) == \A p \in Slots \cup {"self"} : holds[t][p] = None

(* The last critical section of a thread frees a waiting message, leaves   *)
(* INBOX_FULL as it is, and gives up the thread's reference: cleanup if it *)
(* was the last, DONE and a broadcast otherwise.                           *)
ThreadExitLast(t) ==
  /\ pc[t] = "gcdelete"
  /\ HeapEmpty(t)
  /\ refs[t] = 1
  /\ Unref(t, "thread")
  /\ pc' = [pc EXCEPT ![t] = "ended"]
  /\ UNCHANGED <<arg, full, done, lock, waiting>>

ThreadExitQuiet(t) ==  \* mutant: no broadcast
  /\ pc[t] = "gcdelete"
  /\ HeapEmpty(t)
  /\ lock[t] = None
  /\ refs[t] > 1
  /\ refs' = [refs EXCEPT ![t] = @ - 1]
  /\ inbox' = [inbox EXCEPT ![t] = None]
  /\ holds' = [holds EXCEPT ![t]["inbox"] = None, ![t]["thread"] = None]
  /\ done' = [done EXCEPT ![t] = TRUE]
  /\ pc' = [pc EXCEPT ![t] = "ended"]
  /\ UNCHANGED <<arg, full, lock, waiting, freed>>

ThreadExitDone(t) ==
  /\ pc[t] = "gcdelete"
  /\ HeapEmpty(t)
  /\ lock[t] = None
  /\ refs[t] > 1
  /\ refs' = [refs EXCEPT ![t] = @ - 1]
  /\ inbox' = [inbox EXCEPT ![t] = None]
  /\ holds' = [holds EXCEPT ![t]["inbox"] = None, ![t]["thread"] = None]
  /\ done' = [done EXCEPT ![t] = TRUE]
  /\ Broadcast(t)
  /\ pc' = [pc EXCEPT ![t] = "ended"]
  /\ UNCHANGED <<arg, full, lock, freed>>

(* The task's method fails: the thread gives up its reference and returns. *)
(* Its heap stays, DONE is never set.                                      *)
Fail(t) ==
  /\ t # Main
  /\ pc[t] = "idle"
  /\ Unref(t, "thread")
  /\ pc' = [pc EXCEPT ![t] = "failed"]
  /\ UNCHANGED <<arg, full, done, lock, waiting>>
-----------------------------------------------------------------------------
(* What the chimp program decides, and what the runtime then carries out.  *)
Call(t) ==
  \/ \E c \in Tasks : Spawn(t, c)
  \/ \E u \in Tasks, cell \in Tasks \cup {None} : SendPack(t, u, cell)
  \/ Recv(t)
  \/ \E u \in Tasks : Join(t, u)
  \/ \E s \in Slots : CollectHandle(t, s)
  \/ Finish(t)
  \/ Fail(t)

Step(t) ==
  \/ SendToDead(t)
  \/ SendBlock(t)
  \/ SendDeposit(t)
  \/ RecvBlock(t)
  \/ RecvTake(t)
  \/ UnpackHandle(t)
  \/ UnpackUnref(t)
  \/ JoinBlock(t)
  \/ JoinReturn(t)
  \/ \E p \in Slots \cup {"self"} : DestroyHandle(t, p)
  \/ ThreadExitLast(t)
  \/ ThreadExitDone(t)

Next ==
  \E t \in Tasks : \/ Call(t)
                   \/ Step(t)
                   \/ \E u \in Tasks : SpuriousWakeup(t, u)

Spec == Init /\ [][Next]_vars

(* The scheduler runs every thread that can run; a call once begun goes    *)
(* on.  Nothing obliges the program to begin one.                          *)
Fairness == \A t \in Tasks : WF_vars(Step(t))

FairSpec == Spec /\ Fairness
-----------------------------------------------------------------------------
(* Properties.                                                             *)

(* The places a reference to u is held at.                                 *)
Holders(u) == {h \in Tasks \X Places : holds[h[1]][h[2]] = u}

(* task->refs (ref, unref, and the counting in send, recv, spawn and exit) *)
(* never falls below the number of references that exist: a task that is   *)
(* not freed is counted in full, a freed one is referenced from nowhere.   *)
Covered(u) ==
  /\ u \notin freed => refs[u] >= Cardinality(Holders(u))
  /\ u \in freed => Holders(u) = {}

RefsCover == \A u \in Tasks : Covered(u)

(* No thread that is alive, blocked in a call on a task, or about to       *)
(* decode or release a handle can reach a ChimpTaskInternal that some      *)
(* other thread's chimp_task_unref has already destroyed.                  *)
InCall(t) == pc[t] \in {"spawned", "sending", "sendwait", "joinwait"}

NoUseAfterFree ==
  \A t \in Tasks :
    /\ \A p \in Places : holds[t][p] \notin freed
    /\ InCall(t) => arg[t] \notin freed
    /\ pc[t] \notin {"unborn", "ended", "failed"} => t \notin freed

(* What makes a thread's own structure and the target of its call safe to  *)
(* use: a live thread holds its "thread" reference (the extra refs++ of    *)
(* chimp_task_thread_func) until its last critical section, Main its local *)
(* handle; a call in progress keeps a handle of its target on the stack;   *)
(* a message being decoded still owns its task cell; and a task not yet    *)
(* created is referenced by nobody.                                        *)
Lifecycle ==
  \A t \in Tasks :
    /\ holds[t]["self"] \in {t, None}
    /\ holds[t]["thread"] \in {t, None}
    /\ pc[t] = "unborn" =>
         t \notin freed /\ Holders(t) = {} /\ \A p \in Places : holds[t][p] = None
    /\ pc[t] \notin {"unborn", "gcdelete", "ended"} => holds[t]["self"] = t
    /\ pc[t] \notin {"unborn", "ended", "failed"} /\ t # Main =>
         holds[t]["thread"] = t
    /\ t = Main => pc[t] \notin {"unborn", "gcdelete", "ended", "failed"}
    /\ InCall(t) => \E p \in Slots \cup {"self"} : holds[t][p] = arg[t]
    /\ InCall(t) => arg[t] # None
    /\ pc[t] \in {"unpack", "unref"} => holds[t]["hand"] # None

(* The inbox has one slot and several senders blocked on it: a message     *)
(* that chimp_task_send put there is never overwritten by another sender's *)
(* before the owner takes it or ends.                                      *)
NoOverwrite ==
  [][\A u \in Tasks : inbox[u] # None => inbox'[u] \in {inbox[u], None}]_vars

(* A task that is DONE has no reference left in its own heap: ending it    *)
(* "cleans up circular references & our 'self' ref" (the comment in        *)
(* chimp_task_thread_func), so two tasks holding each other's handles      *)
(* cannot keep each other's internals alive through their dead heaps.      *)
DoneHeapReleased ==
  \A t \in Tasks : done[t] => \A p \in Places \ {"inbox"} : holds[t][p] = None

(* A task blocked in recv with a message in its inbox gets it: deposits    *)
(* wake the receiver, whatever other senders and joiners do to the lock.   *)
RecvGetsMessage ==
  \A t \in Tasks :
    (pc[t] = "recvwait" /\ full[t]) ~> (pc[t] # "recvwait")

LockLeft(t) == \E u \in Tasks : arg[t] = u /\ lock[u] # None

(* A task that joins one that is DONE, before or after it became so, is    *)
(* released, unless a sender left the lock of the dead task held.          *)
JoinReturns ==
  \A t \in Tasks :
    (pc[t] = "joinwait" /\ \E u \in Tasks : arg[t] = u /\ done[u])
      ~> (pc[t] # "joinwait" \/ LockLeft(t))

(* A sender that waits for room goes on once there is room, unless others  *)
(* are quicker: the receiver that makes room wakes all who wait for it,    *)
(* and none of them sleeps again without having looked at the inbox. It    *)
(* may wait for the lock of a task that died (SendToDead).                 *)
SenderGetsRoom ==
  \A t \in Tasks :
    (pc[t] = "sendwait" /\ \E u \in Tasks : arg[t] = u /\ ~full[u])
      ~> (pc[t] # "sendwait" \/ (\E u \in Tasks : arg[t] = u /\ full[u]) \/ LockLeft(t))

(* "this is *not* a bug: we can fail gracefully if recipient died" says    *)
(* chimp_task_send. A sender that waits for room in the inbox of a task    *)
(* that dies gets its failure, it does not wait for ever.                  *)
BlockedSendReturns ==
  \A t, u \in Tasks :
    (pc[t] = "sendwait" /\ arg[t] = u /\ done[u]) ~> (pc[t] # "sendwait")
=============================================================================
