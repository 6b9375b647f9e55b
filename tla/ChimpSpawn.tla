------------------------------ MODULE ChimpSpawn ------------------------------
(***************************************************************************)
(* The creation handshake of libchimp/task.c at the grain of its shared    *)
(* memory accesses: chimp_task_new, and the send of the arguments that the *)
(* SPAWN sequence compiles after it, against chimp_task_thread_func up to  *)
(* the end of the thread.                                                  *)
(*                                                                         *)
(* The child never acquires task->lock during the handshake.  It sets      *)
(* READY, broadcasts and counts two references without it, and then        *)
(* unlocks a mutex that its creator locked; a default pthread mutex is     *)
(* released by that, whoever holds it.  From then on the creator may be in *)
(* a critical section without the lock, and its own unlock, when it comes, *)
(* may release a lock the child has taken since.  So no step relies on the *)
(* mutex: each access to the structure, each broadcast, each lock and each *)
(* unlock is a step of its own.  refs++ and refs-- are a read and a write. *)
(* The bits of flags and the inbox are written by one thread only after it *)
(* has seen what the other wrote last, so that their |=, &= and the taking *)
(* of a message lose nothing and are one step.  Memory is sequentially     *)
(* consistent here, the best case.                                         *)
(***************************************************************************)
EXTENDS Naturals

CONSTANTS
  None,      \* no thread, or no message
  P, C,      \* the creating thread, the created one
  Args       \* the message with the arguments

ASSUME SpawnAssumption ==
  /\ None \notin {P, C, Args}
  /\ P # C

VARIABLES
  keeps,     \* does the program keep the handle until it has joined the child?
  pcP, pcC,  \* control points of the two threads, named below
  mutex,     \* the holder of task->lock
  waiters,   \* the threads in pthread_cond_wait on task->flags_cond
  stolen,    \* history: the creator has released the lock that the child took last
  ready, full, done,  \* the READY, INBOX_FULL and DONE bits of task->flags
  vm,        \* task->vm exists
  refs,      \* task->refs
  tmp,       \* tmp[x]: what thread x read of refs
  inbox,     \* task->inbox
  got,       \* the message the child has received
  freed      \* chimp_task_cleanup has run

vars == <<keeps, pcP, pcC, mutex, waiters, stolen, ready, full, done, vm, refs, tmp, inbox,
          got, freed>>

PcP == {"new", "check", "wait", "waiting", "handle", "send", "full?", "put",
        "flag", "tell", "unlock", "sent", "done?", "joinwait", "joining", "unjoin",
        "joined", "dec", "decw", "undec", "cleanup", "dropped"}
PcC == {"unborn", "start", "ready", "broadcast", "ref", "refw", "self", "selfw",
        "unlock", "recv", "full?", "wait", "waiting", "take", "unflag", "tell",
        "unrecv", "run", "unself", "dec", "decw", "undec", "selfcleanup", "exit",
        "clear", "exitdec", "exitdecw", "exitlast", "cleanup", "exitdone",
        "exittell", "exitunlock", "dead"}

TypeOK ==
  /\ pcP \in PcP /\ pcC \in PcC
  /\ mutex \in {None, P, C}
  /\ waiters \subseteq {P, C}
  /\ {keeps, stolen, ready, full, done, vm, freed} \subseteq BOOLEAN
  /\ refs \in 0..3
  /\ tmp \in [{P, C} -> 0..3]
  /\ inbox \in {None, Args} /\ got \in {None, Args}

Init ==
  /\ keeps \in BOOLEAN
  /\ pcP = "new" /\ pcC = "unborn"
  /\ mutex = None /\ waiters = {} /\ stolen = FALSE
  /\ ready = FALSE /\ full = FALSE /\ done = FALSE /\ vm = FALSE
  /\ refs = 0 /\ tmp = [x \in {P, C} |-> 0]
  /\ inbox = None /\ got = None /\ freed = FALSE
-----------------------------------------------------------------------------
(* Control points, and the locking primitives.                             *)
GoP(from, to) == ~freed /\ pcP = from /\ pcP' = to /\ UNCHANGED <<keeps, pcC>>
GoC(from, to) == ~freed /\ pcC = from /\ pcC' = to /\ UNCHANGED <<keeps, pcP>>

Lock(x) ==
  /\ mutex = None /\ mutex' = x
  /\ stolen' = (x # C /\ stolen)
  /\ UNCHANGED waiters

\* Whoever unlocks a mutex releases it, whoever holds it.
Release(x) == mutex' = None /\ stolen' = (stolen \/ (x = P /\ mutex = C))
Unlock(x) == Release(x) /\ UNCHANGED waiters
CondWait(x) == Release(x) /\ waiters' = waiters \cup {x}
Wakeup(x) == x \notin waiters /\ Lock(x)
Broadcast == waiters' = {} /\ UNCHANGED <<mutex, stolen>>

flags == <<ready, full, done>>
counts == <<refs, tmp, freed>>
sync == <<mutex, waiters, stolen>>
msgs == <<inbox, got>>

(* The two halves of refs++ and of refs--.                                 *)
ReadRefs(x) == tmp' = [tmp EXCEPT ![x] = refs] /\ UNCHANGED <<refs, freed>>
WriteInc(x) == refs' = tmp[x] + 1 /\ UNCHANGED <<tmp, freed>>
WriteDec(x) ==
  /\ refs' = IF tmp[x] > 0 THEN tmp[x] - 1 ELSE refs
  /\ UNCHANGED <<tmp, freed>>

\* The reference x gave up was the last one: chimp_task_cleanup, once the lock is released.
WasLast(x) == tmp[x] = 1
Cleanup == freed' = TRUE /\ UNCHANGED <<refs, tmp>>
-----------------------------------------------------------------------------
(* chimp_task_new.  Nobody else sees the structure before pthread_create.  *)
NewUncounted ==  \* mutant: the handle's reference is not counted up front
  /\ pcP = "new" /\ pcP' = "check" /\ pcC' = "start" /\ UNCHANGED keeps
  /\ refs' = 0
  /\ Lock(P)
  /\ UNCHANGED <<flags, vm, tmp, freed, msgs>>

New ==
  /\ pcP = "new" /\ pcP' = "check" /\ pcC' = "start" /\ UNCHANGED keeps
  /\ refs' = 1
  /\ Lock(P)
  /\ UNCHANGED <<flags, vm, tmp, freed, msgs>>

(* while (!READY) pthread_cond_wait: the flag is looked at in one step, the *)
(* thread becomes a waiter in the next.                                    *)
CheckReady ==
  /\ GoP("check", IF ready THEN "handle" ELSE "wait")
  /\ UNCHANGED <<sync, flags, vm, counts, msgs>>

WaitReady ==
  /\ GoP("wait", "waiting")
  /\ CondWait(P)
  /\ UNCHANGED <<flags, vm, counts, msgs>>

WakeReady ==
  /\ GoP("waiting", "check")
  /\ Wakeup(P)
  /\ UNCHANGED <<flags, vm, counts, msgs>>

(* The handle takes over the reference counted at the start.               *)
MakeHandle ==
  /\ GoP("handle", "send")
  /\ Unlock(P)
  /\ UNCHANGED <<flags, vm, counts, msgs>>

(* chimp_task_send of the arguments, the first message to the child: its   *)
(* inbox cannot be full, the loop of the send is not entered.              *)
SendLock ==
  /\ GoP("send", "full?")
  /\ Lock(P)
  /\ UNCHANGED <<flags, vm, counts, msgs>>

SendCheckFlag ==  \* mutant: the flag is set before the message is there
  /\ GoP("full?", "put")
  /\ ~done /\ ~full
  /\ full' = TRUE
  /\ UNCHANGED <<sync, ready, done, vm, counts, msgs>>

SendCheck ==
  /\ GoP("full?", "put")
  /\ ~done /\ ~full
  /\ UNCHANGED <<sync, flags, vm, counts, msgs>>

SendPut ==
  /\ GoP("put", "flag")
  /\ inbox' = Args
  /\ UNCHANGED <<sync, flags, vm, counts, got>>

SendFlag ==
  /\ GoP("flag", "tell")
  /\ full' = TRUE
  /\ UNCHANGED <<sync, ready, done, vm, counts, msgs>>

SendBroadcast ==
  /\ GoP("tell", "unlock")
  /\ Broadcast
  /\ UNCHANGED <<flags, vm, counts, msgs>>

SendUnlock ==
  /\ GoP("unlock", "sent")
  /\ Unlock(P)
  /\ UNCHANGED <<flags, vm, counts, msgs>>

(* chimp_task_join.                                                        *)
JoinLock ==
  /\ GoP("sent", "done?")
  /\ Lock(P)
  /\ UNCHANGED <<flags, vm, counts, msgs>>

JoinCheck ==
  /\ GoP("done?", IF done THEN "unjoin" ELSE "joinwait")
  /\ UNCHANGED <<sync, flags, vm, counts, msgs>>

JoinWait ==
  /\ GoP("joinwait", "joining")
  /\ CondWait(P)
  /\ UNCHANGED <<flags, vm, counts, msgs>>

JoinWakeIf ==  \* mutant: DONE is not looked at again after a wait
  /\ GoP("joining", "unjoin")
  /\ Wakeup(P)
  /\ UNCHANGED <<flags, vm, counts, msgs>>

JoinWake ==
  /\ GoP("joining", "done?")
  /\ Wakeup(P)
  /\ UNCHANGED <<flags, vm, counts, msgs>>

JoinUnlock ==
  /\ GoP("unjoin", "joined")
  /\ Unlock(P)
  /\ UNCHANGED <<flags, vm, counts, msgs>>

(* The creator's collector finds the handle dead: chimp_task_unref.        *)
DropLock ==
  /\ GoP("joined", "dec") \/ (~keeps /\ GoP("sent", "dec"))
  /\ Lock(P)
  /\ UNCHANGED <<flags, vm, counts, msgs>>

DropRead ==
  /\ GoP("dec", "decw")
  /\ ReadRefs(P)
  /\ UNCHANGED <<sync, flags, vm, msgs>>

DropWrite ==
  /\ GoP("decw", "undec")
  /\ WriteDec(P)
  /\ UNCHANGED <<sync, flags, vm, msgs>>

DropUnlock ==
  /\ GoP("undec", IF WasLast(P) THEN "cleanup" ELSE "dropped")
  /\ Unlock(P)
  /\ UNCHANGED <<flags, vm, counts, msgs>>

DropCleanup ==
  /\ GoP("cleanup", "dropped")
  /\ Cleanup
  /\ UNCHANGED <<sync, flags, vm, msgs>>
-----------------------------------------------------------------------------
(* chimp_task_thread_func.                                                 *)
MakeVM ==
  /\ GoC("start", "ready")
  /\ vm' = TRUE
  /\ UNCHANGED <<sync, flags, counts, msgs>>

SetReady ==
  /\ GoC("ready", "broadcast")
  /\ ready' = TRUE
  /\ UNCHANGED <<sync, full, done, vm, counts, msgs>>

BroadcastReadyQuiet ==  \* mutant: nobody is woken
  /\ GoC("broadcast", "ref")
  /\ UNCHANGED <<sync, flags, vm, counts, msgs>>

BroadcastReady ==
  /\ GoC("broadcast", "ref")
  /\ Broadcast
  /\ UNCHANGED <<flags, vm, counts, msgs>>

(* The extra reference, and the one of the local handle: both unlocked.    *)
RefRead ==
  /\ GoC("ref", "refw") \/ GoC("self", "selfw")
  /\ ReadRefs(C)
  /\ UNCHANGED <<sync, flags, vm, msgs>>

RefWrite ==
  /\ GoC("refw", "self") \/ GoC("selfw", "unlock")
  /\ WriteInc(C)
  /\ UNCHANGED <<sync, flags, vm, msgs>>

UnlockStray ==
  /\ GoC("unlock", "recv")
  /\ Unlock(C)
  /\ UNCHANGED <<flags, vm, counts, msgs>>

(* chimp_task_recv of the arguments.                                       *)
RecvLock ==
  /\ GoC("recv", "full?")
  /\ Lock(C)
  /\ UNCHANGED <<flags, vm, counts, msgs>>

RecvCheck ==
  /\ GoC("full?", IF full THEN "take" ELSE "wait")
  /\ UNCHANGED <<sync, flags, vm, counts, msgs>>

RecvWait ==
  /\ GoC("wait", "waiting")
  /\ CondWait(C)
  /\ UNCHANGED <<flags, vm, counts, msgs>>

RecvWake ==
  /\ GoC("waiting", "full?")
  /\ Wakeup(C)
  /\ UNCHANGED <<flags, vm, counts, msgs>>

RecvTake ==
  /\ GoC("take", "unflag")
  /\ got' = inbox /\ inbox' = None
  /\ UNCHANGED <<sync, flags, vm, counts>>

RecvUnflag ==
  /\ GoC("unflag", "tell")
  /\ full' = FALSE
  /\ UNCHANGED <<sync, ready, done, vm, counts, msgs>>

RecvBroadcast ==
  /\ GoC("tell", "unrecv")
  /\ Broadcast
  /\ UNCHANGED <<flags, vm, counts, msgs>>

RecvUnlock ==
  /\ GoC("unrecv", "run")
  /\ Unlock(C)
  /\ UNCHANGED <<flags, vm, counts, msgs>>

(* The method has run.  The VM is deleted, and destroying the heap unrefs  *)
(* the local handle.                                                       *)
DeleteVM ==
  /\ GoC("run", "unself")
  /\ vm' = FALSE
  /\ UNCHANGED <<sync, flags, counts, msgs>>

SelfLock ==
  /\ GoC("unself", "dec")
  /\ Lock(C)
  /\ UNCHANGED <<flags, vm, counts, msgs>>

UnrefSelfNot ==  \* mutant: destroying the heap skips the local handle
  /\ GoC("decw", "undec")
  /\ UNCHANGED <<sync, flags, vm, counts, msgs>>

UnrefSelf ==
  /\ GoC("decw", "undec")
  /\ WriteDec(C)
  /\ UNCHANGED <<sync, flags, vm, msgs>>

SelfUnlock ==
  /\ GoC("undec", IF WasLast(C) THEN "selfcleanup" ELSE "exit")
  /\ Unlock(C)
  /\ UNCHANGED <<flags, vm, counts, msgs>>

SelfCleanup ==
  /\ GoC("selfcleanup", "exit")
  /\ Cleanup
  /\ UNCHANGED <<sync, flags, vm, msgs>>

(* The last critical section: a message that was not received is freed,    *)
(* and the extra reference given up.  Then DONE, unless it was the last.   *)
ExitLock ==
  /\ GoC("exit", "clear")
  /\ Lock(C)
  /\ UNCHANGED <<flags, vm, counts, msgs>>

ClearInbox ==
  /\ GoC("clear", "exitdec")
  /\ inbox' = None
  /\ UNCHANGED <<sync, flags, vm, counts, got>>

UnrefRead ==
  /\ GoC("dec", "decw") \/ GoC("exitdec", "exitdecw")
  /\ ReadRefs(C)
  /\ UNCHANGED <<sync, flags, vm, msgs>>

ExitWrite ==
  /\ GoC("exitdecw", IF WasLast(C) THEN "exitlast" ELSE "exitdone")
  /\ WriteDec(C)
  /\ UNCHANGED <<sync, flags, vm, msgs>>

ExitDone ==
  /\ GoC("exitdone", "exittell")
  /\ done' = TRUE
  /\ UNCHANGED <<sync, ready, full, vm, counts, msgs>>

ExitBroadcast ==
  /\ GoC("exittell", "exitunlock")
  /\ Broadcast
  /\ UNCHANGED <<flags, vm, counts, msgs>>

ExitUnlock ==
  /\ GoC("exitunlock", "dead") \/ GoC("exitlast", "cleanup")
  /\ Unlock(C)
  /\ UNCHANGED <<flags, vm, counts, msgs>>

ExitCleanup ==
  /\ GoC("cleanup", "dead")
  /\ Cleanup
  /\ UNCHANGED <<sync, flags, vm, msgs>>
-----------------------------------------------------------------------------
Creator ==
  \/ New \/ CheckReady \/ WaitReady \/ WakeReady \/ MakeHandle
  \/ SendLock \/ SendCheck \/ SendPut \/ SendFlag \/ SendBroadcast \/ SendUnlock
  \/ JoinCheck \/ JoinWait \/ JoinWake \/ JoinUnlock
  \/ DropRead \/ DropWrite \/ DropUnlock \/ DropCleanup

Child ==
  \/ MakeVM \/ SetReady \/ BroadcastReady \/ RefRead \/ RefWrite \/ UnlockStray
  \/ RecvLock \/ RecvCheck \/ RecvWait \/ RecvWake
  \/ RecvTake \/ RecvUnflag \/ RecvBroadcast \/ RecvUnlock
  \/ DeleteVM \/ SelfLock \/ UnrefRead \/ UnrefSelf \/ SelfUnlock \/ SelfCleanup
  \/ ExitLock \/ ClearInbox \/ ExitWrite \/ ExitDone \/ ExitBroadcast \/ ExitUnlock
  \/ ExitCleanup

(* What the program and the collector may do, or not.                      *)
Optional == JoinLock \/ DropLock

(* pthread_cond_wait may return without a broadcast.                       *)
SpuriousWakeup ==
  /\ \E x \in waiters : waiters' = waiters \ {x}
  /\ UNCHANGED <<keeps, pcP, pcC, mutex, stolen, flags, vm, counts, msgs>>

Next == Creator \/ Child \/ Optional \/ SpuriousWakeup

Spec == Init /\ [][Next]_vars

(* Both threads are scheduled, the child's method returns, and a woken     *)
(* creator that competes for the lock again and again gets it.             *)
FairSpec == Spec /\ WF_vars(Creator) /\ WF_vars(Child) /\ SF_vars(WakeReady)
-----------------------------------------------------------------------------
(* Properties.                                                             *)

(* After the structure is destroyed no thread has an access to it ahead:   *)
(* the comment in chimp_task_new counts a reference "*BEFORE* we start the *)
(* task thread", because "otherwise, short-lived tasks can prematurely     *)
(* kill the TaskInternal".                                                 *)
NoUseAfterFree ==
  freed => pcC = "dead" /\ pcP = "dropped"

(* What the child still does when it has set DONE: its last broadcast, and *)
(* its last unlock.                                                        *)
Leaving == {"exittell", "exitunlock"}

(* Where the program keeps the handle until it has joined the task, its    *)
(* references protect the structure up to there: only those two can come   *)
(* after it is destroyed, and only if the creator has released a lock the  *)
(* child held, which its unlocks do after the stray unlock of the child.   *)
(* Then "last ref: safe to unlock aggressively", which chimp_task_unref    *)
(* says before it destroys the structure, is not so.                       *)
NoUseAfterFreeIfKept ==
  keeps /\ freed => pcP = "dropped" /\ (pcC = "dead" \/ (stolen /\ pcC \in Leaving))

(* The child sets READY and broadcasts without the lock its creator tests  *)
(* READY under. A creator that sleeps before the broadcast is woken by it, *)
(* whatever the child does next and whoever holds the lock; one that has   *)
(* tested READY and sleeps only after the broadcast sleeps for ever.       *)
BroadcastWakes ==
  (pcP = "waiting" /\ pcC \in {"start", "ready", "broadcast"}) ~> (pcP # "waiting")

(* The creator has given up its reference, the child its own two.          *)
Dropped == {"undec", "cleanup", "dropped"}
ThreadUnref == {"exitlast", "cleanup", "exitdone", "exittell", "exitunlock", "dead"}
SelfUnref == {"undec", "selfcleanup", "exit", "clear", "exitdec", "exitdecw"} \cup ThreadUnref

(* However the handshake interleaves, with the stray unlocks letting both  *)
(* threads into the inbox at once, a child that runs does so with the      *)
(* arguments that were sent to it, not with a NULL message.                *)
RunsWithItsArguments ==
  pcC \in {"unflag", "tell", "unrecv", "run", "unself", "dec", "decw"} \cup SelfUnref
    => got = Args

(* A thread that has joined the task finds its VM gone and its thread past *)
(* its last access; or at its last broadcast or unlock, if the creator has *)
(* released a lock of the child's and so got in before the end of the last *)
(* critical section.                                                       *)
JoinedAfterEnd ==
  pcP = "joined" => ~vm /\ (pcC = "dead" \/ (stolen /\ pcC \in Leaving))

(* Where the handle is kept, no unlocked refs++ is lost: once the child    *)
(* has counted its own two, the count is the creator's handle, the         *)
(* thread's reference and the local handle, those that are still there.    *)
Counting == {"unborn", "start", "ready", "broadcast", "ref", "refw", "self", "selfw"}

B(b) == IF b THEN 1 ELSE 0

CountsExact ==
  keeps /\ pcC \notin Counting
    => refs = B(pcP \notin Dropped) + B(pcC \notin ThreadUnref) + B(pcC \notin SelfUnref)
=============================================================================
