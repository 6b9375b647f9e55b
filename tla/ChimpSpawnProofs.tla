-------------------------- MODULE ChimpSpawnProofs --------------------------
(***************************************************************************)
(* Theorems about ChimpSpawn, every invariant its run checks. Of the mutex *)
(* they use one fact: while the creator has not released the lock that the *)
(* child took last, the child holds it. Without it, what keeps the         *)
(* handshake right is the order in which the two threads go through it.    *)
(***************************************************************************)
EXTENDS ChimpSpawn, TLAPS

(* Where the threads are.                                                  *)
BeforePut == {"new", "check", "wait", "waiting", "handle", "send", "full?", "put"}
Dropping == {"dec", "decw"} \cup Dropped
FirstRef == {"unborn", "start", "ready", "broadcast", "ref", "refw"}
SecondRef == {"self", "selfw"}
Ending == {"unself", "dec", "decw"} \cup SelfUnref
Running == {"unflag", "tell", "unrecv", "run"} \cup Ending
Locked == {"full?", "wait", "take", "unflag", "tell", "unrecv", "dec", "decw", "undec",
           "clear", "exitdec", "exitdecw", "exitlast", "exitdone"} \cup Leaving

(* However stale what an unlocked refs++ has read, the count stays within  *)
(* what the threads have counted so far.                                   *)
MostRefs == IF pcC \in FirstRef THEN 1 ELSE IF pcC \in SecondRef THEN 2 ELSE 3

Bounded ==
  /\ refs \in 0..MostRefs
  /\ tmp \in [{P, C} -> 0..3]
  /\ tmp[P] <= MostRefs
  /\ pcC = "refw" => tmp[C] <= 1
  /\ pcC = "selfw" => tmp[C] <= 2

(* A lock the child has taken, and the creator not released, is held.      *)
Holding == pcC \in Locked => stolen \/ mutex = C

(* The flag is up only once the message is there, and the child takes it   *)
(* only when it has seen the flag.                                         *)
Messages ==
  /\ pcP \in BeforePut => inbox = None
  /\ full => pcP \notin BeforePut \cup {"flag"}
  /\ pcP \notin BeforePut /\ pcC \notin Running => inbox = Args
  /\ pcC = "take" => full
  /\ pcC \in Running => got = Args

(* DONE is set by the last critical section of the child, after its VM is  *)
(* gone; its creator sees it from another critical section.                *)
Ended == done /\ (pcC = "dead" \/ stolen)

Ends ==
  /\ done => pcC \in Leaving \cup {"dead"}
  /\ pcP = "unjoin" => done
  /\ pcP = "joined" => Ended
  /\ vm => pcC \notin Ending
  /\ pcP = "new" => pcC = "unborn"

(* The references of a task whose handle is kept until it is joined: the   *)
(* creator begins to drop its own only when the child has dropped its two, *)
(* so neither thread counts on what the other has changed meanwhile.       *)
Owned ==
  (IF pcP \in {"new"} \cup Dropped THEN 0 ELSE 1)
    + (IF pcC \in FirstRef \cup ThreadUnref THEN 0
       ELSE IF pcC \in SecondRef \cup SelfUnref THEN 1 ELSE 2)

Counted ==
  keeps => /\ pcP \in Dropping => Ended
           /\ refs = Owned
           /\ pcC \in {"refw", "selfw", "decw", "exitdecw"} => tmp[C] = refs
           /\ pcC = "undec" => tmp[C] = 3
           /\ pcC \notin {"selfcleanup", "exitlast", "cleanup"}
           /\ pcP = "decw" => tmp[P] = refs
           /\ freed => pcP = "dropped"

Sorts ==
  /\ pcP \in PcP /\ pcC \in PcC
  /\ mutex \in {None, P, C} /\ waiters \subseteq {P, C}
  /\ keeps \in BOOLEAN /\ stolen \in BOOLEAN /\ ready \in BOOLEAN /\ full \in BOOLEAN
  /\ done \in BOOLEAN /\ vm \in BOOLEAN /\ freed \in BOOLEAN
  /\ inbox \in {None, Args} /\ got \in {None, Args}

IInv == Sorts /\ Bounded /\ Holding /\ Messages /\ Ends /\ Counted

LEMMA InitInv == Init => IInv
<1> SUFFICES ASSUME Init PROVE IInv
  OBVIOUS
<1>1. Sorts
  BY DEF Init, Sorts, PcP, PcC
<1>2. Bounded /\ Holding /\ Messages /\ Ends /\ Counted
  BY SpawnAssumption
     DEF Init, Bounded, MostRefs, Holding, Messages, Ends, Ended, Counted, Owned, BeforePut,
         Dropping, Dropped, FirstRef, SecondRef, SelfUnref, ThreadUnref, Running, Ending,
         Locked, Leaving
<1> QED
  BY <1>1, <1>2 DEF IInv

(* The creator releases the mutex: its own lock, or the one that the child *)
(* holds because of the stray unlock.                                      *)
LEMMA CreatorUnlocks ==
  ASSUME IInv, WaitReady \/ MakeHandle \/ SendUnlock \/ JoinWait \/ DropUnlock
  PROVE  IInv'
<1> USE SpawnAssumption
    DEF IInv, Sorts, PcP, PcC, Lock, Release, Unlock, CondWait, Wakeup, Broadcast, WasLast,
        Cleanup, flags, counts, sync, msgs, ReadRefs, WriteInc, WriteDec, GoP
<1>1. CASE WaitReady
  <2>1. Sorts'
    BY <1>1 DEF WaitReady
  <2>2. Bounded'
    BY <1>1 DEF WaitReady, Bounded, MostRefs, Ends, FirstRef, SecondRef
  <2>3. Holding'
    BY <1>1 DEF WaitReady, Holding, Locked, Leaving
  <2>4. Messages'
    BY <1>1 DEF WaitReady, Messages, BeforePut, Running, Ending, SelfUnref, ThreadUnref
  <2>5. Ends'
    BY <1>1 DEF WaitReady, Ends, Ended, Holding, Locked, Leaving, Ending, SelfUnref,
                ThreadUnref
  <2>6. Counted'
    BY <1>1 DEF WaitReady, Counted, Owned, Bounded, MostRefs, Ends, Ended, Dropping,
                Dropped, FirstRef, SecondRef, SelfUnref, ThreadUnref, Leaving
  <2> QED
    BY <2>1, <2>2, <2>3, <2>4, <2>5, <2>6
<1>2. CASE MakeHandle
  <2>1. Sorts'
    BY <1>2 DEF MakeHandle
  <2>2. Bounded'
    BY <1>2 DEF MakeHandle, Bounded, MostRefs, Ends, FirstRef, SecondRef
  <2>3. Holding'
    BY <1>2 DEF MakeHandle, Holding, Locked, Leaving
  <2>4. Messages'
    BY <1>2 DEF MakeHandle, Messages, BeforePut, Running, Ending, SelfUnref, ThreadUnref
  <2>5. Ends'
    BY <1>2 DEF MakeHandle, Ends, Ended, Holding, Locked, Leaving, Ending, SelfUnref,
                ThreadUnref
  <2>6. Counted'
    BY <1>2 DEF MakeHandle, Counted, Owned, Bounded, MostRefs, Ends, Ended, Dropping,
                Dropped, FirstRef, SecondRef, SelfUnref, ThreadUnref, Leaving
  <2> QED
    BY <2>1, <2>2, <2>3, <2>4, <2>5, <2>6
<1>3. CASE SendUnlock
  <2>1. Sorts'
    BY <1>3 DEF SendUnlock
  <2>2. Bounded'
    BY <1>3 DEF SendUnlock, Bounded, MostRefs, Ends, FirstRef, SecondRef
  <2>3. Holding'
    BY <1>3 DEF SendUnlock, Holding, Locked, Leaving
  <2>4. Messages'
    BY <1>3 DEF SendUnlock, Messages, BeforePut, Running, Ending, SelfUnref, ThreadUnref
  <2>5. Ends'
    BY <1>3 DEF SendUnlock, Ends, Ended, Holding, Locked, Leaving, Ending, SelfUnref,
                ThreadUnref
  <2>6. Counted'
    BY <1>3 DEF SendUnlock, Counted, Owned, Bounded, MostRefs, Ends, Ended, Dropping,
                Dropped, FirstRef, SecondRef, SelfUnref, ThreadUnref, Leaving
  <2> QED
    BY <2>1, <2>2, <2>3, <2>4, <2>5, <2>6
<1>4. CASE JoinWait
  <2>1. Sorts'
    BY <1>4 DEF JoinWait
  <2>2. Bounded'
    BY <1>4 DEF JoinWait, Bounded, MostRefs, Ends, FirstRef, SecondRef
  <2>3. Holding'
    BY <1>4 DEF JoinWait, Holding, Locked, Leaving
  <2>4. Messages'
    BY <1>4 DEF JoinWait, Messages, BeforePut, Running, Ending, SelfUnref, ThreadUnref
  <2>5. Ends'
    BY <1>4 DEF JoinWait, Ends, Ended, Holding, Locked, Leaving, Ending, SelfUnref,
                ThreadUnref
  <2>6. Counted'
    BY <1>4 DEF JoinWait, Counted, Owned, Bounded, MostRefs, Ends, Ended, Dropping,
                Dropped, FirstRef, SecondRef, SelfUnref, ThreadUnref, Leaving
  <2> QED
    BY <2>1, <2>2, <2>3, <2>4, <2>5, <2>6
<1>5. CASE DropUnlock
  <2>1. Sorts'
    BY <1>5 DEF DropUnlock
  <2>2. Bounded'
    BY <1>5 DEF DropUnlock, Bounded, MostRefs, Ends, FirstRef, SecondRef
  <2>3. Holding'
    BY <1>5 DEF DropUnlock, Holding, Locked, Leaving
  <2>4. Messages'
    BY <1>5 DEF DropUnlock, Messages, BeforePut, Running, Ending, SelfUnref, ThreadUnref
  <2>5. Ends'
    BY <1>5 DEF DropUnlock, Ends, Ended, Holding, Locked, Leaving, Ending, SelfUnref,
                ThreadUnref
  <2>6. Counted'
    BY <1>5 DEF DropUnlock, Counted, Owned, Bounded, MostRefs, Ends, Ended, Dropping,
                Dropped, FirstRef, SecondRef, SelfUnref, ThreadUnref, Leaving
  <2> QED
    BY <2>1, <2>2, <2>3, <2>4, <2>5, <2>6
<1> QED
  BY <1>1, <1>2, <1>3, <1>4, <1>5

(* The steps of the creator.                                               *)
LEMMA CreatorInv ==
  ASSUME IInv, Creator \/ Optional
  PROVE  IInv'
<1> USE SpawnAssumption
    DEF IInv, Sorts, PcP, PcC, Lock, Release, Unlock, CondWait, Wakeup, Broadcast, WasLast,
        Cleanup, flags, counts, sync, msgs, ReadRefs, WriteInc, WriteDec, GoP,
        Bounded, MostRefs, Holding, Messages, Ends, Ended, Counted, Owned, BeforePut,
        Dropping, Dropped, FirstRef, SecondRef, SelfUnref, ThreadUnref, Running,
        Ending, Locked, Leaving
<1>1. CASE New
  BY <1>1 DEF New
<1>2. CASE CheckReady
  BY <1>2 DEF CheckReady
<1>3. CASE WaitReady
  BY <1>3, CreatorUnlocks
<1>4. CASE WakeReady
  BY <1>4 DEF WakeReady
<1>5. CASE MakeHandle
  BY <1>5, CreatorUnlocks
<1>6. CASE SendLock
  BY <1>6 DEF SendLock
<1>7. CASE SendCheck
  BY <1>7 DEF SendCheck
<1>8. CASE SendPut
  BY <1>8 DEF SendPut
<1>9. CASE SendFlag
  BY <1>9 DEF SendFlag
<1>10. CASE SendBroadcast
  BY <1>10 DEF SendBroadcast
<1>11. CASE SendUnlock
  BY <1>11, CreatorUnlocks
<1>12. CASE JoinCheck
  BY <1>12 DEF JoinCheck
<1>13. CASE JoinWait
  BY <1>13, CreatorUnlocks
<1>14. CASE JoinWake
  BY <1>14 DEF JoinWake
<1>15. CASE JoinUnlock
  BY <1>15 DEF JoinUnlock
<1>16. CASE DropRead
  BY <1>16 DEF DropRead
<1>17. CASE DropWrite
  BY <1>17 DEF DropWrite
<1>18. CASE DropUnlock
  BY <1>18, CreatorUnlocks
<1>19. CASE DropCleanup
  BY <1>19 DEF DropCleanup
<1>20. CASE JoinLock
  BY <1>20 DEF JoinLock
<1>21. CASE DropLock
  <2>1. CASE GoP("joined", "dec")
    BY <1>21, <2>1 DEF DropLock
  <2>2. CASE GoP("sent", "dec")
    BY <1>21, <2>2 DEF DropLock
  <2> QED
    BY <1>21, <2>1, <2>2 DEF DropLock
<1> QED
  BY <1>1, <1>2, <1>3, <1>4, <1>5, <1>6, <1>7, <1>8, <1>9, <1>10, <1>11, <1>12, <1>13,
     <1>14, <1>15, <1>16, <1>17, <1>18, <1>19, <1>20, <1>21
     DEF Creator, Optional

(* The steps of the child.                                                 *)
LEMMA ChildInv ==
  ASSUME IInv, Child
  PROVE  IInv'
<1> USE SpawnAssumption
    DEF IInv, Sorts, PcP, PcC, Lock, Release, Unlock, CondWait, Wakeup, Broadcast, WasLast,
        Cleanup, flags, counts, sync, msgs, ReadRefs, WriteInc, WriteDec, GoC,
        Bounded, MostRefs, Holding, Messages, Ends, Ended, Counted, Owned, BeforePut,
        Dropping, Dropped, FirstRef, SecondRef, SelfUnref, ThreadUnref, Running,
        Ending, Locked, Leaving
<1>1. CASE MakeVM
  BY <1>1 DEF MakeVM
<1>2. CASE SetReady
  BY <1>2 DEF SetReady
<1>3. CASE BroadcastReady
  BY <1>3 DEF BroadcastReady
<1>4. CASE RefRead
  <2>1. CASE GoC("ref", "refw")
    BY <1>4, <2>1 DEF RefRead
  <2>2. CASE GoC("self", "selfw")
    BY <1>4, <2>2 DEF RefRead
  <2> QED
    BY <1>4, <2>1, <2>2 DEF RefRead
<1>5. CASE RefWrite
  <2>1. CASE GoC("refw", "self")
    BY <1>5, <2>1 DEF RefWrite
  <2>2. CASE GoC("selfw", "unlock")
    BY <1>5, <2>2 DEF RefWrite
  <2> QED
    BY <1>5, <2>1, <2>2 DEF RefWrite
<1>6. CASE UnlockStray
  BY <1>6 DEF UnlockStray
<1>7. CASE RecvLock
  BY <1>7 DEF RecvLock
<1>8. CASE RecvCheck
  BY <1>8 DEF RecvCheck
<1>9. CASE RecvWait
  BY <1>9 DEF RecvWait
<1>10. CASE RecvWake
  BY <1>10 DEF RecvWake
<1>11. CASE RecvTake
  BY <1>11 DEF RecvTake
<1>12. CASE RecvUnflag
  <2>1. full' \in BOOLEAN
    BY <1>12 DEF RecvUnflag
  <2>2. Sorts'
    BY <1>12, <2>1 DEF RecvUnflag
  <2>3. (Bounded /\ Holding /\ Messages /\ Ends /\ Counted)'
    BY <1>12, <2>2 DEF RecvUnflag
  <2> QED
    BY <2>2, <2>3
<1>13. CASE RecvBroadcast
  BY <1>13 DEF RecvBroadcast
<1>14. CASE RecvUnlock
  BY <1>14 DEF RecvUnlock
<1>15. CASE DeleteVM
  <2>1. vm' \in BOOLEAN
    BY <1>15 DEF DeleteVM
  <2>2. Sorts'
    BY <1>15, <2>1 DEF DeleteVM
  <2>3. (Bounded /\ Holding /\ Messages /\ Ends /\ Counted)'
    BY <1>15, <2>2 DEF DeleteVM
  <2> QED
    BY <2>2, <2>3
<1>16. CASE SelfLock
  BY <1>16 DEF SelfLock
<1>17. CASE UnrefRead
  <2>1. CASE GoC("dec", "decw")
    BY <1>17, <2>1 DEF UnrefRead
  <2>2. CASE GoC("exitdec", "exitdecw")
    BY <1>17, <2>2 DEF UnrefRead
  <2> QED
    BY <1>17, <2>1, <2>2 DEF UnrefRead
<1>18. CASE UnrefSelf
  BY <1>18 DEF UnrefSelf
<1>19. CASE SelfUnlock
  BY <1>19 DEF SelfUnlock
<1>20. CASE SelfCleanup
  BY <1>20 DEF SelfCleanup
<1>21. CASE ExitLock
  BY <1>21 DEF ExitLock
<1>22. CASE ClearInbox
  BY <1>22 DEF ClearInbox
<1>23. CASE ExitWrite
  BY <1>23 DEF ExitWrite
<1>24. CASE ExitDone
  BY <1>24 DEF ExitDone
<1>25. CASE ExitBroadcast
  BY <1>25 DEF ExitBroadcast
<1>26. CASE ExitUnlock
  <2>1. CASE GoC("exitunlock", "dead")
    BY <1>26, <2>1 DEF ExitUnlock
  <2>2. CASE GoC("exitlast", "cleanup")
    BY <1>26, <2>2 DEF ExitUnlock
  <2> QED
    BY <1>26, <2>1, <2>2 DEF ExitUnlock
<1>27. CASE ExitCleanup
  BY <1>27 DEF ExitCleanup
<1> QED
  BY <1>1, <1>2, <1>3, <1>4, <1>5, <1>6, <1>7, <1>8, <1>9, <1>10, <1>11, <1>12, <1>13,
     <1>14, <1>15, <1>16, <1>17, <1>18, <1>19, <1>20, <1>21, <1>22, <1>23, <1>24,
     <1>25, <1>26, <1>27
     DEF Child

LEMMA NextInv == IInv /\ [Next]_vars => IInv'
<1> SUFFICES ASSUME IInv, [Next]_vars PROVE IInv'
  OBVIOUS
<1> USE DEF IInv, Sorts, Bounded, MostRefs, Holding, Messages, Ends, Ended,
           Counted, Owned
<1>1. CASE SpuriousWakeup
  BY <1>1 DEF SpuriousWakeup, flags, counts, msgs
<1>2. CASE UNCHANGED vars
  BY <1>2 DEF vars
<1> QED
  BY <1>1, <1>2, CreatorInv, ChildInv DEF Next

LEMMA Inductive == Spec => []IInv
  BY InitInv, NextInv, PTL DEF Spec
-----------------------------------------------------------------------------
(* Every variable keeps its type: the count never exceeds three, whatever  *)
(* an unlocked increment overwrites.                                       *)
THEOREM TypeCorrect == Spec => []TypeOK
<1>1. IInv => TypeOK
  BY DEF IInv, Sorts, Bounded, MostRefs, TypeOK
<1> QED
  BY <1>1, Inductive, PTL

(* Where a program keeps the handle until it has joined the task, a thread *)
(* that uses the destroyed structure is the child, at its last broadcast   *)
(* or unlock, in a critical section the creator's late unlock has opened.  *)
THEOREM SafeIfKept == Spec => []NoUseAfterFreeIfKept
<1>1. IInv => NoUseAfterFreeIfKept
  BY DEF IInv, Counted, Dropping, Dropped, Ends, Ended, NoUseAfterFreeIfKept
<1> QED
  BY <1>1, Inductive, PTL

(* The unlocked increments of the child and the count of its creator add   *)
(* up, where the handle is kept.                                           *)
THEOREM CountsAreExact == Spec => []CountsExact
<1>1. IInv => CountsExact
  BY DEF IInv, Sorts, PcP, PcC, Counted, Owned, Ends, CountsExact, Counting, B,
         FirstRef, SecondRef, SelfUnref, ThreadUnref, Dropped
<1> QED
  BY <1>1, Inductive, PTL

(* No thread runs its method with a message that is not there.             *)
THEOREM ArgumentsArrive == Spec => []RunsWithItsArguments
<1>1. IInv => RunsWithItsArguments
  BY DEF IInv, Messages, Running, Ending, RunsWithItsArguments
<1> QED
  BY <1>1, Inductive, PTL

(* chimp_task_join returns when the VM is gone and the thread at its last  *)
(* broadcast at least, and past it unless the creator released its lock.   *)
THEOREM JoinIsLate == Spec => []JoinedAfterEnd
<1>1. IInv => JoinedAfterEnd
  BY DEF IInv, Ends, Ended, Ending, SelfUnref, ThreadUnref, Leaving, JoinedAfterEnd
<1> QED
  BY <1>1, Inductive, PTL
=============================================================================
