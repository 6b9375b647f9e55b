---------------------------- MODULE ChimpGCProofs ----------------------------
(***************************************************************************)
(* Theorems about ChimpGC, for any number of slots, slabs and refs.        *)
(*                                                                         *)
(* The argument: at every step there is a set of live slots (Keep) that    *)
(* holds the program's refs and is closed under the refs in its values,    *)
(* and that the sweep does not touch: the live list while the program      *)
(* runs and while the mark goes on, the marked live slots during a sweep.  *)
(* What is reachable is within Keep, because it is the smallest such set.  *)
(***************************************************************************)
EXTENDS ChimpGC, FiniteSetTheorems, TLAPS

Keep ==
  IF pc = "sweep" THEN marked \cap live
  ELSE IF pc \in {"delete", "deleted"} THEN {} ELSE live

Disjoint ==
  /\ live \subseteq InHeap /\ free \subseteq InHeap /\ freed \subseteq InHeap
  /\ live \cap free = {} /\ live \cap freed = {}
  /\ pc # "sweep" => freed = {}

Counting ==
  pc \notin {"delete", "deleted"} => used = Cardinality(live) + Cardinality(freed)

SafeRefs ==
  /\ stack \subseteq Keep /\ roots \subseteq Keep
  /\ \A r \in Keep : points[r] \subseteq Keep

Marking ==
  /\ pc = "mark" =>
       /\ stack \cup roots \subseteq marked \cup pending
       /\ \A r \in marked \cap live : points[r] \subseteq marked \cup pending
  /\ pc \notin {"mark", "sweep"} => marked = {}

IInv == TypeOK /\ Disjoint /\ Counting /\ SafeRefs /\ Marking

(* What is reachable from S is within any closed set that has S.           *)
LEMMA ReachInClosed ==
  ASSUME NEW S, NEW C \in SUBSET Refs, S \subseteq C, Heap!Closed(C)
  PROVE  Heap!Reach(S) \subseteq C
  BY DEF Heap!Reach

LEMMA ReachableInKeep ==
  ASSUME TypeOK, SafeRefs
  PROVE  Heap!Reachable \subseteq Keep
<1>1. Keep \in SUBSET Refs
  BY DEF Keep, TypeOK
<1>2. stack \cup roots \subseteq Keep /\ Heap!Closed(Keep)
  BY DEF SafeRefs, Heap!Closed
<1> QED
  BY <1>1, <1>2, ReachInClosed DEF Heap!Reachable

LEMMA FiniteSlots ==
  ASSUME NEW S, S \subseteq Refs
  PROVE  IsFiniteSet(S) /\ Cardinality(S) \in Nat
  BY GCAssumption, FS_Subset, FS_CardinalityType

LEMMA InitInv == Init => IInv
<1> SUFFICES ASSUME Init PROVE IInv
  OBVIOUS
<1>1. TypeOK
  BY GCAssumption DEF Init, TypeOK, Slab
<1>2. Disjoint
  BY GCAssumption DEF Init, Disjoint, InHeap, Slab
<1>3. Counting
  BY FS_EmptySet DEF Init, Counting
<1>4. SafeRefs /\ Marking
  BY DEF Init, SafeRefs, Marking, Keep
<1> QED
  BY <1>1, <1>2, <1>3, <1>4 DEF IInv

(* The program's own steps change no list.                                 *)
Mutate ==
  \/ \E r \in Refs : Load(r) \/ Drop(r) \/ MakeRoot(r)
  \/ \E r, s \in Refs : Link(r, s) \/ Unlink(r, s)

LEMMA MutateInv == ASSUME IInv, Mutate PROVE IInv'
<1> USE DEF IInv
<1>1. /\ pc = "run" /\ pc' = "run"
      /\ UNCHANGED <<list, caller, collector>>
  BY DEF Mutate, Load, Drop, MakeRoot, Link, Unlink
<1>2. /\ stack' \subseteq live /\ roots' \subseteq live
      /\ points' \in [Refs -> SUBSET Refs]
      /\ \A r \in live : points'[r] \subseteq live
  <2> USE DEF TypeOK, SafeRefs, Keep, program
  <2>1. CASE \E r \in Refs : Load(r)
    BY <2>1, <1>1 DEF Load
  <2>2. CASE \E r \in Refs : Drop(r)
    BY <2>2, <1>1 DEF Drop
  <2>3. CASE \E r \in Refs : MakeRoot(r)
    BY <2>3, <1>1 DEF MakeRoot
  <2>4. CASE \E r, s \in Refs : Link(r, s)
    BY <2>4, <1>1 DEF Link
  <2>5. CASE \E r, s \in Refs : Unlink(r, s)
    BY <2>5, <1>1 DEF Unlink
  <2> QED
    BY <2>1, <2>2, <2>3, <2>4, <2>5 DEF Mutate
<1>3. TypeOK'
  BY <1>1, <1>2 DEF TypeOK, list, collector
<1>4. Disjoint' /\ Counting'
  BY <1>1 DEF Disjoint, Counting, InHeap, list, collector
<1>5. SafeRefs' /\ Marking'
  BY <1>1, <1>2 DEF SafeRefs, Marking, Keep, list, collector
<1> QED
  BY <1>3, <1>4, <1>5

LEMMA StartCollectInv ==
  ASSUME IInv, NEW c \in {"new_object", "program"}, NEW S \in SUBSET Refs,
         pc = "run", StartCollect(c, S)
  PROVE  IInv'
<1> USE DEF IInv, StartCollect, list, program
<1>1. TypeOK'
  BY DEF TypeOK
<1>2. Disjoint' /\ Counting'
  BY DEF Disjoint, Counting, InHeap
<1>3. SafeRefs'
  BY DEF SafeRefs, Keep
<1>4. Marking'
  BY DEF Marking
<1> QED
  BY <1>1, <1>2, <1>3, <1>4

LEMMA MarkInv ==
  ASSUME IInv, NEW r \in Refs, Mark(r) \/ \E S \in SUBSET Refs : MarkFreed(r, S)
  PROVE  IInv'
<1> USE DEF IInv, list, program
<1>1. /\ pc = "mark" /\ UNCHANGED <<list, program, pc, caller, stale, freed>>
      /\ marked' = marked \cup {r}
      /\ pending' \in SUBSET Refs
      /\ marked \cup pending \subseteq marked' \cup pending'
      /\ r \in live => points[r] \subseteq marked' \cup pending'
  BY DEF Mark, MarkFreed, TypeOK
<1>2. TypeOK' /\ Disjoint' /\ Counting'
  BY <1>1 DEF TypeOK, Disjoint, Counting, InHeap
<1>3. SafeRefs'
  BY <1>1 DEF SafeRefs, Keep
<1>4. Marking'
  BY <1>1 DEF Marking
<1> QED
  BY <1>2, <1>3, <1>4

(* With nothing pending, the marked live slots hold the program's refs and *)
(* are closed: the live list was.                                          *)
LEMMA MarkDoneInv == ASSUME IInv, MarkDone PROVE IInv'
<1> USE DEF IInv, MarkDone, list, program, collector
<1>1. TypeOK' /\ Disjoint' /\ Counting' /\ Marking'
  BY DEF TypeOK, Disjoint, Counting, InHeap, Marking
<1>2. SafeRefs'
  BY DEF SafeRefs, Keep, Marking
<1> QED
  BY <1>1, <1>2

LEMMA SweepFreeInv == ASSUME IInv, NEW r \in Refs, SweepFree(r) PROVE IInv'
<1> USE DEF IInv, SweepFree
<1>1. TypeOK' /\ Disjoint' /\ Marking'
  BY DEF TypeOK, Disjoint, InHeap, Marking
<1>2. Counting'
  <2>1. /\ IsFiniteSet(live) /\ Cardinality(live) \in Nat
        /\ IsFiniteSet(freed) /\ Cardinality(freed) \in Nat
    BY FiniteSlots DEF TypeOK
  <2>2. Cardinality(live \ {r}) = Cardinality(live) - 1
    BY <2>1, FS_RemoveElement
  <2>3. Cardinality(freed \cup {r}) = Cardinality(freed) + 1
    BY <2>1, FS_AddElement DEF Disjoint
  <2> QED
    BY <2>1, <2>2, <2>3 DEF Counting
<1>3. SafeRefs'
  BY DEF SafeRefs, Keep, TypeOK
<1> QED
  BY <1>1, <1>2, <1>3

LEMMA SweepDoneInv == ASSUME IInv, SweepDone PROVE IInv'
<1> USE DEF IInv, SweepDone, program
<1>1. /\ Cardinality(live) \in Nat /\ Cardinality(freed) \in Nat
      /\ used' = Cardinality(live)
  BY FiniteSlots DEF TypeOK, Counting
<1>2. TypeOK'
  BY <1>1 DEF TypeOK
<1>3. Disjoint' /\ Marking'
  BY DEF Disjoint, InHeap, Marking
<1>4. Counting'
  BY <1>1, FS_EmptySet DEF Counting
<1>5. SafeRefs'
  BY DEF SafeRefs, Keep
<1> QED
  BY <1>2, <1>3, <1>4, <1>5

LEMMA NewObjectInv == ASSUME IInv, NEW r \in Refs, NewObject(r) PROVE IInv'
<1> USE DEF IInv, NewObject, Pop, collector
<1>1. TypeOK'
  BY DEF TypeOK
<1>2. Disjoint' /\ Marking'
  BY DEF Disjoint, InHeap, Marking
<1>3. Counting'
  <2>1. IsFiniteSet(live) /\ Cardinality(live) \in Nat
    BY FiniteSlots DEF TypeOK
  <2>2. Cardinality(live \cup {r}) = Cardinality(live) + 1
    BY <2>1, FS_AddElement DEF Disjoint
  <2>3. freed = {} /\ Cardinality(freed) = 0
    BY FS_EmptySet DEF Disjoint
  <2> QED
    BY <2>1, <2>2, <2>3 DEF Counting
<1>4. SafeRefs'
  BY DEF SafeRefs, Keep, TypeOK
<1> QED
  BY <1>1, <1>2, <1>3, <1>4

LEMMA GrowInv == ASSUME IInv, Grow PROVE IInv'
<1> USE DEF IInv, Grow, program, collector
<1>1. TypeOK'
  BY GCAssumption DEF TypeOK, Slab
<1>2. Disjoint'
  BY GCAssumption DEF Disjoint, InHeap, Slab, TypeOK
<1>3. Counting' /\ Marking'
  BY DEF Counting, Marking
<1>4. SafeRefs'
  BY DEF SafeRefs, Keep
<1> QED
  BY <1>1, <1>2, <1>3, <1>4

LEMMA DeleteInv ==
  ASSUME IInv, Delete \/ DeleteHeap \/ \E r \in Refs : DeleteObject(r)
  PROVE  IInv'
<1> USE DEF IInv, Delete, DeleteHeap, DeleteObject, list, program, collector
<1>1. TypeOK'
  BY DEF TypeOK
<1>2. Disjoint' /\ Counting'
  BY DEF Disjoint, Counting, InHeap
<1>3. SafeRefs' /\ Marking'
  BY DEF SafeRefs, Keep, Marking
<1> QED
  BY <1>1, <1>2, <1>3

LEMMA StutterInv == ASSUME IInv, UNCHANGED vars PROVE IInv'
  BY DEF IInv, vars, list, program, collector, TypeOK, Disjoint, Counting,
         SafeRefs, Marking, Keep, InHeap

LEMMA NextInv == IInv /\ [Next]_vars => IInv'
<1> SUFFICES ASSUME IInv, [Next]_vars PROVE IInv'
  OBVIOUS
<1>1. CASE Mutate
  BY <1>1, MutateInv
<1>2. CASE \E S \in SUBSET Refs : Collect(S) \/ NewObjectCollect(S)
  BY <1>2, StartCollectInv DEF Collect, NewObjectCollect
<1>3. CASE \E r \in Refs : Mark(r) \/ \E S \in SUBSET Refs : MarkFreed(r, S)
  BY <1>3, MarkInv
<1>4. CASE MarkDone
  BY <1>4, MarkDoneInv
<1>5. CASE \E r \in Refs : SweepFree(r)
  BY <1>5, SweepFreeInv
<1>6. CASE SweepDone
  BY <1>6, SweepDoneInv
<1>7. CASE \E r \in Refs : NewObject(r)
  BY <1>7, NewObjectInv
<1>8. CASE Grow
  BY <1>8, GrowInv
<1>9. CASE Delete \/ DeleteHeap \/ \E r \in Refs : DeleteObject(r)
  BY <1>9, DeleteInv
<1>10. CASE UNCHANGED vars
  BY <1>10, StutterInv
<1> QED
  BY <1>1, <1>2, <1>3, <1>4, <1>5, <1>6, <1>7, <1>8, <1>9, <1>10
     DEF Next, Mutate

LEMMA Inductive == Spec => []IInv
<1>1. Init => IInv
  BY InitInv
<1>2. IInv /\ [Next]_vars => IInv'
  BY NextInv
<1> QED
  BY <1>1, <1>2, PTL DEF Spec

(* For every number and size of slabs: what the program can reach is never *)
(* on the free list or being freed (chimp_gc_new_object, chimp_gc_sweep).  *)
THEOREM ReachableIsNeverFreed == Spec => []ReachableIsLive
<1>1. IInv => ReachableIsLive
  <2> SUFFICES ASSUME IInv PROVE ReachableIsLive
    OBVIOUS
  <2>1. Heap!Reachable \subseteq Keep /\ Keep \subseteq live
    BY ReachableInKeep DEF IInv, Keep
  <2> QED
    BY <2>1 DEF ReachableIsLive, IInv, Disjoint
<1> QED
  BY <1>1, Inductive, PTL

(* heap.used is the length of the live list whenever the program runs.     *)
THEOREM UsedIsLive == Spec => []UsedCountsLive
<1>1. IInv => UsedCountsLive
  <2> SUFFICES ASSUME IInv, pc = "run" PROVE used = Cardinality(live)
    BY DEF UsedCountsLive
  <2>1. freed = {} /\ Cardinality(freed) = 0 /\ Cardinality(live) \in Nat
    BY FS_EmptySet, FiniteSlots DEF IInv, Disjoint, TypeOK
  <2> QED
    BY <2>1 DEF IInv, Counting
<1> QED
  BY <1>1, Inductive, PTL

(* Every variable keeps its type.                                          *)
THEOREM TypeCorrect == Spec => []TypeOK
<1>1. IInv => TypeOK
  BY DEF IInv
<1> QED
  BY <1>1, Inductive, PTL

(* Every step of the collector is a step of the heap's promise or changes  *)
(* nothing the program could notice.                                       *)
LEMMA StepRefines ==
  ASSUME IInv, [Next]_vars
  PROVE  Heap!Next \/ UNCHANGED Heap!heap
<1> USE DEF Heap!Next, Heap!heap, list, program, collector
<1>1. CASE Mutate
  BY <1>1 DEF Mutate, Load, Drop, MakeRoot, Link, Unlink,
              Heap!Load, Heap!Drop, Heap!MakeRoot, Heap!Link, Heap!Unlink
<1>2. CASE \E S \in SUBSET Refs : Collect(S) \/ NewObjectCollect(S)
  BY <1>2 DEF Collect, NewObjectCollect, StartCollect
<1>3. CASE \E r \in Refs : Mark(r) \/ \E S \in SUBSET Refs : MarkFreed(r, S)
  BY <1>3 DEF Mark, MarkFreed
<1>4. CASE MarkDone \/ SweepDone \/ Grow \/ DeleteHeap \/ UNCHANGED vars
  BY <1>4 DEF MarkDone, SweepDone, Grow, DeleteHeap, vars
<1>5. ASSUME NEW r \in Refs, SweepFree(r) PROVE Heap!Reclaim(r)
  <2>1. r \notin Keep
    BY <1>5 DEF SweepFree, Keep
  <2>2. r \notin Heap!Reachable
    BY <2>1, ReachableInKeep DEF IInv
  <2> QED
    BY <1>5, <2>2 DEF SweepFree, Heap!Reclaim
<1>6. ASSUME NEW r \in Refs, DeleteObject(r) PROVE Heap!Reclaim(r)
  <2>1. Keep = {}
    BY <1>6 DEF DeleteObject, Keep
  <2>2. r \notin Heap!Reachable
    BY <2>1, ReachableInKeep DEF IInv
  <2> QED
    BY <1>6, <2>2 DEF DeleteObject, Heap!Reclaim
<1>7. ASSUME NEW r \in Refs, NewObject(r) PROVE Heap!New(r)
  BY <1>7 DEF NewObject, Pop, Heap!New, IInv, Disjoint
<1>8. CASE Delete
  BY <1>8 DEF Delete, Heap!Close
<1> QED
  BY <1>1, <1>2, <1>3, <1>4, <1>5, <1>6, <1>7, <1>8 DEF Next, Mutate

(* ChimpGC implements ChimpHeap: no slot is handed out that is in use, and *)
(* none is taken back that the program can reach.                          *)
THEOREM GCKeepsPromise == Spec => KeepsPromise
<1>1. Init => Heap!Init
  BY DEF Init, Heap!Init
<1>2. IInv /\ [Next]_vars => [Heap!Next]_(Heap!heap)
  BY StepRefines
<1> QED
  BY <1>1, <1>2, Inductive, PTL DEF Spec, KeepsPromise, Heap!Spec
-----------------------------------------------------------------------------
(* Completeness of the mark, and what an allocation's collection leaves on *)
(* the lists.                                                              *)

(* While a collection has met no freed slot, all it has come across is in  *)
(* every set that has the refs it began with and is closed under the       *)
(* values it has marked; the sweep changes the values of no marked slot.   *)
Earned ==
  pc \in {"mark", "sweep"} /\ marked \subseteq live =>
    \A C \in SUBSET Refs :
      (stack \cup roots \cup stale \subseteq C
         /\ \A r \in C \cap marked : points[r] \subseteq C)
        => marked \cup pending \subseteq C

(* An allocation collects only when there is no free slot.                 *)
NoneFree == pc \in {"mark", "sweep"} /\ caller = "new_object" => free = {}

LEMMA EarnedStep == IInv /\ Earned /\ NoneFree /\ [Next]_vars => Earned' /\ NoneFree'
<1> SUFFICES ASSUME IInv, Earned, NoneFree, [Next]_vars PROVE Earned' /\ NoneFree'
  OBVIOUS
<1> USE DEF list, program, collector
<1>1. CASE UNCHANGED vars
  BY <1>1 DEF vars, Earned, NoneFree
<1>2. CASE Mutate
  BY <1>2 DEF Mutate, Load, Drop, MakeRoot, Link, Unlink, Earned, NoneFree
<1>3. ASSUME NEW S \in SUBSET Refs, Collect(S) \/ NewObjectCollect(S)
      PROVE  Earned' /\ NoneFree'
  <2>1. marked' = {} /\ pending' = roots' \cup stack' \cup stale'
    BY <1>3 DEF Collect, NewObjectCollect, StartCollect, IInv, Marking
  <2>2. Earned'
    BY <2>1 DEF Earned
  <2>3. NoneFree'
    BY <1>3 DEF Collect, NewObjectCollect, StartCollect, NoneFree
  <2> QED
    BY <2>2, <2>3
<1>4. ASSUME NEW r \in Refs, Mark(r) PROVE Earned' /\ NoneFree'
  <2>1. NoneFree'
    BY <1>4 DEF Mark, NoneFree
  <2>2. ASSUME marked' \subseteq live', NEW C \in SUBSET Refs,
               stack' \cup roots' \cup stale' \subseteq C,
               \A q \in C \cap marked' : points'[q] \subseteq C
        PROVE  marked' \cup pending' \subseteq C
    <3>1. marked \cup pending \subseteq C
      BY <1>4, <2>2 DEF Mark, Earned
    <3>2. r \in C \cap marked'
      BY <1>4, <3>1 DEF Mark
    <3>3. points[r] \subseteq C
      BY <1>4, <2>2, <3>2 DEF Mark
    <3> QED
      BY <1>4, <3>1, <3>2, <3>3 DEF Mark
  <2> QED
    BY <2>1, <2>2 DEF Earned
<1>5. ASSUME NEW r \in Refs, NEW S \in SUBSET Refs, MarkFreed(r, S)
      PROVE  Earned' /\ NoneFree'
  BY <1>5 DEF MarkFreed, Earned, NoneFree
<1>6. CASE MarkDone
  BY <1>6 DEF MarkDone, Earned, NoneFree
<1>7. ASSUME NEW r \in Refs, SweepFree(r) PROVE Earned' /\ NoneFree'
  <2>1. NoneFree'
    BY <1>7 DEF SweepFree, NoneFree
  <2>2. \A q \in marked : points'[q] = points[q]
    BY <1>7 DEF SweepFree, IInv, TypeOK
  <2> QED
    BY <1>7, <2>1, <2>2 DEF SweepFree, Earned
<1>8. CASE SweepDone \/ Grow \/ Delete \/ DeleteHeap
  BY <1>8 DEF SweepDone, Grow, Delete, DeleteHeap, Earned, NoneFree
<1>9. ASSUME NEW r \in Refs, NewObject(r) \/ DeleteObject(r) PROVE Earned' /\ NoneFree'
  BY <1>9 DEF NewObject, Pop, DeleteObject, Earned, NoneFree
<1> QED
  BY <1>1, <1>2, <1>3, <1>4, <1>5, <1>6, <1>7, <1>8, <1>9 DEF Next, Mutate

LEMMA EarnedAlways == Spec => [](IInv /\ Earned /\ NoneFree)
<1>1. Init => Earned /\ NoneFree
  BY DEF Init, Earned, NoneFree
<1> QED
  BY <1>1, InitInv, NextInv, EarnedStep, PTL DEF Spec

(* A mark that no freed slot has led astray keeps only what the program's  *)
(* refs or a stale word can reach: all other garbage goes in this sweep.   *)
THEOREM GarbageIsCollected == Spec => []CollectsGarbage
<1>1. IInv /\ Earned => CollectsGarbage
  <2> SUFFICES ASSUME IInv, Earned, pc = "sweep", marked \subseteq live,
                      NEW C \in SUBSET Refs,
                      stack \cup roots \cup stale \subseteq C, Heap!Closed(C)
               PROVE  marked \subseteq C
    BY DEF CollectsGarbage, Heap!Reach, IInv, TypeOK
  <2> QED
    BY DEF Earned, Heap!Closed
<1> QED
  BY <1>1, EarnedAlways, PTL

(* A collection for the sake of an allocation puts every slot it had back  *)
(* on a list, though the sweep throws the old free list away.              *)
THEOREM AllocationIsLossless == Spec => AllocationLosesNothing
<1>1. NoneFree /\ [Next]_vars =>
        [pc = "sweep" /\ pc' = "alloc" => live' \cup free' = live \cup free \cup freed]_vars
  <2> SUFFICES ASSUME NoneFree, Next, pc = "sweep", pc' = "alloc"
               PROVE  live' \cup free' = live \cup free \cup freed
    OBVIOUS
  <2>1. SweepDone
    BY DEF Next, Load, Drop, MakeRoot, NewObject, Pop, Mark, SweepFree, DeleteObject,
           Link, Unlink, Collect, NewObjectCollect, StartCollect, MarkFreed, MarkDone,
           Grow, Delete, DeleteHeap
  <2>2. caller = "new_object"
    BY <2>1 DEF SweepDone
  <2> QED
    BY <2>1, <2>2 DEF SweepDone, NoneFree
<1> QED
  BY <1>1, EarnedAlways, PTL DEF Spec, AllocationLosesNothing
=============================================================================
