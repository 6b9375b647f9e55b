------------------------------- MODULE ChimpGC -------------------------------
(***************************************************************************)
(* The garbage collector of libchimp/gc.c: slabs of slots, the live and    *)
(* the free list, allocation, the conservative mark and the sweep.  Every  *)
(* task has a heap of its own and its collector runs on its own thread, so *)
(* the steps below are those of one thread: a collection does not race     *)
(* with the program, it works on the stack the program left.               *)
(*                                                                         *)
(* A list of slots is the set of its members, the recursion of the mark is *)
(* a set of refs still to be visited.  Refs to the heaps of other tasks    *)
(* are ignored by the mark (chimp_heap_contains) and left out.             *)
(***************************************************************************)
EXTENDS Naturals, FiniteSets

CONSTANTS
  Refs,      \* the slots of all the slabs the heap may come to have
  SlabOf,    \* SlabOf[r]: the slab of slot r, numbered as they are allocated
  SlabSize,  \* slots in a slab
  MaxSlabs,  \* slabs the process has memory for (a bound)
  MaxStack,  \* refs the program uses at once (a bound)
  MaxRoots,  \* refs it makes roots (a bound)
  MaxOut,    \* refs an object holds (a bound)
  MaxStale   \* stale refs on the stack, or in freed memory, at once (a bound)

ASSUME GCAssumption ==
  /\ IsFiniteSet(Refs)
  /\ SlabSize \in Nat \ {0} /\ MaxSlabs \in Nat \ {0}
  /\ {MaxStack, MaxRoots, MaxOut, MaxStale} \subseteq Nat
  /\ SlabOf \in [Refs -> 1..MaxSlabs]
  /\ \A n \in 1..MaxSlabs : Cardinality({r \in Refs : SlabOf[r] = n}) = SlabSize

VARIABLES
  live, free,  \* gc->live, gc->free
  slabs,       \* gc->heap.slab_count
  used,        \* gc->heap.used
  points,      \* points[r]: the refs in the value of slot r, none when free
  stack,       \* the refs in use on the stack and in the registers
  roots,       \* gc->roots
  pc,          \* where in gc.c the thread is; "run" for the program
  caller,      \* who called chimp_gc_collect
  stale,       \* refs in stack words nobody uses, when a collection scans it
  marked,      \* the slots this collection has marked
  pending,     \* the refs it has come across and not marked yet
  freed        \* the slots its sweep has freed

list == <<live, free, slabs, used>>
program == <<points, stack, roots>>
collector == <<stale, marked, pending, freed>>
vars == <<list, program, pc, caller, collector>>

TypeOK ==
  /\ live \subseteq Refs /\ free \subseteq Refs
  /\ slabs \in 1..MaxSlabs /\ used \in Nat
  /\ points \in [Refs -> SUBSET Refs]
  /\ stack \subseteq Refs /\ roots \subseteq Refs
  /\ pc \in {"run", "mark", "sweep", "alloc", "delete", "deleted"}
  /\ caller \in {"new_object", "program"}
  /\ stale \subseteq Refs /\ marked \subseteq Refs /\ pending \subseteq Refs
  /\ freed \subseteq Refs

Slab(n) == {r \in Refs : SlabOf[r] = n}
InHeap == {r \in Refs : SlabOf[r] <= slabs}  \* chimp_heap_contains

Init ==
  /\ live = {} /\ free = Slab(1) /\ slabs = 1 /\ used = 0
  /\ points = [r \in Refs |-> {}] /\ stack = {} /\ roots = {}
  /\ pc = "run" /\ caller = "program"
  /\ stale = {} /\ marked = {} /\ pending = {} /\ freed = {}
-----------------------------------------------------------------------------
(* The program: it moves refs between its stack and its objects.           *)
Link(r, s) ==
  /\ pc = "run"
  /\ {r, s} \subseteq stack
  /\ Cardinality(points[r] \cup {s}) <= MaxOut
  /\ points' = [points EXCEPT ![r] = @ \cup {s}]
  /\ UNCHANGED <<list, stack, roots, pc, caller, collector>>

Unlink(r, s) ==
  /\ pc = "run"
  /\ r \in stack /\ s \in points[r]
  /\ points' = [points EXCEPT ![r] = @ \ {s}]
  /\ UNCHANGED <<list, stack, roots, pc, caller, collector>>

Load(s) ==
  /\ pc = "run"
  /\ s \in roots \/ \E r \in stack : s \in points[r]
  /\ Cardinality(stack \cup {s}) <= MaxStack
  /\ stack' = stack \cup {s}
  /\ UNCHANGED <<list, points, roots, pc, caller, collector>>

Drop(r) ==
  /\ pc = "run"
  /\ r \in stack
  /\ stack' = stack \ {r}
  /\ UNCHANGED <<list, points, roots, pc, caller, collector>>

(* chimp_gc_make_root.  There is no way to remove a root.                  *)
MakeRoot(r) ==
  /\ pc = "run"
  /\ r \in stack
  /\ Cardinality(roots \cup {r}) <= MaxRoots
  /\ roots' = roots \cup {r}
  /\ UNCHANGED <<list, points, stack, pc, caller, collector>>
-----------------------------------------------------------------------------
(* chimp_gc_collect: the roots, the task's local handle (it is in roots    *)
(* here) and every word of the stack that looks like a slot of this heap   *)
(* are marked.  Some of those words are stale: a deeper call finds what an *)
(* earlier one left in memory it does not initialise.  A slot that was     *)
(* freed since may be among them.                                          *)
StartCollectUnscanned(c, S) ==  \* mutant: the stack is not scanned
  /\ S \subseteq InHeap /\ Cardinality(S) <= MaxStale
  /\ stale' = S
  /\ pc' = "mark" /\ caller' = c
  /\ pending' = roots \cup stale'
  /\ UNCHANGED <<list, program, marked, freed>>

StartCollect(c, S) ==
  /\ S \subseteq InHeap /\ Cardinality(S) <= MaxStale
  /\ stale' = S
  /\ pc' = "mark" /\ caller' = c
  /\ pending' = roots \cup stack \cup stale'
  /\ UNCHANGED <<list, program, marked, freed>>

(* gc.collect() of a chimp program.                                        *)
Collect(S) ==
  /\ pc = "run"
  /\ StartCollect("program", S)

(* chimp_gc_new_object collects when the free list is empty.               *)
NewObjectCollectEarly(S) ==  \* mutant: collects with slots still free
  /\ pc = "run"
  /\ Cardinality(stack) < MaxStack
  /\ StartCollect("new_object", S)

NewObjectCollect(S) ==
  /\ pc = "run"
  /\ free = {}
  /\ Cardinality(stack) < MaxStack
  /\ StartCollect("new_object", S)

(* chimp_gc_mark_ref.  The mark function of a class reads the value; that  *)
(* of a freed slot may be an array whose items are freed memory, and then  *)
(* what is found there is anything.  (Nothing, if it was marked before:    *)
(* the flag of a freed slot is cleared when the slot is handed out.)       *)
MarkShallow(r) ==  \* mutant: the refs in the value are not visited
  /\ pc = "mark"
  /\ r \in pending \cap live
  /\ marked' = marked \cup {r}
  /\ pending' = pending \ {r}
  /\ UNCHANGED <<list, program, pc, caller, stale, freed>>

Mark(r) ==
  /\ pc = "mark"
  /\ r \in pending \cap live
  /\ marked' = marked \cup {r}
  /\ pending' = (pending \cup points[r]) \ marked'
  /\ UNCHANGED <<list, program, pc, caller, stale, freed>>

MarkFreed(r, found) ==
  /\ pc = "mark"
  /\ r \in pending \ live
  /\ found \subseteq InHeap /\ Cardinality(found) <= MaxStale
  /\ marked' = marked \cup {r}
  /\ pending' = (pending \cup found) \ marked'
  /\ UNCHANGED <<list, program, pc, caller, stale, freed>>

MarkDone ==
  /\ pc = "mark"
  /\ pending = {}
  /\ pc' = "sweep"
  /\ UNCHANGED <<list, program, caller, collector>>

(* chimp_gc_sweep, a slot at a time: an unmarked one is destroyed.         *)
SweepFree(r) ==
  /\ pc = "sweep"
  /\ r \in live \ marked
  /\ live' = live \ {r}
  /\ freed' = freed \cup {r}
  /\ points' = [points EXCEPT ![r] = {}]
  /\ UNCHANGED <<free, slabs, used, stack, roots, pc, caller, stale, marked,
                 pending>>

(* The free list is what this sweep freed, whatever was on it before.  The *)
(* marks are cleared here, not at the start of the next collection, and    *)
(* nobody can tell.                                                        *)
SweepDoneMarked ==  \* mutant: no slot is ever unmarked
  /\ pc = "sweep"
  /\ live \subseteq marked
  /\ free' = freed
  /\ used' = used - Cardinality(freed)
  /\ freed' = {}
  /\ pc' = IF caller = "new_object" THEN "alloc" ELSE "run"
  /\ stale' = {}
  /\ UNCHANGED <<live, slabs, program, caller, marked, pending>>

SweepDoneUncounted ==  \* mutant: what was freed still counts as used
  /\ pc = "sweep"
  /\ live \subseteq marked
  /\ free' = freed
  /\ freed' = {}
  /\ pc' = IF caller = "new_object" THEN "alloc" ELSE "run"
  /\ marked' = {} /\ stale' = {}
  /\ UNCHANGED <<live, slabs, used, program, caller, pending>>

SweepDoneKept ==  \* mutant: used goes down by what was kept
  /\ pc = "sweep"
  /\ live \subseteq marked
  /\ free' = freed
  /\ used' = used - Cardinality(live)
  /\ freed' = {}
  /\ pc' = IF caller = "new_object" THEN "alloc" ELSE "run"
  /\ marked' = {} /\ stale' = {}
  /\ UNCHANGED <<live, slabs, program, caller, pending>>

SweepDone ==
  /\ pc = "sweep"
  /\ live \subseteq marked
  /\ free' = freed
  /\ used' = used - Cardinality(freed)
  /\ freed' = {}
  /\ pc' = IF caller = "new_object" THEN "alloc" ELSE "run"
  /\ marked' = {} /\ stale' = {}
  /\ UNCHANGED <<live, slabs, program, caller, pending>>
-----------------------------------------------------------------------------
(* chimp_gc_new_object.  The slot is cleared and goes on the live list.    *)
Pop(r) ==
  /\ r \in free
  /\ free' = free \ {r}
  /\ live' = live \cup {r}
  /\ used' = used + 1
  /\ points' = [points EXCEPT ![r] = {}]
  /\ stack' = stack \cup {r}
  /\ pc' = "run"
  /\ UNCHANGED <<slabs, roots, caller, collector>>

NewObject(r) ==
  /\ \/ pc = "run" /\ Cardinality(stack) < MaxStack
     \/ pc = "alloc"
  /\ Pop(r)

(* The collection freed nothing: chimp_heap_grow.                          *)
Grow ==
  /\ pc = "alloc"
  /\ free = {}
  /\ slabs < MaxSlabs
  /\ slabs' = slabs + 1
  /\ free' = Slab(slabs + 1)
  /\ UNCHANGED <<live, used, program, pc, caller, collector>>

(* chimp_gc_delete, once the thread is done with its objects.              *)
Delete ==
  /\ pc = "run"
  /\ pc' = "delete"
  /\ stack' = {} /\ roots' = {}
  /\ UNCHANGED <<list, points, caller, collector>>

DeleteObject(r) ==
  /\ pc = "delete"
  /\ r \in live
  /\ live' = live \ {r}
  /\ points' = [points EXCEPT ![r] = {}]
  /\ UNCHANGED <<free, slabs, used, stack, roots, pc, caller, collector>>

DeleteHeap ==
  /\ pc = "delete"
  /\ live = {}
  /\ pc' = "deleted"
  /\ UNCHANGED <<list, program, caller, collector>>
-----------------------------------------------------------------------------
Next ==
  \/ \E r \in Refs : \/ Load(r) \/ Drop(r) \/ MakeRoot(r) \/ NewObject(r)
                     \/ Mark(r) \/ SweepFree(r) \/ DeleteObject(r)
  \/ \E r, s \in Refs : Link(r, s) \/ Unlink(r, s)
  \/ \E S \in SUBSET Refs : \/ Collect(S) \/ NewObjectCollect(S)
                            \/ \E r \in Refs : MarkFreed(r, S)
  \/ MarkDone \/ SweepDone \/ Grow \/ Delete \/ DeleteHeap

Spec == Init /\ [][Next]_vars
-----------------------------------------------------------------------------
(* Properties.                                                             *)

Heap == INSTANCE ChimpHeap WITH objs <- live

(* The heap keeps its promise (ChimpHeap): chimp_gc_new_object hands out   *)
(* slots that are not in use, and chimp_gc_sweep frees nothing that the    *)
(* program can still reach, whatever stale words its stack scan finds.     *)
KeepsPromise == Heap!Spec

(* Nothing the program can reach is on a free list, ready to be handed out *)
(* a second time, at any point of an allocation or a collection.           *)
ReachableIsLive == Heap!Reachable \subseteq live /\ live \cap (free \cup freed) = {}

(* A collection frees all the garbage there is: what it keeps can be       *)
(* reached from the program's refs or from a stale word, unless the mark   *)
(* was led astray by a freed slot.                                         *)
CollectsGarbage ==
  pc = "sweep" /\ marked \subseteq live
    => marked \subseteq Heap!Reach(stack \cup roots \cup stale)

(* heap.used, which get_live_count of the gc module reports, is the length *)
(* of the live list whenever the program can ask.                          *)
UsedCountsLive == pc = "run" => used = Cardinality(live)

(* A collection that an allocation starts loses no slot: what was in use   *)
(* or free before the sweep is in use or free after it, though the sweep   *)
(* puts a list of its own in the place of the free list. (One that the     *)
(* program asks for does lose what was free.)                              *)
AllocationLosesNothing ==
  [][pc = "sweep" /\ pc' = "alloc" => live' \cup free' = live \cup free \cup freed]_vars
=============================================================================
