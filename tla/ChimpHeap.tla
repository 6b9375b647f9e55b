------------------------------ MODULE ChimpHeap ------------------------------
(***************************************************************************)
(* What the heap of one chimp task promises its program, whatever the      *)
(* collector of libchimp/gc.c does to keep the promise: an object that is  *)
(* handed out was not in use, and an object goes away only when the        *)
(* program can no longer get at it.                                        *)
(***************************************************************************)
EXTENDS Naturals

CONSTANT Refs  \* the ChimpRefs the heap may ever have

VARIABLES
  objs,    \* the objects that exist
  points,  \* points[r]: the refs object r holds, its class among them
  stack,   \* the refs in use on the stack and in the registers
  roots    \* the refs given to chimp_gc_make_root

heap == <<objs, points, stack, roots>>

(* What can be reached from S: all that is in every set that has S and is  *)
(* closed under following refs.                                            *)
Closed(C) == \A r \in C : points[r] \subseteq C
Reach(S) == {r \in Refs : \A C \in SUBSET Refs : S \subseteq C /\ Closed(C) => r \in C}

Reachable == Reach(stack \cup roots)

Init ==
  /\ objs = {}
  /\ points = [r \in Refs |-> {}]
  /\ stack = {}
  /\ roots = {}

New(r) ==
  /\ r \notin objs
  /\ objs' = objs \cup {r}
  /\ points' = [points EXCEPT ![r] = {}]
  /\ stack' = stack \cup {r}
  /\ UNCHANGED roots

Link(r, s) ==
  /\ {r, s} \subseteq stack
  /\ points' = [points EXCEPT ![r] = @ \cup {s}]
  /\ UNCHANGED <<objs, stack, roots>>

Unlink(r, s) ==
  /\ r \in stack /\ s \in points[r]
  /\ points' = [points EXCEPT ![r] = @ \ {s}]
  /\ UNCHANGED <<objs, stack, roots>>

Load(s) ==
  /\ s \in roots \/ \E r \in stack : s \in points[r]
  /\ stack' = stack \cup {s}
  /\ UNCHANGED <<objs, points, roots>>

Drop(r) ==
  /\ r \in stack
  /\ stack' = stack \ {r}
  /\ UNCHANGED <<objs, points, roots>>

MakeRoot(r) ==
  /\ r \in stack
  /\ roots' = roots \cup {r}
  /\ UNCHANGED <<objs, points, stack>>

(* The program is over: nothing is in use any more.                        *)
Close ==
  /\ stack' = {} /\ roots' = {}
  /\ UNCHANGED <<objs, points>>

Reclaim(r) ==
  /\ r \in objs \ Reachable
  /\ objs' = objs \ {r}
  /\ points' = [points EXCEPT ![r] = {}]
  /\ UNCHANGED <<stack, roots>>

Next ==
  \/ \E r \in Refs : New(r) \/ Drop(r) \/ MakeRoot(r) \/ Load(r) \/ Reclaim(r)
  \/ \E r, s \in Refs : Link(r, s) \/ Unlink(r, s)
  \/ Close

Spec == Init /\ [][Next]_heap
=============================================================================
