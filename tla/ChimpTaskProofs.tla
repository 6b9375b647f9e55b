--------------------------- MODULE ChimpTaskProofs ---------------------------
(***************************************************************************)
(* Proofs about ChimpTask, for any finite set of tasks, any number of      *)
(* handles in a heap and any bound on the reference counts: the types, the *)
(* cover of every reference by the reference count, and from it that no    *)
(* thread ever touches a destroyed task.                                   *)
(***************************************************************************)
EXTENDS ChimpTask, FiniteSetTheorems, TLAPS

-----------------------------------------------------------------------------
(* Counting the holders of a task.                                         *)

(* The places a reference can be held at are finitely many.                *)
LEMMA PlacesFinite == IsFiniteSet(Tasks \X Places)
<1>1. IsFiniteSet(OwnPlaces)
  <2>1. IsFiniteSet({"self"}) /\ IsFiniteSet({"self"} \cup {"thread"})
    BY FS_Singleton, FS_AddElement
  <2>2. IsFiniteSet(({"self"} \cup {"thread"}) \cup {"hand"})
    BY <2>1, FS_AddElement
  <2>3. IsFiniteSet((({"self"} \cup {"thread"}) \cup {"hand"}) \cup {"inbox"})
    BY <2>2, FS_AddElement
  <2>4. OwnPlaces = (({"self"} \cup {"thread"}) \cup {"hand"}) \cup {"inbox"}
    BY DEF OwnPlaces
  <2>5. QED BY <2>3, <2>4
<1>2. IsFiniteSet(Places)
  BY <1>1, TaskAssumption, FS_Union DEF Places
<1>3. QED BY <1>2, TaskAssumption, FS_Product

(* So are the holders of one task, in a state and in the next.             *)
LEMMA HoldersFinite ==
  ASSUME NEW u
  PROVE  /\ IsFiniteSet(Holders(u)) /\ Cardinality(Holders(u)) \in Nat
         /\ IsFiniteSet(Holders(u)') /\ Cardinality(Holders(u)') \in Nat
<1>1. Holders(u) \subseteq Tasks \X Places /\ Holders(u)' \subseteq Tasks \X Places
  BY DEF Holders
<1>2. QED BY <1>1, PlacesFinite, FS_Subset, FS_CardinalityType

(* A step that takes references to u away, or none, keeps it covered.      *)
LEMMA CoverShrink ==
  ASSUME TypeOK, TypeOK', NEW u \in Tasks, Covered(u),
         refs'[u] >= refs[u], u \in freed' => u \in freed,
         Holders(u)' \subseteq Holders(u)
  PROVE  Covered(u)'
<1>1. Cardinality(Holders(u)') <= Cardinality(Holders(u))
  BY HoldersFinite, FS_Subset
<1>2. CASE u \in freed
  <2>1. Holders(u)' = {} BY <1>2 DEF Covered
  <2>2. Cardinality(Holders(u)') = 0 BY <2>1, FS_EmptySet
  <2>3. refs'[u] \in Nat BY DEF TypeOK
  <2>4. QED BY <2>1, <2>2, <2>3 DEF Covered
<1>3. CASE u \notin freed
  <2>1. refs'[u] \in Nat /\ refs[u] \in Nat BY DEF TypeOK
  <2>2. QED BY <1>1, <1>3, <2>1, HoldersFinite DEF Covered
<1>4. QED BY <1>2, <1>3

(* A step that counts one more reference to u may make one.                *)
LEMMA CoverGrow ==
  ASSUME TypeOK, TypeOK', NEW u \in Tasks, Covered(u), NEW h,
         refs'[u] = refs[u] + 1, u \notin freed, u \notin freed',
         Holders(u)' \subseteq Holders(u) \cup {h}
  PROVE  Covered(u)'
<1>1. Cardinality(Holders(u) \cup {h}) <= Cardinality(Holders(u)) + 1
  <2>1. Cardinality(Holders(u) \cup {h}) =
          IF h \in Holders(u) THEN Cardinality(Holders(u)) ELSE Cardinality(Holders(u)) + 1
    BY HoldersFinite, FS_AddElement
  <2>2. QED BY <2>1, HoldersFinite
<1>2. Cardinality(Holders(u)') <= Cardinality(Holders(u) \cup {h})
  BY HoldersFinite, FS_AddElement, FS_Subset
<1>3. refs[u] \in Nat BY DEF TypeOK
<1>4. Cardinality(Holders(u) \cup {h}) \in Nat
  BY HoldersFinite, FS_AddElement, FS_CardinalityType
<1>5. QED BY <1>1, <1>2, <1>3, <1>4, HoldersFinite DEF Covered

(* A step that moves a reference from g to h needs no count.               *)
LEMMA CoverMove ==
  ASSUME TypeOK, TypeOK', NEW u \in Tasks, Covered(u), NEW g, NEW h,
         refs'[u] = refs[u], freed' = freed, g \in Holders(u),
         Holders(u)' \subseteq (Holders(u) \ {g}) \cup {h}
  PROVE  Covered(u)'
<1> DEFINE R == Holders(u) \ {g}
<1>1. IsFiniteSet(R) /\ Cardinality(R) = Cardinality(Holders(u)) - 1
  BY HoldersFinite, FS_RemoveElement
<1>2. IsFiniteSet(R \cup {h}) /\ Cardinality(R \cup {h}) <= Cardinality(R) + 1
  <2>1. Cardinality(R) \in Nat BY <1>1, FS_CardinalityType
  <2>. HIDE DEF R
  <2>2. /\ IsFiniteSet(R \cup {h})
        /\ Cardinality(R \cup {h}) = IF h \in R THEN Cardinality(R) ELSE Cardinality(R) + 1
    BY <1>1, FS_AddElement, Zenon
  <2>3. QED BY <2>1, <2>2
<1>3. Cardinality(Holders(u)') <= Cardinality(R \cup {h})
  BY <1>2, FS_Subset
<1>4. refs[u] \in Nat /\ u \notin freed BY DEF TypeOK, Covered
<1>5. Cardinality(R \cup {h}) \in Nat BY <1>2, FS_CardinalityType
<1>6. Cardinality(R) \in Nat BY <1>1, FS_CardinalityType
<1>7. QED
  <2> HIDE DEF R
  <2> QED BY <1>1, <1>2, <1>3, <1>4, <1>5, <1>6, HoldersFinite DEF Covered

(* A step that drops the reference at g and its count keeps u covered, and *)
(* if it destroys u that was the only reference.                           *)
LEMMA CoverDrop ==
  ASSUME TypeOK, TypeOK', NEW u \in Tasks, Covered(u), NEW g,
         g \in Holders(u), refs'[u] = refs[u] - 1,
         u \in freed' => refs[u] = 1,
         Holders(u)' \subseteq Holders(u) \ {g}
  PROVE  Covered(u)'
<1> DEFINE R == Holders(u) \ {g}
<1>1. IsFiniteSet(R) /\ Cardinality(R) = Cardinality(Holders(u)) - 1
  BY HoldersFinite, FS_RemoveElement
<1>2. Cardinality(R) \in Nat BY <1>1, FS_CardinalityType
<1>3. Cardinality(Holders(u)') <= Cardinality(R) BY <1>1, FS_Subset
<1>4. u \notin freed /\ refs[u] \in Nat BY DEF Covered, TypeOK
<1>5. refs[u] >= Cardinality(Holders(u)) BY <1>4 DEF Covered
<1>6. refs'[u] >= Cardinality(Holders(u)')
  <2> HIDE DEF R
  <2> QED BY <1>1, <1>2, <1>3, <1>4, <1>5, HoldersFinite
<1>7. u \in freed' => Holders(u)' = {}
  <2> SUFFICES ASSUME u \in freed' PROVE Holders(u)' = {}
    OBVIOUS
  <2>1. Cardinality(Holders(u)') = 0
    <3> HIDE DEF R
    <3> QED BY <1>1, <1>2, <1>3, <1>4, <1>5, HoldersFinite
  <2>2. QED BY <2>1, HoldersFinite, FS_EmptySet
<1>8. QED BY <1>6, <1>7 DEF Covered
-----------------------------------------------------------------------------
(* The invariant and its preservation by each action.                      *)
IInv == TypeOK /\ RefsCover /\ Lifecycle

(* What chimp_task_unref does, whoever calls it: one place forgets u, the  *)
(* last reference destroys u and empties its inbox, all else stays.        *)
LEMMA UnrefEffect ==
  ASSUME IInv, NEW t \in Tasks, NEW p \in Places,
         holds[t][p] # None, Unref(t, p)
  PROVE  LET u == holds[t][p] IN
         /\ u \in Tasks /\ u \notin freed /\ refs[u] >= 1
         /\ refs' \in [Tasks -> Nat] /\ refs'[u] = refs[u] - 1
         /\ \A v \in Tasks : v # u => refs'[v] = refs[v]
         /\ freed' \subseteq Tasks /\ freed \subseteq freed'
         /\ \A v \in Tasks : v \in freed' => v \in freed \/ (v = u /\ refs[u] = 1)
         /\ inbox' \in [Tasks -> Tasks \cup {None}]
         /\ holds' \in [Tasks -> [Places -> Tasks \cup {None}]]
         /\ holds'[t][p] = None
         /\ \A x \in Tasks, q \in Places : holds'[x][q] \in {holds[x][q], None}
         /\ \A x \in Tasks, q \in Places \ {"inbox"} :
              <<x, q>> # <<t, p>> => holds'[x][q] = holds[x][q]
<1> DEFINE u == holds[t][p]
<1>1. u \in Tasks /\ u \notin freed
  <2>1. u \in Tasks BY DEF IInv, TypeOK
  <2>2. <<t, p>> \in Holders(u) BY DEF Holders
  <2>3. QED BY <2>1, <2>2 DEF IInv, RefsCover, Covered
<1>2. refs[u] >= 1
  <2>1. <<t, p>> \in Holders(u) BY DEF Holders
  <2>2. Holders(u) # {} BY <2>1
  <2>3. Cardinality(Holders(u)) # 0 BY <2>2, HoldersFinite, FS_EmptySet
  <2>4. refs[u] >= Cardinality(Holders(u)) /\ refs[u] \in Nat
    BY <1>1 DEF IInv, RefsCover, Covered, TypeOK
  <2>5. QED
    <3> HIDE DEF u
    <3> QED BY <2>3, <2>4, HoldersFinite
<1>3. /\ refs' \in [Tasks -> Nat] /\ refs'[u] = refs[u] - 1
      /\ \A v \in Tasks : v # u => refs'[v] = refs[v]
  BY <1>1, <1>2 DEF IInv, TypeOK, Unref
<1>4. /\ freed' \subseteq Tasks /\ freed \subseteq freed'
      /\ \A v \in Tasks : v \in freed' => v \in freed \/ (v = u /\ refs[u] = 1)
  BY <1>1 DEF IInv, TypeOK, Unref
<1>5. inbox' \in [Tasks -> Tasks \cup {None}]
  BY <1>1 DEF IInv, TypeOK, Unref
<1>6. "inbox" \in Places BY DEF Places, OwnPlaces
<1>7. /\ holds' \in [Tasks -> [Places -> Tasks \cup {None}]]
      /\ holds'[t][p] = None
      /\ \A x \in Tasks, q \in Places : holds'[x][q] \in {holds[x][q], None}
      /\ \A x \in Tasks, q \in Places \ {"inbox"} :
           <<x, q>> # <<t, p>> => holds'[x][q] = holds[x][q]
  <2>1. CASE refs[u] = 1
    <3>1. holds' = [holds EXCEPT ![t][p] = None, ![u]["inbox"] = None]
      BY <2>1 DEF Unref
    <3>2. QED BY <3>1, <1>1, <1>6 DEF IInv, TypeOK
  <2>2. CASE refs[u] # 1
    <3>1. holds' = [holds EXCEPT ![t][p] = None]
      BY <2>2 DEF Unref
    <3>2. QED BY <3>1, <1>1 DEF IInv, TypeOK
  <2>3. QED BY <2>1, <2>2
<1>8. QED BY <1>1, <1>2, <1>3, <1>4, <1>5, <1>7

(* So unref keeps every task covered, in any action that uses it.          *)
LEMMA UnrefCover ==
  ASSUME IInv, TypeOK', NEW t \in Tasks, NEW p \in Places,
         holds[t][p] # None, Unref(t, p)
  PROVE  RefsCover'
<1> SUFFICES ASSUME NEW v \in Tasks PROVE Covered(v)'
  BY DEF RefsCover
<1>1. Covered(v) BY DEF IInv, RefsCover
<1>2. Holders(v)' \subseteq Holders(v)
  <2>1. \A x \in Tasks, q \in Places : holds'[x][q] \in {holds[x][q], None}
    BY UnrefEffect
  <2>2. v # None BY TaskAssumption
  <2>3. QED BY <2>1, <2>2 DEF Holders
<1>3. CASE v = holds[t][p]
  <2>1. <<t, p>> \in Holders(v) BY <1>3 DEF Holders
  <2>2. <<t, p>> \notin Holders(v)'
    <3>1. holds'[t][p] = None BY UnrefEffect
    <3>2. v # None BY TaskAssumption
    <3>3. QED BY <3>1, <3>2 DEF Holders
  <2>3. Holders(v)' \subseteq Holders(v) \ {<<t, p>>} BY <1>2, <2>2
  <2>4. refs'[v] = refs[v] - 1 /\ (v \in freed' => refs[v] = 1)
    BY <1>3, UnrefEffect
  <2>5. TypeOK BY DEF IInv
  <2>6. QED BY <1>1, <2>1, <2>3, <2>4, <2>5, CoverDrop
<1>4. CASE v # holds[t][p]
  <2>1. refs'[v] = refs[v] /\ (v \in freed' => v \in freed)
    BY <1>4, UnrefEffect
  <2>2. TypeOK /\ refs[v] \in Nat BY DEF IInv, TypeOK
  <2>3. QED BY <1>1, <1>2, <2>1, <2>2, CoverShrink
<1>5. QED BY <1>3, <1>4

(* It keeps what Lifecycle says of every thread that the action does not   *)
(* move to another control point, provided the place it clears is not one  *)
(* the thread depends on.                                                  *)
LifecycleOf(x) ==
  /\ holds[x]["self"] \in {x, None}
  /\ holds[x]["thread"] \in {x, None}
  /\ pc[x] = "unborn" =>
       x \notin freed /\ Holders(x) = {} /\ \A p \in Places : holds[x][p] = None
  /\ pc[x] \notin {"unborn", "gcdelete", "ended"} => holds[x]["self"] = x
  /\ pc[x] \notin {"unborn", "ended", "failed"} /\ x # Main =>
       holds[x]["thread"] = x
  /\ x = Main => pc[x] \notin {"unborn", "gcdelete", "ended", "failed"}
  /\ InCall(x) => \E p \in Slots \cup {"self"} : holds[x][p] = arg[x]
  /\ InCall(x) => arg[x] # None
  /\ pc[x] \in {"unpack", "unref"} => holds[x]["hand"] # None

LEMMA LifecycleAll ==
  /\ Lifecycle <=> \A x \in Tasks : LifecycleOf(x)
  /\ Lifecycle' <=> \A x \in Tasks : LifecycleOf(x)'
BY DEF Lifecycle, LifecycleOf

(* Some places, named.                                                     *)
LEMMA PlaceFacts ==
  /\ Slots \subseteq Places
  /\ "self" \in Places /\ "thread" \in Places /\ "hand" \in Places /\ "inbox" \in Places
  /\ "self" \notin Slots /\ "thread" \notin Slots /\ "hand" \notin Slots /\ "inbox" \notin Slots
BY TaskAssumption DEF Places, OwnPlaces

(* A thread that an unref by another thread leaves alone keeps its facts.  *)
LEMMA UnrefOther ==
  ASSUME IInv, TypeOK', NEW t \in Tasks, NEW p \in Places,
         holds[t][p] # None, Unref(t, p),
         NEW x \in Tasks, x # t, pc'[x] = pc[x], arg'[x] = arg[x]
  PROVE  LifecycleOf(x)'
<1> DEFINE u == holds[t][p]
<1>1. LifecycleOf(x) BY LifecycleAll DEF IInv
<1>2. \A q \in Places : holds'[x][q] \in {holds[x][q], None}
  BY UnrefEffect
<1>3. \A q \in Places \ {"inbox"} : holds'[x][q] = holds[x][q]
  BY UnrefEffect
<1>4. /\ holds'[x]["self"] = holds[x]["self"]
      /\ holds'[x]["thread"] = holds[x]["thread"]
      /\ holds'[x]["hand"] = holds[x]["hand"]
      /\ \A q \in Slots \cup {"self"} : holds'[x][q] = holds[x][q]
  BY <1>3, PlaceFacts
<1>5. ASSUME pc[x] = "unborn" PROVE x \notin freed' /\ Holders(x)' = {}
  <2>1. x \notin freed /\ Holders(x) = {} BY <1>1, <1>5 DEF LifecycleOf
  <2>2. <<t, p>> \in Holders(u) BY DEF Holders
  <2>3. x # u BY <2>1, <2>2
  <2>4. x \notin freed' BY <2>1, <2>3, UnrefEffect
  <2>5. \A y \in Tasks, q \in Places : holds'[y][q] \in {holds[y][q], None}
    BY UnrefEffect
  <2>6. x # None BY TaskAssumption
  <2>7. Holders(x)' \subseteq Holders(x) BY <2>5, <2>6 DEF Holders
  <2>8. QED BY <2>1, <2>4, <2>7
<1>6. QED
  BY <1>1, <1>2, <1>4, <1>5 DEF LifecycleOf, InCall

(* The same for an action that frees nothing and counts no reference to a  *)
(* task not yet created.                                                   *)
LEMMA OtherThread ==
  ASSUME IInv, TypeOK', NEW x \in Tasks, pc'[x] = pc[x], arg'[x] = arg[x],
         freed' = freed,
         \A q \in Places \ {"inbox"} : holds'[x][q] = holds[x][q],
         pc[x] = "unborn" =>
           holds'[x]["inbox"] = holds[x]["inbox"] /\ Holders(x)' \subseteq Holders(x)
  PROVE  LifecycleOf(x)'
<1>1. LifecycleOf(x) BY LifecycleAll DEF IInv
<1>2. /\ holds'[x]["self"] = holds[x]["self"]
      /\ holds'[x]["thread"] = holds[x]["thread"]
      /\ holds'[x]["hand"] = holds[x]["hand"]
      /\ \A q \in Slots \cup {"self"} : holds'[x][q] = holds[x][q]
  BY PlaceFacts
<1>3. QED BY <1>1, <1>2 DEF LifecycleOf, InCall

(* CHOOSE picks a free slot when there is one.                             *)
LEMMA FreeSlotFact ==
  ASSUME NEW t \in Tasks, FreeSlots(t) # {}
  PROVE  FreeSlot(t) \in Slots /\ FreeSlot(t) \in Places /\ holds[t][FreeSlot(t)] = None
BY PlaceFacts DEF FreeSlots, FreeSlot

(* Tasks named by a handle, a hand or a call are created and not freed.    *)
LEMMA HeldTask ==
  ASSUME IInv, NEW t \in Tasks, NEW p \in Places, holds[t][p] # None
  PROVE  /\ holds[t][p] \in Tasks /\ holds[t][p] \notin freed
         /\ pc[holds[t][p]] # "unborn"
<1>1. holds[t][p] \in Tasks BY DEF IInv, TypeOK
<1>2. <<t, p>> \in Holders(holds[t][p]) BY DEF Holders
<1>3. QED BY <1>1, <1>2 DEF IInv, RefsCover, Covered, Lifecycle

LEMMA CallTarget ==
  ASSUME IInv, NEW t \in Tasks, InCall(t)
  PROVE  arg[t] \in Tasks /\ arg[t] \notin freed /\ pc[arg[t]] # "unborn"
<1>1. PICK p \in Slots \cup {"self"} : holds[t][p] = arg[t]
  BY DEF IInv, Lifecycle
<1>2. p \in Places /\ arg[t] # None BY PlaceFacts DEF IInv, Lifecycle
<1>3. QED BY <1>1, <1>2, HeldTask

(* A live thread's own structure is created and not freed.                 *)
LEMMA LiveThread ==
  ASSUME IInv, NEW t \in Tasks, pc[t] \notin {"unborn", "ended", "failed"}
  PROVE  t \notin freed
<1>1. t # None BY TaskAssumption
<1>2. holds[t]["self"] = t \/ holds[t]["thread"] = t
  BY DEF IInv, Lifecycle
<1>3. QED BY <1>1, <1>2, HeldTask, PlaceFacts

LEMMA SpawnInv ==
  ASSUME IInv, NEW p \in Tasks, NEW c \in Tasks, Spawn(p, c)
  PROVE  IInv'
<1> DEFINE s == FreeSlot(p)
<1>1. s \in Slots /\ s \in Places /\ holds[p][s] = None /\ p # c
  BY FreeSlotFact DEF Spawn
<1>2. TypeOK'
  BY <1>1, PlaceFacts DEF IInv, TypeOK, Spawn, PCs
<1>3. Holders(c) = {} /\ c \notin freed /\ \A q \in Places : holds[c][q] = None
  BY DEF IInv, Lifecycle, Spawn
<1>4. /\ \A q \in Places : holds'[c][q] = IF q \in {"self", "thread"} THEN c ELSE None
      /\ \A q \in Places : holds'[p][q] = IF q = s THEN c ELSE holds[p][q]
      /\ \A x \in Tasks \ {p, c} : holds'[x] = holds[x]
  <2> HIDE DEF s
  <2>1. holds' = [holds EXCEPT ![p][s] = c, ![c]["self"] = c, ![c]["thread"] = c]
    BY DEF Spawn, s
  <2>2. QED BY <1>1, <1>3, <2>1, PlaceFacts DEF IInv, TypeOK
<1>5. None \notin Tasks BY TaskAssumption
<1>6. \A u \in Tasks : u # c => Holders(u)' \subseteq Holders(u)
  BY <1>4, <1>5 DEF Holders
<1>7. RefsCover'
  <2> SUFFICES ASSUME NEW u \in Tasks PROVE Covered(u)'
    BY DEF RefsCover
  <2>1. CASE u = c
    <3>1. Holders(c)' \subseteq {<<p, s>>, <<c, "self">>, <<c, "thread">>}
      <4> HIDE DEF s
      <4> SUFFICES ASSUME NEW x \in Tasks, NEW q \in Places, holds'[x][q] = c
                   PROVE  <<x, q>> \in {<<p, s>>, <<c, "self">>, <<c, "thread">>}
        BY DEF Holders
      <4>1. CASE x = c BY <4>1, <1>4, <1>5
      <4>2. CASE x = p
        <5>1. CASE q = s BY <4>2, <5>1
        <5>2. CASE q # s
          <6>1. holds[p][q] = c BY <4>2, <5>2, <1>4
          <6>2. <<p, q>> \in Holders(c) BY <6>1 DEF Holders
          <6>3. QED BY <6>2, <1>3
        <5>3. QED BY <5>1, <5>2
      <4>3. CASE x \notin {p, c}
        <5>1. <<x, q>> \in Holders(c) BY <4>3, <1>4 DEF Holders
        <5>2. QED BY <5>1, <1>3
      <4>4. QED BY <4>1, <4>2, <4>3
    <3>2. Cardinality({<<p, s>>, <<c, "self">>, <<c, "thread">>}) <= 3
          /\ IsFiniteSet({<<p, s>>, <<c, "self">>, <<c, "thread">>})
      <4> DEFINE A == {<<p, s>>}
                 B == A \cup {<<c, "self">>}
                 C == B \cup {<<c, "thread">>}
      <4>1. IsFiniteSet(A) /\ Cardinality(A) = 1 BY FS_Singleton
      <4>2. IsFiniteSet(B) /\ Cardinality(B) \in {1, 2}
        <5> HIDE DEF A
        <5> QED BY <4>1, FS_AddElement
      <4>3. IsFiniteSet(C) /\ Cardinality(C) \in {1, 2, 3}
        <5>1. IsFiniteSet(C) /\ Cardinality(C) =
                IF <<c, "thread">> \in B THEN Cardinality(B) ELSE Cardinality(B) + 1
          BY <4>2, FS_AddElement
        <5> HIDE DEF B, C
        <5> QED BY <5>1, <4>2
      <4>4. C = {<<p, s>>, <<c, "self">>, <<c, "thread">>} OBVIOUS
      <4>5. QED BY <4>3, <4>4
    <3>3. Cardinality(Holders(c)') <= 3
      <4> DEFINE T == {<<p, s>>, <<c, "self">>, <<c, "thread">>}
      <4>1. Cardinality(Holders(c)') <= Cardinality(T) BY <3>1, <3>2, FS_Subset
      <4>2. Cardinality(T) \in Nat BY <3>2, FS_CardinalityType
      <4> HIDE DEF T
      <4>3. Cardinality(T) <= 3 BY <3>2 DEF T
      <4>4. QED BY <4>1, <4>2, <4>3, HoldersFinite
    <3>4. refs'[c] = 3 /\ c \notin freed' BY <1>3 DEF Spawn, IInv, TypeOK
    <3>5. QED BY <2>1, <3>3, <3>4 DEF Covered
  <2>2. CASE u # c
    <3>1. refs'[u] = refs[u] /\ freed' = freed /\ refs[u] \in Nat
      BY <2>2 DEF Spawn, IInv, TypeOK
    <3>2. Covered(u) /\ TypeOK BY DEF IInv, RefsCover
    <3>3. QED BY <2>2, <1>2, <1>6, <3>1, <3>2, CoverShrink
  <2>3. QED BY <2>1, <2>2
<1>8. Lifecycle'
  <2> SUFFICES ASSUME NEW x \in Tasks PROVE LifecycleOf(x)'
    BY LifecycleAll
  <2>1. CASE x = p
    <3>1. pc'[p] = "spawned" /\ arg'[p] = c BY <1>1 DEF Spawn, IInv, TypeOK
    <3>2. holds'[p][s] = c BY <1>1, <1>4
    <3>3. holds'[p]["self"] = holds[p]["self"] /\ holds'[p]["thread"] = holds[p]["thread"]
      BY <1>1, <1>4, PlaceFacts
    <3>4. LifecycleOf(p) /\ pc[p] = "idle" BY LifecycleAll DEF IInv, Spawn
    <3>5. QED BY <2>1, <1>1, <1>5, <3>1, <3>2, <3>3, <3>4 DEF LifecycleOf, InCall
  <2>2. CASE x = c
    <3>1. pc'[c] = "recvwait" BY <1>1 DEF Spawn, IInv, TypeOK
    <3>2. holds'[c]["self"] = c /\ holds'[c]["thread"] = c BY <1>4, PlaceFacts
    <3>3. QED BY <2>2, <3>1, <3>2 DEF LifecycleOf, InCall
  <2>3. CASE x \notin {p, c}
    <3>1. pc'[x] = pc[x] /\ arg'[x] = arg[x] /\ freed' = freed
      BY <2>3 DEF Spawn, IInv, TypeOK
    <3>2. QED BY <2>3, <3>1, <1>2, <1>4, <1>6, OtherThread
  <2>4. QED BY <2>1, <2>2, <2>3
<1>9. QED BY <1>2, <1>7, <1>8 DEF IInv

LEMMA SendPackInv ==
  ASSUME IInv, NEW t \in Tasks, NEW u \in Tasks, NEW cell \in Tasks \cup {None},
         SendPack(t, u, cell)
  PROVE  IInv'
<1>1. TypeOK'
  <2>1. holds' \in [Tasks -> [Places -> Tasks \cup {None}]]
    BY PlaceFacts DEF IInv, TypeOK, SendPack
  <2>2. refs' \in [Tasks -> Nat]
    <3>1. CASE cell = None BY <3>1 DEF IInv, TypeOK, SendPack
    <3>2. CASE cell # None BY <3>2 DEF IInv, TypeOK, SendPack, Ref
    <3>3. QED BY <3>1, <3>2
  <2>3. QED BY <2>1, <2>2 DEF IInv, TypeOK, SendPack, PCs
<1>2. None \notin Tasks BY TaskAssumption
<1>3. /\ \A x \in Tasks, q \in Places :
           holds'[x][q] = IF x = t /\ q = "hand" THEN cell ELSE holds[x][q]
  BY PlaceFacts DEF SendPack, IInv, TypeOK
<1>4. \A v \in Tasks : Holders(v)' \subseteq Holders(v) \cup {<<t, "hand">>}
  BY <1>3 DEF Holders
<1>5. \A v \in Tasks : v # cell => Holders(v)' \subseteq Holders(v)
  BY <1>3, <1>2 DEF Holders
<1>6. pc[t] \in {"idle", "spawned"} /\ freed' = freed BY DEF SendPack
<1>7. cell # None => cell \in Tasks /\ cell \notin freed /\ pc[cell] # "unborn"
  <2>1. CASE cell = t BY <2>1, <1>6, LiveThread
  <2>2. CASE cell \in Handles(t)
    <3>1. PICK q \in Slots : holds[t][q] = cell BY <2>2 DEF Handles
    <3>2. QED BY <3>1, HeldTask, PlaceFacts
  <2>3. QED BY <2>1, <2>2 DEF SendPack
<1>8. RefsCover'
  <2> SUFFICES ASSUME NEW v \in Tasks PROVE Covered(v)'
    BY DEF RefsCover
  <2>1. Covered(v) /\ TypeOK BY DEF IInv, RefsCover
  <2>2. CASE v = cell
    <3>1. refs'[v] = refs[v] + 1 BY <2>2, <1>2 DEF SendPack, Ref, IInv, TypeOK
    <3>2. v \notin freed BY <2>2, <1>2, <1>7
    <3>3. v \notin freed' BY <3>2, <1>6
    <3>4. Holders(v)' \subseteq Holders(v) \cup {<<t, "hand">>} BY <1>4
    <3>5. QED BY <1>1, <2>1, <3>1, <3>2, <3>3, <3>4, CoverGrow
  <2>3. CASE v # cell
    <3>1. refs'[v] = refs[v] /\ refs[v] \in Nat
      BY <2>3 DEF SendPack, Ref, IInv, TypeOK
    <3>2. Holders(v)' \subseteq Holders(v) BY <2>3, <1>5
    <3>3. QED BY <1>1, <1>6, <2>1, <3>1, <3>2, CoverShrink
  <2>4. QED BY <2>2, <2>3
<1>9. Lifecycle'
  <2> SUFFICES ASSUME NEW x \in Tasks PROVE LifecycleOf(x)'
    BY LifecycleAll
  <2>1. CASE x = t
    <3>1. pc'[t] = "sending" /\ arg'[t] = u BY DEF SendPack, IInv, TypeOK
    <3>2. \A q \in Slots \cup {"self", "thread"} : holds'[t][q] = holds[t][q]
      BY <1>3, PlaceFacts
    <3>3. \E q \in Slots \cup {"self"} : holds[t][q] = u
      <4>1. CASE pc[t] = "idle" BY <4>1 DEF SendPack, Handles
      <4>2. CASE pc[t] = "spawned"
        <5>1. InCall(t) /\ u = arg[t] BY <4>2 DEF InCall, SendPack
        <5>2. QED BY <5>1 DEF IInv, Lifecycle
      <4>3. QED BY <1>6, <4>1, <4>2
    <3>4. LifecycleOf(t) BY LifecycleAll DEF IInv
    <3>5. QED BY <2>1, <1>2, <1>6, <3>1, <3>2, <3>3, <3>4 DEF LifecycleOf, InCall
  <2>2. CASE x # t
    <3>1. pc'[x] = pc[x] /\ arg'[x] = arg[x] BY <2>2 DEF SendPack, IInv, TypeOK
    <3>2. \A q \in Places : holds'[x][q] = holds[x][q] BY <2>2, <1>3
    <3>3. pc[x] = "unborn" => Holders(x)' \subseteq Holders(x)
      BY <1>5, <1>7, <1>2
    <3>4. QED BY <1>1, <1>6, <3>1, <3>2, <3>3, PlaceFacts, OtherThread
  <2>3. QED BY <2>1, <2>2
<1>10. QED BY <1>1, <1>8, <1>9 DEF IInv

(* Two actions that lose the message in hand or move it to an inbox.       *)
LEMMA SendToDeadInv ==
  ASSUME IInv, NEW t \in Tasks, SendToDead(t)
  PROVE  IInv'
<1>1. arg[t] \in Tasks BY CallTarget DEF SendToDead, InCall
<1>2. TypeOK' BY <1>1, PlaceFacts DEF IInv, TypeOK, SendToDead, PCs
<1>3. None \notin Tasks BY TaskAssumption
<1>4. \A x \in Tasks, q \in Places :
        holds'[x][q] = IF x = t /\ q = "hand" THEN None ELSE holds[x][q]
  BY PlaceFacts DEF SendToDead, IInv, TypeOK
<1>5. \A v \in Tasks : Holders(v)' \subseteq Holders(v)
  BY <1>3, <1>4 DEF Holders
<1>6. freed' = freed /\ refs' = refs BY DEF SendToDead
<1>7. RefsCover'
  <2> SUFFICES ASSUME NEW v \in Tasks PROVE Covered(v)'
    BY DEF RefsCover
  <2>1. Covered(v) /\ TypeOK /\ refs[v] \in Nat BY DEF IInv, RefsCover, TypeOK
  <2>2. QED BY <1>2, <1>5, <1>6, <2>1, CoverShrink
<1>8. Lifecycle'
  <2> SUFFICES ASSUME NEW x \in Tasks PROVE LifecycleOf(x)'
    BY LifecycleAll
  <2>1. CASE x = t
    <3>1. pc'[t] = "idle" /\ pc[t] = "sending" BY DEF SendToDead, IInv, TypeOK
    <3>2. \A q \in Slots \cup {"self", "thread"} : holds'[t][q] = holds[t][q]
      BY <1>4, PlaceFacts
    <3>3. LifecycleOf(t) BY LifecycleAll DEF IInv
    <3>4. QED BY <2>1, <3>1, <3>2, <3>3 DEF LifecycleOf, InCall
  <2>2. CASE x # t
    <3>1. pc'[x] = pc[x] /\ arg'[x] = arg[x] BY <2>2 DEF SendToDead, IInv, TypeOK
    <3>2. QED BY <2>2, <1>2, <1>4, <1>5, <1>6, <3>1, PlaceFacts, OtherThread
  <2>3. QED BY <2>1, <2>2
<1>9. QED BY <1>2, <1>7, <1>8 DEF IInv

LEMMA SendDepositInv ==
  ASSUME IInv, NEW t \in Tasks, SendDeposit(t)
  PROVE  IInv'
<1> DEFINE u == arg[t]
<1>1. u \in Tasks /\ pc[u] # "unborn"
  BY CallTarget DEF SendDeposit, MaySend, InCall
<1>2. TypeOK'
  <2>1. holds' \in [Tasks -> [Places -> Tasks \cup {None}]]
    <3> HIDE DEF u
    <3>1. holds' = [holds EXCEPT ![t]["hand"] = None, ![u]["inbox"] = holds[t]["hand"]]
      BY DEF SendDeposit, u
    <3>2. holds[t]["hand"] \in Tasks \cup {None} BY PlaceFacts DEF IInv, TypeOK
    <3>3. QED BY <1>1, <3>1, <3>2, PlaceFacts DEF IInv, TypeOK
  <2>2. QED BY <1>1, <2>1 DEF IInv, TypeOK, SendDeposit, PCs, Broadcast
<1>3. None \notin Tasks BY TaskAssumption
<1>4. \A x \in Tasks, q \in Places :
        holds'[x][q] = IF x = u /\ q = "inbox" THEN holds[t]["hand"]
                       ELSE IF x = t /\ q = "hand" THEN None
                       ELSE holds[x][q]
  <2> HIDE DEF u
  <2>1. holds' = [holds EXCEPT ![t]["hand"] = None, ![u]["inbox"] = holds[t]["hand"]]
    BY DEF SendDeposit, u
  <2>2. QED BY <1>1, <2>1, PlaceFacts DEF IInv, TypeOK
<1>5. freed' = freed /\ refs' = refs BY DEF SendDeposit
<1>6. RefsCover'
  <2> SUFFICES ASSUME NEW v \in Tasks PROVE Covered(v)'
    BY DEF RefsCover
  <2>1. Covered(v) /\ TypeOK /\ refs[v] \in Nat BY DEF IInv, RefsCover, TypeOK
  <2>2. CASE v = holds[t]["hand"]
    <3>1. <<t, "hand">> \in Holders(v) BY <2>2, PlaceFacts DEF Holders
    <3>2. Holders(v)' \subseteq (Holders(v) \ {<<t, "hand">>}) \cup {<<u, "inbox">>}
      <4> HIDE DEF u
      <4> QED BY <1>3, <1>4 DEF Holders
    <3>3. QED BY <1>2, <1>5, <2>1, <3>1, <3>2, CoverMove
  <2>3. CASE v # holds[t]["hand"]
    <3>1. Holders(v)' \subseteq Holders(v)
      <4> HIDE DEF u
      <4> QED BY <2>3, <1>3, <1>4 DEF Holders
    <3>2. QED BY <1>2, <1>5, <2>1, <3>1, CoverShrink
  <2>4. QED BY <2>2, <2>3
<1>7. Lifecycle'
  <2> SUFFICES ASSUME NEW x \in Tasks PROVE LifecycleOf(x)'
    BY LifecycleAll
  <2>1. CASE x = t
    <3>1. pc'[t] = "idle" /\ pc[t] \in {"sending", "sendwait"}
      BY DEF SendDeposit, MaySend, IInv, TypeOK
    <3>2. \A q \in Slots \cup {"self", "thread"} : holds'[t][q] = holds[t][q]
      BY <1>4, PlaceFacts
    <3>3. LifecycleOf(t) BY LifecycleAll DEF IInv
    <3>4. QED BY <2>1, <3>1, <3>2, <3>3 DEF LifecycleOf, InCall
  <2>2. CASE x # t
    <3>1. pc'[x] = pc[x] /\ arg'[x] = arg[x] BY <2>2 DEF SendDeposit, IInv, TypeOK
    <3>2. \A q \in Places \ {"inbox"} : holds'[x][q] = holds[x][q]
      BY <2>2, <1>4
    <3>3. pc[x] = "unborn" => holds'[x]["inbox"] = holds[x]["inbox"]
                              /\ Holders(x)' \subseteq Holders(x)
      <4> SUFFICES ASSUME pc[x] = "unborn"
                   PROVE  holds'[x]["inbox"] = holds[x]["inbox"]
                          /\ Holders(x)' \subseteq Holders(x)
        OBVIOUS
      <4>1. x # u BY <1>1
      <4>2. x # holds[t]["hand"] BY <1>3, HeldTask, PlaceFacts
      <4> HIDE DEF u
      <4>3. QED BY <2>2, <4>1, <4>2, <1>3, <1>4, PlaceFacts DEF Holders
    <3>4. QED BY <1>2, <1>5, <3>1, <3>2, <3>3, OtherThread
  <2>3. QED BY <2>1, <2>2
<1>8. QED BY <1>2, <1>6, <1>7 DEF IInv

(* Actions that move no reference.                                         *)
LEMMA ControlOnly ==
  ASSUME IInv, TypeOK', NEW t \in Tasks,
         holds' = holds, refs' = refs, freed' = freed,
         \A x \in Tasks : x # t => pc'[x] = pc[x] /\ arg'[x] = arg[x],
         LifecycleOf(t)'
  PROVE  IInv'
<1>1. \A v : Holders(v)' = Holders(v) BY DEF Holders
<1>2. RefsCover' BY <1>1 DEF IInv, RefsCover, Covered
<1>3. Lifecycle'
  <2> SUFFICES ASSUME NEW x \in Tasks PROVE LifecycleOf(x)'
    BY LifecycleAll
  <2>1. CASE x # t BY <2>1, <1>1, OtherThread
  <2>2. QED BY <2>1
<1>4. QED BY <1>2, <1>3 DEF IInv

LEMMA SendBlockInv ==
  ASSUME IInv, NEW t \in Tasks, SendBlock(t)
  PROVE  IInv'
<1>1. arg[t] \in Tasks BY CallTarget DEF SendBlock, MaySend, InCall
<1>2. TypeOK' BY <1>1 DEF IInv, TypeOK, SendBlock, CondWait, PCs
<1>3. LifecycleOf(t)'
  <2>1. LifecycleOf(t) BY LifecycleAll DEF IInv
  <2>2. pc'[t] = "sendwait" /\ arg' = arg /\ holds' = holds
    BY DEF SendBlock, IInv, TypeOK
  <2>3. InCall(t) BY DEF SendBlock, MaySend, InCall
  <2>4. QED BY <2>1, <2>2, <2>3 DEF LifecycleOf, InCall, SendBlock, MaySend
<1>4. \A x \in Tasks : x # t => pc'[x] = pc[x] /\ arg'[x] = arg[x]
  BY DEF SendBlock, IInv, TypeOK
<1>5. QED BY <1>2, <1>3, <1>4, ControlOnly DEF SendBlock

LEMMA RecvInv ==
  ASSUME IInv, NEW t \in Tasks, Recv(t)
  PROVE  IInv'
<1>1. TypeOK' BY DEF IInv, TypeOK, Recv, PCs
<1>2. LifecycleOf(t)'
  <2>1. LifecycleOf(t) BY LifecycleAll DEF IInv
  <2>2. pc'[t] = "recvwait" /\ pc[t] = "idle" BY DEF Recv, IInv, TypeOK
  <2>3. QED BY <2>1, <2>2 DEF LifecycleOf, InCall, Recv
<1>3. \A x \in Tasks : x # t => pc'[x] = pc[x] /\ arg'[x] = arg[x]
  BY DEF Recv, IInv, TypeOK
<1>4. QED BY <1>1, <1>2, <1>3, ControlOnly DEF Recv

LEMMA RecvBlockInv ==
  ASSUME IInv, NEW t \in Tasks, RecvBlock(t)
  PROVE  IInv'
<1>1. TypeOK' BY DEF IInv, TypeOK, RecvBlock, CondWait
<1>2. LifecycleOf(t)'
  <2>1. LifecycleOf(t) BY LifecycleAll DEF IInv
  <2>2. pc[t] = "recvwait" BY DEF RecvBlock
  <2>3. QED BY <2>1, <2>2 DEF LifecycleOf, InCall, RecvBlock
<1>3. QED BY <1>1, <1>2, ControlOnly DEF RecvBlock

LEMMA JoinInv ==
  ASSUME IInv, NEW t \in Tasks, NEW u \in Tasks, Join(t, u)
  PROVE  IInv'
<1>1. TypeOK' BY DEF IInv, TypeOK, Join, PCs
<1>2. LifecycleOf(t)'
  <2>1. LifecycleOf(t) BY LifecycleAll DEF IInv
  <2>2. pc'[t] = "joinwait" /\ pc[t] = "idle" /\ arg'[t] = u
    BY DEF Join, IInv, TypeOK
  <2>3. u # None BY TaskAssumption
  <2>4. \E q \in Slots \cup {"self"} : holds[t][q] = u
    <3>1. CASE u \in Handles(t) BY <3>1 DEF Handles
    <3>2. CASE u = t
      <4>1. holds[t]["self"] = t BY <2>1, <2>2 DEF LifecycleOf
      <4>2. QED BY <3>2, <4>1
    <3>3. QED BY <3>1, <3>2 DEF Join
  <2>5. QED BY <2>1, <2>2, <2>3, <2>4 DEF LifecycleOf, InCall, Join
<1>3. \A x \in Tasks : x # t => pc'[x] = pc[x] /\ arg'[x] = arg[x]
  BY DEF Join, IInv, TypeOK
<1>4. QED BY <1>1, <1>2, <1>3, ControlOnly DEF Join

LEMMA JoinBlockInv ==
  ASSUME IInv, NEW t \in Tasks, JoinBlock(t)
  PROVE  IInv'
<1>1. arg[t] \in Tasks BY CallTarget DEF JoinBlock, InCall
<1>2. TypeOK' BY <1>1 DEF IInv, TypeOK, JoinBlock, CondWait
<1>3. LifecycleOf(t)'
  <2>1. LifecycleOf(t) BY LifecycleAll DEF IInv
  <2>2. pc[t] = "joinwait" BY DEF JoinBlock
  <2>3. QED BY <2>1, <2>2 DEF LifecycleOf, InCall, JoinBlock
<1>4. QED BY <1>2, <1>3, ControlOnly DEF JoinBlock

LEMMA JoinReturnInv ==
  ASSUME IInv, NEW t \in Tasks, JoinReturn(t)
  PROVE  IInv'
<1>1. TypeOK' BY DEF IInv, TypeOK, JoinReturn, PCs
<1>2. LifecycleOf(t)'
  <2>1. LifecycleOf(t) BY LifecycleAll DEF IInv
  <2>2. pc'[t] = "idle" /\ pc[t] = "joinwait" BY DEF JoinReturn, IInv, TypeOK
  <2>3. QED BY <2>1, <2>2 DEF LifecycleOf, InCall, JoinReturn
<1>3. \A x \in Tasks : x # t => pc'[x] = pc[x] /\ arg'[x] = arg[x]
  BY DEF JoinReturn, IInv, TypeOK
<1>4. QED BY <1>1, <1>2, <1>3, ControlOnly DEF JoinReturn

LEMMA SpuriousWakeupInv ==
  ASSUME IInv, NEW t \in Tasks, NEW u \in Tasks, SpuriousWakeup(t, u)
  PROVE  IInv'
<1>1. TypeOK' BY DEF IInv, TypeOK, SpuriousWakeup
<1>2. LifecycleOf(t)'
  <2>1. LifecycleOf(t) BY LifecycleAll DEF IInv
  <2>2. Holders(t)' = Holders(t) BY DEF Holders, SpuriousWakeup
  <2>3. QED BY <2>1, <2>2 DEF LifecycleOf, InCall, SpuriousWakeup
<1>3. QED BY <1>1, <1>2, ControlOnly DEF SpuriousWakeup

LEMMA FinishInv ==
  ASSUME IInv, NEW t \in Tasks, Finish(t)
  PROVE  IInv'
<1>1. TypeOK' BY DEF IInv, TypeOK, Finish, PCs
<1>2. LifecycleOf(t)'
  <2>1. LifecycleOf(t) BY LifecycleAll DEF IInv
  <2>2. pc'[t] = "gcdelete" /\ pc[t] = "idle" /\ t # Main
    BY DEF Finish, IInv, TypeOK
  <2>3. QED BY <2>1, <2>2 DEF LifecycleOf, InCall, Finish
<1>3. \A x \in Tasks : x # t => pc'[x] = pc[x] /\ arg'[x] = arg[x]
  BY DEF Finish, IInv, TypeOK
<1>4. QED BY <1>1, <1>2, <1>3, ControlOnly DEF Finish

(* The receiver moves the task cell from its inbox to its hand.            *)
LEMMA RecvTakeInv ==
  ASSUME IInv, NEW t \in Tasks, RecvTake(t)
  PROVE  IInv'
<1> DEFINE cell == holds[t]["inbox"]
<1>1. TypeOK'
  <2>1. holds' \in [Tasks -> [Places -> Tasks \cup {None}]]
    <3>1. holds' = [holds EXCEPT ![t]["hand"] = cell, ![t]["inbox"] = None]
      BY DEF RecvTake
    <3>2. cell \in Tasks \cup {None} BY PlaceFacts DEF IInv, TypeOK
    <3> HIDE DEF cell
    <3>3. QED BY <3>1, <3>2, PlaceFacts DEF IInv, TypeOK
  <2>2. pc' \in [Tasks -> PCs]
    BY DEF RecvTake, IInv, TypeOK, PCs
  <2>3. QED BY <2>1, <2>2 DEF IInv, TypeOK, RecvTake, Broadcast
<1>2. None \notin Tasks BY TaskAssumption
<1>3. \A x \in Tasks, q \in Places :
        holds'[x][q] = IF x = t /\ q = "hand" THEN cell
                       ELSE IF x = t /\ q = "inbox" THEN None
                       ELSE holds[x][q]
  <2>1. holds' = [holds EXCEPT ![t]["hand"] = cell, ![t]["inbox"] = None]
    BY DEF RecvTake
  <2> HIDE DEF cell
  <2>2. QED BY <2>1, PlaceFacts DEF IInv, TypeOK
<1>4. freed' = freed /\ refs' = refs BY DEF RecvTake
<1>5. \A v \in Tasks : v # cell => Holders(v)' \subseteq Holders(v)
  <2> HIDE DEF cell
  <2> QED BY <1>2, <1>3 DEF Holders
<1>6. RefsCover'
  <2> SUFFICES ASSUME NEW v \in Tasks PROVE Covered(v)'
    BY DEF RefsCover
  <2>1. Covered(v) /\ TypeOK /\ refs[v] \in Nat BY DEF IInv, RefsCover, TypeOK
  <2>2. CASE v = cell
    <3>1. <<t, "inbox">> \in Holders(v) BY <2>2, PlaceFacts DEF Holders
    <3>2. Holders(v)' \subseteq (Holders(v) \ {<<t, "inbox">>}) \cup {<<t, "hand">>}
      <4> HIDE DEF cell
      <4> QED BY <1>2, <1>3 DEF Holders
    <3>3. QED BY <1>1, <1>4, <2>1, <3>1, <3>2, CoverMove
  <2>3. CASE v # cell BY <2>3, <1>1, <1>4, <1>5, <2>1, CoverShrink
  <2>4. QED BY <2>2, <2>3
<1>7. Lifecycle'
  <2> SUFFICES ASSUME NEW x \in Tasks PROVE LifecycleOf(x)'
    BY LifecycleAll
  <2>1. CASE x = t
    <3>1. /\ pc[t] = "recvwait"
          /\ pc'[t] = IF cell = None THEN "idle" ELSE "unpack"
      BY DEF RecvTake, IInv, TypeOK
    <3>2. \A q \in Slots \cup {"self", "thread"} : holds'[t][q] = holds[t][q]
      BY <1>3, PlaceFacts
    <3>3. holds'[t]["hand"] = cell BY <1>3, PlaceFacts
    <3>4. LifecycleOf(t) BY LifecycleAll DEF IInv
    <3> HIDE DEF cell
    <3>5. QED BY <2>1, <3>1, <3>2, <3>3, <3>4 DEF LifecycleOf, InCall
  <2>2. CASE x # t
    <3>1. pc'[x] = pc[x] /\ arg'[x] = arg[x] BY <2>2 DEF RecvTake, IInv, TypeOK
    <3>2. \A q \in Places : holds'[x][q] = holds[x][q] BY <2>2, <1>3
    <3>3. pc[x] = "unborn" => Holders(x)' \subseteq Holders(x)
      <4>1. pc[x] = "unborn" => x # cell
        BY <1>2, HeldTask, PlaceFacts
      <4>2. QED BY <4>1, <1>5
    <3>4. QED BY <1>1, <1>4, <3>1, <3>2, <3>3, PlaceFacts, OtherThread
  <2>3. QED BY <2>1, <2>2
<1>8. QED BY <1>1, <1>6, <1>7 DEF IInv

LEMMA UnpackHandleInv ==
  ASSUME IInv, NEW t \in Tasks, UnpackHandle(t)
  PROVE  IInv'
<1> DEFINE u == holds[t]["hand"]
           s == FreeSlot(t)
<1>1. /\ u \in Tasks /\ u \notin freed /\ pc[u] # "unborn" /\ u # None
      /\ pc[t] = "unpack"
  <2>1. pc[t] = "unpack" /\ u # None BY DEF UnpackHandle, IInv, Lifecycle
  <2>2. QED BY <2>1, HeldTask, PlaceFacts
<1>2. s \in Slots /\ s \in Places /\ holds[t][s] = None
  BY FreeSlotFact DEF UnpackHandle
<1>3. /\ holds' = [holds EXCEPT ![t][s] = u]
      /\ refs' = [refs EXCEPT ![u] = @ + 1]
      /\ pc' = [pc EXCEPT ![t] = "unref"]
      /\ freed' = freed /\ arg' = arg
      /\ UNCHANGED <<inbox, full, done, lock, waiting>>
  BY DEF UnpackHandle, Ref
<1> HIDE DEF u, s
<1>4. TypeOK'
  <2>1. holds' \in [Tasks -> [Places -> Tasks \cup {None}]]
    BY <1>1, <1>2, <1>3 DEF IInv, TypeOK
  <2>2. QED BY <1>1, <1>3, <2>1 DEF IInv, TypeOK, PCs
<1>5. \A x \in Tasks, q \in Places :
        holds'[x][q] = IF x = t /\ q = s THEN u ELSE holds[x][q]
  BY <1>2, <1>3 DEF IInv, TypeOK
<1>6. \A v \in Tasks : v # u => Holders(v)' \subseteq Holders(v)
  BY <1>5 DEF Holders
<1>7. RefsCover'
  <2> SUFFICES ASSUME NEW v \in Tasks PROVE Covered(v)'
    BY DEF RefsCover
  <2>1. Covered(v) /\ TypeOK /\ refs[v] \in Nat BY DEF IInv, RefsCover, TypeOK
  <2>2. CASE v = u
    <3>1. refs'[v] = refs[v] + 1 BY <2>2, <1>3 DEF IInv, TypeOK
    <3>2. Holders(v)' \subseteq Holders(v) \cup {<<t, s>>} BY <1>5 DEF Holders
    <3>3. v \notin freed /\ v \notin freed' BY <2>2, <1>1, <1>3
    <3>4. QED BY <1>4, <2>1, <3>1, <3>2, <3>3, CoverGrow
  <2>3. CASE v # u
    <3>1. refs'[v] = refs[v] BY <2>3, <1>3 DEF IInv, TypeOK
    <3>2. QED BY <2>3, <1>3, <1>4, <1>6, <2>1, <3>1, CoverShrink
  <2>4. QED BY <2>2, <2>3
<1>8. Lifecycle'
  <2> SUFFICES ASSUME NEW x \in Tasks PROVE LifecycleOf(x)'
    BY LifecycleAll
  <2>1. CASE x = t
    <3>1. pc'[t] = "unref" BY <1>3 DEF IInv, TypeOK
    <3>2. \A q \in OwnPlaces : holds'[t][q] = holds[t][q]
      BY <1>2, <1>5, TaskAssumption DEF Places
    <3>3. LifecycleOf(t) BY LifecycleAll DEF IInv
    <3>4. QED BY <2>1, <1>1, <3>1, <3>2, <3>3 DEF LifecycleOf, InCall, OwnPlaces
  <2>2. CASE x # t
    <3>1. pc'[x] = pc[x] /\ arg'[x] = arg[x] BY <2>2, <1>3 DEF IInv, TypeOK
    <3>2. \A q \in Places : holds'[x][q] = holds[x][q] BY <2>2, <1>5
    <3>3. pc[x] = "unborn" => Holders(x)' \subseteq Holders(x)
      BY <1>1, <1>6
    <3>4. QED BY <1>3, <1>4, <3>1, <3>2, <3>3, PlaceFacts, OtherThread
  <2>3. QED BY <2>1, <2>2
<1>9. QED BY <1>4, <1>7, <1>8 DEF IInv

(* Every action that consists of one unref by its own thread.              *)
LEMMA UnrefStep ==
  ASSUME IInv, NEW t \in Tasks, NEW p \in Places, holds[t][p] # None, Unref(t, p),
         pc' \in [Tasks -> PCs],
         \A x \in Tasks : x # t => pc'[x] = pc[x],
         UNCHANGED <<arg, full, done, lock, waiting>>,
         TypeOK' => LifecycleOf(t)'
  PROVE  IInv'
<1>1. /\ refs' \in [Tasks -> Nat] /\ freed' \subseteq Tasks
      /\ inbox' \in [Tasks -> Tasks \cup {None}]
      /\ holds' \in [Tasks -> [Places -> Tasks \cup {None}]]
  BY UnrefEffect
<1>2. TypeOK' BY <1>1 DEF IInv, TypeOK
<1>3. RefsCover' BY <1>2, UnrefCover
<1>4. Lifecycle'
  <2> SUFFICES ASSUME NEW x \in Tasks PROVE LifecycleOf(x)'
    BY LifecycleAll
  <2>1. CASE x = t BY <2>1, <1>2
  <2>2. CASE x # t BY <2>2, <1>2, UnrefOther
  <2>3. QED BY <2>1, <2>2
<1>5. QED BY <1>2, <1>3, <1>4 DEF IInv

LEMMA UnpackUnrefInv ==
  ASSUME IInv, NEW t \in Tasks, UnpackUnref(t)
  PROVE  IInv'
<1>1. pc[t] = "unref" /\ holds[t]["hand"] # None /\ Unref(t, "hand")
  BY DEF UnpackUnref, IInv, Lifecycle
<1>2. pc' = [pc EXCEPT ![t] = "idle"] /\ UNCHANGED <<arg, full, done, lock, waiting>>
  BY DEF UnpackUnref
<1>3. pc' \in [Tasks -> PCs] /\ pc'[t] = "idle"
  BY <1>2 DEF IInv, TypeOK, PCs
<1>4. \A q \in Slots \cup {"self", "thread"} : holds'[t][q] = holds[t][q]
  BY <1>1, UnrefEffect, PlaceFacts
<1>5. LifecycleOf(t)'
  <2>1. LifecycleOf(t) BY LifecycleAll DEF IInv
  <2>2. QED BY <1>1, <1>3, <1>4, <2>1 DEF LifecycleOf, InCall
<1>6. \A x \in Tasks : x # t => pc'[x] = pc[x] BY <1>2 DEF IInv, TypeOK
<1>7. QED BY <1>1, <1>2, <1>3, <1>5, <1>6, UnrefStep, PlaceFacts

LEMMA CollectHandleInv ==
  ASSUME IInv, NEW t \in Tasks, NEW s \in Slots, CollectHandle(t, s)
  PROVE  IInv'
<1>1. /\ pc[t] \in {"idle", "spawned", "unpack"} /\ holds[t][s] # None
      /\ Unref(t, s) /\ UNCHANGED <<pc, arg, full, done, lock, waiting>>
      /\ pc[t] = "spawned" => holds[t][s] # arg[t]
  BY DEF CollectHandle
<1>2. s \in Places BY PlaceFacts
<1>3. \A q \in Places \ {"inbox", s} : holds'[t][q] = holds[t][q]
  BY <1>1, <1>2, UnrefEffect
<1>4. LifecycleOf(t)'
  <2>1. LifecycleOf(t) BY LifecycleAll DEF IInv
  <2>2. /\ holds'[t]["self"] = holds[t]["self"]
        /\ holds'[t]["thread"] = holds[t]["thread"]
        /\ holds'[t]["hand"] = holds[t]["hand"]
    BY <1>3, PlaceFacts
  <2>3. ASSUME pc[t] = "spawned"
        PROVE  \E q \in Slots \cup {"self"} : holds'[t][q] = arg[t]
    <3>1. PICK q \in Slots \cup {"self"} : holds[t][q] = arg[t]
      BY <2>1, <2>3 DEF LifecycleOf, InCall
    <3>2. q \in Places \ {"inbox", s} BY <3>1, <1>1, <2>3, PlaceFacts
    <3>3. QED BY <3>1, <3>2, <1>3
  <2>4. QED BY <1>1, <2>1, <2>2, <2>3 DEF LifecycleOf, InCall
<1>5. pc' \in [Tasks -> PCs] BY <1>1 DEF IInv, TypeOK
<1>6. QED BY <1>1, <1>2, <1>4, <1>5, UnrefStep

LEMMA DestroyHandleInv ==
  ASSUME IInv, NEW t \in Tasks, NEW p \in Slots \cup {"self"}, DestroyHandle(t, p)
  PROVE  IInv'
<1>1. /\ pc[t] = "gcdelete" /\ holds[t][p] # None
      /\ Unref(t, p) /\ UNCHANGED <<pc, arg, full, done, lock, waiting>>
  BY DEF DestroyHandle
<1>2. p \in Places /\ p # "thread" /\ p # "hand" BY PlaceFacts
<1>3. /\ holds'[t]["thread"] = holds[t]["thread"]
      /\ holds'[t]["self"] \in {holds[t]["self"], None}
  BY <1>1, <1>2, UnrefEffect, PlaceFacts
<1>4. LifecycleOf(t)'
  <2>1. LifecycleOf(t) BY LifecycleAll DEF IInv
  <2>2. QED BY <1>1, <1>3, <2>1 DEF LifecycleOf, InCall
<1>5. pc' \in [Tasks -> PCs] BY <1>1 DEF IInv, TypeOK
<1>6. QED BY <1>1, <1>2, <1>4, <1>5, UnrefStep

(* The two ends of a thread that go through unref.                         *)
LEMMA ThreadGone ==
  ASSUME IInv, NEW t \in Tasks, pc[t] \in {"idle", "gcdelete"}, t # Main,
         Unref(t, "thread"),
         \E end \in {"ended", "failed"} :
           /\ pc' = [pc EXCEPT ![t] = end]
           /\ end = "failed" => pc[t] = "idle",
         UNCHANGED <<arg, full, done, lock, waiting>>
  PROVE  IInv'
<1>1. PICK end \in {"ended", "failed"} :
        pc' = [pc EXCEPT ![t] = end] /\ (end = "failed" => pc[t] = "idle")
  OBVIOUS
<1>2. LifecycleOf(t) BY LifecycleAll DEF IInv
<1>3. holds[t]["thread"] # None
  BY <1>2, TaskAssumption DEF LifecycleOf
<1>4. pc' \in [Tasks -> PCs] /\ pc'[t] = end BY <1>1 DEF IInv, TypeOK, PCs
<1>5. /\ holds'[t]["thread"] = None
      /\ holds'[t]["self"] = holds[t]["self"]
  BY <1>3, UnrefEffect, PlaceFacts
<1>6. LifecycleOf(t)'
  BY <1>1, <1>2, <1>4, <1>5 DEF LifecycleOf, InCall
<1>7. \A x \in Tasks : x # t => pc'[x] = pc[x] BY <1>1 DEF IInv, TypeOK
<1>8. QED BY <1>3, <1>4, <1>6, <1>7, UnrefStep, PlaceFacts

LEMMA ThreadExitDoneInv ==
  ASSUME IInv, NEW t \in Tasks, ThreadExitDone(t)
  PROVE  IInv'
<1>1. /\ pc[t] = "gcdelete" /\ refs[t] > 1
      /\ refs' = [refs EXCEPT ![t] = @ - 1]
      /\ holds' = [holds EXCEPT ![t]["inbox"] = None, ![t]["thread"] = None]
      /\ pc' = [pc EXCEPT ![t] = "ended"]
      /\ arg' = arg /\ freed' = freed
  BY DEF ThreadExitDone
<1>2. TypeOK'
  <2>1. holds' \in [Tasks -> [Places -> Tasks \cup {None}]]
    BY <1>1, PlaceFacts DEF IInv, TypeOK
  <2>2. refs' \in [Tasks -> Nat] BY <1>1 DEF IInv, TypeOK
  <2>3. QED BY <2>1, <2>2 DEF IInv, TypeOK, ThreadExitDone, Broadcast, PCs
<1>3. \A x \in Tasks, q \in Places :
        holds'[x][q] = IF x = t /\ q \in {"inbox", "thread"} THEN None ELSE holds[x][q]
  BY <1>1, PlaceFacts DEF IInv, TypeOK
<1>4. None \notin Tasks BY TaskAssumption
<1>5. \A v \in Tasks : Holders(v)' \subseteq Holders(v) \ {<<t, "thread">>}
  BY <1>3, <1>4, PlaceFacts DEF Holders
<1>6. t # Main /\ holds[t]["thread"] = t BY <1>1 DEF IInv, Lifecycle
<1>7. RefsCover'
  <2> SUFFICES ASSUME NEW v \in Tasks PROVE Covered(v)'
    BY DEF RefsCover
  <2>1. Covered(v) /\ TypeOK /\ refs[v] \in Nat BY DEF IInv, RefsCover, TypeOK
  <2>2. CASE v = t
    <3>1. <<t, "thread">> \in Holders(v) BY <2>2, <1>6, PlaceFacts DEF Holders
    <3>2. refs'[v] = refs[v] - 1 BY <2>2, <1>1 DEF IInv, TypeOK
    <3>3. v \notin freed' BY <2>2, <1>1, LiveThread
    <3>4. QED BY <1>2, <1>5, <2>1, <3>1, <3>2, <3>3, CoverDrop
  <2>3. CASE v # t
    <3>1. refs'[v] = refs[v] BY <2>3, <1>1 DEF IInv, TypeOK
    <3>2. QED BY <1>1, <1>2, <1>5, <2>1, <3>1, CoverShrink
  <2>4. QED BY <2>2, <2>3
<1>8. Lifecycle'
  <2> SUFFICES ASSUME NEW x \in Tasks PROVE LifecycleOf(x)'
    BY LifecycleAll
  <2>1. CASE x = t
    <3>1. pc'[t] = "ended" BY <1>1 DEF IInv, TypeOK
    <3>2. holds'[t]["self"] = holds[t]["self"] /\ holds'[t]["thread"] = None
      BY <1>3, PlaceFacts
    <3>3. LifecycleOf(t) BY LifecycleAll DEF IInv
    <3>4. QED BY <2>1, <1>6, <3>1, <3>2, <3>3 DEF LifecycleOf, InCall
  <2>2. CASE x # t
    <3>1. pc'[x] = pc[x] /\ arg'[x] = arg[x] BY <2>2, <1>1 DEF IInv, TypeOK
    <3>2. \A q \in Places : holds'[x][q] = holds[x][q] BY <2>2, <1>3
    <3>3. Holders(x)' \subseteq Holders(x) BY <1>5
    <3>4. QED BY <1>1, <1>2, <3>1, <3>2, <3>3, PlaceFacts, OtherThread
  <2>3. QED BY <2>1, <2>2
<1>9. QED BY <1>2, <1>7, <1>8 DEF IInv
-----------------------------------------------------------------------------
(* The theorems.                                                           *)

LEMMA InitInv == Init => IInv
<1> SUFFICES ASSUME Init PROVE IInv
  OBVIOUS
<1>1. TypeOK BY TaskAssumption DEF Init, TypeOK, PCs
<1>2. \A x \in Tasks, q \in Places :
        holds[x][q] = IF x = Main /\ q = "self" THEN Main ELSE None
  BY DEF Init
<1>3. Main \in Tasks /\ None \notin Tasks BY TaskAssumption
<1>4. \A v \in Tasks : Holders(v) = IF v = Main THEN {<<Main, "self">>} ELSE {}
  BY <1>2, <1>3, PlaceFacts DEF Holders
<1>5. RefsCover
  <2>1. Cardinality({<<Main, "self">>}) = 1 /\ Cardinality({}) = 0
    BY FS_Singleton, FS_EmptySet
  <2>2. SUFFICES ASSUME NEW v \in Tasks PROVE Covered(v)
    BY DEF RefsCover
  <2>3. v \notin freed /\ refs[v] = IF v = Main THEN 1 ELSE 0 BY DEF Init
  <2>4. Cardinality(Holders(v)) = IF v = Main THEN 1 ELSE 0 BY <1>4, <2>1
  <2>5. QED BY <2>3, <2>4 DEF Covered
<1>6. Lifecycle
  BY <1>2, <1>3, <1>4, PlaceFacts DEF Lifecycle, Init, InCall
<1>7. QED BY <1>1, <1>5, <1>6 DEF IInv

LEMMA NextInv == IInv /\ [Next]_vars => IInv'
<1> SUFFICES ASSUME IInv, [Next]_vars PROVE IInv'
  OBVIOUS
<1>1. CASE UNCHANGED vars
  <2>1. \A v : Holders(v)' = Holders(v) BY <1>1 DEF vars, Holders
  <2>2. TypeOK' BY <1>1 DEF vars, IInv, TypeOK
  <2>3. RefsCover' BY <1>1, <2>1 DEF vars, IInv, RefsCover, Covered
  <2>4. Lifecycle'
    <3> SUFFICES ASSUME NEW x \in Tasks PROVE LifecycleOf(x)'
      BY LifecycleAll
    <3>1. LifecycleOf(x) BY LifecycleAll DEF IInv
    <3>2. QED BY <1>1, <2>1, <3>1 DEF vars, LifecycleOf, InCall
  <2>5. QED BY <2>2, <2>3, <2>4 DEF IInv
<1>2. ASSUME NEW t \in Tasks, Call(t) PROVE IInv'
  <2>1. ASSUME NEW c \in Tasks, Spawn(t, c) PROVE IInv'
    BY <2>1, SpawnInv
  <2>2. ASSUME NEW u \in Tasks, NEW cell \in Tasks \cup {None}, SendPack(t, u, cell)
        PROVE IInv'
    BY <2>2, SendPackInv
  <2>3. CASE Recv(t) BY <2>3, RecvInv
  <2>4. ASSUME NEW u \in Tasks, Join(t, u) PROVE IInv'
    BY <2>4, JoinInv
  <2>5. ASSUME NEW s \in Slots, CollectHandle(t, s) PROVE IInv'
    BY <2>5, CollectHandleInv
  <2>6. CASE Finish(t) BY <2>6, FinishInv
  <2>7. CASE Fail(t) BY <2>7, ThreadGone DEF Fail
  <2>8. QED BY <1>2, <2>1, <2>2, <2>3, <2>4, <2>5, <2>6, <2>7 DEF Call
<1>3. ASSUME NEW t \in Tasks, Step(t) PROVE IInv'
  <2>1. CASE SendToDead(t) BY <2>1, SendToDeadInv
  <2>2. CASE SendBlock(t) BY <2>2, SendBlockInv
  <2>3. CASE SendDeposit(t) BY <2>3, SendDepositInv
  <2>4. CASE RecvBlock(t) BY <2>4, RecvBlockInv
  <2>5. CASE RecvTake(t) BY <2>5, RecvTakeInv
  <2>6. CASE UnpackHandle(t) BY <2>6, UnpackHandleInv
  <2>7. CASE UnpackUnref(t) BY <2>7, UnpackUnrefInv
  <2>8. CASE JoinBlock(t) BY <2>8, JoinBlockInv
  <2>9. CASE JoinReturn(t) BY <2>9, JoinReturnInv
  <2>10. ASSUME NEW p \in Slots \cup {"self"}, DestroyHandle(t, p) PROVE IInv'
    BY <2>10, DestroyHandleInv
  <2>11. CASE ThreadExitLast(t)
    <3>1. t # Main BY <2>11 DEF ThreadExitLast, IInv, Lifecycle
    <3>2. QED BY <2>11, <3>1, ThreadGone DEF ThreadExitLast
  <2>12. CASE ThreadExitDone(t) BY <2>12, ThreadExitDoneInv
  <2>13. QED BY <1>3, <2>1, <2>2, <2>3, <2>4, <2>5, <2>6, <2>7, <2>8, <2>9,
                <2>10, <2>11, <2>12 DEF Step
<1>4. ASSUME NEW t \in Tasks, NEW u \in Tasks, SpuriousWakeup(t, u) PROVE IInv'
  BY <1>4, SpuriousWakeupInv
<1>5. QED BY <1>1, <1>2, <1>3, <1>4 DEF Next

(* The reference count of a task covers every reference to it, wherever    *)
(* it lives: in a heap, in a packed message, in an inbox, in its thread.   *)
THEOREM RefsAlwaysCover == Spec => []RefsCover
<1>1. IInv => RefsCover BY DEF IInv
<1>2. QED BY <1>1, InitInv, NextInv, PTL DEF Spec

(* Every variable keeps its type, whatever the tasks do to each other.     *)
THEOREM TypeCorrect == Spec => []TypeOK
<1>1. IInv => TypeOK BY DEF IInv
<1>2. QED BY <1>1, InitInv, NextInv, PTL DEF Spec

(* The flags, the references and the thread of a task are at one point of  *)
(* its life together, whoever joins, sends or collects meanwhile.          *)
THEOREM LifecycleHolds == Spec => []Lifecycle
<1>1. IInv => Lifecycle BY DEF IInv
<1>2. QED BY <1>1, InitInv, NextInv, PTL DEF Spec

(* No thread reaches a destroyed task: not through a handle or a message,  *)
(* not in a call it is blocked in, and not its own structure.              *)
THEOREM NeverUsedAfterFree == Spec => []NoUseAfterFree
<1>1. IInv => NoUseAfterFree
  <2> SUFFICES ASSUME IInv, NEW t \in Tasks
               PROVE  /\ \A p \in Places : holds[t][p] \notin freed
                      /\ InCall(t) => arg[t] \notin freed
                      /\ pc[t] \notin {"unborn", "ended", "failed"} => t \notin freed
    BY DEF NoUseAfterFree
  <2>1. ASSUME NEW p \in Places PROVE holds[t][p] \notin freed
    <3>1. CASE holds[t][p] = None BY <3>1, TaskAssumption DEF IInv, TypeOK
    <3>2. CASE holds[t][p] # None BY <3>2, HeldTask
    <3>3. QED BY <3>1, <3>2
  <2>2. InCall(t) => arg[t] \notin freed BY CallTarget
  <2>3. pc[t] \notin {"unborn", "ended", "failed"} => t \notin freed BY LiveThread
  <2>4. QED BY <2>1, <2>2, <2>3
<1>2. QED BY <1>1, InitInv, NextInv, PTL DEF Spec
-----------------------------------------------------------------------------
(* The inbox.  INBOX_FULL may outlive the message (a thread that exits     *)
(* frees the one but not the other), never the reverse.                    *)
InboxFlagged == \A u \in Tasks : inbox[u] # None => full[u]

InboxInv == IInv /\ InboxFlagged

(* An action either leaves inboxes and flags alone, or empties one, or     *)
(* fills one whose flag was clear.                                         *)
LEMMA InboxStep ==
  ASSUME IInv, Next
  PROVE  \/ UNCHANGED <<inbox, full>>
         \/ \E u \in Tasks : inbox' = [inbox EXCEPT ![u] = None] /\ full' = full
         \/ \E u \in Tasks : /\ inbox' = [inbox EXCEPT ![u] = None]
                            /\ full' = [full EXCEPT ![u] = FALSE]
         \/ \E u, t \in Tasks : /\ ~full[u]
                               /\ inbox' = [inbox EXCEPT ![u] = t]
                               /\ full' = [full EXCEPT ![u] = TRUE]
<1> DEFINE Goal == \/ UNCHANGED <<inbox, full>>
                   \/ \E u \in Tasks : inbox' = [inbox EXCEPT ![u] = None] /\ full' = full
                   \/ \E u \in Tasks : /\ inbox' = [inbox EXCEPT ![u] = None]
                                      /\ full' = [full EXCEPT ![u] = FALSE]
                   \/ \E u, t \in Tasks : /\ ~full[u]
                                         /\ inbox' = [inbox EXCEPT ![u] = t]
                                         /\ full' = [full EXCEPT ![u] = TRUE]
<1>1. ASSUME NEW t \in Tasks, NEW p \in Places, holds[t][p] # None,
             Unref(t, p), full' = full
      PROVE  Goal
  <2>1. holds[t][p] \in Tasks BY <1>1, HeldTask
  <2>2. inbox' = inbox \/ inbox' = [inbox EXCEPT ![holds[t][p]] = None]
    BY <1>1 DEF Unref
  <2>3. QED BY <1>1, <2>1, <2>2
<1>2. PICK t \in Tasks : \/ Call(t)
                         \/ Step(t)
                         \/ \E u \in Tasks : SpuriousWakeup(t, u)
  BY DEF Next
<1>3. CASE Call(t)
  <2>1. CASE \E s \in Slots : CollectHandle(t, s)
    <3>1. PICK s \in Slots : CollectHandle(t, s) BY <2>1
    <3>2. QED BY <3>1, <1>1, PlaceFacts DEF CollectHandle
  <2>2. CASE Fail(t)
    <3>1. holds[t]["thread"] = t BY <2>2 DEF Fail, IInv, Lifecycle
    <3>2. QED BY <2>2, <3>1, <1>1, TaskAssumption, PlaceFacts DEF Fail
  <2>3. QED BY <1>3, <2>1, <2>2 DEF Call, Spawn, SendPack, Recv, Join, Finish
<1>4. CASE Step(t)
  <2>1. CASE UnpackUnref(t)
    <3>1. holds[t]["hand"] # None BY <2>1 DEF UnpackUnref, IInv, Lifecycle
    <3>2. QED BY <2>1, <3>1, <1>1, PlaceFacts DEF UnpackUnref
  <2>2. CASE \E p \in Slots \cup {"self"} : DestroyHandle(t, p)
    <3>1. PICK p \in Slots \cup {"self"} : DestroyHandle(t, p) BY <2>2
    <3>2. QED BY <3>1, <1>1, PlaceFacts DEF DestroyHandle
  <2>3. CASE ThreadExitLast(t)
    <3>1. holds[t]["thread"] = t BY <2>3 DEF ThreadExitLast, IInv, Lifecycle
    <3>2. QED BY <2>3, <3>1, <1>1, TaskAssumption, PlaceFacts DEF ThreadExitLast
  <2>4. CASE ThreadExitDone(t) BY <2>4 DEF ThreadExitDone
  <2>5. CASE SendDeposit(t)
    <3>1. arg[t] \in Tasks
      BY <2>5, CallTarget DEF SendDeposit, MaySend, InCall
    <3>2. QED BY <2>5, <3>1 DEF SendDeposit
  <2>6. CASE RecvTake(t) BY <2>6 DEF RecvTake
  <2>7. QED BY <1>4, <2>1, <2>2, <2>3, <2>4, <2>5, <2>6
            DEF Step, SendToDead, SendBlock, RecvBlock, UnpackHandle, JoinBlock,
                JoinReturn
<1>5. CASE \E u \in Tasks : SpuriousWakeup(t, u) BY <1>5 DEF SpuriousWakeup
<1>6. QED BY <1>2, <1>3, <1>4, <1>5

(* No message that was accepted is overwritten: the proof rests on the     *)
(* flag covering the slot, and on every sender looking at the flag again   *)
(* after each wait.                                                        *)
THEOREM NeverOverwritten == Spec => NoOverwrite
<1>1. Init => InboxInv
  <2>1. Init => InboxFlagged BY DEF Init, InboxFlagged
  <2>2. QED BY <2>1, InitInv DEF InboxInv
<1>2. InboxInv /\ [Next]_vars => InboxInv'
  <2> SUFFICES ASSUME InboxInv, [Next]_vars PROVE InboxFlagged'
    BY NextInv DEF InboxInv
  <2>1. CASE UNCHANGED vars BY <2>1 DEF vars, InboxInv, InboxFlagged
  <2>2. CASE Next BY <2>2, InboxStep DEF InboxInv, InboxFlagged, IInv, TypeOK
  <2>3. QED BY <2>1, <2>2
<1>3. InboxInv /\ [Next]_vars =>
        [\A u \in Tasks : inbox[u] # None => inbox'[u] \in {inbox[u], None}]_vars
  <2> SUFFICES ASSUME InboxInv, Next, NEW u \in Tasks, inbox[u] # None
               PROVE  inbox'[u] \in {inbox[u], None}
    OBVIOUS
  <2>1. full[u] BY DEF InboxInv, InboxFlagged
  <2>2. QED BY <2>1, InboxStep DEF InboxInv, IInv, TypeOK
<1>4. QED BY <1>1, <1>2, <1>3, PTL DEF Spec, NoOverwrite
-----------------------------------------------------------------------------
(* The heap of a task that is DONE.                                        *)

(* A thread has a message in hand only while it sends or decodes one, and  *)
(* a DONE task has ended with nothing in its heap or its hand.             *)
Carrying == {"sending", "sendwait", "unpack", "unref"}

Settled(x) ==
  /\ pc[x] \notin Carrying => holds[x]["hand"] = None
  /\ done[x] => /\ pc[x] = "ended"
                /\ \A q \in Places \ {"inbox"} : holds[x][q] = None

(* A step that leaves the thread where it is and adds nothing to its heap. *)
LEMMA SettledFrame ==
  ASSUME NEW x \in Tasks, Settled(x), pc'[x] = pc[x], done'[x] = done[x],
         \A q \in Places \ {"inbox"} : holds'[x][q] \in {holds[x][q], None}
  PROVE  Settled(x)'
<1>1. "hand" \in Places \ {"inbox"} BY PlaceFacts
<1>2. QED BY <1>1 DEF Settled

(* A thread that goes on is not DONE; it need only mind what it has in     *)
(* hand where it goes.                                                     *)
LEMMA SettledMove ==
  ASSUME NEW x \in Tasks, Settled(x), pc[x] # "ended", done'[x] = done[x],
         pc'[x] \notin Carrying => holds'[x]["hand"] = None
  PROVE  Settled(x)'
BY DEF Settled

(* The steps that release a reference.                                     *)
LEMMA UnrefSettled ==
  ASSUME IInv, NEW t \in Tasks, NEW p \in Places, holds[t][p] # None, Unref(t, p),
         pc[t] # "ended",
         pc'[t] = pc[t] \/ (pc'[t] \notin Carrying /\ (p = "hand" \/ pc[t] \notin Carrying)),
         NEW x \in Tasks, Settled(x), done'[x] = done[x], x # t => pc'[x] = pc[x]
  PROVE  Settled(x)'
<1>1. /\ \A y \in Tasks, q \in Places : holds'[y][q] \in {holds[y][q], None}
      /\ holds'[t][p] = None
  BY UnrefEffect
<1>2. CASE x # t \/ pc'[t] = pc[t]
  BY <1>1, <1>2, SettledFrame
<1>3. CASE x = t /\ pc'[t] # pc[t]
  <2>1. holds[t]["hand"] = None \/ p = "hand" BY <1>3 DEF Settled
  <2>2. holds'[t]["hand"] = None BY <1>1, <2>1, PlaceFacts
  <2>3. QED BY <1>3, <2>2, SettledMove
<1>4. QED BY <1>2, <1>3

LEMMA CallSettled ==
  ASSUME IInv, NEW t \in Tasks, Call(t), NEW x \in Tasks, Settled(x)
  PROVE  Settled(x)'
<1> USE DEF Carrying
<1>1. ASSUME NEW c \in Tasks, Spawn(t, c) PROVE Settled(x)'
  <2>1. t # c /\ FreeSlot(t) \in Slots /\ done' = done
    BY <1>1, FreeSlotFact DEF Spawn
  <2>2. CASE x = t
    <3>1. holds'[t]["hand"] = holds[t]["hand"]
      BY <1>1, <2>1, PlaceFacts DEF Spawn, IInv, TypeOK
    <3>2. QED BY <1>1, <2>1, <2>2, <3>1, SettledMove DEF Spawn, Settled
  <2>3. CASE x = c
    <3>1. holds'[c]["hand"] = holds[c]["hand"]
      BY <1>1, <2>1, PlaceFacts DEF Spawn, IInv, TypeOK
    <3>2. QED BY <1>1, <2>1, <2>3, <3>1, SettledMove DEF Spawn, Settled
  <2>4. CASE x \notin {t, c}
    <3>1. pc'[x] = pc[x] /\ holds'[x] = holds[x]
      BY <1>1, <2>1, <2>4 DEF Spawn, IInv, TypeOK
    <3>2. QED BY <2>1, <3>1, SettledFrame
  <2>5. QED BY <2>2, <2>3, <2>4
<1>2. ASSUME NEW u \in Tasks, NEW cell \in Tasks \cup {None}, SendPack(t, u, cell)
      PROVE  Settled(x)'
  <2>1. CASE x = t
    BY <1>2, <2>1, SettledMove DEF SendPack, IInv, TypeOK
  <2>2. CASE x # t
    BY <1>2, <2>2, SettledFrame DEF SendPack, IInv, TypeOK
  <2>3. QED BY <2>1, <2>2
<1>3. CASE Recv(t) \/ Finish(t) \/ \E u \in Tasks : Join(t, u)
  <2>1. CASE x = t
    BY <1>3, <2>1, SettledMove DEF Recv, Finish, Join, IInv, TypeOK, Settled
  <2>2. CASE x # t
    BY <1>3, <2>2, SettledFrame DEF Recv, Finish, Join, IInv, TypeOK
  <2>3. QED BY <2>1, <2>2
<1>4. ASSUME NEW s \in Slots, CollectHandle(t, s) PROVE Settled(x)'
  <2>1. s \in Places BY PlaceFacts
  <2>2. holds[t][s] # None BY <1>4 DEF CollectHandle
  <2>3. Unref(t, s) BY <1>4 DEF CollectHandle
  <2>4. pc' = pc /\ done' = done BY <1>4 DEF CollectHandle
  <2>5. \A y \in Tasks, q \in Places : holds'[y][q] \in {holds[y][q], None}
    BY <2>1, <2>2, <2>3, UnrefEffect
  <2>6. QED BY <2>4, <2>5, SettledFrame
<1>5. CASE Fail(t)
  <2>1. holds[t]["thread"] = t /\ t # None
    BY <1>5, TaskAssumption DEF Fail, IInv, Lifecycle
  <2>2. pc'[t] = "failed" /\ \A y \in Tasks \ {t} : pc'[y] = pc[y]
    BY <1>5 DEF Fail, IInv, TypeOK
  <2>3. QED BY <1>5, <2>1, <2>2, UnrefSettled, PlaceFacts DEF Fail
<1>6. QED BY <1>1, <1>2, <1>3, <1>4, <1>5 DEF Call

LEMMA StepSettled ==
  ASSUME IInv, NEW t \in Tasks, Step(t), NEW x \in Tasks, Settled(x)
  PROVE  Settled(x)'
<1> USE DEF Carrying
<1>1. CASE SendToDead(t) \/ SendBlock(t)
  <2>1. CASE x = t
    BY <1>1, <2>1, SettledMove, PlaceFacts
       DEF SendToDead, SendBlock, MaySend, IInv, TypeOK, Settled
  <2>2. CASE x # t
    BY <1>1, <2>2, SettledFrame DEF SendToDead, SendBlock, IInv, TypeOK
  <2>3. QED BY <2>1, <2>2
<1>2. CASE SendDeposit(t)
  <2>1. arg[t] \in Tasks /\ done' = done /\ pc[t] # "ended"
    BY <1>2, CallTarget DEF SendDeposit, MaySend, InCall
  <2>2. \A y \in Tasks, q \in Places \ {"inbox"} :
          holds'[y][q] = IF y = t /\ q = "hand" THEN None ELSE holds[y][q]
    BY <1>2, <2>1, PlaceFacts DEF SendDeposit, IInv, TypeOK
  <2>3. CASE x = t
    BY <2>1, <2>2, <2>3, SettledMove, PlaceFacts
  <2>4. CASE x # t
    BY <1>2, <2>1, <2>2, <2>4, SettledFrame DEF SendDeposit, IInv, TypeOK
  <2>5. QED BY <2>3, <2>4
<1>3. CASE RecvBlock(t) \/ JoinBlock(t)
  BY <1>3, SettledFrame DEF RecvBlock, JoinBlock
<1>4. CASE RecvTake(t)
  <2>1. /\ holds'[t]["hand"] = holds[t]["inbox"]
        /\ pc'[t] = IF holds[t]["inbox"] = None THEN "idle" ELSE "unpack"
    BY <1>4, PlaceFacts DEF RecvTake, IInv, TypeOK
  <2>2. CASE x = t
    BY <1>4, <2>1, <2>2, SettledMove DEF RecvTake
  <2>3. CASE x # t
    BY <1>4, <2>3, SettledFrame DEF RecvTake, IInv, TypeOK
  <2>4. QED BY <2>2, <2>3
<1>5. CASE UnpackHandle(t)
  <2>1. pc'[t] = "unref"
    BY <1>5 DEF UnpackHandle, IInv, TypeOK
  <2>2. CASE x = t
    BY <1>5, <2>1, <2>2, SettledMove DEF UnpackHandle
  <2>3. CASE x # t
    BY <1>5, <2>3, SettledFrame DEF UnpackHandle, IInv, TypeOK
  <2>4. QED BY <2>2, <2>3
<1>6. CASE UnpackUnref(t)
  <2>1. holds[t]["hand"] # None
    BY <1>6 DEF UnpackUnref, IInv, Lifecycle
  <2>2. pc'[t] = "idle" /\ \A y \in Tasks \ {t} : pc'[y] = pc[y]
    BY <1>6 DEF UnpackUnref, IInv, TypeOK
  <2>3. QED BY <1>6, <2>1, <2>2, UnrefSettled, PlaceFacts DEF UnpackUnref
<1>7. CASE JoinReturn(t)
  <2>1. CASE x = t
    BY <1>7, <2>1, SettledMove DEF JoinReturn, IInv, TypeOK, Settled
  <2>2. CASE x # t
    BY <1>7, <2>2, SettledFrame DEF JoinReturn, IInv, TypeOK
  <2>3. QED BY <2>1, <2>2
<1>8. ASSUME NEW p \in Slots \cup {"self"}, DestroyHandle(t, p) PROVE Settled(x)'
  BY <1>8, UnrefSettled, PlaceFacts DEF DestroyHandle
<1>9. CASE ThreadExitLast(t)
  <2>1. holds[t]["thread"] = t /\ t # None
    BY <1>9, TaskAssumption DEF ThreadExitLast, IInv, Lifecycle
  <2>2. pc'[t] = "ended" /\ \A y \in Tasks \ {t} : pc'[y] = pc[y]
    BY <1>9 DEF ThreadExitLast, IInv, TypeOK
  <2>3. QED BY <1>9, <2>1, <2>2, UnrefSettled, PlaceFacts DEF ThreadExitLast
<1>10. CASE ThreadExitDone(t)
  <2>1. CASE x = t
    <3>1. holds[t]["hand"] = None
      BY <1>10, <2>1 DEF ThreadExitDone, Settled
    <3>2. \A q \in Places \ {"inbox"} : holds'[t][q] = None
      <4> SUFFICES ASSUME NEW q \in Places \ {"inbox"} PROVE holds'[t][q] = None
        OBVIOUS
      <4>1. holds'[t][q] = IF q = "thread" THEN None ELSE holds[t][q]
        BY <1>10, PlaceFacts DEF ThreadExitDone, IInv, TypeOK
      <4>2. q \in Slots \cup {"self", "thread", "hand"}
        BY DEF Places, OwnPlaces
      <4>3. QED BY <1>10, <3>1, <4>1, <4>2 DEF ThreadExitDone, HeapEmpty
    <3>3. pc'[t] = "ended" BY <1>10 DEF ThreadExitDone, IInv, TypeOK
    <3>4. QED BY <2>1, <3>2, <3>3, PlaceFacts DEF Settled
  <2>2. CASE x # t
    BY <1>10, <2>2, SettledFrame DEF ThreadExitDone, IInv, TypeOK
  <2>3. QED BY <2>1, <2>2
<1>11. QED BY <1>1, <1>2, <1>3, <1>4, <1>5, <1>6, <1>7, <1>8, <1>9, <1>10 DEF Step

(* A DONE task has released everything its heap referred to: it was set    *)
(* DONE by its own thread, after the heap, and no thread does anything     *)
(* more in a heap once it has ended.                                       *)
THEOREM DoneHeapIsReleased == Spec => []DoneHeapReleased
<1> DEFINE AllSettled == \A x \in Tasks : Settled(x)
<1>1. Init => AllSettled
  BY TaskAssumption, PlaceFacts DEF Init, Settled
<1>2. IInv /\ AllSettled /\ [Next]_vars => AllSettled'
  <2> SUFFICES ASSUME IInv, AllSettled, [Next]_vars, NEW x \in Tasks PROVE Settled(x)'
    OBVIOUS
  <2>1. Settled(x) OBVIOUS
  <2>2. CASE UNCHANGED vars BY <2>1, <2>2, SettledFrame DEF vars
  <2>3. ASSUME NEW t \in Tasks, NEW u \in Tasks, SpuriousWakeup(t, u) PROVE Settled(x)'
    BY <2>1, <2>3, SettledFrame DEF SpuriousWakeup
  <2>4. QED BY <2>1, <2>2, <2>3, CallSettled, StepSettled DEF Next
<1>3. AllSettled => DoneHeapReleased BY DEF Settled, DoneHeapReleased
<1>4. QED
  <2> HIDE DEF AllSettled
  <2> QED BY <1>1, <1>2, <1>3, InitInv, NextInv, PTL DEF Spec
=============================================================================
