--------------------------- MODULE ChimpArrayProofs ---------------------------
(***************************************************************************)
(* Proofs about ChimpArray, for every set of items, every default capacity *)
(* above one and arrays of any size: the type invariant, that a block is   *)
(* written past its end only when it was made for exactly one item, and    *)
(* that ChimpArray implements ChimpList: each method of an array does to   *)
(* its items, and returns, what the method of the list does.               *)
(*                                                                         *)
(* For the refinement the items of a block that chimp_array_grow and       *)
(* memmove have changed are compared with the list one by one; then each   *)
(* operation is a case.                                                    *)
(***************************************************************************)
EXTENDS ChimpArray, SequenceTheorems, WellFoundedInduction, TLAPS

(* The inductive invariant: a capacity of one is the one an array was made *)
(* with, since growth never arrives at one from anywhere else.             *)
Good(a) == IsArray(a) /\ (a.capacity = 1 => a.made = 1)

IInv ==
  /\ Good(self) /\ Good(out)
  /\ loop \in [kind : {"none", "each", "any", "map", "filter"}, at : Nat,
              item : Values \cup {Junk}]
  /\ ret \in Values \cup {False} \cup Int
  /\ status \in {"run", "bug", "overrun"}
  /\ OverrunOnlyFromOne

-----------------------------------------------------------------------------
(* Blocks.                                                                 *)

(* Growth ends above the size it started from, unless it starts from one.  *)
LEMMA GrownGrows ==
  ASSUME NEW c \in Nat
  PROVE  Grown(c) \in Nat /\ (c # 1 => Grown(c) > c /\ Grown(c) # 1)
                          /\ (c = 1 => Grown(c) = 1)
BY ArrayAssumption DEF Grown

(* An array that has just been made is empty and well formed.              *)
LEMMA NewGood ==
  ASSUME NEW c \in Nat
  PROVE  Good(New(c))
BY DEF Good, New, IsArray, Array

(* So is one made to hold exactly a list.                                  *)
LEMMA ExactlyGood ==
  ASSUME NEW list \in Seq(Values)
  PROVE  Good(Exactly(list))
<1>1. Len(list) \in Nat /\ \A i \in 1..Len(list) : list[i] \in Values
  OBVIOUS
<1>. QED BY <1>1 DEF Good, Exactly, IsArray, Array

(* chimp_array_grow keeps the items, and leaves no room only in a block    *)
(* made for one.                                                           *)
LEMMA GrowGood ==
  ASSUME NEW a, Good(a)
  PROVE  /\ Good(Grow(a))
         /\ Grow(a).size = a.size
         /\ \A i \in 0..(a.size - 1) : Grow(a).items[i] = a.items[i]
         /\ Overruns(a) => a.made = 1
<1>1. CASE a.size < a.capacity
  BY <1>1 DEF Good, IsArray, Grow, Overruns
<1>2. CASE ~(a.size < a.capacity)
  <2>. DEFINE c == Grown(a.capacity)
  <2>1. a.size = a.capacity /\ a.capacity \in Nat
    BY <1>2 DEF Good, IsArray
  <2>2. c \in Nat /\ c >= a.capacity /\ (a.capacity # 1 => c > a.capacity)
        /\ (c = 1 => a.capacity = 1)
    BY <2>1, GrownGrows
  <2>3. Grow(a) = Array([i \in 0..(c - 1) |-> IF i < a.capacity THEN a.items[i] ELSE Junk],
                        a.size, c, a.made)
    BY <1>2 DEF Grow
  <2>. HIDE DEF c
  <2>. QED BY <2>1, <2>2, <2>3 DEF Good, IsArray, Array, Overruns
<1>. QED BY <1>1, <1>2

(* Adding an item where there is room for one.                             *)
LEMMA InsertedGood ==
  ASSUME NEW a, Good(a), ~Overruns(a), NEW pos \in 0..a.size, NEW v \in Values
  PROVE  Good(Inserted(a, pos, v))
<1>. DEFINE g == Grow(a)
            moved == Move(g.items, pos + 1, pos, a.size - pos)
<1>1. /\ Good(g) /\ g.size = a.size /\ g.size < g.capacity
  BY GrowGood DEF Overruns, Good, IsArray
<1>2. a.size \in Nat
  BY DEF Good, IsArray
<1>3. /\ DOMAIN moved = 0..(g.capacity - 1)
      /\ \A i \in 0..a.size : i # pos => moved[i] \in Values
  <2>1. DOMAIN g.items = 0..(g.capacity - 1) /\ g.capacity \in Nat
        /\ \A i \in 0..(a.size - 1) : g.items[i] \in Values
    BY <1>1 DEF Good, IsArray
  <2>. HIDE DEF g
  <2>2. DOMAIN moved = 0..(g.capacity - 1)
    BY <2>1 DEF Move
  <2>3. ASSUME NEW i \in 0..a.size, i # pos
        PROVE  moved[i] \in Values
    <3>1. CASE i < pos
      BY <3>1, <2>1, <2>3, <1>1, <1>2 DEF Move
    <3>2. CASE i > pos
      BY <3>2, <2>1, <2>3, <1>1, <1>2 DEF Move
    <3>. QED BY <3>1, <3>2, <2>3, <1>2
  <2>. QED BY <2>2, <2>3
<1>4. Inserted(a, pos, v) =
        Array([i \in DOMAIN moved |-> IF i = pos THEN v ELSE moved[i]],
              a.size + 1, g.capacity, g.made)
  BY DEF Inserted
<1>5. g.capacity \in Nat /\ g.made \in Nat /\ (g.capacity = 1 => g.made = 1)
  BY <1>1 DEF Good, IsArray
<1>. HIDE DEF g, moved
<1>. QED BY <1>1, <1>2, <1>3, <1>4, <1>5 DEF Good, IsArray, Array

(* Taking one away.                                                        *)
LEMMA RemovedGood ==
  ASSUME NEW a, Good(a), NEW pos \in 0..(a.size - 1)
  PROVE  Good(Removed(a, pos)) /\ a.items[pos] \in Values
<1>. DEFINE moved == Move(a.items, pos, pos + 1, a.size - pos - 1)
<1>1. /\ a.size \in Nat /\ a.capacity \in Nat /\ a.made \in Nat /\ a.size <= a.capacity
      /\ DOMAIN a.items = 0..(a.capacity - 1)
      /\ \A i \in 0..(a.size - 1) : a.items[i] \in Values
      /\ a.capacity = 1 => a.made = 1
  BY DEF Good, IsArray
<1>2. DOMAIN moved = 0..(a.capacity - 1)
  BY <1>1 DEF Move
<1>3. ASSUME NEW i \in 0..(a.size - 2)
      PROVE  moved[i] \in Values
  BY <1>1, <1>3 DEF Move
<1>4. Removed(a, pos) =
        Array([i \in DOMAIN moved |-> IF i = a.size - 1 THEN Junk ELSE moved[i]],
              a.size - 1, a.capacity, a.made)
  BY DEF Removed
<1>. HIDE DEF moved
<1>. QED BY <1>1, <1>2, <1>3, <1>4 DEF Good, IsArray, Array

(* What is read is an item, or nil.                                        *)
LEMMA NarrowInt == ASSUME NEW k \in Int PROVE Narrow(k) \in Int
BY ArrayAssumption DEF Narrow

LEMMA GetGood ==
  ASSUME NEW a, Good(a), NEW k \in Int
  PROVE  Get(a, k) \in Values
<1>1. a.size \in Nat /\ \A i \in 0..(a.size - 1) : a.items[i] \in Values
  BY DEF Good, IsArray
<1>2. RealIndex(a, Narrow(k)) \in (0..(a.size - 1)) \cup {-1}
  BY <1>1, NarrowInt DEF RealIndex
<1>. QED BY <1>1, <1>2, ArrayAssumption DEF Get

LEMMA FindGood ==
  ASSUME NEW a, Good(a), NEW v
  PROVE  Find(a, v) \in (0..(a.size - 1)) \cup {-1}
<1>. DEFINE found == {i \in 0..(a.size - 1) : a.items[i] = v}
<1>1. CASE found = {}
  BY <1>1 DEF Find
<1>2. CASE found # {}
  <2>1. a.size \in Nat
    BY DEF Good, IsArray
  <2>2. \E i \in found : \A j \in found : i <= j
    <3>1. found \subseteq Nat
      BY <2>1
    <3>. DEFINE R == {p \in Nat \X Nat : p[1] < p[2]}
    <3>2. R = OpToRel(<, Nat)
      BY Zenon DEF OpToRel
    <3>3. IsWellFoundedOn(R, Nat)
      BY <3>2, NatLessThanWellFounded, Zenon
    <3>. HIDE DEF found
    <3>4. PICK i \in found : \A j \in found : <<j, i>> \notin R
      BY <1>2, <3>1, <3>3, WFMin, Zenon
    <3>5. ASSUME NEW j \in found PROVE i <= j
      <4>1. i \in Nat /\ j \in Nat /\ <<j, i>> \in Nat \X Nat
        BY <3>1, <3>4
      <4>2. ~(<<j, i>>[1] < <<j, i>>[2])
        BY <3>4, <4>1, Zenon
      <4>. QED BY <4>1, <4>2
    <3>. QED BY <3>5
  <2>. QED BY <1>2, <2>2 DEF Find
<1>. QED BY <1>1, <1>2

(* The items of an array are a list of items.                              *)
LEMMA ItemsGood ==
  ASSUME NEW a, Good(a)
  PROVE  Items(a) \in Seq(Values) /\ Len(Items(a)) = a.size
<1>1. a.size \in Nat /\ \A i \in 1..a.size : a.items[i - 1] \in Values
  BY DEF Good, IsArray
<1>. QED BY <1>1 DEF Items

-----------------------------------------------------------------------------
(* The steps.                                                              *)

LEMMA InitInv == Init => IInv
<1>. SUFFICES ASSUME Init PROVE IInv
  OBVIOUS
<1>1. Good(self)
  BY NewGood, ExactlyGood, ArrayAssumption DEF Init
<1>2. Good(out)
  BY NewGood DEF Init, None
<1>. QED BY <1>1, <1>2, ArrayAssumption DEF Init, Idle, IInv, OverrunOnlyFromOne

(* A method that leaves a well formed array and returns a value of the     *)
(* program.                                                                *)
LEMMA ReturnsInv ==
  ASSUME IInv, status = "run", Good(self'), NEW v \in Values \cup {False} \cup Int, Returns(v)
  PROVE  IInv'
BY DEF IInv, Returns, OverrunOnlyFromOne, Good, IsArray

LEMMA StopsInv ==
  ASSUME IInv, status = "run", NEW how \in {"bug", "overrun"}, Stops(how),
         how = "overrun" => self.made = 1 \/ out.made = 1
  PROVE  IInv'
BY DEF IInv, Stops, OverrunOnlyFromOne, Good, IsArray

LEMMA AddAtInv ==
  ASSUME IInv, status = "run", NEW pos \in 0..self.size, NEW v \in Values, AddAt(pos, v)
  PROVE  IInv'
<1>1. Good(self)
  BY DEF IInv
<1>2. CASE Overruns(self)
  BY <1>1, <1>2, GrowGood, StopsInv DEF AddAt
<1>3. CASE ~Overruns(self)
  <2>1. Good(self') /\ Returns(Nil)
    BY <1>1, <1>3, InsertedGood DEF AddAt
  <2>. QED BY <2>1, ReturnsInv, ArrayAssumption
<1>. QED BY <1>2, <1>3

LEMMA MethodInv ==
  ASSUME IInv, NEW v \in Values, NEW k \in Int,
         \/ Push(v) \/ Unshift(v) \/ Insert(k, v) \/ Pop \/ Shift \/ Remove(v) \/ RemoveAt(k)
  PROVE  IInv'
<1>. USE DEF Running
<1>1. Good(self) /\ self.size \in Nat
  BY DEF IInv, Good, IsArray
<1>k. k \in Int /\ Nil \in Values /\ True \in Values
  BY ArrayAssumption
<1>2. CASE Push(v)
  BY <1>1, <1>2, AddAtInv DEF Push
<1>3. CASE Unshift(v)
  BY <1>1, <1>3, AddAtInv DEF Unshift
<1>4. CASE Insert(k, v)
  <2>. DEFINE p == Place(self, Narrow(k))
  <2>1. p \in (0..self.size) \cup {-1}
    BY <1>1, <1>k, NarrowInt DEF Place, RealIndex
  <2>2. status = "run" /\ (IF p < 0 THEN Stops("bug") ELSE AddAt(p, v))
    BY <1>4 DEF Insert
  <2>. HIDE DEF p
  <2>3. CASE p < 0
    BY <2>2, <2>3, StopsInv
  <2>4. CASE ~(p < 0)
    BY <2>1, <2>2, <2>4, AddAtInv, <1>1
  <2>. QED BY <2>3, <2>4
<1>5. CASE Pop
  <2>1. CASE self.size = 0
    BY <2>1, <1>1, <1>5, <1>k, ReturnsInv DEF Pop
  <2>2. CASE self.size # 0
    BY <2>2, <1>1, <1>5, RemovedGood, ReturnsInv DEF Pop
  <2>. QED BY <2>1, <2>2
<1>6. CASE Shift
  <2>1. CASE self.size = 0
    BY <2>1, <1>6, StopsInv DEF Shift
  <2>2. CASE self.size # 0
    BY <2>2, <1>1, <1>6, RemovedGood, ReturnsInv DEF Shift
  <2>. QED BY <2>1, <2>2
<1>7. CASE Remove(v)
  <2>. DEFINE i == Find(self, v)
  <2>1. i \in (0..(self.size - 1)) \cup {-1}
    BY <1>1, FindGood
  <2>2. status = "run" /\ (IF i < 0 THEN UNCHANGED self /\ Returns(False)
                           ELSE self' = Removed(self, i) /\ Returns(True))
    BY <1>7 DEF Remove
  <2>. HIDE DEF i
  <2>3. CASE i < 0
    BY <2>2, <2>3, <1>1, ReturnsInv
  <2>4. CASE ~(i < 0)
    BY <2>1, <2>2, <2>4, <1>1, <1>k, RemovedGood, ReturnsInv
  <2>. QED BY <2>3, <2>4
<1>8. CASE RemoveAt(k)
  <2>. DEFINE i == IF k < 0 THEN self.size + k ELSE k
  <2>1. i \in Int
    BY <1>1, <1>k
  <2>2. status = "run" /\ (IF i \notin 0..(self.size - 1) THEN Stops("bug")
                           ELSE self' = Removed(self, i) /\ Returns(self.items[i]))
    BY <1>8 DEF RemoveAt
  <2>. HIDE DEF i
  <2>3. CASE i \notin 0..(self.size - 1)
    BY <2>2, <2>3, StopsInv
  <2>4. CASE i \in 0..(self.size - 1)
    BY <2>2, <2>4, <1>1, RemovedGood, ReturnsInv
  <2>. QED BY <2>3, <2>4
<1>. QED BY <1>2, <1>3, <1>4, <1>5, <1>6, <1>7, <1>8

LEMMA ReadInv ==
  ASSUME IInv, NEW v \in Values, NEW k \in Int,
         \/ GetItem(k) \/ Contains(v) \/ IndexOf(v) \/ First \/ Last \/ SizeOf
  PROVE  IInv'
<1>1. Good(self) /\ self.size \in Nat
  BY DEF IInv, Good, IsArray
<1>2. /\ Get(self, k) \in Values /\ Find(self, v) \in Int
      /\ self.size > 0 => Get(self, 0) \in Values /\ Get(self, self.size - 1) \in Values
      /\ Nil \in Values /\ True \in Values
  BY <1>1, GetGood, FindGood, ArrayAssumption
<1>3. \E x \in Values \cup {False} \cup Int : Reads(x)
  <2>. USE <1>1, <1>2
  <2>1. CASE GetItem(k)
    BY <2>1 DEF GetItem
  <2>2. CASE Contains(v)
    BY <2>2 DEF Contains
  <2>3. CASE IndexOf(v)
    BY <2>3 DEF IndexOf
  <2>4. CASE First
    BY <2>4 DEF First
  <2>5. CASE Last
    BY <2>5 DEF Last
  <2>6. CASE SizeOf
    BY <2>6 DEF SizeOf
  <2>. QED BY <2>1, <2>2, <2>3, <2>4, <2>5, <2>6
<1>. QED BY <1>1, <1>3, ReturnsInv DEF Reads, Running

(* The arrays a statement gives the variable.                              *)
LEMMA StatementInv ==
  ASSUME IInv, NEW list \in Seq(Values), NEW start \in Int, NEW end \in Int,
         Literal(list) \/ Add(list) \/ Slice(start, end)
  PROVE  IInv'
<1>. USE DEF Alone
<1>1. Good(self) /\ Nil \in Values
  BY ArrayAssumption DEF IInv
<1>2. CASE Literal(list)
  BY <1>1, <1>2, ExactlyGood, ReturnsInv DEF Literal, Becomes
<1>3. CASE Add(list)
  <2>1. Items(self) \o list \in Seq(Values)
    BY <1>1, ItemsGood
  <2>. QED BY <1>1, <1>3, <2>1, ExactlyGood, ReturnsInv DEF Add, Becomes
<1>4. CASE Slice(start, end)
  <2>1. CASE end < start
    BY <1>4, <2>1, StopsInv DEF Slice
  <2>2. CASE ~(end < start)
    <3>. DEFINE s == [i \in 1..(end - start) |-> Get(self, start + i - 1)]
    <3>1. \A i \in 1..(end - start) : Get(self, start + i - 1) \in Values
      BY <1>1, GetGood
    <3>2. s \in Seq(Values)
      BY <3>1, <2>2
    <3>3. status = "run" /\ Becomes(Exactly(s))
      BY <1>4, <2>2 DEF Slice
    <3>. HIDE DEF s
    <3>. QED BY <1>1, <3>2, <3>3, ExactlyGood, ReturnsInv DEF Becomes
  <2>. QED BY <2>1, <2>2
<1>. QED BY <1>2, <1>3, <1>4

(* A step of a loop leaves the array alone.                                *)
Loops == [kind : {"none", "each", "any", "map", "filter"}, at : Nat,
          item : Values \cup {Junk}]

LEMMA TurnGood ==
  ASSUME loop \in Loops, NextTurn
  PROVE  loop' \in Loops
<1>1. PICK k \in {"none", "each", "any", "map", "filter"}, n \in Nat, v \in Values \cup {Junk} :
        loop = [kind |-> k, at |-> n, item |-> v]
  BY DEF Loops
<1>2. loop' = [kind |-> k, at |-> n + 1, item |-> Junk]
  BY <1>1 DEF NextTurn
<1>. QED BY <1>2 DEF Loops

LEMMA LoopStepInv ==
  ASSUME IInv, status = "run", UNCHANGED <<self, status>>, Good(out'), loop' \in Loops,
         ret' \in Values \cup {False} \cup Int
  PROVE  IInv'
<1>1. Good(self')
  BY DEF IInv
<1>. QED BY <1>1 DEF IInv, OverrunOnlyFromOne, Loops

LEMMA CollectInv ==
  ASSUME IInv, status = "run", NEW v \in Values, Collect(v)
  PROVE  IInv'
<1>1. Good(out) /\ out.size \in 0..out.size /\ loop \in Loops
      /\ ret \in Values \cup {False} \cup Int
  BY DEF IInv, Good, IsArray, Loops
<1>2. CASE Overruns(out)
  BY <1>1, <1>2, GrowGood, StopsInv DEF Collect
<1>3. CASE ~Overruns(out)
  <2>1. Good(out') /\ UNCHANGED <<self, ret, status>> /\ NextTurn
    BY <1>1, <1>3, InsertedGood DEF Collect
  <2>. QED BY <1>1, <2>1, TurnGood, LoopStepInv
<1>. QED BY <1>2, <1>3

LEMMA LoopInv ==
  ASSUME IInv, NEW kind \in {"each", "any", "map", "filter"}, NEW r \in Values,
         \/ Begin(kind) \/ Call \/ End
         \/ AnswerEach(r) \/ AnswerAny(r) \/ AnswerMap(r) \/ AnswerFilter(r)
  PROVE  IInv'
<1>. USE DEF Answers
<1>1. /\ Good(self) /\ Good(out) /\ Good(New(0)) /\ Good(New(DefaultCapacity))
      /\ Good(New(self.size))
      /\ {Nil, True} \subseteq Values
      /\ loop \in Loops /\ ret \in Values \cup {False} \cup Int
  BY NewGood, ArrayAssumption DEF IInv, Good, IsArray, Loops
<1>2. Idle \in Loops
  BY DEF Idle, Loops
<1>3. CASE Begin(kind)
  <2>1. Good(out') /\ UNCHANGED <<self, ret, status>> /\ status = "run"
    BY <1>1, <1>3 DEF Begin, Alone, None
  <2>2. loop' \in Loops
    BY <1>3 DEF Begin, Idle, Loops
  <2>. QED BY <1>1, <2>1, <2>2, LoopStepInv
<1>4. CASE Call
  <2>1. loop.at \in 0..(self.size - 1) /\ self.size \in Nat /\ loop.at \in Int
    BY <1>4 DEF Call, IInv, Good, IsArray
  <2>2. Get(self, loop.at) \in Values
    BY <1>1, <2>1, GetGood
  <2>3. loop' \in Loops
    BY <1>1, <1>4, <2>2 DEF Call, Loops
  <2>. QED BY <1>1, <1>4, <2>3, LoopStepInv DEF Call
<1>5. CASE End
  BY <1>1, <1>5, ArrayAssumption DEF End, Idle, None, IInv, OverrunOnlyFromOne, Good, IsArray
<1>6. CASE AnswerEach(r)
  BY <1>1, <1>6, TurnGood, LoopStepInv DEF AnswerEach
<1>7. CASE AnswerAny(r)
  BY <1>1, <1>2, <1>7, TurnGood, LoopStepInv DEF AnswerAny
<1>8. CASE AnswerMap(r)
  BY <1>8, CollectInv DEF AnswerMap
<1>9. CASE AnswerFilter(r)
  <2>1. CASE r = True
    <3>1. status = "run" /\ loop.item \in Values /\ Collect(loop.item)
      BY <1>9, <2>1 DEF AnswerFilter, IInv
    <3>. QED BY <3>1, CollectInv
  <2>2. CASE r # True
    BY <1>1, <1>9, <2>2, TurnGood, LoopStepInv DEF AnswerFilter
  <2>. QED BY <2>1, <2>2
<1>. QED BY <1>3, <1>4, <1>5, <1>6, <1>7, <1>8, <1>9

LEMMA StepInv == IInv /\ [Next]_vars => IInv'
<1>. SUFFICES ASSUME IInv, [Next]_vars PROVE IInv'
  OBVIOUS
<1>. USE ArrayAssumption
<1>1. CASE UNCHANGED vars
  BY <1>1 DEF vars, IInv, OverrunOnlyFromOne, Good, IsArray
<1>2. ASSUME NEW v \in Values,
             Push(v) \/ Unshift(v) \/ Remove(v) \/ Contains(v) \/ IndexOf(v)
      PROVE  IInv'
  <2>1. 0 \in Int
    OBVIOUS
  <2>. QED BY <1>2, <2>1, MethodInv, ReadInv
<1>3. ASSUME NEW k \in Indices,
             RemoveAt(k) \/ GetItem(k) \/ \E v \in Values : Insert(k, v)
      PROVE  IInv'
  BY <1>3, MethodInv, ReadInv
<1>4. CASE Pop \/ Shift \/ First \/ Last \/ SizeOf
  <2>1. 0 \in Int /\ Nil \in Values
    OBVIOUS
  <2>. QED BY <1>4, <2>1, MethodInv, ReadInv
<1>5. ASSUME NEW list \in Seq(Values), NEW start \in Int, NEW end \in Int,
             Literal(list) \/ Add(list) \/ Slice(start, end)
      PROVE  IInv'
  BY <1>5, StatementInv
<1>6. Items(self) \in Seq(Values)
  BY ItemsGood DEF IInv
<1>7. ASSUME NEW kind \in {"each", "any", "map", "filter"}, Begin(kind)
      PROVE  IInv'
  BY <1>7, LoopInv
<1>8. ASSUME NEW r \in Values,
             AnswerEach(r) \/ AnswerAny(r) \/ AnswerMap(r) \/ AnswerFilter(r)
      PROVE  IInv'
  BY <1>8, LoopInv
<1>9. CASE Call \/ End
  BY <1>9, LoopInv
<1>. QED BY <1>1, <1>2, <1>3, <1>4, <1>5, <1>6, <1>7, <1>8, <1>9 DEF Next

-----------------------------------------------------------------------------
LEMMA Invariance == Spec => []IInv
<1>1. Init => IInv
  BY InitInv
<1>2. IInv /\ [Next]_vars => IInv'
  BY StepInv
<1>. QED BY <1>1, <1>2, PTL DEF Spec

(* An array is never larger than its block and holds only items of the     *)
(* program (chimp_array_grow, insert, remove_at, slice and the loops).     *)
THEOREM TypeCorrect == Spec => []TypeOK
<1>1. IInv => TypeOK
  BY DEF IInv, Good, TypeOK
<1>. QED BY <1>1, Invariance, PTL

(* Only a block made for exactly one item is ever written past its end:    *)
(* chimp_array_grow leaves every other array room for the next item.       *)
THEOREM OnlyOneOverruns == Spec => []OverrunOnlyFromOne
<1>1. IInv => OverrunOnlyFromOne
  BY DEF IInv
<1>. QED BY <1>1, Invariance, PTL

-----------------------------------------------------------------------------
(* The refinement.                                                         *)

(* Arrays stay within MaxSize, so every place of one has an index that is  *)
(* an int32_t; a loop makes no more items than it has gone through.        *)
Sized ==
  /\ self.size <= MaxSize
  /\ out.size <= loop.at /\ loop.at <= MaxSize
  /\ loop.item # Junk => loop.at < MaxSize
  /\ loop.kind = "none" => loop.item = Junk
  /\ loop.kind \notin {"map", "filter"} => out.size = 0

-----------------------------------------------------------------------------
(* Blocks and lists.                                                       *)

LEMMA ItemsAre ==
  ASSUME NEW a, Good(a)
  PROVE  /\ Items(a) \in Seq(Values) /\ Len(Items(a)) = a.size /\ a.size \in Nat
         /\ \A i \in 1..a.size : Items(a)[i] = a.items[i - 1] /\ a.items[i - 1] \in Values
<1>1. a.size \in Nat /\ \A i \in 1..a.size : a.items[i - 1] \in Values
  BY DEF Good, IsArray
<1>. QED BY <1>1, ItemsGood DEF Items

LEMMA FunctionIsSeq ==
  ASSUME NEW n \in Nat, NEW f \in [1..n -> Values]
  PROVE  f \in Seq(Values)
OBVIOUS

LEMMA ExactlyItems ==
  ASSUME NEW list \in Seq(Values)
  PROVE  Items(Exactly(list)) = list /\ Exactly(list).size = Len(list)
<1>1. Len(list) \in Nat /\ list = [i \in 1..Len(list) |-> list[i]]
  BY LenProperties
<1>2. Items(Exactly(list)) = [i \in 1..Len(list) |-> list[i]]
  BY <1>1 DEF Items, Exactly, Array
<1>. QED BY <1>1, <1>2 DEF Exactly, Array

LEMMA NewItems ==
  ASSUME NEW c \in Nat
  PROVE  Items(New(c)) = << >> /\ New(c).size = 0
<1>1. Good(New(c)) /\ New(c).size = 0
  BY NewGood DEF New, Array
<1>. QED BY <1>1, ItemsAre, EmptySeq

(* Where an item is put in, the ones before it stay and the others follow. *)
LEMMA InsertAtIs ==
  ASSUME NEW s \in Seq(Values), NEW pos \in 0..Len(s), NEW v \in Values
  PROVE  /\ List!InsertAt(s, pos, v) \in Seq(Values)
         /\ Len(List!InsertAt(s, pos, v)) = Len(s) + 1
         /\ \A i \in 1..(Len(s) + 1) : List!InsertAt(s, pos, v)[i] =
              IF i <= pos THEN s[i] ELSE IF i = pos + 1 THEN v ELSE s[i - 1]
<1>. DEFINE front == SubSeq(s, 1, pos)
            back == SubSeq(s, pos + 1, Len(s))
<1>1. Len(s) \in Nat /\ \A i \in 1..Len(s) : s[i] \in Values
  BY LenProperties, ElementOfSeq
<1>2. /\ front \in Seq(Values) /\ Len(front) = pos
      /\ \A i \in 1..pos : front[i] = s[i]
  <2>1. \A i \in 1..pos : s[i] \in Values
    BY <1>1
  <2>. QED BY <2>1, <1>1, SubSeqProperties
<1>3. /\ back \in Seq(Values) /\ Len(back) = Len(s) - pos
      /\ \A i \in 1..(Len(s) - pos) : back[i] = s[pos + i]
  <2>1. \A i \in (pos + 1)..Len(s) : s[i] \in Values
    BY <1>1
  <2>. QED BY <2>1, <1>1, SubSeqProperties
<1>4. List!InsertAt(s, pos, v) = (front \o <<v>>) \o back
  BY DEF List!InsertAt
<1>. HIDE DEF front, back
<1>5. /\ front \o <<v>> \in Seq(Values) /\ Len(front \o <<v>>) = pos + 1
      /\ \A i \in 1..(pos + 1) : (front \o <<v>>)[i] = IF i <= pos THEN s[i] ELSE v
  <2>1. <<v>> \in Seq(Values) /\ Len(<<v>>) = 1 /\ <<v>>[1] = v
    OBVIOUS
  <2>. QED BY <1>1, <1>2, <2>1, ConcatProperties
<1>. DEFINE head == front \o <<v>>
            whole == head \o back
<1>. HIDE DEF head
<1>6. /\ whole \in Seq(Values) /\ Len(whole) = Len(head) + Len(back)
      /\ \A i \in 1..(Len(head) + Len(back)) :
           whole[i] = IF i <= Len(head) THEN head[i] ELSE back[i - Len(head)]
  BY <1>3, <1>5, ConcatProperties DEF head
<1>. HIDE DEF whole
<1>7. /\ Len(head) = pos + 1 /\ Len(back) = Len(s) - pos /\ pos \in 0..Len(s)
      /\ \A i \in 1..(pos + 1) : head[i] = IF i <= pos THEN s[i] ELSE v
  BY <1>3, <1>5 DEF head
<1>8. ASSUME NEW i \in 1..(Len(s) + 1)
      PROVE  whole[i] = IF i <= pos THEN s[i] ELSE IF i = pos + 1 THEN v ELSE s[i - 1]
  <2>1. CASE i <= pos + 1
    BY <1>1, <1>6, <1>7, <2>1
  <2>2. CASE i > pos + 1
    <3>1. /\ i - (pos + 1) \in 1..(Len(s) - pos) /\ pos + (i - (pos + 1)) = i - 1
          /\ i \in 1..((pos + 1) + (Len(s) - pos)) /\ ~(i <= pos + 1)
      BY <1>1, <2>2
    <3>2. whole[i] = back[i - (pos + 1)]
      BY <1>6, <1>7, <3>1
    <3>3. back[i - (pos + 1)] = s[pos + (i - (pos + 1))]
      BY <1>3, <3>1
    <3>. QED BY <1>1, <2>2, <3>1, <3>2, <3>3
  <2>. QED BY <2>1, <2>2, <1>1
<1>9. List!InsertAt(s, pos, v) = whole
  BY <1>4 DEF whole, head
<1>10. whole \in Seq(Values) /\ Len(whole) = Len(s) + 1
  BY <1>1, <1>6, <1>7
<1>11. \A i \in 1..(Len(s) + 1) :
         whole[i] = IF i <= pos THEN s[i] ELSE IF i = pos + 1 THEN v ELSE s[i - 1]
  BY <1>8
<1>. QED BY <1>9, <1>10, <1>11, Zenon

LEMMA WithoutIs ==
  ASSUME NEW s \in Seq(Values), NEW pos \in 0..(Len(s) - 1)
  PROVE  /\ List!Without(s, pos) \in Seq(Values)
         /\ Len(List!Without(s, pos)) = Len(s) - 1
         /\ \A i \in 1..(Len(s) - 1) : List!Without(s, pos)[i] =
              IF i <= pos THEN s[i] ELSE s[i + 1]
<1>. DEFINE front == SubSeq(s, 1, pos)
            back == SubSeq(s, pos + 2, Len(s))
<1>1. Len(s) \in Nat /\ \A i \in 1..Len(s) : s[i] \in Values
  BY LenProperties, ElementOfSeq
<1>2. /\ front \in Seq(Values) /\ Len(front) = pos
      /\ \A i \in 1..pos : front[i] = s[i]
  <2>1. \A i \in 1..pos : s[i] \in Values
    BY <1>1
  <2>. QED BY <2>1, <1>1, SubSeqProperties
<1>3. /\ back \in Seq(Values) /\ Len(back) = Len(s) - pos - 1
      /\ \A i \in 1..(Len(s) - pos - 1) : back[i] = s[pos + 1 + i]
  <2>1. \A i \in (pos + 2)..Len(s) : s[i] \in Values
    BY <1>1
  <2>. QED BY <2>1, <1>1, SubSeqProperties
<1>. DEFINE whole == front \o back
<1>4. List!Without(s, pos) = whole
  BY DEF List!Without
<1>. HIDE DEF front, back
<1>5. /\ whole \in Seq(Values) /\ Len(whole) = Len(front) + Len(back)
      /\ \A i \in 1..(Len(front) + Len(back)) :
           whole[i] = IF i <= Len(front) THEN front[i] ELSE back[i - Len(front)]
  BY <1>2, <1>3, ConcatProperties
<1>. HIDE DEF whole
<1>6. whole \in Seq(Values) /\ Len(whole) = Len(s) - 1
  BY <1>1, <1>2, <1>3, <1>5
<1>7. ASSUME NEW i \in 1..(Len(s) - 1)
      PROVE  whole[i] = IF i <= pos THEN s[i] ELSE s[i + 1]
  <2>1. CASE i <= pos
    BY <1>1, <1>2, <1>3, <1>5, <2>1
  <2>2. CASE i > pos
    <3>1. /\ i - pos \in 1..(Len(s) - pos - 1) /\ pos + 1 + (i - pos) = i + 1
          /\ i \in 1..(pos + (Len(s) - pos - 1)) /\ ~(i <= pos)
      BY <1>1, <2>2
    <3>2. whole[i] = back[i - pos]
      BY <1>2, <1>3, <1>5, <3>1
    <3>3. back[i - pos] = s[pos + 1 + (i - pos)]
      BY <1>3, <3>1
    <3>. QED BY <3>1, <3>2, <3>3
  <2>. QED BY <2>1, <2>2, <1>1
<1>8. \A i \in 1..(Len(s) - 1) : whole[i] = IF i <= pos THEN s[i] ELSE s[i + 1]
  BY <1>7
<1>. QED BY <1>4, <1>6, <1>8, Zenon

LEMMA ItemsInsertAt ==
  ASSUME NEW a, Good(a), NEW pos \in 0..a.size, NEW v \in Values
  PROVE  LET l == List!InsertAt(Items(a), pos, v) IN
         /\ l \in Seq(Values) /\ Len(l) = a.size + 1
         /\ \A i \in 1..(a.size + 1) : l[i] =
              IF i <= pos THEN Items(a)[i] ELSE IF i = pos + 1 THEN v ELSE Items(a)[i - 1]
<1>. DEFINE s == Items(a)
<1>1. s \in Seq(Values) /\ Len(s) = a.size /\ a.size \in Nat
  BY ItemsAre
<1>. HIDE DEF s
<1>2. pos \in 0..Len(s)
  BY <1>1
<1>3. /\ List!InsertAt(s, pos, v) \in Seq(Values)
      /\ Len(List!InsertAt(s, pos, v)) = Len(s) + 1
      /\ \A i \in 1..(Len(s) + 1) : List!InsertAt(s, pos, v)[i] =
           IF i <= pos THEN s[i] ELSE IF i = pos + 1 THEN v ELSE s[i - 1]
  <2>. HIDE DEF List!InsertAt
  <2>. QED BY <1>1, <1>2, InsertAtIs, ZenonT(30)
<1>4. Len(s) = a.size
  BY <1>1
<1>. QED BY <1>3, <1>4, Zenon DEF s

(* chimp_array_insert: growth, the memmove upwards and the item.           *)
LEMMA InsertedItems ==
  ASSUME NEW a, Good(a), ~Overruns(a), NEW pos \in 0..a.size, NEW v \in Values
  PROVE  /\ Items(Inserted(a, pos, v)) = List!InsertAt(Items(a), pos, v)
         /\ Inserted(a, pos, v).size = a.size + 1
<1>. DEFINE g == Grow(a)
            b == Inserted(a, pos, v)
            l == List!InsertAt(Items(a), pos, v)
<1>1. /\ a.size \in Nat /\ Good(g) /\ g.size = a.size /\ a.size < g.capacity
      /\ \A i \in 0..(a.size - 1) : g.items[i] = a.items[i]
      /\ g.capacity \in Nat /\ DOMAIN g.items = 0..(g.capacity - 1)
  BY GrowGood DEF Good, IsArray, Overruns
<1>2. b.size = a.size + 1 /\ Good(b)
  BY InsertedGood DEF Inserted, Array
<1>3. \A i \in 0..a.size :
        b.items[i] = IF i < pos THEN a.items[i] ELSE IF i = pos THEN v ELSE a.items[i - 1]
  <2>. HIDE DEF g
  <2>1. b.items = [i \in 0..(g.capacity - 1) |->
                     IF i = pos THEN v
                     ELSE IF i \in (pos + 1)..(pos + 1 + (a.size - pos) - 1)
                          THEN g.items[i - (pos + 1) + pos] ELSE g.items[i]]
    BY <1>1 DEF Inserted, Array, Move, g
  <2>. HIDE DEF b
  <2>. SUFFICES ASSUME NEW i \in 0..a.size
                PROVE  b.items[i] = IF i < pos THEN a.items[i]
                                    ELSE IF i = pos THEN v ELSE a.items[i - 1]
    OBVIOUS
  <2>2. i \in 0..(g.capacity - 1)
    BY <1>1
  <2>3. CASE i <= pos
    BY <1>1, <2>1, <2>2, <2>3
  <2>4. CASE i > pos
    <3>1. i \in (pos + 1)..(pos + 1 + (a.size - pos) - 1) /\ i - (pos + 1) + pos = i - 1
      BY <1>1, <2>4
    <3>2. b.items[i] = g.items[i - 1]
      BY <1>1, <2>1, <2>2, <2>4, <3>1
    <3>. QED BY <1>1, <2>4, <3>2
  <2>. QED BY <2>3, <2>4, <1>1
<1>4. /\ l \in Seq(Values) /\ Len(l) = a.size + 1
      /\ \A i \in 1..(a.size + 1) : l[i] =
           IF i <= pos THEN Items(a)[i] ELSE IF i = pos + 1 THEN v ELSE Items(a)[i - 1]
  BY ItemsInsertAt
<1>5. /\ Items(b) \in Seq(Values) /\ Len(Items(b)) = a.size + 1
      /\ \A i \in 1..(a.size + 1) : Items(b)[i] = b.items[i - 1]
  BY <1>2, ItemsAre
<1>6. \A i \in 1..a.size : Items(a)[i] = a.items[i - 1]
  BY ItemsAre
<1>. HIDE DEF b, l
<1>7. ASSUME NEW i \in 1..(a.size + 1) PROVE Items(b)[i] = l[i]
  <2>1. i - 1 \in 0..a.size /\ Items(b)[i] = b.items[i - 1]
    BY <1>1, <1>5
  <2>2. CASE i <= pos
    BY <1>1, <1>3, <1>4, <1>6, <2>1, <2>2
  <2>3. CASE i = pos + 1
    BY <1>1, <1>3, <1>4, <2>1, <2>3
  <2>4. CASE i > pos + 1
    <3>1. i - 1 \in 1..a.size /\ ~(i <= pos) /\ i # pos + 1
          /\ ~(i - 1 < pos) /\ i - 1 # pos
      BY <1>1, <2>4
    <3>2. l[i] = Items(a)[i - 1] /\ Items(a)[i - 1] = a.items[(i - 1) - 1]
      BY <1>4, <1>6, <3>1
    <3>3. b.items[i - 1] = a.items[(i - 1) - 1]
      BY <1>3, <2>1, <3>1
    <3>. QED BY <2>1, <3>2, <3>3
  <2>. QED BY <2>2, <2>3, <2>4, <1>1
<1>8. Items(b) = l
  BY <1>4, <1>5, <1>7, SeqEqual
<1>. QED BY <1>2, <1>8 DEF b, l

(* The memmove downwards of remove, remove_at, pop and shift.              *)
LEMMA RemovedItems ==
  ASSUME NEW a, Good(a), NEW pos \in 0..(a.size - 1)
  PROVE  /\ Items(Removed(a, pos)) = List!Without(Items(a), pos)
         /\ Removed(a, pos).size = a.size - 1
         /\ a.items[pos] = Items(a)[pos + 1]
<1>. DEFINE b == Removed(a, pos)
            l == List!Without(Items(a), pos)
<1>1. /\ a.size \in Nat /\ a.capacity \in Nat /\ a.size <= a.capacity
      /\ DOMAIN a.items = 0..(a.capacity - 1)
  BY DEF Good, IsArray
<1>2. b.size = a.size - 1 /\ Good(b)
  BY RemovedGood DEF Removed, Array
<1>3. \A i \in 0..(a.size - 2) :
        b.items[i] = IF i < pos THEN a.items[i] ELSE a.items[i + 1]
  <2>1. b.items = [i \in 0..(a.capacity - 1) |->
                     IF i = a.size - 1 THEN Junk
                     ELSE IF i \in pos..(pos + (a.size - pos - 1) - 1)
                          THEN a.items[i - pos + (pos + 1)] ELSE a.items[i]]
    BY <1>1 DEF Removed, Array, Move
  <2>. HIDE DEF b
  <2>. QED BY <1>1, <2>1
<1>4. /\ l \in Seq(Values) /\ Len(l) = a.size - 1
      /\ \A i \in 1..(a.size - 1) : l[i] = IF i <= pos THEN Items(a)[i] ELSE Items(a)[i + 1]
  <2>. DEFINE s == Items(a)
  <2>1. s \in Seq(Values) /\ Len(s) = a.size
    BY ItemsAre
  <2>. HIDE DEF s
  <2>2. /\ List!Without(s, pos) \in Seq(Values)
        /\ Len(List!Without(s, pos)) = a.size - 1
        /\ \A i \in 1..(a.size - 1) : List!Without(s, pos)[i] =
             IF i <= pos THEN s[i] ELSE s[i + 1]
    BY <2>1, WithoutIs
  <2>. QED BY <2>2 DEF s
<1>5. /\ Items(b) \in Seq(Values) /\ Len(Items(b)) = a.size - 1
      /\ \A i \in 1..(a.size - 1) : Items(b)[i] = b.items[i - 1]
  BY <1>2, ItemsAre
<1>6. \A i \in 1..a.size : Items(a)[i] = a.items[i - 1]
  BY ItemsAre
<1>. HIDE DEF b, l
<1>7. ASSUME NEW i \in 1..(a.size - 1) PROVE Items(b)[i] = l[i]
  <2>1. i - 1 \in 0..(a.size - 2) /\ Items(b)[i] = b.items[i - 1]
    BY <1>1, <1>5
  <2>2. CASE i <= pos
    BY <1>1, <1>3, <1>4, <1>6, <2>1, <2>2
  <2>3. CASE i > pos
    <3>1. l[i] = Items(a)[i + 1] /\ Items(a)[i + 1] = a.items[i]
      BY <1>1, <1>4, <1>6, <2>3
    <3>2. b.items[i - 1] = a.items[i]
      BY <1>1, <1>3, <2>1, <2>3
    <3>. QED BY <2>1, <3>1, <3>2
  <2>. QED BY <2>2, <2>3, <1>1
<1>8. Items(b) = l
  BY <1>4, <1>5, <1>7, SeqEqual
<1>. QED BY <1>1, <1>2, <1>6, <1>8 DEF b, l

(* An index of 32 bits is its own.                                         *)
LEMMA NarrowFits ==
  ASSUME NEW k \in Int, List!Fits32(k)
  PROVE  Narrow(k) = k
<1>1. k + Half \in Nat /\ 2 * Half \in Nat /\ k + Half < 2 * Half
  BY ArrayAssumption DEF List!Fits32
<1>2. (k + Half) % (2 * Half) = k + Half
  BY <1>1
<1>. QED BY <1>2, ArrayAssumption DEF Narrow

LEMMA GetIs ==
  ASSUME Good(self), NEW k \in Int, List!Fits32(k)
  PROVE  Get(self, k) = List!At(k)
<1>1. /\ Len(Items(self)) = self.size /\ self.size \in Nat
      /\ \A i \in 1..self.size : Items(self)[i] = self.items[i - 1]
  BY ItemsAre
<1>2. Narrow(k) = k
  BY NarrowFits
<1>. QED BY <1>1, <1>2 DEF Get, RealIndex, List!At, List!Exists, List!Position, List!Size

LEMMA FindIs ==
  ASSUME Good(self), NEW v
  PROVE  /\ Find(self, v) < 0 <=> ~List!Occurs(v)
         /\ List!Occurs(v) => Find(self, v) = List!FirstOf(v)
<1>. DEFINE found == {i \in 0..(self.size - 1) : self.items[i] = v}
            l == Items(self)
<1>1. /\ Len(l) = self.size /\ self.size \in Nat
      /\ \A i \in 1..self.size : l[i] = self.items[i - 1]
  BY ItemsAre
<1>2. List!Occurs(v) <=> found # {}
  <2>1. ASSUME NEW i \in 1..self.size, l[i] = v PROVE i - 1 \in found
    BY <1>1, <2>1
  <2>2. ASSUME NEW j \in found PROVE j + 1 \in 1..self.size /\ l[j + 1] = v
    <3>1. j + 1 \in 1..self.size /\ (j + 1) - 1 = j
      BY <1>1
    <3>. QED BY <1>1, <3>1
  <2>. QED BY <1>1, <2>1, <2>2 DEF List!Occurs, List!Size
<1>3. CASE found = {}
  BY <1>2, <1>3 DEF Find
<1>4. CASE found # {}
  <2>1. Find(self, v) \in 0..(self.size - 1) \cup {-1}
    BY FindGood
  <2>2. \E i \in found : \A j \in found : i <= j
    <3>1. found \subseteq Nat
      BY <1>1
    <3>. DEFINE R == {p \in Nat \X Nat : p[1] < p[2]}
    <3>2. R = OpToRel(<, Nat)
      BY Zenon DEF OpToRel
    <3>3. IsWellFoundedOn(R, Nat)
      BY <3>2, NatLessThanWellFounded, Zenon
    <3>. HIDE DEF found
    <3>4. PICK i \in found : \A j \in found : <<j, i>> \notin R
      BY <1>4, <3>1, <3>3, WFMin, Zenon
    <3>5. ASSUME NEW j \in found PROVE i <= j
      <4>1. i \in Nat /\ j \in Nat /\ <<j, i>> \in Nat \X Nat
        BY <3>1, <3>4
      <4>2. ~(<<j, i>>[1] < <<j, i>>[2])
        BY <3>4, <4>1, Zenon
      <4>. QED BY <4>1, <4>2
    <3>. QED BY <3>5
  <2>3. Find(self, v) = CHOOSE i \in found : \A j \in found : i <= j
    BY <1>4 DEF Find
  <2>4. Find(self, v) \in found /\ \A j \in found : Find(self, v) <= j
    <3>. HIDE DEF found
    <3>. QED BY <2>2, <2>3
  <2>. DEFINE first(p) == p \in 0..(self.size - 1) /\ l[p + 1] = v /\ \A i \in 1..p : l[i] # v
  <2>5. first(Find(self, v))
    <3>1. ASSUME NEW i \in 1..Find(self, v), l[i] = v PROVE FALSE
      <4>1. i - 1 \in found
        BY <1>1, <2>4, <3>1
      <4>. QED BY <2>4, <3>1, <4>1, <1>1
    <3>. QED BY <1>1, <2>4, <3>1
  <2>6. ASSUME NEW p, first(p) PROVE p = Find(self, v)
    <3>1. p \in found
      BY <1>1, <2>6
    <3>2. Find(self, v) <= p /\ Find(self, v) \in 0..(self.size - 1)
      BY <2>4, <3>1
    <3>3. ~(Find(self, v) < p)
      <4>1. ASSUME Find(self, v) < p PROVE FALSE
        <5>. DEFINE i == Find(self, v) + 1
        <5>1. i \in 1..p /\ i \in 1..self.size /\ i - 1 = Find(self, v)
          BY <1>1, <2>6, <3>2, <4>1
        <5>2. l[i] = v
          BY <1>1, <2>4, <5>1
        <5>. QED BY <2>6, <5>1, <5>2
      <4>. QED BY <4>1
    <3>. QED BY <3>1, <3>2, <3>3, <1>1
  <2>7. List!FirstOf(v) = CHOOSE p \in 0..(self.size - 1) : l[p + 1] = v /\ \A i \in 1..p : l[i] # v
    BY <1>1 DEF List!FirstOf, List!Size
  <2>8. List!FirstOf(v) = Find(self, v)
    BY <2>5, <2>6, <2>7
  <2>. QED BY <1>2, <1>4, <2>4, <2>8, <1>1
<1>. QED BY <1>3, <1>4

(* The ends of a list, as special cases of its middle.                     *)
LEMMA EndsOfAList ==
  ASSUME NEW s \in Seq(Values), NEW v \in Values
  PROVE  /\ List!InsertAt(s, Len(s), v) = Append(s, v)
         /\ List!InsertAt(s, 0, v) = <<v>> \o s
         /\ s # << >> => /\ List!Without(s, Len(s) - 1) = SubSeq(s, 1, Len(s) - 1)
                        /\ List!Without(s, 0) = Tail(s) /\ Head(s) = s[1]
<1>1. Len(s) \in Nat /\ <<v>> \in Seq(Values) /\ Len(s) + 1 \in Int /\ Len(s) < Len(s) + 1
  BY LenProperties
<1>2. SubSeq(s, 1, Len(s)) = s
  BY SubSeqFull
<1>3. SubSeq(s, Len(s) + 1, Len(s)) = << >> /\ SubSeq(s, 1, 0) = << >>
  BY <1>1, SubSeqEmpty
<1>4. s \o <<v>> \in Seq(Values)
  BY <1>1, ConcatProperties
<1>5. List!InsertAt(s, Len(s), v) = Append(s, v)
  <2>1. List!InsertAt(s, Len(s), v) = (s \o <<v>>) \o << >>
    BY <1>2, <1>3 DEF List!InsertAt
  <2>2. (s \o <<v>>) \o << >> = s \o <<v>>
    BY <1>4, ConcatEmptySeq
  <2>3. s \o <<v>> = Append(s, v)
    OBVIOUS
  <2>. QED BY <2>1, <2>2, <2>3
<1>6. List!InsertAt(s, 0, v) = <<v>> \o s
  <2>1. List!InsertAt(s, 0, v) = (<< >> \o <<v>>) \o s
    BY <1>2, <1>3 DEF List!InsertAt
  <2>2. << >> \o <<v>> = <<v>>
    BY <1>1, ConcatEmptySeq
  <2>. QED BY <2>1, <2>2
<1>7. ASSUME s # << >>
      PROVE  /\ List!Without(s, Len(s) - 1) = SubSeq(s, 1, Len(s) - 1)
             /\ List!Without(s, 0) = Tail(s) /\ Head(s) = s[1]
  <2>1. Tail(s) = SubSeq(s, 2, Len(s)) /\ Tail(s) \in Seq(Values)
    BY <1>7, TailIsSubSeq, HeadTailProperties
  <2>2. SubSeq(s, 1, Len(s) - 1) \in Seq(Values)
    <3>1. \A i \in 1..(Len(s) - 1) : s[i] \in Values
      BY <1>1, ElementOfSeq
    <3>. QED BY <1>1, <3>1, SubSeqProperties
  <2>3. List!Without(s, Len(s) - 1) = SubSeq(s, 1, Len(s) - 1) \o << >>
    <3>1. (Len(s) - 1) + 2 = Len(s) + 1
      BY <1>1
    <3>. QED BY <1>3, <3>1 DEF List!Without
  <2>4. List!Without(s, 0) = << >> \o Tail(s)
    <3>1. 0 + 2 = 2
      OBVIOUS
    <3>. QED BY <1>3, <2>1, <3>1 DEF List!Without
  <2>5. Head(s) = s[1]
    BY <1>7
  <2>. QED BY <2>1, <2>2, <2>3, <2>4, <2>5, ConcatEmptySeq
<1>. QED BY <1>5, <1>6, <1>7

-----------------------------------------------------------------------------
(* How a method ends.                                                      *)

LEMMA BodyIs ==
  /\ Running <=> List!InBody
  /\ Alone <=> List!NoBody
BY DEF Running, Alone, List!InBody, List!NoBody

LEMMA GivesIs ==
  ASSUME NEW l, NEW v, Items(self') = l, Returns(v)
  PROVE  List!Gives(l, v)
BY DEF Returns, List!Gives

LEMMA StopIs ==
  ASSUME status = "run", NEW how \in {"bug", "overrun"}, Stops(how)
  PROVE  List!Stop
BY DEF Stops, List!Stop

LEMMA AddAtIs ==
  ASSUME IInv, status = "run", NEW pos \in 0..self.size, NEW v \in Values, AddAt(pos, v)
  PROVE  List!Gives(List!InsertAt(Items(self), pos, v), Nil) \/ List!Stop
<1>1. CASE Overruns(self)
  BY <1>1, StopIs DEF AddAt
<1>2. CASE ~Overruns(self)
  <2>1. Good(self) /\ self' = Inserted(self, pos, v) /\ Returns(Nil)
    BY <1>2 DEF AddAt, IInv
  <2>2. Items(self') = List!InsertAt(Items(self), pos, v)
    BY <1>2, <2>1, InsertedItems
  <2>. QED BY <2>1, <2>2, GivesIs
<1>. QED BY <1>1, <1>2

-----------------------------------------------------------------------------
(* The methods.                                                            *)

LEMMA AddMethods ==
  ASSUME IInv, NEW v \in Values
  PROVE  /\ Push(v) => List!Push(v)
         /\ Unshift(v) => List!Unshift(v)
<1>1. Good(self)
  BY DEF IInv
<1>2. Items(self) \in Seq(Values) /\ Len(Items(self)) = self.size /\ self.size \in Nat
  BY <1>1, ItemsAre
<1>3. /\ List!InsertAt(Items(self), self.size, v) = Append(Items(self), v)
      /\ List!InsertAt(Items(self), 0, v) = <<v>> \o Items(self)
  BY <1>2, EndsOfAList
<1>4. ASSUME Push(v) PROVE List!Push(v)
  <2>1. self.size \in 0..self.size /\ status = "run" /\ AddAt(self.size, v) /\ List!InBody
    BY <1>2, <1>4, BodyIs DEF Push, Running
  <2>. QED BY <1>3, <2>1, AddAtIs DEF List!Push
<1>5. ASSUME Unshift(v) PROVE List!Unshift(v)
  <2>1. 0 \in 0..self.size /\ status = "run" /\ AddAt(0, v) /\ List!InBody
    BY <1>2, <1>5, BodyIs DEF Unshift, Running
  <2>. QED BY <1>3, <2>1, AddAtIs DEF List!Unshift
<1>. QED BY <1>4, <1>5

LEMMA PlaceIs ==
  ASSUME Good(self), NEW k \in Int
  PROVE  \/ Place(self, k) = -1
         \/ Place(self, k) \in 0..self.size /\ Place(self, k) = List!Position(k)
<1>1. Len(Items(self)) = self.size /\ self.size \in Nat
  BY ItemsAre
<1>2. List!Position(k) = IF k < 0 THEN self.size + k ELSE k
  BY <1>1 DEF List!Position, List!Size
<1>3. CASE k \in 0..self.size
  BY <1>1, <1>2, <1>3 DEF Place
<1>4. CASE k \notin 0..self.size
  <2>1. Place(self, k) = RealIndex(self, k)
    BY <1>4 DEF Place
  <2>2. CASE k < 0
    BY <1>1, <1>2, <2>1, <2>2 DEF RealIndex
  <2>3. CASE k > self.size
    BY <1>1, <2>1, <2>3 DEF RealIndex
  <2>. QED BY <1>1, <1>4, <2>2, <2>3
<1>. QED BY <1>3, <1>4

LEMMA InsertMethod ==
  ASSUME IInv, NEW k \in Int, NEW v \in Values, Insert(k, v)
  PROVE  List!Insert(k, v)
<1>. DEFINE p == Place(self, Narrow(k))
<1>1. Good(self) /\ Len(Items(self)) = self.size
  BY ItemsAre DEF IInv
<1>2. \/ p = -1
      \/ p \in 0..self.size /\ (List!Fits32(k) => p = List!Position(k))
  <2>1. Narrow(k) \in Int /\ (List!Fits32(k) => Narrow(k) = k)
    BY NarrowInt, NarrowFits
  <2>. QED BY <1>1, <2>1, PlaceIs
<1>3. status = "run" /\ List!InBody /\ (IF p < 0 THEN Stops("bug") ELSE AddAt(p, v))
  BY BodyIs DEF Insert, Running
<1>. HIDE DEF p
<1>4. CASE p < 0
  BY <1>3, <1>4, StopIs DEF List!Insert
<1>5. CASE ~(p < 0)
  <2>1. p \in 0..List!Size /\ (List!Fits32(k) => p = List!Position(k))
    BY <1>1, <1>2, <1>5 DEF List!Size
  <2>2. List!Gives(List!InsertAt(Items(self), p, v), Nil) \/ List!Stop
    BY <1>2, <1>3, <1>5, AddAtIs
  <2>. QED BY <1>3, <2>1, <2>2 DEF List!Insert
<1>. QED BY <1>4, <1>5

LEMMA RemoveMethods ==
  ASSUME IInv, NEW v \in Values, NEW k \in Int
  PROVE  /\ Pop => List!Pop
         /\ Shift => List!Shift
         /\ Remove(v) => List!Remove(v)
         /\ RemoveAt(k) => List!RemoveAt(k)
<1>1. Good(self)
  BY DEF IInv
<1>2. /\ Items(self) \in Seq(Values) /\ Len(Items(self)) = self.size /\ self.size \in Nat
      /\ self.size # 0 => Items(self) # << >>
  BY <1>1, ItemsAre, EmptySeq
<1>3. ASSUME NEW pos \in 0..(self.size - 1), NEW x, self' = Removed(self, pos), Returns(x)
      PROVE  List!Gives(List!Without(Items(self), pos), x)
  <2>1. Items(self') = List!Without(Items(self), pos)
    BY <1>1, <1>3, RemovedItems
  <2>. QED BY <1>3, <2>1, GivesIs
<1>4. ASSUME NEW x, UNCHANGED self, Returns(x)
      PROVE  List!Gives(Items(self), x)
  BY <1>4, GivesIs
<1>5. ASSUME Pop PROVE List!Pop
  <2>1. CASE self.size = 0
    BY <1>2, <1>4, <1>5, <2>1, BodyIs DEF Pop, List!Pop, List!Size
  <2>2. CASE self.size # 0
    <3>1. self.size - 1 \in 0..(self.size - 1) /\ (self.size - 1) + 1 = self.size
      BY <1>2, <2>2
    <3>2. self.items[self.size - 1] = Items(self)[self.size]
      BY <1>1, <3>1, RemovedItems
    <3>3. List!Without(Items(self), self.size - 1) = SubSeq(Items(self), 1, self.size - 1)
      BY <1>2, <2>2, EndsOfAList
    <3>4. List!Gives(List!Without(Items(self), self.size - 1), self.items[self.size - 1])
      BY <1>3, <1>5, <2>2, <3>1 DEF Pop
    <3>. QED BY <1>2, <1>5, <2>2, <3>2, <3>3, <3>4, BodyIs DEF Pop, List!Pop, List!Size
  <2>. QED BY <2>1, <2>2
<1>6. ASSUME Shift PROVE List!Shift
  <2>1. CASE self.size = 0
    BY <1>2, <1>6, <2>1, BodyIs, StopIs DEF Shift, Running, List!Shift, List!Size
  <2>2. CASE self.size # 0
    <3>1. 0 \in 0..(self.size - 1) /\ 0 + 1 = 1
      BY <1>2, <2>2
    <3>2. self.items[0] = Items(self)[1]
      BY <1>1, <3>1, RemovedItems
    <3>3. List!Without(Items(self), 0) = Tail(Items(self)) /\ Head(Items(self)) = Items(self)[1]
      BY <1>2, <2>2, EndsOfAList
    <3>4. List!Gives(List!Without(Items(self), 0), self.items[0])
      BY <1>3, <1>6, <2>2, <3>1 DEF Shift
    <3>. QED BY <1>2, <1>6, <2>2, <3>2, <3>3, <3>4, BodyIs DEF Shift, List!Shift, List!Size
  <2>. QED BY <2>1, <2>2
<1>7. ASSUME Remove(v) PROVE List!Remove(v)
  <2>1. CASE Find(self, v) < 0
    <3>1. List!Gives(Items(self), False) /\ List!InBody
      BY <1>4, <1>7, <2>1, BodyIs DEF Remove
    <3>2. ~List!Occurs(v)
      BY <1>1, <2>1, FindIs
    <3>. QED BY <3>1, <3>2 DEF List!Remove
  <2>2. CASE ~(Find(self, v) < 0)
    <3>1. Find(self, v) \in 0..(self.size - 1)
      BY <1>1, <1>2, <2>2, FindGood
    <3>2. List!Occurs(v) /\ List!FirstOf(v) = Find(self, v)
      BY <1>1, <2>2, FindIs
    <3>3. List!Gives(List!Without(Items(self), Find(self, v)), True) /\ List!InBody
      BY <1>3, <1>7, <2>2, <3>1, BodyIs DEF Remove
    <3>. QED BY <3>2, <3>3 DEF List!Remove
  <2>. QED BY <2>1, <2>2
<1>8. ASSUME RemoveAt(k) PROVE List!RemoveAt(k)
  <2>. DEFINE i == IF k < 0 THEN self.size + k ELSE k
  <2>1. i = List!Position(k) /\ (List!Exists(k) <=> i \in 0..(self.size - 1))
    BY <1>2 DEF List!Position, List!Exists, List!Size
  <2>2. /\ status = "run" /\ List!InBody
        /\ IF i \notin 0..(self.size - 1) THEN Stops("bug")
           ELSE self' = Removed(self, i) /\ Returns(self.items[i])
    BY <1>8, BodyIs DEF RemoveAt, Running
  <2>. HIDE DEF i
  <2>3. CASE i \notin 0..(self.size - 1)
    BY <2>1, <2>2, <2>3, StopIs DEF List!RemoveAt
  <2>4. CASE i \in 0..(self.size - 1)
    <3>1. List!At(k) = self.items[i]
      BY <1>1, <2>1, <2>4, RemovedItems DEF List!At
    <3>2. List!Gives(List!Without(Items(self), i), self.items[i])
      BY <1>3, <2>2, <2>4
    <3>. QED BY <2>1, <2>2, <2>4, <3>1, <3>2 DEF List!RemoveAt
  <2>. QED BY <2>3, <2>4
<1>. QED BY <1>5, <1>6, <1>7, <1>8

LEMMA ReadMethods ==
  ASSUME IInv, Sized, NEW v \in Values, NEW k \in Int
  PROVE  /\ GetItem(k) => List!GetItem(k)
         /\ Contains(v) => List!Contains(v)
         /\ IndexOf(v) => List!IndexOf(v)
         /\ First => List!First
         /\ Last => List!Last
         /\ SizeOf => List!SizeOf
<1>1. Good(self)
  BY DEF IInv
<1>2. Len(Items(self)) = self.size /\ self.size \in Nat /\ self.size < Half /\ Half \in Nat
  BY <1>1, ItemsAre, ArrayAssumption DEF Sized
<1>3. ASSUME NEW x, Reads(x)
      PROVE  List!InBody /\ List!Gives(Items(self), x)
  BY <1>3, BodyIs, GivesIs DEF Reads
<1>4. ASSUME GetItem(k) PROVE List!GetItem(k)
  <2>1. Get(self, k) \in Values /\ (List!Fits32(k) => Get(self, k) = List!At(k))
    BY <1>1, GetGood, GetIs
  <2>2. List!InBody /\ List!Gives(Items(self), Get(self, k))
    BY <1>3, <1>4 DEF GetItem
  <2>. QED BY <2>1, <2>2 DEF List!GetItem
<1>5. ASSUME Contains(v) PROVE List!Contains(v)
  BY <1>1, <1>3, <1>5, FindIs DEF Contains, List!Contains
<1>6. ASSUME IndexOf(v) PROVE List!IndexOf(v)
  <2>1. Find(self, v) = IF List!Occurs(v) THEN List!FirstOf(v) ELSE -1
    BY <1>1, <1>2, FindIs, FindGood
  <2>2. List!InBody /\ List!Gives(Items(self), Find(self, v))
    BY <1>3, <1>6 DEF IndexOf
  <2>. QED BY <2>1, <2>2 DEF List!IndexOf
<1>7. ASSUME First PROVE List!First
  <2>1. (IF self.size > 0 THEN Get(self, 0) ELSE Nil) = List!At(0)
    <3>1. CASE self.size > 0
      BY <1>1, <1>2, <3>1, GetIs DEF List!Fits32
    <3>2. CASE ~(self.size > 0)
      BY <1>2, <3>2 DEF List!At, List!Exists, List!Position, List!Size
    <3>. QED BY <3>1, <3>2
  <2>. QED BY <1>3, <1>7, <2>1 DEF First, List!First
<1>8. ASSUME Last PROVE List!Last
  <2>1. (IF self.size > 0 THEN Get(self, self.size - 1) ELSE Nil) = List!At(-1)
    <3>1. CASE self.size > 0
      <4>1. Get(self, self.size - 1) = List!At(self.size - 1)
        BY <1>1, <1>2, <3>1, GetIs DEF List!Fits32
      <4>2. List!At(self.size - 1) = List!At(-1)
        BY <1>2, <3>1 DEF List!At, List!Exists, List!Position, List!Size
      <4>. QED BY <3>1, <4>1, <4>2
    <3>2. CASE ~(self.size > 0)
      BY <1>2, <3>2 DEF List!At, List!Exists, List!Position, List!Size
    <3>. QED BY <3>1, <3>2
  <2>. QED BY <1>3, <1>8, <2>1 DEF Last, List!Last
<1>9. ASSUME SizeOf PROVE List!SizeOf
  BY <1>2, <1>3, <1>9 DEF SizeOf, List!SizeOf, List!Size
<1>. QED BY <1>4, <1>5, <1>6, <1>7, <1>8, <1>9

LEMMA LiteralAndAdd ==
  ASSUME IInv, NEW l \in Seq(Values)
  PROVE  /\ Becomes(Exactly(l)) => List!Gives(l, Nil)
         /\ Literal(l) => List!Literal(l)
         /\ Add(l) => List!Add(l)
<1>1. \A s \in Seq(Values) : Becomes(Exactly(s)) => List!Gives(s, Nil)
  BY ExactlyItems, GivesIs DEF Becomes
<1>2. ASSUME Literal(l) PROVE List!Literal(l)
  BY <1>1, <1>2, BodyIs DEF Literal, List!Literal
<1>3. ASSUME Add(l) PROVE List!Add(l)
  <2>1. Good(self)
    BY DEF IInv
  <2>2. Items(self) \o l \in Seq(Values)
    BY <2>1, ItemsAre, ConcatProperties
  <2>. QED BY <1>1, <1>3, <2>2, BodyIs DEF Add, List!Add
<1>. QED BY <1>1, <1>2, <1>3

LEMMA SliceStatement ==
  ASSUME IInv, NEW start \in Int, NEW end \in Int, Slice(start, end)
  PROVE  List!Slice(start, end)
<1>1. Good(self)
  BY DEF IInv
<1>2. CASE end < start
  BY <1>2, BodyIs, StopIs DEF Slice, Alone, List!Slice
<1>3. CASE ~(end < start)
  <2>. DEFINE s == [i \in 1..(end - start) |-> Get(self, start + i - 1)]
  <2>1. ASSUME NEW i \in 1..(end - start)
        PROVE  /\ Get(self, start + i - 1) \in Values
               /\ List!Fits32(start + i - 1) =>
                    Get(self, start + i - 1) = List!At(start + i - 1)
    BY <1>1, GetGood, GetIs
  <2>2. s \in Seq(Values) /\ s \in [1..(end - start) -> Values]
    <3>1. end - start \in Nat
      BY <1>3
    <3>2. \A i \in 1..(end - start) : Get(self, start + i - 1) \in Values
      BY <2>1, Zenon
    <3>3. s \in [1..(end - start) -> Values]
      BY <3>2, Zenon
    <3>. QED BY <3>1, <3>3, FunctionIsSeq
  <2>3. \A i \in 1..(end - start) :
          List!Fits32(start + i - 1) => s[i] = List!At(start + i - 1)
    BY <2>1
  <2>4. Becomes(Exactly(s)) /\ List!NoBody
    BY <1>3, BodyIs DEF Slice
  <2>. HIDE DEF s
  <2>5. List!Gives(s, Nil)
    BY <2>2, <2>4, LiteralAndAdd
  <2>. QED BY <1>3, <2>2, <2>3, <2>4, <2>5 DEF List!Slice, List!Gives
<1>. QED BY <1>2, <1>3

-----------------------------------------------------------------------------
(* The loops.                                                              *)

LEMMA CollectIs ==
  ASSUME IInv, status = "run", NEW v \in Values, Collect(v)
  PROVE  List!Go(Append(Items(out), v)) \/ List!Stop
<1>1. /\ Good(out) /\ Items(out) \in Seq(Values)
      /\ Len(Items(out)) = out.size /\ out.size \in Nat
  BY ItemsAre DEF IInv
<1>2. CASE Overruns(out)
  BY <1>2, StopIs DEF Collect
<1>3. CASE ~Overruns(out)
  <2>1. out' = Inserted(out, out.size, v) /\ NextTurn /\ UNCHANGED <<self, ret, status>>
    BY <1>3 DEF Collect
  <2>2. Items(out') = Append(Items(out), v)
    <3>1. List!InsertAt(Items(out), Len(Items(out)), v) = Append(Items(out), v)
      BY <1>1, EndsOfAList
    <3>2. out.size \in 0..out.size
      BY <1>1
    <3>3. Items(Inserted(out, out.size, v)) = List!InsertAt(Items(out), out.size, v)
      BY <1>1, <1>3, <3>2, InsertedItems
    <3>. QED BY <1>1, <2>1, <3>1, <3>3
  <2>. QED BY <2>1, <2>2 DEF NextTurn, List!Go
<1>. QED BY <1>2, <1>3

LEMMA LoopSteps ==
  ASSUME IInv, Sized, NEW r \in Values, NEW kind \in {"each", "any", "map", "filter"}
  PROVE  /\ Begin(kind) => List!Begin(kind)
         /\ Call => List!Call
         /\ AnswerEach(r) => List!AnswerEach(r)
         /\ AnswerAny(r) => List!AnswerAny(r)
         /\ AnswerMap(r) => List!AnswerMap(r)
         /\ AnswerFilter(r) => List!AnswerFilter(r)
         /\ End => List!End
<1>1. /\ Good(self) /\ Good(out) /\ Len(Items(self)) = self.size /\ self.size \in Nat
      /\ \A i \in 1..self.size : Items(self)[i] = self.items[i - 1]
      /\ Half \in Nat /\ self.size < Half /\ loop.at \in Nat
  BY ItemsAre, ArrayAssumption DEF IInv, Sized
<1>2. Items(None) = << >> /\ Items(New(DefaultCapacity)) = << >> /\ Items(New(self.size)) = << >>
  BY <1>1, NewItems, ArrayAssumption DEF None
<1>3. Idle = List!NoLoop
  BY DEF Idle, List!NoLoop
<1>4. \A k : Answers(k) <=> List!InBodyOf(k)
  BY DEF Answers, List!InBodyOf
<1>5. ASSUME NextTurn, UNCHANGED <<self, out, ret, status>>
      PROVE  List!Go(Items(out))
  BY <1>5 DEF NextTurn, List!Go
<1>6. ASSUME Begin(kind) PROVE List!Begin(kind)
  <2>1. Items(out') = << >>
    BY <1>2, <1>6 DEF Begin
  <2>. QED BY <1>3, <1>6, <2>1, BodyIs DEF Begin, List!Begin
<1>7. ASSUME Call PROVE List!Call
  <2>1. loop.at < self.size /\ List!Fits32(loop.at)
    BY <1>1, <1>7 DEF Call, List!Fits32
  <2>2. Get(self, loop.at) = List!At(loop.at)
    BY <1>1, <2>1, GetIs
  <2>3. List!At(loop.at) = Items(self)[loop.at + 1]
    BY <1>1, <2>1 DEF List!At, List!Exists, List!Position, List!Size
  <2>. QED BY <1>1, <1>7, <2>1, <2>2, <2>3 DEF Call, List!Call, List!Size
<1>8. ASSUME AnswerEach(r) PROVE List!AnswerEach(r)
  BY <1>4, <1>5, <1>8 DEF AnswerEach, List!AnswerEach
<1>9. ASSUME AnswerAny(r) PROVE List!AnswerAny(r)
  <2>1. CASE r = True
    BY <1>3, <1>4, <1>9, <2>1 DEF AnswerAny, List!AnswerAny
  <2>2. CASE r # True
    BY <1>4, <1>5, <1>9, <2>2 DEF AnswerAny, List!AnswerAny
  <2>. QED BY <2>1, <2>2
<1>10. ASSUME AnswerMap(r) PROVE List!AnswerMap(r)
  <2>1. status = "run" /\ Collect(r) /\ List!InBodyOf("map")
    BY <1>4, <1>10 DEF AnswerMap, Answers
  <2>. QED BY <2>1, CollectIs DEF List!AnswerMap
<1>11. ASSUME AnswerFilter(r) PROVE List!AnswerFilter(r)
  <2>1. status = "run" /\ loop.item \in Values /\ List!InBodyOf("filter")
    BY <1>4, <1>11 DEF AnswerFilter, Answers, IInv
  <2>2. CASE r = True
    BY <1>11, <2>1, <2>2, CollectIs DEF AnswerFilter, List!AnswerFilter
  <2>3. CASE r # True
    BY <1>5, <1>11, <2>1, <2>3 DEF AnswerFilter, List!AnswerFilter
  <2>. QED BY <2>2, <2>3
<1>12. ASSUME End PROVE List!End
  BY <1>1, <1>2, <1>3, <1>12 DEF End, List!End, List!Size
<1>. QED BY <1>6, <1>7, <1>8, <1>9, <1>10, <1>11, <1>12

-----------------------------------------------------------------------------
(* Arrays stay within their bound.                                         *)

LEMMA InitSized == Init => Sized
<1>1. New(DefaultCapacity).size = 0 /\ New(0).size = 0
  BY NewItems, ArrayAssumption
<1>2. \A list \in Literals : Exactly(list).size = Len(list)
  BY ExactlyItems, ArrayAssumption
<1>. QED BY <1>1, <1>2, ArrayAssumption DEF Init, None, Idle, Sized

LEMMA AddAtSized ==
  ASSUME IInv, Sized, self.size < MaxSize, NEW pos \in 0..self.size, NEW v \in Values,
         AddAt(pos, v)
  PROVE  Sized'
<1>1. Good(self) /\ self.size \in Nat /\ MaxSize \in Nat
  BY ItemsAre, ArrayAssumption DEF IInv
<1>2. CASE Overruns(self)
  BY <1>2 DEF AddAt, Stops, Sized
<1>3. CASE ~Overruns(self)
  <2>1. self'.size = self.size + 1 /\ UNCHANGED <<out, loop>>
    BY <1>1, <1>3, InsertedItems DEF AddAt, Returns
  <2>. QED BY <1>1, <2>1 DEF Sized
<1>. QED BY <1>2, <1>3

LEMMA MethodSized ==
  ASSUME IInv, Sized, NEW v \in Values, NEW k \in Int,
         \/ Push(v) \/ Unshift(v) \/ Insert(k, v)
         \/ Pop \/ Shift \/ Remove(v) \/ RemoveAt(k)
         \/ GetItem(k) \/ Contains(v) \/ IndexOf(v) \/ First \/ Last \/ SizeOf
  PROVE  Sized'
<1>1. Good(self) /\ self.size \in Nat /\ MaxSize \in Nat
  BY ItemsAre, ArrayAssumption DEF IInv
<1>2. ASSUME NEW pos \in 0..(self.size - 1), NEW x, self' = Removed(self, pos), Returns(x)
      PROVE  Sized'
  <2>1. self'.size = self.size - 1 /\ UNCHANGED <<out, loop>>
    BY <1>1, <1>2, RemovedItems DEF Returns
  <2>. QED BY <1>1, <2>1 DEF Sized
<1>3. ASSUME NEW x, UNCHANGED self, Returns(x) PROVE Sized'
  BY <1>3 DEF Returns, Sized
<1>4. ASSUME NEW how, Stops(how) PROVE Sized'
  BY <1>4 DEF Stops, Sized
<1>5. CASE Push(v) \/ Unshift(v)
  <2>1. self.size \in 0..self.size /\ 0 \in 0..self.size
    BY <1>1
  <2>. QED BY <1>5, <2>1, AddAtSized DEF Push, Unshift
<1>6. CASE Insert(k, v)
  <2>. DEFINE p == Place(self, Narrow(k))
  <2>1. p = -1 \/ p \in 0..self.size
    <3>1. Narrow(k) \in Int
      BY NarrowInt
    <3>. QED BY <1>1, <3>1, PlaceIs
  <2>2. self.size < MaxSize /\ (IF p < 0 THEN Stops("bug") ELSE AddAt(p, v))
    BY <1>6 DEF Insert
  <2>. HIDE DEF p
  <2>3. CASE p = -1
    BY <1>4, <2>2, <2>3
  <2>4. CASE p \in 0..self.size
    <3>1. ~(p < 0)
      BY <2>4
    <3>. QED BY <2>2, <2>4, <3>1, AddAtSized
  <2>. QED BY <2>1, <2>3, <2>4
<1>7. CASE Pop
  <2>1. self.size # 0 => self.size - 1 \in 0..(self.size - 1)
    BY <1>1
  <2>. QED BY <1>2, <1>3, <1>7, <2>1 DEF Pop
<1>8. CASE Shift
  <2>1. self.size # 0 => 0 \in 0..(self.size - 1)
    BY <1>1
  <2>. QED BY <1>2, <1>4, <1>8, <2>1 DEF Shift
<1>9. CASE Remove(v)
  <2>1. Find(self, v) \in 0..(self.size - 1) \/ Find(self, v) = -1
    BY <1>1, FindGood
  <2>2. CASE Find(self, v) = -1
    BY <1>3, <1>9, <2>2 DEF Remove
  <2>3. CASE Find(self, v) \in 0..(self.size - 1)
    <3>1. ~(Find(self, v) < 0)
      BY <2>3
    <3>. QED BY <1>2, <1>9, <2>3, <3>1 DEF Remove
  <2>. QED BY <2>1, <2>2, <2>3
<1>10. CASE RemoveAt(k)
  BY <1>2, <1>4, <1>10 DEF RemoveAt
<1>11. CASE GetItem(k) \/ Contains(v) \/ IndexOf(v) \/ First \/ Last \/ SizeOf
  BY <1>3, <1>11 DEF GetItem, Contains, IndexOf, First, Last, SizeOf, Reads
<1>. QED BY <1>5, <1>6, <1>7, <1>8, <1>9, <1>10, <1>11

LEMMA StatementSized ==
  ASSUME IInv, Sized, NEW l \in Seq(Values), NEW start \in Int, NEW end \in Int,
         \/ Literal(l) /\ Len(l) <= MaxSize
         \/ Add(l)
         \/ Slice(start, end)
  PROVE  Sized'
<1>1. /\ Good(self) /\ Items(self) \in Seq(Values) /\ Len(Items(self)) = self.size
      /\ self.size \in Nat /\ MaxSize \in Nat
  BY ItemsAre, ArrayAssumption DEF IInv
<1>2. ASSUME NEW s \in Seq(Values), Len(s) <= MaxSize, Becomes(Exactly(s)) PROVE Sized'
  <2>1. self'.size = Len(s) /\ UNCHANGED <<out, loop>>
    BY <1>2, ExactlyItems DEF Becomes, Returns
  <2>. QED BY <1>2, <2>1 DEF Sized
<1>3. CASE Literal(l) /\ Len(l) <= MaxSize
  BY <1>2, <1>3 DEF Literal
<1>4. CASE Add(l)
  <2>1. Items(self) \o l \in Seq(Values) /\ Len(Items(self) \o l) = self.size + Len(l)
    BY <1>1, ConcatProperties
  <2>. QED BY <1>2, <1>4, <2>1 DEF Add
<1>5. CASE Slice(start, end)
  <2>1. CASE end < start
    BY <1>5, <2>1 DEF Slice, Stops, Sized
  <2>2. CASE ~(end < start)
    <3>. DEFINE s == [i \in 1..(end - start) |-> Get(self, start + i - 1)]
    <3>1. end - start \in Nat /\ end - start <= MaxSize /\ Becomes(Exactly(s))
      BY <1>5, <2>2 DEF Slice
    <3>2. \A i \in 1..(end - start) : start + i - 1 \in Int
      OBVIOUS
    <3>3. \A i \in 1..(end - start) : Get(self, start + i - 1) \in Values
      BY <1>1, <3>2, GetGood
    <3>4. s \in [1..(end - start) -> Values]
      BY <3>3, Zenon
    <3>. HIDE DEF s
    <3>5. s \in Seq(Values) /\ Len(s) = end - start
      BY <3>1, <3>4, FunctionIsSeq
    <3>. QED BY <1>2, <3>1, <3>5
  <2>. QED BY <2>1, <2>2
<1>. QED BY <1>3, <1>4, <1>5

LEMMA LoopSized ==
  ASSUME IInv, Sized, NEW r \in Values, NEW kind \in {"each", "any", "map", "filter"},
         \/ Begin(kind) \/ Call \/ End
         \/ AnswerEach(r) \/ AnswerAny(r) \/ AnswerMap(r) \/ AnswerFilter(r)
  PROVE  Sized'
<1>1. /\ self.size \in Nat /\ out.size \in Nat /\ MaxSize \in Nat /\ loop.at \in Nat
      /\ Good(out) /\ loop \in Loops /\ out.size \in 0..out.size
  BY ArrayAssumption DEF IInv, Good, IsArray, Loops
<1>2. \A c \in Nat : New(c).size = 0
  BY NewItems
<1>3. New(0).size = 0 /\ New(DefaultCapacity).size = 0 /\ New(self.size).size = 0
  BY <1>1, <1>2, ArrayAssumption
<1>4. ASSUME NextTurn
      PROVE  loop'.at = loop.at + 1 /\ loop'.item = Junk /\ loop'.kind = loop.kind
  BY <1>1, <1>4 DEF NextTurn, Loops
<1>5. ASSUME loop.item # Junk, NextTurn, UNCHANGED <<self, out>> PROVE Sized'
  BY <1>1, <1>4, <1>5 DEF Sized
<1>6. ASSUME loop.item # Junk, loop.kind \in {"map", "filter"}, NEW v \in Values, Collect(v)
      PROVE  Sized'
  <2>1. CASE Overruns(out)
    BY <1>6, <2>1 DEF Collect, Stops, Sized
  <2>2. CASE ~Overruns(out)
    <3>1. out'.size = out.size + 1 /\ NextTurn /\ UNCHANGED self
      BY <1>1, <1>6, <2>2, InsertedItems DEF Collect
    <3>. QED BY <1>1, <1>4, <1>6, <3>1 DEF Sized
  <2>. QED BY <2>1, <2>2
<1>7. CASE Begin(kind)
  <2>1. out'.size = 0 /\ UNCHANGED self
    BY <1>3, <1>7 DEF Begin, None
  <2>2. loop'.at = 0 /\ loop'.item = Junk
    BY <1>7 DEF Begin, Idle
  <2>. QED BY <1>1, <2>1, <2>2 DEF Sized
<1>8. CASE Call
  <2>1. loop'.at = loop.at /\ loop'.kind = loop.kind /\ loop.kind # "none"
        /\ loop.at < self.size /\ UNCHANGED <<self, out>>
    BY <1>1, <1>8 DEF Call, Loops
  <2>. QED BY <1>1, <2>1 DEF Sized
<1>9. CASE End
  <2>1. out'.size = 0 /\ (self' = self \/ self' = out) /\ loop'.at = 0 /\ loop'.item = Junk
    BY <1>3, <1>9 DEF End, Idle, None
  <2>. QED BY <1>1, <2>1 DEF Sized
<1>10. CASE AnswerEach(r)
  BY <1>5, <1>10 DEF AnswerEach, Answers
<1>11. CASE AnswerAny(r)
  <2>1. CASE r = True
    <3>1. loop'.at = 0 /\ loop'.item = Junk /\ UNCHANGED <<self, out>>
      BY <1>11, <2>1 DEF AnswerAny, Idle
    <3>2. out.size = 0
      BY <1>11 DEF AnswerAny, Answers, Sized
    <3>. QED BY <1>1, <3>1, <3>2 DEF Sized
  <2>2. CASE r # True
    BY <1>5, <1>11, <2>2 DEF AnswerAny, Answers
  <2>. QED BY <2>1, <2>2
<1>12. CASE AnswerMap(r)
  BY <1>6, <1>12 DEF AnswerMap, Answers
<1>13. CASE AnswerFilter(r)
  <2>1. loop.item \in Values /\ loop.item # Junk /\ loop.kind = "filter"
    BY <1>1, <1>13 DEF AnswerFilter, Answers, Loops
  <2>2. CASE r = True
    BY <1>6, <1>13, <2>1, <2>2 DEF AnswerFilter
  <2>3. CASE r # True
    BY <1>5, <1>13, <2>1, <2>3 DEF AnswerFilter
  <2>. QED BY <2>2, <2>3
<1>. QED BY <1>7, <1>8, <1>9, <1>10, <1>11, <1>12, <1>13

-----------------------------------------------------------------------------
(* Every step of the array is a step of the list.                          *)

LEMMA StepSized == IInv /\ Sized /\ [Next]_vars => Sized'
<1>. SUFFICES ASSUME IInv, Sized, [Next]_vars PROVE Sized'
  OBVIOUS
<1>. USE ArrayAssumption
<1>1. 0 \in Int /\ Nil \in Values /\ << >> \in Seq(Values) /\ Indices \subseteq Int
  OBVIOUS
<1>2. Items(self) \in Seq(Values)
  BY ItemsGood DEF IInv
<1>3. CASE UNCHANGED vars
  BY <1>3 DEF vars, Sized
<1>4. ASSUME NEW v \in Values,
             Push(v) \/ Unshift(v) \/ Remove(v) \/ Contains(v) \/ IndexOf(v)
      PROVE  Sized'
  BY <1>1, <1>4, MethodSized
<1>5. ASSUME NEW k \in Indices,
             RemoveAt(k) \/ GetItem(k) \/ \E v \in Values : Insert(k, v)
      PROVE  Sized'
  BY <1>1, <1>5, MethodSized
<1>6. CASE Pop \/ Shift \/ First \/ Last \/ SizeOf
  BY <1>1, <1>6, MethodSized
<1>7. ASSUME NEW l \in Literals, Literal(l) \/ Add(l) PROVE Sized'
  BY <1>1, <1>7, StatementSized
<1>8. CASE Add(Items(self))
  BY <1>1, <1>2, <1>8, StatementSized
<1>9. ASSUME NEW start \in Indices, NEW end \in Indices, Slice(start, end) PROVE Sized'
  BY <1>1, <1>9, StatementSized
<1>10. ASSUME NEW kind \in {"each", "any", "map", "filter"}, Begin(kind) PROVE Sized'
  BY <1>1, <1>10, LoopSized
<1>11. ASSUME NEW r \in Values,
              AnswerEach(r) \/ AnswerAny(r) \/ AnswerMap(r) \/ AnswerFilter(r)
       PROVE  Sized'
  BY <1>11, LoopSized
<1>12. CASE Call \/ End
  BY <1>1, <1>12, LoopSized
<1>. QED BY <1>3, <1>4, <1>5, <1>6, <1>7, <1>8, <1>9, <1>10, <1>11, <1>12 DEF Next

LEMMA InitRefines == Init => List!Init
<1>. SUFFICES ASSUME Init PROVE List!Init
  OBVIOUS
<1>1. Items(New(DefaultCapacity)) = << >> /\ Items(New(0)) = << >>
  BY NewItems, ArrayAssumption
<1>2. \A list \in Literals : Items(Exactly(list)) = list
  BY ExactlyItems, ArrayAssumption
<1>. QED BY <1>1, <1>2 DEF Init, None, Idle, List!Init, List!NoLoop

LEMMA MethodsRefine ==
  ASSUME IInv, Sized
  PROVE  MethodOfAList
<1>1. Nil \in Values /\ 0 \in Int /\ Indices \subseteq Int /\ << >> \in Seq(Values)
  BY ArrayAssumption
<1>2. ASSUME NEW v \in Values
      PROVE  /\ Push(v) => List!Push(v)
             /\ Unshift(v) => List!Unshift(v)
             /\ Remove(v) => List!Remove(v)
             /\ Contains(v) => List!Contains(v)
             /\ IndexOf(v) => List!IndexOf(v)
  BY <1>1, AddMethods, RemoveMethods, ReadMethods
<1>3. ASSUME NEW k \in Indices
      PROVE  /\ RemoveAt(k) => List!RemoveAt(k)
             /\ GetItem(k) => List!GetItem(k)
  BY <1>1, RemoveMethods, ReadMethods
<1>4. ASSUME NEW k \in Indices, NEW v \in Values, Insert(k, v)
      PROVE  List!Insert(k, v)
  BY <1>1, <1>4, InsertMethod
<1>5. ASSUME NEW k \in Indices, NEW end \in Indices, Slice(k, end)
      PROVE  List!Slice(k, end)
  BY <1>1, <1>5, SliceStatement
<1>6. /\ Pop => List!Pop
      /\ Shift => List!Shift
      /\ First => List!First
      /\ Last => List!Last
      /\ SizeOf => List!SizeOf
  BY <1>1, RemoveMethods, ReadMethods
<1>. QED BY <1>2, <1>3, <1>4, <1>5, <1>6 DEF MethodOfAList

LEMMA StepRefines ==
  ASSUME IInv, Sized, Next
  PROVE  List!Next
<1>. USE ArrayAssumption
<1>1. MethodOfAList
  BY MethodsRefine
<1>2. Items(self) \in Seq(Values)
  BY ItemsGood DEF IInv
<1>3. CASE \E v \in Values : Push(v) \/ Unshift(v) \/ Remove(v) \/ Contains(v) \/ IndexOf(v)
  BY <1>1, <1>3 DEF MethodOfAList, List!Next
<1>4. CASE \E k \in Indices : RemoveAt(k) \/ GetItem(k) \/ \E v \in Values : Insert(k, v)
  BY <1>1, <1>4 DEF MethodOfAList, List!Next
<1>5. CASE Pop \/ Shift \/ First \/ Last \/ SizeOf
  BY <1>1, <1>5 DEF MethodOfAList, List!Next
<1>6. ASSUME NEW start \in Indices, NEW end \in Indices, Slice(start, end) PROVE List!Next
  BY <1>1, <1>6 DEF MethodOfAList, List!Next
<1>7. ASSUME NEW l \in Seq(Values)
      PROVE  (Literal(l) => List!Literal(l)) /\ (Add(l) => List!Add(l))
  BY LiteralAndAdd
<1>8. ASSUME NEW l \in Literals, Literal(l) \/ Add(l) PROVE List!Next
  BY <1>7, <1>8 DEF List!Next
<1>9. CASE Add(Items(self))
  BY <1>2, <1>7, <1>9 DEF List!Next
<1>10. ASSUME NEW kind \in {"each", "any", "map", "filter"}, Begin(kind) PROVE List!Next
  BY <1>10, LoopSteps DEF List!Next
<1>11. ASSUME NEW r \in Values,
              AnswerEach(r) \/ AnswerAny(r) \/ AnswerMap(r) \/ AnswerFilter(r)
       PROVE  List!Next
  BY <1>11, LoopSteps DEF List!Next
<1>12. CASE Call \/ End
  BY <1>12, LoopSteps DEF List!Next
<1>. QED BY <1>3, <1>4, <1>5, <1>6, <1>8, <1>9, <1>10, <1>11, <1>12 DEF Next

LEMMA StutterRefines == UNCHANGED vars => UNCHANGED List!vars
BY DEF vars, List!vars, Items

(* Whatever a program calls on an array, from outside or from within a loop *)
(* over it, does to its items and returns what the method of a list does:   *)
(* the growth, the memmoves and the positions lose, repeat or misplace      *)
(* nothing, for arrays of every size.                                       *)
THEOREM ArrayImplementsList == Spec => ImplementsList
<1>1. Init => Sized /\ List!Init
  BY InitSized, InitRefines
<1>2. IInv /\ Sized /\ [Next]_vars => Sized'
  BY StepSized
<1>3. IInv /\ Sized /\ [Next]_vars => [List!Next]_List!vars
  BY StepRefines, StutterRefines
<1>4. IInv /\ Sized /\ [Next]_vars => [MethodOfAList]_vars
  BY MethodsRefine
<1>. QED BY <1>1, <1>2, <1>3, <1>4, Invariance, PTL DEF Spec, ImplementsList, List!Spec
=============================================================================
