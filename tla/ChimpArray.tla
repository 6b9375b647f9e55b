------------------------------ MODULE ChimpArray ------------------------------
(***************************************************************************)
(* The arrays of libchimp/array.c: a block of `capacity` places the first  *)
(* `size` of which are in use, grown by chimp_array_grow before an item is *)
(* added and shifted with memmove.  One array, self, is followed through   *)
(* every method a program can call on it and through what makes an array   *)
(* of another size: literals, sums and slices.                             *)
(*                                                                         *)
(* each, any, map and filter call back into the program for every item,    *)
(* and the program may call any method on the same array before it         *)
(* answers: a turn of the loop is two steps, the call and the answer.      *)
(*                                                                         *)
(* Items are told apart by identity.  What lies in a block beyond its size *)
(* is left open (Junk), and malloc fails only for a negative size.         *)
(***************************************************************************)
EXTENDS Integers, Sequences

CONSTANTS
  Values,           \* what a program puts into an array
  Nil, True, False, \* chimp_nil, chimp_true, chimp_false
  Junk,             \* what a block holds beyond its size; no item, no array
  DefaultCapacity,  \* the capacity of chimp_array_new: 10
  Half,             \* 2^31, half the range of an int32_t
  Indices,          \* the indices a program uses (a bound)
  Literals,         \* the arrays it writes down or takes from elsewhere (a bound)
  MaxSize           \* bound on the size of an array

ASSUME ArrayAssumption ==
  /\ {Nil, True} \subseteq Values
  /\ Junk \notin Values
  /\ DefaultCapacity \in Nat \ {0, 1}
  /\ Half \in Nat \ {0}
  /\ Indices \subseteq Int
  /\ Literals \subseteq Seq(Values)
  /\ MaxSize \in 1..(Half - 1)
  /\ \A list \in Literals : Len(list) <= MaxSize

VARIABLES
  self,    \* the array
  out,     \* the array map and filter are making, empty when there is none
  loop,    \* [kind, at, item]: the loop that runs and the item it calls back for
  ret,     \* what the last method returned
  status   \* "run", "bug" (CHIMP_BUG aborts), "overrun" (written past a block)

vars == <<self, out, loop, ret, status>>

-----------------------------------------------------------------------------
(* Blocks.  made, the capacity an array was made with, is history: the     *)
(* code does not keep it.                                                  *)

Array(items, size, capacity, made) ==
  [items |-> items, size |-> size, capacity |-> capacity, made |-> made]

New(capacity) == Array([i \in 0..(capacity - 1) |-> Junk], 0, capacity, capacity)

\* A literal, a sum, a slice, a decoded message: as large as what it holds.
Exactly(list) ==
  LET n == Len(list)
  IN Array([i \in 0..(n - 1) |-> list[i + 1]], n, n, n)

Items(a) == [i \in 1..a.size |-> a.items[i - 1]]

\* (size_t)(capacity * 1.8), and 10 for an array that has no block.
Grown(capacity) == IF capacity = 0 THEN DefaultCapacity ELSE (capacity * 9) \div 5

GrownLate(a) ==  \* mutant: grows only when the block is already overrun
  IF a.size <= a.capacity THEN a
  ELSE LET c == Grown(a.capacity)
       IN Array([i \in 0..(c - 1) |-> IF i < a.capacity THEN a.items[i] ELSE Junk],
                a.size, c, a.made)

Grow(a) ==
  IF a.size < a.capacity THEN a
  ELSE LET c == Grown(a.capacity)
       IN Array([i \in 0..(c - 1) |-> IF i < a.capacity THEN a.items[i] ELSE Junk],
                a.size, c, a.made)

\* chimp_array_grow leaves no room for another item.
Overruns(a) == Grow(a).size >= Grow(a).capacity

\* memmove(items + to, items + from, n)
Move(items, to, from, n) ==
  [i \in DOMAIN items |-> IF i \in to..(to + n - 1) THEN items[i - to + from] ELSE items[i]]

Inserted(a, pos, v) ==
  LET g == Grow(a)
      moved == Move(g.items, pos + 1, pos, a.size - pos)
  IN Array([i \in DOMAIN moved |-> IF i = pos THEN v ELSE moved[i]],
           a.size + 1, g.capacity, g.made)

RemovedShort(a, pos) ==  \* mutant: one item too few is moved down
  LET moved == Move(a.items, pos, pos + 1, a.size - pos - 2)
  IN Array([i \in DOMAIN moved |-> IF i = a.size - 1 THEN Junk ELSE moved[i]],
           a.size - 1, a.capacity, a.made)

RemovedUncounted(a, pos) ==  \* mutant: the size stays what it was
  LET moved == Move(a.items, pos, pos + 1, a.size - pos - 1)
  IN Array([i \in DOMAIN moved |-> IF i = a.size - 1 THEN Junk ELSE moved[i]],
           a.size, a.capacity, a.made)

\* _chimp_array_remove_at_internal, and the memmove of chimp_array_shift.
Removed(a, pos) ==
  LET moved == Move(a.items, pos, pos + 1, a.size - pos - 1)
  IN Array([i \in DOMAIN moved |-> IF i = a.size - 1 THEN Junk ELSE moved[i]],
           a.size - 1, a.capacity, a.made)

\* An index is an int64_t narrowed to an int32_t.
Narrow(k) == ((k + Half) % (2 * Half)) - Half

RealIndex(a, pos) ==
  IF pos >= 0 THEN IF pos < a.size THEN pos ELSE -1
  ELSE IF -pos <= a.size THEN a.size + pos ELSE -1

Get(a, pos) == LET i == RealIndex(a, Narrow(pos)) IN IF i < 0 THEN Nil ELSE a.items[i]

\* The first item that compares equal, -1 when there is none.
Find(a, v) ==
  LET found == {i \in 0..(a.size - 1) : a.items[i] = v}
  IN IF found = {} THEN -1 ELSE CHOOSE i \in found : \A j \in found : i <= j

-----------------------------------------------------------------------------
Idle == [kind |-> "none", at |-> 0, item |-> Junk]
None == New(0)

Init ==
  /\ self \in {New(DefaultCapacity)} \cup {Exactly(list) : list \in Literals}
  /\ out = None
  /\ loop = Idle
  /\ ret = Nil
  /\ status = "run"

(* A program is running: no loop, or a loop that is calling back.          *)
Running == status = "run" /\ (loop.kind # "none" => loop.item # Junk)
Alone == status = "run" /\ loop.kind = "none"

Returns(v) == ret' = v /\ UNCHANGED <<out, loop, status>>
Stops(how) == status' = how /\ UNCHANGED <<self, out, loop, ret>>

\* The three methods that add an item differ in where.
AddAt(pos, v) ==
  IF Overruns(self) THEN Stops("overrun")
  ELSE self' = Inserted(self, pos, v) /\ Returns(Nil)

Push(v) == Running /\ self.size < MaxSize /\ AddAt(self.size, v)
Unshift(v) == Running /\ self.size < MaxSize /\ AddAt(0, v)

\* insert: a position before the beginning counts from the end.
Place(a, pos) == IF pos \in 0..a.size THEN pos ELSE RealIndex(a, pos)

Insert(k, v) ==
  /\ Running /\ self.size < MaxSize
  /\ LET p == Place(self, Narrow(k)) IN IF p < 0 THEN Stops("bug") ELSE AddAt(p, v)

Pop ==
  /\ Running
  /\ IF self.size = 0 THEN UNCHANGED self /\ Returns(Nil)
     ELSE self' = Removed(self, self.size - 1) /\ Returns(self.items[self.size - 1])

\* An empty array has nothing to shift: NULL, and chimp_vm_call aborts.
Shift ==
  /\ Running
  /\ IF self.size = 0 THEN Stops("bug")
     ELSE self' = Removed(self, 0) /\ Returns(self.items[0])

Remove(v) ==
  /\ Running
  /\ LET i == Find(self, v)
     IN IF i < 0 THEN UNCHANGED self /\ Returns(False)
        ELSE self' = Removed(self, i) /\ Returns(True)

RemoveAt(k) ==
  /\ Running
  /\ LET i == IF k < 0 THEN self.size + k ELSE k
     IN IF i \notin 0..(self.size - 1) THEN Stops("bug")
        ELSE self' = Removed(self, i) /\ Returns(self.items[i])

\* What only reads: items, contains, size, and what native code asks.
Reads(v) == Running /\ UNCHANGED self /\ Returns(v)

GetItem(k) == Reads(Get(self, k))
Contains(v) == Reads(IF Find(self, v) < 0 THEN False ELSE True)
IndexOf(v) == Reads(Find(self, v))
First == Reads(IF self.size > 0 THEN Get(self, 0) ELSE Nil)
Last == Reads(IF self.size > 0 THEN Get(self, self.size - 1) ELSE Nil)
SizeOf == Reads(self.size)

-----------------------------------------------------------------------------
(* Statements that give the variable another array.                        *)

Becomes(a) == self' = a /\ Returns(Nil)

Literal(list) == Alone /\ Becomes(Exactly(list))

Add(list) ==
  /\ Alone /\ self.size + Len(list) <= MaxSize
  /\ Becomes(Exactly(Items(self) \o list))

\* A negative size is one malloc cannot give: NULL again.
Slice(start, end) ==
  /\ Alone /\ end - start <= MaxSize
  /\ IF end < start THEN Stops("bug")
     ELSE Becomes(Exactly([i \in 1..(end - start) |-> Get(self, start + i - 1)]))

-----------------------------------------------------------------------------
(* Loops.                                                                  *)

Begin(kind) ==
  /\ Alone
  /\ loop' = [Idle EXCEPT !.kind = kind]
  /\ out' = CASE kind = "map" -> New(self.size)
              [] kind = "filter" -> New(DefaultCapacity)
              [] OTHER -> None
  /\ UNCHANGED <<self, ret, status>>

\* The item is read before the call, and the size again before every turn.
Call ==
  /\ status = "run" /\ loop.kind # "none" /\ loop.item = Junk
  /\ loop.at < self.size
  /\ loop' = [loop EXCEPT !.item = Get(self, loop.at)]
  /\ UNCHANGED <<self, out, ret, status>>

NextTurn == loop' = [loop EXCEPT !.at = @ + 1, !.item = Junk]
Answers(kind) == status = "run" /\ loop.kind = kind /\ loop.item # Junk

Collect(v) ==
  IF Overruns(out) THEN Stops("overrun")
  ELSE /\ out' = Inserted(out, out.size, v)
       /\ NextTurn /\ UNCHANGED <<self, ret, status>>

AnswerEach(r) == Answers("each") /\ NextTurn /\ UNCHANGED <<self, out, ret, status>>

AnswerAny(r) ==
  /\ Answers("any")
  /\ IF r = True THEN loop' = Idle /\ ret' = True ELSE NextTurn /\ UNCHANGED ret
  /\ UNCHANGED <<self, out, status>>

AnswerMap(r) == Answers("map") /\ Collect(r)

AnswerFilter(r) ==
  /\ Answers("filter")
  /\ IF r = True THEN Collect(loop.item)
     ELSE NextTurn /\ UNCHANGED <<self, out, ret, status>>

\* What map and filter return takes the place of the array.
End ==
  /\ status = "run" /\ loop.kind # "none" /\ loop.item = Junk
  /\ loop.at >= self.size
  /\ loop' = Idle
  /\ out' = None
  /\ self' = IF loop.kind \in {"map", "filter"} THEN out ELSE self
  /\ ret' = IF loop.kind = "any" THEN False ELSE Nil
  /\ UNCHANGED status

Next ==
  \/ \E v \in Values : Push(v) \/ Unshift(v) \/ Remove(v) \/ Contains(v) \/ IndexOf(v)
  \/ \E k \in Indices : RemoveAt(k) \/ GetItem(k) \/ \E v \in Values : Insert(k, v)
  \/ Pop \/ Shift \/ First \/ Last \/ SizeOf
  \/ \E list \in Literals : Literal(list) \/ Add(list)
  \/ Add(Items(self))
  \/ \E start \in Indices, end \in Indices : Slice(start, end)
  \/ \E kind \in {"each", "any", "map", "filter"} : Begin(kind)
  \/ \E r \in Values : AnswerEach(r) \/ AnswerAny(r) \/ AnswerMap(r) \/ AnswerFilter(r)
  \/ Call \/ End

Spec == Init /\ [][Next]_vars

-----------------------------------------------------------------------------
(* Type: an array is never larger than its block, and what is in use holds *)
(* items of the program.                                                   *)
IsArray(a) ==
  /\ a.size \in Nat /\ a.capacity \in Nat /\ a.made \in Nat
  /\ a.size <= a.capacity
  /\ DOMAIN a.items = 0..(a.capacity - 1)
  /\ \A i \in 0..(a.size - 1) : a.items[i] \in Values

TypeOK ==
  /\ IsArray(self) /\ IsArray(out)
  /\ loop \in [kind : {"none", "each", "any", "map", "filter"}, at : Nat,
              item : Values \cup {Junk}]
  /\ ret \in Values \cup {False} \cup Int
  /\ status \in {"run", "bug", "overrun"}

(* A push, an unshift, an insert or a map writes past its block only when  *)
(* that block was made for exactly one item: 1.8 times one is one again,   *)
(* and no other capacity ever becomes one (chimp_array_grow).              *)
OverrunOnlyFromOne == status = "overrun" => self.made = 1 \/ out.made = 1

(* Whatever is called, from outside or from within a loop over the array,  *)
(* it does and returns what the same method of a list does: the memmoves,  *)
(* the growth and the positions of chimp_array_insert, shift, remove_at,   *)
(* slice and the rest lose, repeat or misplace nothing.                    *)
List == INSTANCE ChimpList WITH
  list <- Items(self), made <- Items(out), running <- (status = "run")

MethodOfAList ==
  /\ \A v \in Values :
       /\ Push(v) => List!Push(v)
       /\ Unshift(v) => List!Unshift(v)
       /\ Remove(v) => List!Remove(v)
       /\ Contains(v) => List!Contains(v)
       /\ IndexOf(v) => List!IndexOf(v)
  /\ \A k \in Indices :
       /\ RemoveAt(k) => List!RemoveAt(k)
       /\ GetItem(k) => List!GetItem(k)
       /\ \A v \in Values : Insert(k, v) => List!Insert(k, v)
       /\ \A end \in Indices : Slice(k, end) => List!Slice(k, end)
  /\ Pop => List!Pop
  /\ Shift => List!Shift
  /\ First => List!First
  /\ Last => List!Last
  /\ SizeOf => List!SizeOf

ImplementsList == List!Spec /\ [][MethodOfAList]_vars
=============================================================================
