------------------------------- MODULE ChimpMsg -------------------------------
(***************************************************************************)
(* Messages of libchimp/msg.c: a value is measured, written cell after     *)
(* cell into one malloc'd block, carried to another task and read back     *)
(* into that task's heap.  The recursion over arrays is a list of values   *)
(* still to do, and for reading the arrays that are still open.            *)
(*                                                                         *)
(* The task that sent the value goes on while the block is in its          *)
(* recipient's inbox and while it is read, and drops its handles.  How the *)
(* block gets into and out of the inbox is ChimpTask's matter; that the    *)
(* cell of a method or a module is a pointer into the heap of the sender,  *)
(* which may go before it is used, is not followed.                        *)
(*                                                                         *)
(* A value is a tuple whose first item is its class.  An array has its     *)
(* items, a string its size and some identity; what a cell of the block    *)
(* covers beyond where it begins is never looked at.                       *)
(*                                                                         *)
(* A nil is written as a cell that the next one overwrites, but read as a  *)
(* whole cell, so that the reader of a message with a value after a nil    *)
(* gets to memory that nobody wrote.  malloc has left anything there, the  *)
(* cells of an earlier message for one: it is read as any cell of Stale,   *)
(* and a size found there can lead out of the block.                       *)
(***************************************************************************)
EXTENDS Integers, Sequences, FiniteSets

CONSTANTS
  Tasks,      \* the tasks a value can name
  Messages,   \* the values that are sent (a bound)
  CellSize,   \* sizeof(ChimpMsgCell), with sizeof(ChimpTaskInternal *) = 1
  Stale,      \* the cells that memory nobody wrote may look like
  Beyond      \* how far behind the block reading is followed (a bound)

Nil == <<"nil">>

\* What can be found in a cell.
IsCell(c) ==
  /\ c[1] = "array" => c[2] \in Nat /\ c = <<"array", c[2]>>
  /\ c[1] = "str" => c[2] \in Nat
  /\ c[1] = "task" => c[2] \in Tasks /\ c = <<"task", c[2]>>
  /\ c[1] = "nil" => c = Nil

ASSUME StaleAssumption == Beyond \in Nat /\ \A c \in Stale : IsCell(c)

\* Whatever is in an array can be sent by itself as well.
ASSUME MsgAssumption ==
  /\ CellSize \in Nat \ {0}
  /\ \A v \in Messages :
       /\ v[1] = "array" => v[2] \in Seq(Messages) /\ v = <<"array", v[2]>>
       /\ v[1] = "str" => v[2] \in Nat
       /\ v[1] = "task" => v[2] \in Tasks /\ v = <<"task", v[2]>>
       /\ v[1] = "nil" => v = <<"nil">>

VARIABLES
  sent,    \* the value sent
  pc,      \* what is being done with it
  todo,    \* the values still to be measured or written, first one first
  size,    \* the size measured
  at,      \* the offset of the next cell
  block,   \* offset -> the cell written there last
  open,    \* [size, items]: the arrays being read, outermost first
  got,     \* the value read
  unwritten, \* history: the classes of the cells read that nobody wrote
  refs,    \* task->refs of each task
  held,    \* the tasks the sender has a handle of
  kept     \* how many handles of a task the receiver has made

vars == <<sent, pc, todo, size, at, block, open, got, unwritten, refs, held, kept>>

Sendable == {"nil", "int", "str", "array", "module", "method", "task"}

Init ==
  /\ sent \in Messages
  /\ pc = "measure"
  /\ todo = <<sent>>
  /\ size = 0 /\ at = 0
  /\ block = <<>>
  /\ open = <<>>
  /\ got = Nil
  /\ unwritten = {}
  /\ refs = [t \in Tasks |-> 1]
  /\ held = Tasks
  /\ kept = [t \in Tasks |-> 0]

-----------------------------------------------------------------------------
(* chimp_msg_pack.                                                         *)

RestLast ==  \* mutant: the items of an array come after what follows it
  IF Head(todo)[1] = "array" THEN Tail(todo) \o Head(todo)[2] ELSE Tail(todo)

\* An array is followed by its items.
Rest == IF Head(todo)[1] = "array" THEN Head(todo)[2] \o Tail(todo) ELSE Tail(todo)

\* chimp_msg_value_cell_size.
SizeOf(v) ==
  CASE v[1] = "str" -> CellSize + v[2] + 1
    [] v[1] = "task" -> CellSize + 1
    [] OTHER -> CellSize

\* A hash, a bool, a float and what else there is: CHIMP_BUG.
Measure ==
  /\ pc = "measure" /\ todo # <<>>
  /\ IF Head(todo)[1] \in Sendable \cup {"closure"}
     THEN size' = size + SizeOf(Head(todo)) /\ todo' = Rest /\ UNCHANGED pc
     ELSE pc' = "bug" /\ UNCHANGED <<size, todo>>
  /\ UNCHANGED <<sent, at, block, open, got, unwritten, refs, held, kept>>

Allocate ==
  /\ pc = "measure" /\ todo = <<>>
  /\ pc' = "encode"
  /\ todo' = <<sent>>
  /\ UNCHANGED <<sent, size, at, block, open, got, unwritten, refs, held, kept>>

\* How far the buffer advances: a nil leaves it where it is.
AdvanceUnterminated(v) ==  \* mutant: a string is thought to be longer than measured
  CASE v[1] = "nil" -> 0
    [] v[1] = "str" -> CellSize + v[2] + 2
    [] OTHER -> CellSize

Advance(v) ==
  CASE v[1] = "nil" -> 0
    [] v[1] = "str" -> CellSize + v[2] + 1
    [] OTHER -> CellSize

CellOf(v) == IF v[1] = "array" THEN <<"array", Len(v[2])>> ELSE v

RefTaskMissing(v) ==  \* mutant: the cell of a task is not counted
  UNCHANGED refs

\* chimp_task_ref, in case existing refs die before the message arrives.
RefTask(v) ==
  refs' = IF v[1] = "task" THEN [refs EXCEPT ![v[2]] = @ + 1] ELSE refs

Encode ==
  /\ pc = "encode" /\ todo # <<>>
  /\ LET v == Head(todo)
     IN IF v[1] = "closure"
        THEN pc' = "bug" /\ UNCHANGED <<todo, at, block, refs>>
        ELSE /\ block' = [o \in DOMAIN block \cup {at} |-> IF o = at THEN CellOf(v) ELSE block[o]]
             /\ at' = at + Advance(v)
             /\ todo' = Rest
             /\ RefTask(v)
             /\ UNCHANGED pc
  /\ UNCHANGED <<sent, size, open, got, unwritten, held, kept>>

\* chimp_task_send leaves the block in the inbox, chimp_task_recv takes it out.
Deliver ==
  /\ pc = "encode" /\ todo = <<>>
  /\ pc' = "decode"
  /\ at' = 0
  /\ open' = << [size |-> 1, items |-> <<>>] >>
  /\ UNCHANGED <<sent, todo, size, block, got, unwritten, refs, held, kept>>

-----------------------------------------------------------------------------
(* chimp_msg_unpack.                                                       *)

Top == open[Len(open)]
Outer == SubSeq(open, 1, Len(open) - 1)
Into(o, v) == [o EXCEPT ![Len(o)].items = Append(@, v)]

Reading == pc = "decode" /\ Len(Top.items) < Top.size

\* What the memory at the next cell can be read as.
Readable ==
  IF at \in DOMAIN block THEN {block[at]}
  ELSE IF at < size + Beyond THEN Stale
  ELSE {}

Found(c) ==
  unwritten' = IF at \in DOMAIN block THEN unwritten ELSE unwritten \cup {c[1]}

DecodeScalar ==
  /\ Reading
  /\ \E c \in Readable :
       /\ c[1] \notin {"array", "task"}
       /\ open' = Into(open, c)
       /\ at' = at + SizeOf(c)
       /\ Found(c)
  /\ UNCHANGED <<sent, pc, todo, size, block, got, refs, held, kept>>

\* chimp_task_new_from_internal counts the handle it makes, after which the
\* reference of the cell is given up, if it had one or not: the count is what
\* it was.
DecodeTask ==
  /\ Reading
  /\ \E c \in Readable :
       /\ c[1] = "task"
       /\ open' = Into(open, c)
       /\ kept' = [kept EXCEPT ![c[2]] = @ + 1]
       /\ Found(c)
  /\ at' = at + CellSize
  /\ UNCHANGED <<sent, pc, todo, size, block, got, refs, held>>

DecodeArrayShort ==  \* mutant: the last item is taken for the end
  /\ Reading
  /\ \E c \in Readable :
       /\ c[1] = "array"
       /\ open' = Append(open, [size |-> c[2] - 1, items |-> <<>>])
       /\ Found(c)
  /\ at' = at + CellSize
  /\ UNCHANGED <<sent, pc, todo, size, block, got, refs, held, kept>>

DecodeArray ==
  /\ Reading
  /\ \E c \in Readable :
       /\ c[1] = "array"
       /\ open' = Append(open, [size |-> c[2], items |-> <<>>])
       /\ Found(c)
  /\ at' = at + CellSize
  /\ UNCHANGED <<sent, pc, todo, size, block, got, refs, held, kept>>

CloseArray ==
  /\ pc = "decode" /\ Len(open) > 1 /\ Len(Top.items) = Top.size
  /\ open' = Into(Outer, <<"array", Top.items>>)
  /\ UNCHANGED <<sent, pc, todo, size, at, block, got, unwritten, refs, held, kept>>

\* Memory that nobody wrote may also hold a type there is none of, a wild
\* pointer, a size there is no memory for; or not be there.
DecodeFails ==
  /\ Reading /\ at \notin DOMAIN block
  /\ pc' = "failed"
  /\ UNCHANGED <<sent, todo, size, at, block, open, got, unwritten, refs, held, kept>>

Finish ==
  /\ pc = "decode" /\ Len(open) = 1 /\ Len(Top.items) = 1
  /\ pc' = "done"
  /\ got' = Top.items[1]
  /\ UNCHANGED <<sent, todo, size, at, block, open, unwritten, refs, held, kept>>

-----------------------------------------------------------------------------
(* The sender, once the message is on its way.                             *)

Sent == pc \in {"decode", "done", "failed"}

\* A handle is collected: chimp_task_unref.
Drop(t) ==
  /\ Sent /\ t \in held
  /\ held' = held \ {t}
  /\ refs' = [refs EXCEPT ![t] = @ - 1]
  /\ UNCHANGED <<sent, pc, todo, size, at, block, open, got, unwritten, kept>>

Next ==
  \/ Measure \/ Allocate \/ Encode \/ Deliver
  \/ DecodeScalar \/ DecodeTask \/ DecodeArray \/ CloseArray \/ DecodeFails \/ Finish
  \/ \E t \in Tasks : Drop(t)

Spec == Init /\ [][Next]_vars

-----------------------------------------------------------------------------
TypeOK ==
  /\ sent \in Messages
  /\ pc \in {"measure", "encode", "decode", "done", "bug", "failed"}
  /\ size \in Nat /\ at \in Nat
  /\ DOMAIN block \subseteq Nat
  /\ \A i \in DOMAIN open : Len(open[i].items) <= open[i].size
  /\ refs \in [Tasks -> Nat]
  /\ held \subseteq Tasks
  /\ kept \in [Tasks -> Nat]

\* What is still to do of a message after k of its values: an array is followed by its items.
After(s) ==
  IF s = <<>> THEN s
  ELSE IF Head(s)[1] = "array" THEN Head(s)[2] \o Tail(s)
  ELSE Tail(s)

Left(v) ==
  LET left[k \in Nat] == IF k = 0 THEN <<v>> ELSE After(left[k - 1])
  IN left

\* No message has more values than bytes.
SomethingFollowsNil ==
  \E k \in 0..size : Len(Left(sent)[k]) > 1 /\ Head(Left(sent)[k]) = Nil

(* Writing stays inside the block that was measured, and so does reading,  *)
(* a nil read where nobody wrote included, until it takes a size from such *)
(* a place for that of a string or an array (chimp_msg_value_cell_size     *)
(* against the _encode and _decode of each class).                         *)
StaysInBlock ==
  /\ \A o \in DOMAIN block : o + SizeOf(block[o]) <= size
  /\ pc = "encode" => at <= size
  /\ Reading /\ unwritten \cap {"str", "array"} = {} => at + CellSize <= size

(* What is received is what was sent, item by item and however nested,     *)
(* unless something follows a nil in it: only then is memory read that no  *)
(* cell was written to (chimp_msg_nil_cell_encode does not advance, the    *)
(* nil case of chimp_msg_value_cell_decode does).                          *)
RoundTrip ==
  ~SomethingFollowsNil => unwritten = {} /\ pc # "failed" /\ (pc = "done" => got = sent)

(* Every handle and every cell that is still to be read counts once in     *)
(* task->refs, so a task named in a message outlives all handles of its    *)
(* sender (chimp_msg_task_cell_encode and _decode). A task read where no   *)
(* cell was written is not counted: that is all that breaks it.            *)
Unread(t) == { o \in DOMAIN block : block[o] = <<"task", t>> /\ (Sent => o >= at) }

CountsExact ==
  "task" \notin unwritten =>
    \A t \in Tasks :
      refs[t] = (IF t \in held THEN 1 ELSE 0) + Cardinality(Unread(t)) + kept[t]
=============================================================================
