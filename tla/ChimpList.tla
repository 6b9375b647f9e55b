------------------------------ MODULE ChimpList ------------------------------
(***************************************************************************)
(* What an array promises a program: a list, its methods, and loops over   *)
(* it whose body may change it.  No blocks and no capacities; a method     *)
(* that cannot do what it is asked, or finds no room, stops the program.   *)
(* ChimpArray implements it, operation by operation.                       *)
(***************************************************************************)
EXTENDS Integers, Sequences

CONSTANTS Values, Nil, True, False, Junk, Half, Indices, Literals, MaxSize

VARIABLES
  list,     \* the list
  made,     \* the list a map or a filter is making
  loop,     \* the loop that runs, and the item its body was given
  ret,      \* what the last method returned
  running   \* FALSE when the program has been stopped

vars == <<list, made, loop, ret, running>>

Size == Len(list)

InsertAt(s, pos, v) == SubSeq(s, 1, pos) \o <<v>> \o SubSeq(s, pos + 1, Len(s))
Without(s, pos) == SubSeq(s, 1, pos) \o SubSeq(s, pos + 2, Len(s))

\* Positions count from 0, and from the end when they are negative.
Position(k) == IF k < 0 THEN Size + k ELSE k
Exists(k) == Position(k) \in 0..(Size - 1)
At(k) == IF Exists(k) THEN list[Position(k) + 1] ELSE Nil
Occurs(v) == \E i \in 1..Size : list[i] = v
FirstOf(v) == CHOOSE pos \in 0..(Size - 1) :
                list[pos + 1] = v /\ \A i \in 1..pos : list[i] # v
Fits32(k) == k \in (-Half)..(Half - 1)

NoLoop == [kind |-> "none", at |-> 0, item |-> Junk]

Init ==
  /\ list \in Literals \cup {<<>>}
  /\ made = <<>> /\ loop = NoLoop /\ ret = Nil /\ running = TRUE

InBody == running /\ (loop.kind # "none" => loop.item # Junk)
NoBody == running /\ loop.kind = "none"
Stop == running' = FALSE /\ UNCHANGED <<list, made, loop, ret>>
Gives(l, v) == list' = l /\ ret' = v /\ UNCHANGED <<made, loop, running>>

Push(v) == InBody /\ (Gives(Append(list, v), Nil) \/ Stop)
Unshift(v) == InBody /\ (Gives(<<v>> \o list, Nil) \/ Stop)
Pop == InBody /\ IF Size = 0 THEN Gives(list, Nil)
                 ELSE Gives(SubSeq(list, 1, Size - 1), list[Size])
Shift == InBody /\ IF Size = 0 THEN Stop ELSE Gives(Tail(list), Head(list))

\* A position of more than 32 bits is taken for some other one.
Insert(k, v) ==
  /\ InBody
  /\ \/ \E pos \in 0..Size : /\ Fits32(k) => pos = Position(k)
                            /\ Gives(InsertAt(list, pos, v), Nil)
     \/ Stop

Remove(v) ==
  InBody /\ IF Occurs(v) THEN Gives(Without(list, FirstOf(v)), True) ELSE Gives(list, False)

RemoveAt(k) ==
  InBody /\ IF Exists(k) THEN Gives(Without(list, Position(k)), At(k)) ELSE Stop

\* An index of more than 32 bits gives what its low 32 bits give, or anything.
GetItem(k) == InBody /\ \E v \in Values : Gives(list, IF Fits32(k) THEN At(k) ELSE v)
Contains(v) == InBody /\ Gives(list, IF Occurs(v) THEN True ELSE False)
IndexOf(v) == InBody /\ Gives(list, IF Occurs(v) THEN FirstOf(v) ELSE -1)
First == InBody /\ Gives(list, At(0))
Last == InBody /\ Gives(list, At(-1))
SizeOf == InBody /\ Gives(list, Size)

Literal(l) == NoBody /\ Gives(l, Nil)
Add(l) == NoBody /\ Gives(list \o l, Nil)

\* What a slice reaches before the list's first item counts from its end, and
\* what it reaches behind its last is nil.
Slice(start, end) ==
  /\ NoBody
  /\ IF end < start THEN Stop
     ELSE /\ list' \in [1..(end - start) -> Values]
          /\ \A i \in 1..(end - start) :
               Fits32(start + i - 1) => list'[i] = At(start + i - 1)
          /\ ret' = Nil /\ UNCHANGED <<made, loop, running>>

Begin(kind) ==
  /\ NoBody
  /\ loop' = [NoLoop EXCEPT !.kind = kind]
  /\ made' = <<>>
  /\ UNCHANGED <<list, ret, running>>

Call ==
  /\ running /\ loop.kind # "none" /\ loop.item = Junk /\ loop.at < Size
  /\ loop' = [loop EXCEPT !.item = list[loop.at + 1]]
  /\ UNCHANGED <<list, made, ret, running>>

InBodyOf(kind) == running /\ loop.kind = kind /\ loop.item # Junk
Go(m) == /\ loop' = [loop EXCEPT !.at = @ + 1, !.item = Junk] /\ made' = m
         /\ UNCHANGED <<list, ret, running>>

AnswerEach(r) == InBodyOf("each") /\ Go(made)
AnswerAny(r) ==
  /\ InBodyOf("any")
  /\ IF r = True THEN loop' = NoLoop /\ ret' = True /\ UNCHANGED <<list, made, running>>
     ELSE Go(made)
AnswerMap(r) == InBodyOf("map") /\ (Go(Append(made, r)) \/ Stop)
AnswerFilter(r) ==
  /\ InBodyOf("filter")
  /\ \/ Go(IF r = True THEN Append(made, loop.item) ELSE made)
     \/ r = True /\ Stop

End ==
  /\ running /\ loop.kind # "none" /\ loop.item = Junk /\ loop.at >= Size
  /\ loop' = NoLoop /\ made' = <<>>
  /\ list' = IF loop.kind \in {"map", "filter"} THEN made ELSE list
  /\ ret' = IF loop.kind = "any" THEN False ELSE Nil
  /\ UNCHANGED running

Next ==
  \/ \E v \in Values : Push(v) \/ Unshift(v) \/ Remove(v) \/ Contains(v) \/ IndexOf(v)
  \/ \E k \in Indices : RemoveAt(k) \/ GetItem(k) \/ \E v \in Values : Insert(k, v)
  \/ Pop \/ Shift \/ First \/ Last \/ SizeOf
  \/ \E l \in Literals : Literal(l) \/ Add(l)
  \/ Add(list)
  \/ \E start \in Indices, end \in Indices : Slice(start, end)
  \/ \E kind \in {"each", "any", "map", "filter"} : Begin(kind)
  \/ \E r \in Values : AnswerEach(r) \/ AnswerAny(r) \/ AnswerMap(r) \/ AnswerFilter(r)
  \/ Call \/ End

Spec == Init /\ [][Next]_vars
=============================================================================
