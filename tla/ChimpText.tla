------------------------------- MODULE ChimpText -------------------------------
(***************************************************************************)
(* Making and cutting strings: the text of an array (array.c) and of a     *)
(* hash (hash.c), join (array.c), str (...) of some values (class.c), and  *)
(* trim, substr and split (str.c).                                         *)
(*                                                                         *)
(* What makes a string goes twice over its items: once to convert them and *)
(* to count how many bytes to allocate, once to write them.  What the one  *)
(* pass counts the other has to write.                                     *)
(*                                                                         *)
(* A text is a sequence of characters, without the byte 0 that follows it  *)
(* in its block.  A size is unsigned and wraps at Word.                    *)
(***************************************************************************)
EXTENDS Integers, Sequences, SequencesExt

CONSTANTS
  Chars,      \* the bytes a text is made of
  Jobs,       \* [op, items, text, sep, from, to]: the calls that are made (a bound); an item
              \* is its text and whether it is a string, which is shown in quotes
  Word,       \* size_t is Word values wide: 2^64
  MaxBlock,   \* the largest block malloc gives
  MaxPieces   \* the pieces memory has room for

VARIABLES
  job,     \* the call
  pc,      \* "measure", "write" or "cut", then how it ended: "done", "null" (no answer),
           \* "overrun" (written outside a block) or "overread" (read outside one)
  i,       \* the item that is next; in a split, how much of the text is behind it
  strs,    \* [size, capacity]: the array that collects the texts of the items
  total,   \* the bytes counted
  block,   \* the bytes allocated
  text,    \* what is written, or cut out
  pieces   \* the array a split makes

vars == <<job, pc, i, strs, total, block, text, pieces>>

Zero == "0"        \* the byte 0
Blank == {" "}     \* isspace

Making == {"array", "hash", "join", "str"}
Cutting == {"trim", "substr", "split"}
Brackets == {"array", "hash"}

Texts == Seq(Chars)

\* A hash gives its texts in pairs, a key and what it stands for.
ASSUME TextAssumption ==
  /\ Word \in Nat /\ MaxBlock \in Nat /\ MaxPieces \in Nat
  /\ 2 * MaxBlock < Word
  /\ {"[", "]", "{", "}", ":", ",", " ", "\"", Zero} \subseteq Chars
  /\ \A j \in Jobs :
       /\ j.op \in Making \cup Cutting
       /\ j.items \in Seq([text : Texts, quoted : BOOLEAN])
       /\ j.text \in Texts /\ j.sep \in Texts
       /\ j.from \in Int /\ j.to \in Seq(Int) /\ Len(j.to) <= 1
       /\ j.op = "split" => Zero \notin Range(j.sep)
       /\ j.op = "hash" => Len(j.items) % 2 = 0

\* The capacity a full array grows to (array.c).
Blocks == INSTANCE ChimpArray WITH
  Values <- {0, 1}, Literals <- {}, Indices <- {}, Nil <- 0, True <- 1, False <- 2, Junk <- 3,
  MaxSize <- 1, Half <- 2, DefaultCapacity <- 10,
  self <- 0, out <- 0, loop <- 0, ret <- 0, status <- 0

-----------------------------------------------------------------------------
(* Making a string.                                                        *)

Pairs(n) == IF n = 0 THEN 0 ELSE n - 1

CountedShort(op, n, seplen) ==  \* mutant: a hash forgets its colons
  CASE op \in Brackets -> 2 + 2 * Pairs(n) + 1
    [] op = "join" -> (seplen * (n - 1)) % Word
    [] OTHER -> 0

\* What is counted beside the n items, or entries: brackets with the byte 0, and separators.
Counted(op, n, seplen) ==
  CASE op = "array" -> 2 + 2 * Pairs(n) + 1
    [] op = "hash" -> 2 + 2 * n + 2 * Pairs(n) + 1
    [] op = "join" -> (seplen * (n - 1)) % Word
    [] OTHER -> 0

\* join and the text of a hash make their array for as many texts as there are entries.
Room(op, n) == IF op \in {"hash", "join"} THEN n ELSE 10

Init ==
  /\ job \in Jobs
  /\ pc = IF job.op \in Making THEN "measure" ELSE "cut"
  /\ LET n == IF job.op = "hash" THEN Len(job.items) \div 2 ELSE Len(job.items)
     IN /\ total = Counted(job.op, n, Len(job.sep))
        /\ strs = [size |-> 0, capacity |-> Room(job.op, n)]
  /\ i = IF job.op \in Making THEN 1 ELSE 0
  /\ block = 0 /\ text = <<>> /\ pieces = <<>>

\* str (x) is the text of x.
Single == job.op = "str" /\ Len(job.items) = 1

Quoted(x) == job.op \in Brackets /\ x.quoted

\* chimp_array_push
Pushed(a) ==
  [size |-> a.size + 1,
   capacity |-> IF a.size < a.capacity THEN a.capacity ELSE Blocks!Grown(a.capacity)]

\* An item is converted, pushed and counted.
Measure ==
  /\ pc = "measure" /\ ~Single /\ i <= Len(job.items)
  /\ LET x == job.items[i]
     IN total' = (total + Len(x.text) + IF Quoted(x) THEN 2 ELSE 0) % Word
  /\ strs' = Pushed(strs)
  /\ pc' = IF Pushed(strs).size > Pushed(strs).capacity THEN "overrun" ELSE pc
  /\ i' = i + 1
  /\ UNCHANGED <<job, block, text, pieces>>

UpToZero(s) == LET zeros == { k \in DOMAIN s : s[k] = Zero }
               IN IF zeros = {} THEN s ELSE SubSeq(s, 1, Min(zeros) - 1)

\* str (x) copies what is in front of a byte 0, and a string it returns as it is.
One ==
  /\ pc = "measure" /\ Single
  /\ text' = IF job.items[1].quoted THEN job.items[1].text ELSE UpToZero(job.items[1].text)
  /\ block' = Len(text') + 1
  /\ pc' = "done"
  /\ UNCHANGED <<job, i, strs, total, pieces>>

\* Of an array and a hash the byte 0 is counted already; the size of the string is without it.
Bytes == IF job.op \in Brackets THEN total ELSE (total + 1) % Word
Size == IF job.op \in Brackets THEN total - 1 ELSE total

Open == CASE job.op = "array" -> <<"[">> [] job.op = "hash" -> <<"{">> [] OTHER -> <<>>
Close == CASE job.op = "array" -> <<"]">> [] job.op = "hash" -> <<"}">> [] OTHER -> <<>>

Allocate ==
  /\ pc = "measure" /\ ~Single /\ i > Len(job.items)
  /\ IF Bytes > MaxBlock
     THEN pc' = "null" /\ UNCHANGED <<block, text>>
     ELSE pc' = "write" /\ block' = Bytes /\ text' = Open
  /\ i' = 1
  /\ UNCHANGED <<job, strs, total, pieces>>

\* What is written behind item k of n.
Separator(op, k, n, sep) ==
  CASE op = "join" /\ k < n -> sep
    [] op = "hash" /\ k % 2 = 1 -> <<":", " ">>
    [] op \in Brackets /\ k < n /\ (op = "hash" => k % 2 = 0) -> <<",", " ">>
    [] OTHER -> <<>>

Quote(x) == IF Quoted(x) THEN <<"\"">> ELSE <<>>

Write ==
  /\ pc = "write" /\ i <= Len(job.items)
  /\ LET x == job.items[i]
     IN text' = text \o Quote(x) \o x.text \o Quote(x)
                     \o Separator(job.op, i, Len(job.items), job.sep)
  /\ pc' = IF Len(text') > block THEN "overrun" ELSE pc
  /\ i' = i + 1
  /\ UNCHANGED <<job, strs, total, block, pieces>>

\* The byte 0 goes behind what was written; in join, behind what was counted.
Finish ==
  /\ pc = "write" /\ i > Len(job.items)
  /\ text' = text \o Close
  /\ pc' = IF (IF job.op = "join" THEN total ELSE Len(text')) < block THEN "done" ELSE "overrun"
  /\ UNCHANGED <<job, i, strs, total, block, pieces>>

-----------------------------------------------------------------------------
(* Cutting a string.                                                       *)

\* The n bytes from byte k on, counted from 0; the byte 0 follows the last one.
Copied(s, k, n) == SubSeq(Append(s, Zero), k + 1, k + n)

\* From the first byte that is not blank to the last, which is not looked for in front of the
\* first and is byte 0 of a string that has none.
Trimmed(s) ==
  LET n == Len(s)
      first == Min({ k \in 0..(n - 1) : s[k + 1] \notin Blank } \cup {n})
      last == IF n = 0 THEN 0
              ELSE IF first >= n - 1 THEN n - 1
              ELSE Max({ k \in (first + 1)..(n - 1) : s[k + 1] \notin Blank } \cup {first})
  IN Copied(s, first, last + 1 - first)

Trim ==
  /\ pc = "cut" /\ job.op = "trim"
  /\ text' = Trimmed(job.text)
  /\ pc' = "done"
  /\ UNCHANGED <<job, i, strs, total, block, pieces>>

\* An index below 0 counts from the end.
FromEnd(k, n) == IF k < 0 THEN k + n ELSE k

\* Nothing holds the indices to the string: their difference becomes a size, and what is
\* copied may lie outside.
Substr ==
  /\ pc = "cut" /\ job.op = "substr"
  /\ LET n == Len(job.text)
         from == FromEnd(job.from, n)
         to == IF job.to = <<>> THEN n ELSE FromEnd(job.to[1], n)
         size == (to - from) % Word
     IN \/ size = Word - 1 /\ pc' = "overrun" /\ UNCHANGED text
        \/ size \in MaxBlock..(Word - 2) /\ pc' = "null" /\ UNCHANGED text
        \/ /\ size < MaxBlock
           /\ IF size > 0 /\ (from < 0 \/ from + size > n + 1)
              THEN pc' = "overread" /\ UNCHANGED text
              ELSE pc' = "done" /\ text' = Copied(job.text, from, size)
  /\ UNCHANGED <<job, i, strs, total, block, pieces>>

\* strstr (s + k, sep), which does not look behind a byte 0, or the end of s.
NextOf(s, sep, k) ==
  Min({ x \in k..(Len(s) - Len(sep)) :
          Copied(s, x, Len(sep)) = sep /\ \A y \in (k + 1)..x : s[y] # Zero } \cup {Len(s)})

BehindShort(n, piece, sep) ==  \* mutant: one character of the separator is skipped
  n + Len(piece) + (IF sep = <<>> THEN 0 ELSE 1)

Behind(n, piece, sep) == n + Len(piece) + Len(sep)

Split ==
  /\ pc = "cut" /\ job.op = "split"
  /\ IF i >= Len(job.text) THEN pc' = "done" /\ UNCHANGED <<i, pieces>>
     ELSE IF Len(pieces) = MaxPieces THEN pc' = "null" /\ UNCHANGED <<i, pieces>>
     ELSE LET piece == Copied(job.text, i, NextOf(job.text, job.sep, i) - i)
          IN /\ pieces' = Append(pieces, piece)
             /\ i' = Behind(i, piece, job.sep)
             /\ UNCHANGED pc
  /\ UNCHANGED <<job, strs, total, block, text>>

Next == Measure \/ One \/ Allocate \/ Write \/ Finish \/ Trim \/ Substr \/ Split

Spec == Init /\ [][Next]_vars

-----------------------------------------------------------------------------
(* What fits into memory.                                                  *)

\* What separates two texts: a comma or a colon, each with a blank, or the separator of join.
Width(j) == CASE j.op \in Brackets -> 2 [] j.op = "join" -> Len(j.sep) [] OTHER -> 0

\* lengths[k] is the length of the texts of the first k items with their quotes; with brackets
\* and separators, and as many bytes for the end, they fit a block.
Fits(j, lengths) ==
  LET n == Len(j.items)
  IN /\ lengths \in [0..n -> Nat] /\ lengths[0] = 0
     /\ \A k \in 1..n :
          lengths[k] = lengths[k - 1] + Len(j.items[k].text)
                         + IF j.op \in Brackets /\ j.items[k].quoted THEN 2 ELSE 0
     /\ lengths[n] + Width(j) * Pairs(n) + 3 <= MaxBlock
     /\ Len(j.sep) <= MaxBlock

\* The text that is cut is in a block of its own, with its byte 0, and there is room for as many
\* pieces as it has bytes.
Held(j) == Len(j.text) < MaxBlock /\ Len(j.text) <= MaxPieces

-----------------------------------------------------------------------------
(* What is meant.                                                          *)

\* The first k items with s between one and the next, for each k.
Joins(items, s) ==
  LET all[k \in 0..Len(items)] ==
        IF k = 0 THEN <<>> ELSE IF k = 1 THEN items[1] ELSE all[k - 1] \o s \o items[k]
  IN all

Between(items, s) == Joins(items, s)[Len(items)]

Shown(x) == IF x.quoted THEN <<"\"">> \o x.text \o <<"\"">> ELSE x.text

Comma == <<",", " ">>

\* The text of the items.
MeantText ==
  LET n == Len(job.items)
      all == [k \in 1..n |-> Shown(job.items[k])]
      plain == [k \in 1..n |-> job.items[k].text]
      entries == [k \in 1..(n \div 2) |-> all[2 * k - 1] \o <<":", " ">> \o all[2 * k]]
  IN CASE job.op = "array" -> <<"[">> \o Between(all, Comma) \o <<"]">>
       [] job.op = "hash" -> <<"{">> \o Between(entries, Comma) \o <<"}">>
       [] job.op = "join" -> Between(plain, job.sep)
       [] OTHER -> Between(plain, <<>>)

MeantFrom == IF job.from < 0 THEN Len(job.text) + job.from ELSE job.from
MeantTo == IF job.to = <<>> THEN Len(job.text)
           ELSE IF job.to[1] < 0 THEN Len(job.text) + job.to[1] ELSE job.to[1]

InOrder == 0 <= MeantFrom /\ MeantFrom <= MeantTo /\ MeantTo <= Len(job.text)

\* What a cut leaves: no blank at either end and nothing but blanks cut off; the bytes between
\* two indices; pieces that make the text again, or all of it up to a separator at its end, and
\* that have no separator in front of their first byte 0.
MeantCut ==
  LET n == Len(job.text)
  IN CASE job.op = "trim" ->
            /\ \E k \in 0..n, l \in 0..n :
                 /\ SubSeq(job.text, k + 1, l) = text
                 /\ \A x \in (1..k) \cup ((l + 1)..n) : job.text[x] \in Blank
            /\ text # <<>> => text[1] \notin Blank /\ text[Len(text)] \notin Blank
       [] job.op = "substr" -> InOrder /\ text = SubSeq(job.text, MeantFrom + 1, MeantTo)
       [] OTHER ->
            LET again == Between(pieces, job.sep)
            IN /\ again = job.text \/ again \o job.sep = job.text
               /\ \A p \in 1..Len(pieces) : \A k \in 0..(Len(UpToZero(pieces[p])) - Len(job.sep)) :
                    SubSeq(pieces[p], k + 1, k + Len(job.sep)) # job.sep

-----------------------------------------------------------------------------
(* Properties.                                                             *)

\* A string fills its block: the pass that counts and the pass that writes agree on every byte,
\* whatever the items, quotes and separators, so that nothing is written past the block and no
\* byte of it is left unwritten.  The two exceptions of the code: the texts of a hash with one
\* entry, for which room was made for one, and join of an empty array, whose count of
\* separators is one below 0 and wraps: by a separator of one byte it writes in front of an
\* empty block, by a longer one it returns NULL.
FillsItsBlock ==
  /\ total \in 0..(Word - 1) /\ block \in 0..MaxBlock
  /\ pc = "done" /\ job.op \in Making => Len(text) + 1 = block
  /\ pc = "done" /\ job.op \in Making /\ ~Single => Len(text) = Size
  /\ pc \in {"overrun", "null"} /\ job.op \in Making =>
       \/ job.op = "hash" /\ Len(job.items) = 2 /\ pc = "overrun"
       \/ job.op = "join" /\ job.items = <<>> /\ pc = IF Len(job.sep) = 1 THEN "overrun" ELSE "null"

\* What is made is the items with their quotes and separators, and what is cut is what trim,
\* substr and split promise.  The exceptions of the code: trim of an empty string is a string
\* of one byte 0, split by an empty separator finds the same empty piece for ever, and substr
\* answers, reads or fails as it happens when its indices are not in order and in the string.
AnswerIsMeant ==
  /\ pc = "done" /\ job.op \in Making =>
       text = IF Single /\ ~job.items[1].quoted THEN UpToZero(MeantText) ELSE MeantText
  /\ job.op \in Cutting /\ pc \in {"done", "null", "overrun", "overread"} =>
       \/ pc = "done" /\ MeantCut
       \/ job.op = "trim" /\ job.text = <<>> /\ text = <<Zero>>
       \/ job.op = "split" /\ job.sep = <<>> /\ pc = "null" /\ job.text # <<>>
       \/ job.op = "substr" /\ ~InOrder
=============================================================================
