---------------------------- MODULE ChimpTextProofs ----------------------------
(***************************************************************************)
(* Proofs about ChimpText, for any calls whose texts fit into memory.      *)
(*                                                                         *)
(* The pass that counts the bytes of a string and the pass that writes     *)
(* them agree, so that nothing is written outside the block and no byte of *)
(* it is left out; the exceptions are the two FillsItsBlock names.         *)
(*                                                                         *)
(* What is made is the items with their quotes and separators, and what is *)
(* cut is what trim, substr and split promise; the exceptions are those    *)
(* AnswerIsMeant names.                                                    *)
(***************************************************************************)
EXTENDS ChimpText, SequenceTheorems, WellFoundedInduction, TLAPS

\* The items of a job, and the bytes its brackets take: two, and the byte 0 that is counted
\* with them.
N(j) == Len(j.items)
Around(j) == IF j.op \in Brackets THEN 3 ELSE 0

\* What is counted when the first k items are; the separators are counted before the first.
CountedTo(j, len, k) == Width(j) * Pairs(N(j)) + Around(j) + len[k]

\* How long the text is when k items are written.
WrittenTo(j, len, k) ==
  (IF j.op \in Brackets THEN 1 ELSE 0) + len[k] + Width(j) * (IF k < N(j) THEN k ELSE Pairs(k))

\* join of an empty array.
Nothing(j) == j.op = "join" /\ N(j) = 0

Measured(j, len) ==
  IF Nothing(j) THEN total = IF Len(j.sep) = 0 THEN 0 ELSE Word - Len(j.sep)
  ELSE total = CountedTo(j, len, N(j))

\* The array that collects the texts has room for as many as there are (join), or grows.
Collecting ==
  /\ strs.size = i - 1 /\ strs.capacity \in Nat /\ strs.size <= strs.capacity
  /\ job.op = "join" => strs.capacity = N(job)
  /\ job.op \in {"array", "str"} => strs.capacity >= 2
  /\ job.op = "hash" /\ N(job) # 2 /\ N(job) # 0 => strs.capacity >= 2

Measuring(len) ==
  /\ i \in 1..(N(job) + 1) /\ block = 0
  /\ Collecting
  /\ IF Nothing(job) THEN Measured(job, len) ELSE total = CountedTo(job, len, i - 1)

Writing(len) ==
  /\ i \in 1..(N(job) + 1) /\ ~Single
  /\ Measured(job, len) /\ block = Bytes /\ block <= MaxBlock
  /\ text \in Texts /\ Len(text) = WrittenTo(job, len, i - 1)

Ended ==
  /\ pc = "done" => block <= MaxBlock /\ Len(text) + 1 = block /\ (~Single => Len(text) = Size)
  /\ pc \in {"overrun", "null"} =>
       \/ job.op = "hash" /\ Len(job.items) = 2 /\ pc = "overrun"
       \/ job.op = "join" /\ job.items = <<>> /\ pc = IF Len(job.sep) = 1 THEN "overrun" ELSE "null"

(* Where a string is being made, what is counted and what is written are   *)
(* those of the items gone through.                                        *)
Inv(len) ==
  /\ job \in Jobs
  /\ total \in 0..(Word - 1) /\ block \in 0..MaxBlock
  /\ job.op \in Making => pc \in {"measure", "write", "done", "overrun", "null"}
  /\ job.op \notin Making => pc \notin {"measure", "write"}
  /\ job.op \in Making /\ pc = "measure" => Measuring(len)
  /\ job.op \in Making /\ pc = "write" => Writing(len)
  /\ job.op \in Making => Ended
-----------------------------------------------------------------------------
(* Numbers.                                                                *)

LEMMA Sizes ==
  Word \in Nat \ {0} /\ MaxBlock \in Nat /\ 2 * MaxBlock < Word
<1>1. Word \in Nat /\ MaxBlock \in Nat /\ 2 * MaxBlock < Word
  BY TextAssumption
<1>. QED BY <1>1

LEMMA AboveOne ==
  ASSUME NEW x \in Nat, x # 0, x # 1
  PROVE  x > 1
OBVIOUS

LEMMA ModSmall ==
  ASSUME NEW w \in Nat, NEW x \in 0..(w - 1)
  PROVE  x % w = x
OBVIOUS

LEMMA ModRange ==
  ASSUME NEW w \in Nat \ {0}, NEW x \in Int
  PROVE  x % w \in 0..(w - 1)
OBVIOUS

(* One separator less than there are items, of an empty array: the count   *)
(* wraps.                                                                  *)
LEMMA ModBelowZero ==
  ASSUME NEW w \in Nat, NEW x \in 0..(w - 1)
  PROVE  (x * (0 - 1)) % w = IF x = 0 THEN 0 ELSE w - x
<1>1. x * (0 - 1) = 0 - x
  OBVIOUS
<1>2. CASE x = 0
  BY <1>1, <1>2, ModSmall
<1>3. CASE x # 0
  BY <1>1, <1>3
<1>. QED BY <1>2, <1>3

LEMMA TimesGrows ==
  ASSUME NEW a \in Nat, NEW b \in Nat, NEW c \in Nat, b <= c
  PROVE  a * b \in Nat /\ a * c \in Nat /\ a * b <= a * c
<1>1. a * (c - b) \in Nat /\ a * c = a * b + a * (c - b) /\ a * b \in Nat
  OBVIOUS
<1>. QED BY <1>1

LEMMA TimesNext ==
  ASSUME NEW a \in Nat, NEW b \in Nat
  PROVE  a * b \in Nat /\ a * (b + 1) = a * b + a
OBVIOUS

LEMMA TwiceHalf ==
  ASSUME NEW n \in Nat, n % 2 = 0
  PROVE  /\ n \div 2 \in Nat /\ 2 * (n \div 2) = n
         /\ n = 2 => n \div 2 = 1
         /\ n # 2 /\ n # 0 => n \div 2 >= 2
OBVIOUS

(* Commas and colons between the texts of a hash.                          *)
LEMMA PairsOfHalf ==
  ASSUME NEW e \in Nat, NEW n \in Nat, 2 * e = n
  PROVE  2 + 2 * e + 2 * Pairs(e) + 1 = 2 * Pairs(n) + 3
BY DEF Pairs

LEMMA GrownGrows ==
  ASSUME NEW c \in Nat, c >= 2
  PROVE  Blocks!Grown(c) \in Nat /\ Blocks!Grown(c) > c
BY DEF Blocks!Grown

-----------------------------------------------------------------------------
(* Texts.                                                                  *)

LEMMA Joined ==
  ASSUME NEW a \in Texts, NEW b \in Texts
  PROVE  a \o b \in Texts /\ Len(a \o b) = Len(a) + Len(b) /\ Len(a) \in Nat /\ Len(b) \in Nat
BY ConcatProperties DEF Texts

(* The signs a string is made with.                                        *)
LEMMA Signs ==
  /\ <<>> \in Texts /\ Len(<<>>) = 0
  /\ <<"\"">> \in Texts /\ Len(<<"\"">>) = 1
  /\ <<":", " ">> \in Texts /\ Len(<<":", " ">>) = 2
  /\ <<",", " ">> \in Texts /\ Len(<<",", " ">>) = 2
  /\ <<"[">> \in Texts /\ Len(<<"[">>) = 1
  /\ <<"]">> \in Texts /\ Len(<<"]">>) = 1
  /\ <<"{">> \in Texts /\ Len(<<"{">>) = 1
  /\ <<"}">> \in Texts /\ Len(<<"}">>) = 1
<1>1. \A a \in Chars : <<a>> \in Seq(Chars) /\ Len(<<a>>) = 1
  OBVIOUS
<1>2. \A a \in Chars, b \in Chars : <<a, b>> \in Seq(Chars) /\ Len(<<a, b>>) = 2
  OBVIOUS
<1>3. <<>> \in Seq(Chars) /\ Len(<<>>) = 0
  OBVIOUS
<1>4. /\ "\"" \in Chars /\ ":" \in Chars /\ " " \in Chars /\ "," \in Chars
      /\ "[" \in Chars /\ "]" \in Chars /\ "{" \in Chars /\ "}" \in Chars
  BY TextAssumption
<1>. QED BY <1>1, <1>2, <1>3, <1>4, Zenon DEF Texts

LEMMA LeastIs ==
  ASSUME NEW S, S \subseteq Nat, S # {}
  PROVE  Min(S) \in S /\ \A n \in S : Min(S) <= n
<1>. DEFINE R == {p \in Nat \X Nat : p[1] < p[2]}
<1>1. R = OpToRel(<, Nat)
  BY Zenon DEF OpToRel
<1>2. IsWellFoundedOn(R, Nat)
  BY <1>1, NatLessThanWellFounded, Zenon
<1>3. PICK m \in S : \A n \in S : <<n, m>> \notin R
  <2>. HIDE DEF R
  <2>. QED BY <1>2, WFMin, Zenon
<1>4. \A n \in S : m <= n
  <2>1. SUFFICES ASSUME NEW n \in S PROVE m <= n
    OBVIOUS
  <2>2. m \in Nat /\ n \in Nat /\ <<n, m>> \in Nat \X Nat
    BY <1>3
  <2>. QED BY <1>3, <2>2
<1>5. Min(S) \in S /\ \A n \in S : Min(S) <= n
  BY <1>4, Zenon DEF Min
<1>. QED BY <1>5

(* Sums of lengths do not become smaller.                                  *)
LEMMA SumsGrow ==
  ASSUME NEW n \in Nat, NEW len \in [0..n -> Nat],
         \A k \in 1..n : len[k - 1] <= len[k]
  PROVE  \A k \in 0..n : len[k] <= len[n]
<1>. DEFINE T == { d \in 0..n : ~(len[n - d] <= len[n]) }
            d0 == Min(T)
<1>1. CASE T = {}
  <2>1. SUFFICES ASSUME NEW k \in 0..n PROVE len[k] <= len[n]
    OBVIOUS
  <2>2. n - k \in 0..n /\ n - (n - k) = k
    OBVIOUS
  <2>3. len[n - (n - k)] <= len[n]
    BY <1>1, <2>2
  <2>. QED BY <2>2, <2>3
<1>2. CASE T # {}
  <2>1. T \subseteq 0..n /\ T \subseteq Nat
    OBVIOUS
  <2>2. d0 \in T /\ \A d \in T : d0 <= d
    <3>. HIDE DEF T
    <3>. QED BY <1>2, <2>1, LeastIs, Zenon
  <2>3. d0 \in 0..n /\ ~(len[n - d0] <= len[n])
    BY <2>2, Zenon
  <2>. HIDE DEF d0
  <2>4. d0 # 0
    BY <2>3
  <2>5. d0 - 1 \in 0..n /\ ~(d0 <= d0 - 1)
    BY <2>3, <2>4
  <2>6. len[n - (d0 - 1)] <= len[n]
    BY <2>2, <2>5
  <2>7. n - (d0 - 1) \in 1..n /\ (n - (d0 - 1)) - 1 = n - d0
    BY <2>3, <2>4
  <2>8. len[n - d0] <= len[n - (d0 - 1)]
    BY <2>7
  <2>9. len[n - d0] \in Nat /\ len[n - (d0 - 1)] \in Nat /\ len[n] \in Nat
    BY <2>3, <2>7
  <2>. QED BY <2>3, <2>6, <2>8, <2>9
<1>. QED BY <1>1, <1>2

(* What is in front of a byte 0 is no longer than the whole.               *)
LEMMA UpToZeroFits ==
  ASSUME NEW s \in Texts
  PROVE  UpToZero(s) \in Texts /\ Len(UpToZero(s)) <= Len(s)
<1>. DEFINE zeros == { k \in DOMAIN s : s[k] = Zero }
<1>1. s \in Seq(Chars) /\ Len(s) \in Nat /\ DOMAIN s = 1..Len(s)
  BY DEF Texts
<1>2. CASE zeros = {}
  BY <1>1, <1>2 DEF UpToZero
<1>3. CASE zeros # {}
  <2>1. Min(zeros) \in 1..Len(s)
    <3>1. zeros \subseteq 1..Len(s)
      BY <1>1
    <3>2. zeros \subseteq Nat
      BY <1>1, <3>1
    <3>3. Min(zeros) \in zeros
      <4>. HIDE DEF zeros
      <4>. QED BY <3>2, <1>3, LeastIs, Zenon
    <3>. QED BY <3>1, <3>3, Zenon
  <2>2. UpToZero(s) = SubSeq(s, 1, Min(zeros) - 1)
    BY <1>3 DEF UpToZero
  <2>. HIDE DEF zeros
  <2>3. \A k \in 1..(Min(zeros) - 1) : s[k] \in Chars
    BY <1>1, <2>1, ElementOfSeq
  <2>4. /\ SubSeq(s, 1, Min(zeros) - 1) \in Seq(Chars)
        /\ Len(SubSeq(s, 1, Min(zeros) - 1)) = Min(zeros) - 1
    BY <2>1, <2>3, <1>1, SubSeqProperties
  <2>. QED BY <2>1, <2>2, <2>4, <1>1 DEF Texts
<1>. QED BY <1>2, <1>3

-----------------------------------------------------------------------------
(* Calls.                                                                  *)

LEMMA JobTyped ==
  ASSUME NEW j \in Jobs
  PROVE  /\ j.op \in Making \cup Cutting
         /\ j.items \in Seq([text : Texts, quoted : BOOLEAN])
         /\ N(j) \in Nat /\ Pairs(N(j)) \in Nat
         /\ \A k \in 1..N(j) : j.items[k].text \in Texts /\ Len(j.items[k].text) \in Nat
         /\ j.sep \in Texts /\ Len(j.sep) \in Nat /\ Width(j) \in Nat
         /\ j.op = "hash" => N(j) % 2 = 0
         /\ N(j) = 0 => j.items = <<>>
<1>1. /\ j.op \in Making \cup Cutting
      /\ j.items \in Seq([text : Texts, quoted : BOOLEAN])
      /\ j.sep \in Texts
      /\ j.op = "hash" => Len(j.items) % 2 = 0
  BY TextAssumption
<1>2. Len(j.sep) \in Nat
  BY <1>1 DEF Texts
<1>3. N(j) \in Nat /\ \A k \in 1..N(j) : j.items[k] \in [text : Texts, quoted : BOOLEAN]
  BY <1>1, LenProperties, ElementOfSeq DEF N
<1>4. \A k \in 1..N(j) : j.items[k].text \in Texts /\ Len(j.items[k].text) \in Nat
  BY <1>3 DEF Texts
<1>5. N(j) = 0 => j.items = <<>>
  BY <1>1, EmptySeq DEF N
<1>6. Pairs(N(j)) \in Nat
  BY <1>3 DEF Pairs
<1>7. Width(j) \in Nat
  BY <1>2 DEF Width
<1>. QED BY <1>1, <1>2, <1>3, <1>4, <1>5, <1>6, <1>7 DEF N
LEMMA FitsIs ==
  ASSUME NEW j \in Jobs, NEW len, Fits(j, len)
  PROVE  /\ len[0] = 0 /\ Len(j.sep) <= MaxBlock
         /\ \A k \in 0..N(j) :
              /\ len[k] \in Nat
              /\ CountedTo(j, len, k) \in Nat
              /\ CountedTo(j, len, k) + 1 <= MaxBlock \/ j.op \in Brackets
              /\ CountedTo(j, len, k) <= MaxBlock
         /\ \A k \in 1..N(j) :
              len[k] = len[k - 1] + Len(j.items[k].text)
                         + IF j.op \in Brackets /\ j.items[k].quoted THEN 2 ELSE 0
         /\ \A k \in 0..N(j) : len[k] <= len[N(j)]
<1>1. /\ N(j) \in Nat /\ Pairs(N(j)) \in Nat /\ Width(j) \in Nat
  BY JobTyped
<1>2. /\ len \in [0..N(j) -> Nat] /\ len[0] = 0
      /\ \A k \in 1..N(j) :
           len[k] = len[k - 1] + Len(j.items[k].text)
                      + IF j.op \in Brackets /\ j.items[k].quoted THEN 2 ELSE 0
      /\ len[N(j)] + Width(j) * Pairs(N(j)) + 3 <= MaxBlock
      /\ Len(j.sep) <= MaxBlock
  BY Zenon DEF Fits, N
<1>3. Width(j) * Pairs(N(j)) \in Nat
  BY <1>1, TimesGrows
<1>4. MaxBlock \in Nat /\ Around(j) \in {0, 3} /\ (j.op \in Brackets \/ Around(j) = 0)
  BY TextAssumption DEF Around
<1>5. ASSUME NEW k \in 1..N(j) PROVE len[k - 1] <= len[k]
  <2>1. k - 1 \in 0..N(j) /\ k \in 0..N(j)
    BY <1>1
  <2>2. len[k - 1] \in Nat /\ len[k] \in Nat /\ Len(j.items[k].text) \in Nat
    BY <2>1, <1>2, JobTyped
  <2>. DEFINE quotes == IF j.op \in Brackets /\ j.items[k].quoted THEN 2 ELSE 0
  <2>3. len[k] = len[k - 1] + Len(j.items[k].text) + quotes
    BY <1>2, Zenon
  <2>4. quotes \in Nat
    OBVIOUS
  <2>. HIDE DEF quotes
  <2>. QED BY <2>2, <2>3, <2>4
<1>6. \A k \in 0..N(j) : len[k] <= len[N(j)]
  BY <1>1, <1>2, <1>5, SumsGrow
<1>7. ASSUME NEW k \in 0..N(j)
      PROVE  /\ len[k] \in Nat
             /\ CountedTo(j, len, k) \in Nat
             /\ CountedTo(j, len, k) + 1 <= MaxBlock \/ j.op \in Brackets
             /\ CountedTo(j, len, k) <= MaxBlock
  <2>1. len[k] \in Nat /\ len[k] + Width(j) * Pairs(N(j)) + 3 <= MaxBlock
    <3>1. N(j) \in 0..N(j)
      BY <1>1
    <3>2. len[k] \in Nat /\ len[N(j)] \in Nat /\ len[k] <= len[N(j)]
      BY <1>2, <1>6, <3>1
    <3>. QED BY <3>2, <1>2, <1>3, <1>4
  <2>. QED BY <2>1, <1>3, <1>4 DEF CountedTo
<1>. QED BY <1>2, <1>7, <1>6, Zenon

(* What is counted before the first item.                                  *)
LEMMA CountedIs ==
  ASSUME NEW j \in Jobs, j.op \in Making, NEW len, Fits(j, len),
         NEW n, n = IF j.op = "hash" THEN Len(j.items) \div 2 ELSE Len(j.items)
  PROVE  Counted(j.op, n, Len(j.sep)) =
           IF Nothing(j) THEN IF Len(j.sep) = 0 THEN 0 ELSE Word - Len(j.sep)
           ELSE CountedTo(j, len, 0)
<1>1. /\ N(j) \in Nat /\ Pairs(N(j)) \in Nat /\ Width(j) \in Nat /\ Len(j.sep) \in Nat
      /\ j.op = "hash" => N(j) % 2 = 0
  BY JobTyped
<1>2. /\ len[0] = 0 /\ Len(j.sep) <= MaxBlock
      /\ CountedTo(j, len, 0) \in Nat /\ CountedTo(j, len, 0) <= MaxBlock
  BY <1>1, FitsIs
<1>3. Word \in Nat /\ MaxBlock \in Nat /\ 2 * MaxBlock < Word
  BY TextAssumption
<1>. DEFINE Goal == IF Nothing(j) THEN IF Len(j.sep) = 0 THEN 0 ELSE Word - Len(j.sep)
                    ELSE CountedTo(j, len, 0)
<1>4. ~Nothing(j) => Goal = CountedTo(j, len, 0)
  BY Zenon
<1>5. Nothing(j) => Goal = IF Len(j.sep) = 0 THEN 0 ELSE Word - Len(j.sep)
  BY Zenon
<1>. HIDE DEF Goal
<1>6. CASE j.op = "array"
  <2>1. Counted(j.op, n, Len(j.sep)) = 2 + 2 * Pairs(N(j)) + 1
    BY <1>6 DEF Counted, N
  <2>2. CountedTo(j, len, 0) = 2 * Pairs(N(j)) + 3
    BY <1>1, <1>2, <1>6 DEF CountedTo, Width, Around, Brackets
  <2>3. ~Nothing(j)
    BY <1>6 DEF Nothing
  <2>4. 2 + 2 * Pairs(N(j)) + 1 = 2 * Pairs(N(j)) + 3
    BY <1>1
  <2>. QED BY <2>1, <2>2, <2>3, <2>4, <1>4, Zenon DEF Goal
<1>7. CASE j.op = "hash"
  <2>1. Counted(j.op, n, Len(j.sep)) = 2 + 2 * n + 2 * Pairs(n) + 1
    BY <1>7 DEF Counted
  <2>2. n \in Nat /\ 2 * n = N(j)
    BY <1>1, <1>7, TwiceHalf DEF N
  <2>3. CountedTo(j, len, 0) = 2 * Pairs(N(j)) + 3
    BY <1>1, <1>2, <1>7 DEF CountedTo, Width, Around, Brackets
  <2>4. ~Nothing(j)
    BY <1>7 DEF Nothing
  <2>5. 2 + 2 * n + 2 * Pairs(n) + 1 = 2 * Pairs(N(j)) + 3
    BY <1>1, <2>2, PairsOfHalf, Zenon
  <2>. QED BY <2>1, <2>3, <2>4, <2>5, <1>4, Zenon DEF Goal
<1>8. CASE j.op = "join"
  <2>1. Counted(j.op, n, Len(j.sep)) = (Len(j.sep) * (N(j) - 1)) % Word
    BY <1>8 DEF Counted, N, Brackets
  <2>2. CASE N(j) = 0
    <3>1. Nothing(j) /\ Len(j.sep) \in 0..(Word - 1)
      BY <2>2, <1>1, <1>2, <1>3, <1>8 DEF Nothing
    <3>2. (Len(j.sep) * (0 - 1)) % Word = IF Len(j.sep) = 0 THEN 0 ELSE Word - Len(j.sep)
      BY <3>1, <1>3, ModBelowZero, Zenon
    <3>. QED BY <3>1, <3>2, <2>1, <2>2, <1>5, Zenon DEF Goal
  <2>3. CASE N(j) # 0
    <3>1. CountedTo(j, len, 0) = Len(j.sep) * (N(j) - 1)
      BY <2>3, <1>1, <1>2, <1>8 DEF CountedTo, Width, Around, Brackets, Pairs
    <3>2. CountedTo(j, len, 0) \in 0..(Word - 1)
      BY <1>2, <1>3
    <3>3. CountedTo(j, len, 0) % Word = CountedTo(j, len, 0)
      BY <3>2, <1>3, ModSmall
    <3>4. ~Nothing(j)
      BY <2>3 DEF Nothing
    <3>. QED BY <2>1, <3>1, <3>3, <3>4, <1>4, Zenon DEF Goal
  <2>. QED BY <2>2, <2>3
<1>9. CASE j.op = "str"
  <2>1. Counted(j.op, n, Len(j.sep)) = 0 /\ ~Nothing(j)
    BY <1>9 DEF Counted, Nothing
  <2>2. Width(j) = 0 /\ Around(j) = 0
    BY <1>9 DEF Width, Around, Brackets
  <2>3. CountedTo(j, len, 0) = 0
    BY <2>2, <1>1, <1>2 DEF CountedTo
  <2>. QED BY <2>1, <2>3, <1>4, Zenon DEF Goal
<1>. QED BY <1>6, <1>7, <1>8, <1>9 DEF Making
-----------------------------------------------------------------------------
(* The pass that counts.                                                   *)

LEMMA InitInv ==
  ASSUME Init, NEW len, Fits(job, len)
  PROVE  Inv(len)
<1>. DEFINE n == IF job.op = "hash" THEN Len(job.items) \div 2 ELSE Len(job.items)
<1>1. /\ job \in Jobs
      /\ pc = IF job.op \in Making THEN "measure" ELSE "cut"
      /\ i = IF job.op \in Making THEN 1 ELSE 0
      /\ block = 0
      /\ total = Counted(job.op, n, Len(job.sep))
      /\ strs = [size |-> 0, capacity |-> Room(job.op, n)]
  BY DEF Init
<1>2. /\ Word \in Nat /\ MaxBlock \in Nat /\ 2 * MaxBlock < Word /\ 0 \in 0..MaxBlock
      /\ 0 \in 0..(Word - 1)
  BY Sizes
<1>3. /\ N(job) \in Nat /\ Len(job.sep) \in Nat
      /\ job.op = "hash" => N(job) % 2 = 0
      /\ job.op \in Making \cup Cutting
  BY <1>1, JobTyped
<1>4. CASE job.op \notin Making
  <2>1. total = 0
    BY <1>1, <1>4 DEF Counted, Making, Brackets
  <2>. QED BY <2>1, <1>1, <1>2, <1>4 DEF Inv
<1>5. CASE job.op \in Making
  <2>1. total = IF Nothing(job) THEN IF Len(job.sep) = 0 THEN 0 ELSE Word - Len(job.sep)
                ELSE CountedTo(job, len, 0)
    <3>. HIDE DEF n
    <3>1. n = IF job.op = "hash" THEN Len(job.items) \div 2 ELSE Len(job.items)
      BY DEF n
    <3>2. Counted(job.op, n, Len(job.sep)) =
            IF Nothing(job) THEN IF Len(job.sep) = 0 THEN 0 ELSE Word - Len(job.sep)
            ELSE CountedTo(job, len, 0)
      BY <1>1, <1>5, <3>1, CountedIs, Zenon
    <3>. QED BY <1>1, <3>2, Zenon
  <2>2. /\ Len(job.sep) <= MaxBlock
        /\ CountedTo(job, len, 0) \in Nat /\ CountedTo(job, len, 0) <= MaxBlock
    <3>1. 0 \in 0..N(job)
      BY <1>3
    <3>. QED BY <3>1, <1>1, FitsIs
  <2>3. total \in 0..(Word - 1)
    BY <2>1, <2>2, <1>2, <1>3
  <2>4. Collecting
    <3>1. strs.size = 0 /\ strs.capacity = Room(job.op, n) /\ i = 1
      BY <1>1, <1>5
    <3>2. strs.size = i - 1 /\ (strs.capacity \in Nat => strs.size <= strs.capacity)
      <4>1. strs.size = 0 /\ i = 1
        BY <3>1
      <4>. QED BY <4>1
    <3>3. CASE job.op = "hash"
      <4>1. strs.capacity = N(job) \div 2
        BY <3>1, <3>3 DEF Room, N
      <4>2. /\ N(job) \div 2 \in Nat
            /\ N(job) # 2 /\ N(job) # 0 => N(job) \div 2 >= 2
        BY <1>3, <3>3, TwiceHalf
      <4>. QED BY <3>3, <3>2, <4>1, <4>2 DEF Collecting
    <3>4. CASE job.op = "join"
      <4>1. strs.capacity = N(job)
        BY <3>1, <3>4 DEF Room, N
      <4>. QED BY <3>2, <3>4, <4>1, <1>3 DEF Collecting
    <3>5. CASE job.op \notin {"hash", "join"}
      <4>1. strs.capacity = 10
        BY <3>1, <3>5 DEF Room
      <4>2. strs.capacity \in Nat /\ strs.capacity >= 2
        BY <4>1
      <4>. QED BY <3>5, <3>2, <4>2 DEF Collecting
    <3>. QED BY <3>3, <3>4, <3>5
  <2>5. Measuring(len)
    <3>1. IF Nothing(job) THEN Measured(job, len) ELSE total = CountedTo(job, len, i - 1)
      <4>1. i = 1 /\ i - 1 = 0
        BY <1>1, <1>5
      <4>. QED BY <2>1, <4>1, Zenon DEF Measured
    <3>2. i \in 1..(N(job) + 1)
      <4>1. i = 1
        BY <1>1, <1>5
      <4>. QED BY <4>1, <1>3
    <3>. QED BY <3>1, <3>2, <2>4, <1>1, Zenon DEF Measuring
  <2>6. Ended
    BY <1>1, <1>5 DEF Ended
  <2>. QED BY <2>3, <2>5, <2>6, <1>1, <1>2, <1>5 DEF Inv
<1>. QED BY <1>4, <1>5

(* Where a text is pushed, the array overruns only if it was made for one. *)
LEMMA PushedIs ==
  ASSUME NEW a, a.capacity \in Nat, a.size \in Nat, a.size <= a.capacity
  PROVE  /\ Pushed(a).size = a.size + 1
         /\ Pushed(a).capacity \in Nat
         /\ a.size < a.capacity => Pushed(a).capacity = a.capacity
         /\ a.capacity >= 2 => /\ Pushed(a).capacity >= 2
                               /\ Pushed(a).size <= Pushed(a).capacity
<1>1. Blocks!Grown(a.capacity) \in Nat
  BY DEF Blocks!Grown
<1>2. /\ Pushed(a).size = a.size + 1
      /\ Pushed(a).capacity = IF a.size < a.capacity THEN a.capacity
                              ELSE Blocks!Grown(a.capacity)
  BY DEF Pushed
<1>3. a.capacity >= 2 => Blocks!Grown(a.capacity) > a.capacity
  BY GrownGrows
<1>. QED BY <1>1, <1>2, <1>3

LEMMA MeasureInv ==
  ASSUME Measure, NEW len, Fits(job, len), Inv(len)
  PROVE  Inv(len)'
<1>1. /\ pc = "measure" /\ ~Single /\ i <= N(job)
      /\ total' = (total + Len(job.items[i].text)
                     + IF Quoted(job.items[i]) THEN 2 ELSE 0) % Word
      /\ strs' = Pushed(strs)
      /\ pc' = IF Pushed(strs).size > Pushed(strs).capacity THEN "overrun" ELSE pc
      /\ i' = i + 1
      /\ job' = job /\ block' = block /\ text' = text /\ pieces' = pieces
  BY DEF Measure, N
<1>2. /\ job \in Jobs /\ job.op \in Making
      /\ i \in 1..(N(job) + 1) /\ block = 0 /\ Collecting
      /\ IF Nothing(job) THEN Measured(job, len) ELSE total = CountedTo(job, len, i - 1)
  BY <1>1 DEF Inv, Measuring
<1>3. /\ N(job) \in Nat
      /\ \A k \in 1..N(job) : Len(job.items[k].text) \in Nat
  BY <1>2, JobTyped
<1>4. i \in 1..N(job) /\ i - 1 \in 0..N(job) /\ i \in 0..N(job) /\ N(job) # 0 /\ i \in Nat
  BY <1>1, <1>2, <1>3
<1>5. ~Nothing(job) /\ total = CountedTo(job, len, i - 1)
  BY <1>2, <1>4 DEF Nothing
<1>6. total' = CountedTo(job, len, i) /\ total' \in 0..(Word - 1)
  <2>. DEFINE q == IF job.op \in Brackets /\ job.items[i].quoted THEN 2 ELSE 0
              l == Len(job.items[i].text)
  <2>1. len[i] = len[i - 1] + l + q /\ len[i - 1] \in Nat /\ CountedTo(job, len, i) \in Nat
        /\ CountedTo(job, len, i) <= MaxBlock
    BY <1>2, <1>4, FitsIs
  <2>2. total' = (total + l + q) % Word
    BY <1>1, Zenon DEF Quoted
  <2>3. q \in Nat /\ l \in Nat
    BY <1>3, <1>4
  <2>4. Width(job) * Pairs(N(job)) + Around(job) \in Nat
    <3>1. Width(job) * Pairs(N(job)) \in Nat
      BY <1>2, JobTyped, TimesGrows
    <3>. QED BY <3>1 DEF Around
  <2>. HIDE DEF q, l
  <2>5. total + l + q = CountedTo(job, len, i)
    BY <1>5, <2>1, <2>3, <2>4 DEF CountedTo
  <2>6. Word \in Nat /\ MaxBlock \in Nat /\ 2 * MaxBlock < Word
    BY Sizes
  <2>7. CountedTo(job, len, i) \in 0..(Word - 1)
    BY <2>1, <2>6
  <2>8. CountedTo(job, len, i) % Word = CountedTo(job, len, i)
    BY <2>6, <2>7, ModSmall
  <2>. QED BY <2>2, <2>5, <2>7, <2>8, Zenon
<1>7. /\ strs.size = i - 1 /\ strs.capacity \in Nat /\ strs.size <= strs.capacity
      /\ job.op = "join" => strs.capacity = N(job)
      /\ job.op \in {"array", "str"} => strs.capacity >= 2
      /\ job.op = "hash" /\ N(job) # 2 /\ N(job) # 0 => strs.capacity >= 2
  BY <1>2 DEF Collecting
<1>8. /\ Pushed(strs).size = i
      /\ Pushed(strs).capacity \in Nat
      /\ strs.size < strs.capacity => Pushed(strs).capacity = strs.capacity
      /\ strs.capacity >= 2 => /\ Pushed(strs).capacity >= 2
                               /\ Pushed(strs).size <= Pushed(strs).capacity
  <2>1. strs.size \in Nat /\ strs.size + 1 = i
    BY <1>4, <1>7
  <2>. QED BY <1>7, <2>1, PushedIs
<1>9. CASE Pushed(strs).size > Pushed(strs).capacity
  <2>1. job.op = "hash" /\ N(job) = 2
    <3>1. ~(strs.capacity >= 2)
      BY <1>8, <1>9, <1>4
    <3>2. job.op # "join"
      BY <1>4, <1>7, <1>8, <1>9
    <3>. QED BY <3>1, <3>2, <1>2, <1>4, <1>7 DEF Making
  <2>2. pc' = "overrun"
    BY <1>1, <1>9
  <2>3. Ended'
    BY <2>1, <2>2, <1>1 DEF Ended, N
  <2>4. block' \in 0..MaxBlock
    BY <1>1, <1>2, Sizes
  <2>. QED BY <2>2, <2>3, <2>4, <1>1, <1>2, <1>6 DEF Inv
<1>10. CASE ~(Pushed(strs).size > Pushed(strs).capacity)
  <2>1. pc' = "measure"
    BY <1>1, <1>10
  <2>2. Collecting'
    <3>1. strs'.size = i' - 1 /\ strs'.capacity \in Nat /\ strs'.size <= strs'.capacity
      BY <1>1, <1>4, <1>8, <1>10
    <3>2. job.op = "join" => strs'.capacity = N(job)
      BY <1>1, <1>4, <1>7, <1>8
    <3>3. strs.capacity >= 2 => strs'.capacity >= 2
      BY <1>1, <1>8
    <3>. QED BY <3>1, <3>2, <3>3, <1>1, <1>7 DEF Collecting, N
  <2>3. i' \in 1..(N(job) + 1) /\ i' - 1 = i
    BY <1>1, <1>3, <1>4
  <2>4. Measuring(len)'
    <3>1. total' = CountedTo(job', len, i' - 1) /\ ~Nothing(job')
      BY <1>1, <1>5, <1>6, <2>3
    <3>. QED BY <3>1, <2>2, <2>3, <1>1, <1>2 DEF Measuring
  <2>5. Ended'
    BY <2>1 DEF Ended
  <2>6. block' \in 0..MaxBlock
    BY <1>1, <1>2, Sizes
  <2>. QED BY <2>1, <2>4, <2>5, <2>6, <1>1, <1>2, <1>6 DEF Inv
<1>. QED BY <1>9, <1>10
(* str (x): a block for the text of x, or for what is in front of a byte 0 *)
(* in it.                                                                  *)
LEMMA OneInv ==
  ASSUME One, NEW len, Fits(job, len), Inv(len)
  PROVE  Inv(len)'
<1>. DEFINE x == job.items[1]
<1>1. /\ pc = "measure" /\ Single
      /\ text' = IF x.quoted THEN x.text ELSE UpToZero(x.text)
      /\ block' = Len(text') + 1
      /\ pc' = "done"
      /\ job' = job /\ i' = i /\ strs' = strs /\ total' = total /\ pieces' = pieces
  BY DEF One
<1>2. /\ job \in Jobs /\ job.op = "str" /\ N(job) = 1 /\ total \in 0..(Word - 1)
  BY <1>1 DEF Inv, Single, N
<1>3. x.text \in Texts /\ Len(x.text) \in Nat
  <2>1. 1 \in 1..N(job)
    BY <1>2
  <2>. QED BY <2>1, <1>2, JobTyped
<1>4. text' \in Texts /\ Len(text') <= Len(x.text)
  <2>1. CASE x.quoted
    BY <2>1, <1>1, <1>3
  <2>2. CASE ~x.quoted
    BY <2>2, <1>1, <1>3, UpToZeroFits
  <2>. QED BY <2>1, <2>2
<1>5. Len(x.text) + 1 <= MaxBlock
  <2>1. 1 \in 1..N(job) /\ 0 \in 0..N(job) /\ 1 \in 0..N(job)
    BY <1>2
  <2>2. /\ len[0] = 0
        /\ len[1] = len[1 - 1] + Len(x.text) + IF job.op \in Brackets /\ x.quoted THEN 2 ELSE 0
        /\ len[1] \in Nat
        /\ CountedTo(job, len, 1) + 1 <= MaxBlock \/ job.op \in Brackets
    BY <2>1, <1>2, FitsIs
  <2>3. job.op \notin Brackets
    BY <1>2 DEF Brackets
  <2>4. len[1] = Len(x.text)
    BY <2>2, <2>3, <1>3
  <2>5. Width(job) = 0 /\ Around(job) = 0
    BY <1>2 DEF Width, Around, Brackets
  <2>6. CountedTo(job, len, 1) = Len(x.text)
    <3>1. Pairs(N(job)) \in Nat
      BY <1>2, JobTyped
    <3>. QED BY <3>1, <2>4, <2>5, <1>3 DEF CountedTo
  <2>. QED BY <2>2, <2>3, <2>6
<1>. HIDE DEF x
<1>6. block' \in 0..MaxBlock
  <2>1. Len(text') \in Nat
    BY <1>4 DEF Texts
  <2>. QED BY <2>1, <1>1, <1>3, <1>4, <1>5, Sizes
<1>7. Ended'
  <2>1. block' <= MaxBlock /\ Len(text') + 1 = block'
    BY <1>1, <1>6, Sizes
  <2>2. Single'
    BY <1>1 DEF Single
  <2>. QED BY <2>1, <2>2, <1>1 DEF Ended
<1>. QED BY <1>1, <1>2, <1>6, <1>7 DEF Inv, Making

-----------------------------------------------------------------------------
(* The pass that writes.                                                   *)

(* How many bytes are asked for: those of the texts with what is around    *)
(* and between them, but for join of an empty array.                       *)
LEMMA BytesIs ==
  ASSUME job \in Jobs, NEW len, Fits(job, len), Measured(job, len)
  PROVE  /\ total \in 0..(Word - 1)
         /\ ~Nothing(job) =>
              /\ Bytes = CountedTo(job, len, N(job)) + IF job.op \in Brackets THEN 0 ELSE 1
              /\ Bytes \in 0..MaxBlock
         /\ Nothing(job) =>
              Bytes = CASE Len(job.sep) = 0 -> 1
                        [] Len(job.sep) = 1 -> 0
                        [] OTHER -> Word - Len(job.sep) + 1
<1>1. Word \in Nat \ {0} /\ MaxBlock \in Nat /\ 2 * MaxBlock < Word
  BY Sizes
<1>2. N(job) \in 0..N(job) /\ Len(job.sep) \in Nat
  BY JobTyped
<1>3. /\ Len(job.sep) <= MaxBlock
      /\ CountedTo(job, len, N(job)) \in Nat
      /\ CountedTo(job, len, N(job)) + 1 <= MaxBlock \/ job.op \in Brackets
      /\ CountedTo(job, len, N(job)) <= MaxBlock
  BY <1>2, FitsIs
<1>4. /\ Nothing(job) => total = IF Len(job.sep) = 0 THEN 0 ELSE Word - Len(job.sep)
      /\ ~Nothing(job) => total = CountedTo(job, len, N(job))
  BY DEF Measured
<1>5. total \in 0..(Word - 1)
  BY <1>1, <1>2, <1>3, <1>4
<1>6. ASSUME ~Nothing(job)
      PROVE  /\ Bytes = CountedTo(job, len, N(job)) + IF job.op \in Brackets THEN 0 ELSE 1
             /\ Bytes \in 0..MaxBlock
  <2>1. CASE job.op \in Brackets
    <3>1. Bytes = total
      BY <2>1 DEF Bytes
    <3>. QED BY <3>1, <2>1, <1>1, <1>3, <1>4, <1>6
  <2>2. CASE job.op \notin Brackets
    <3>1. Bytes = (total + 1) % Word
      BY <2>2 DEF Bytes
    <3>2. total + 1 \in 0..(Word - 1) /\ total + 1 \in 0..MaxBlock
      BY <2>2, <1>1, <1>3, <1>4, <1>6
    <3>3. (total + 1) % Word = total + 1
      BY <3>2, <1>1, ModSmall
    <3>. QED BY <3>1, <3>2, <3>3, <2>2, <1>4, <1>6
  <2>. QED BY <2>1, <2>2
<1>7. ASSUME Nothing(job)
      PROVE  Bytes = CASE Len(job.sep) = 0 -> 1
                       [] Len(job.sep) = 1 -> 0
                       [] OTHER -> Word - Len(job.sep) + 1
  <2>1. Bytes = (total + 1) % Word
    BY <1>7 DEF Bytes, Nothing, Brackets
  <2>2. MaxBlock >= 1
    <3>1. job.op \notin Brackets
      BY <1>7 DEF Nothing, Brackets
    <3>. QED BY <3>1, <1>1, <1>3
  <2>3. CASE Len(job.sep) = 0
    <3>1. total + 1 = 1 /\ 1 \in 0..(Word - 1)
      BY <2>2, <2>3, <1>1, <1>4, <1>7
    <3>2. 1 % Word = 1
      BY <3>1, <1>1, ModSmall
    <3>. QED BY <2>1, <2>3, <3>1, <3>2
  <2>4. CASE Len(job.sep) = 1
    <3>1. total + 1 = Word
      BY <2>4, <1>1, <1>4, <1>7
    <3>2. Word % Word = 0
      BY <1>1
    <3>. QED BY <2>1, <2>4, <3>1, <3>2
  <2>5. CASE Len(job.sep) # 0 /\ Len(job.sep) # 1
    <3>1. total + 1 = Word - Len(job.sep) + 1 /\ total + 1 \in 0..(Word - 1)
      <4>1. total = Word - Len(job.sep)
        BY <2>5, <1>4, <1>7
      <4>2. Len(job.sep) \in Nat /\ Len(job.sep) > 1 /\ Len(job.sep) <= MaxBlock
        <5>1. Len(job.sep) \in Nat
          BY <1>2
        <5>2. Len(job.sep) > 1
          BY <2>5, <5>1, AboveOne, Zenon
        <5>. QED BY <5>1, <5>2, <1>3
      <4>. QED BY <4>1, <4>2, <1>1
    <3>2. (total + 1) % Word = total + 1
      BY <3>1, <1>1, ModSmall
    <3>. QED BY <2>1, <2>5, <3>1, <3>2
  <2>. QED BY <2>3, <2>4, <2>5
<1>. QED BY <1>5, <1>6, <1>7, Zenon
LEMMA AllocateInv ==
  ASSUME Allocate, NEW len, Fits(job, len), Inv(len)
  PROVE  Inv(len)'
<1>1. /\ pc = "measure" /\ ~Single /\ i > N(job)
      /\ IF Bytes > MaxBlock
         THEN pc' = "null" /\ block' = block /\ text' = text
         ELSE pc' = "write" /\ block' = Bytes /\ text' = Open
      /\ i' = 1
      /\ job' = job /\ strs' = strs /\ total' = total /\ pieces' = pieces
  BY DEF Allocate, N
<1>2. /\ job \in Jobs /\ job.op \in Making /\ total \in 0..(Word - 1) /\ block = 0
      /\ i \in 1..(N(job) + 1)
      /\ IF Nothing(job) THEN Measured(job, len) ELSE total = CountedTo(job, len, i - 1)
  BY <1>1 DEF Inv, Measuring
<1>3. N(job) \in Nat /\ Len(job.sep) \in Nat /\ Width(job) \in Nat
  BY <1>2, JobTyped
<1>4. i - 1 = N(job)
  BY <1>1, <1>2, <1>3
<1>5. Measured(job, len)
  BY <1>2, <1>4 DEF Measured
<1>6. Bytes' = Bytes
  BY <1>1 DEF Bytes
<1>7. Word \in Nat \ {0} /\ MaxBlock \in Nat /\ 2 * MaxBlock < Word
  BY Sizes
<1>8. CASE Bytes > MaxBlock
  <2>1. pc' = "null" /\ block' = block
    BY <1>1, <1>8
  <2>2. Nothing(job)
    <3>1. ~Nothing(job) => Bytes \in 0..MaxBlock
      BY <1>2, <1>5, BytesIs
    <3>. QED BY <3>1, <1>7, <1>8
  <2>3. Len(job.sep) # 1
    <3>1. Len(job.sep) = 1 => Bytes = 0
      BY <1>2, <1>5, <2>2, BytesIs
    <3>. QED BY <3>1, <1>7, <1>8
  <2>4. job.items = <<>> /\ job.op = "join"
    BY <2>2, <1>2, JobTyped DEF Nothing
  <2>5. Ended'
    BY <2>1, <2>3, <2>4, <1>1 DEF Ended
  <2>6. block' \in 0..MaxBlock
    BY <2>1, <1>2, <1>7
  <2>. QED BY <2>1, <2>5, <2>6, <1>1, <1>2 DEF Inv
<1>9. CASE ~(Bytes > MaxBlock)
  <2>1. pc' = "write" /\ block' = Bytes /\ text' = Open
    BY <1>1, <1>9
  <2>2. Bytes \in 0..MaxBlock
    <3>1. CASE ~Nothing(job)
      BY <3>1, <1>2, <1>5, BytesIs
    <3>2. CASE Nothing(job)
      <4>1. Bytes = CASE Len(job.sep) = 0 -> 1
                      [] Len(job.sep) = 1 -> 0
                      [] OTHER -> Word - Len(job.sep) + 1
        BY <3>2, <1>2, <1>5, BytesIs
      <4>2. 0 \in 0..N(job) /\ job.op \notin Brackets
        BY <3>2, <1>3 DEF Nothing, Brackets
      <4>3. Len(job.sep) <= MaxBlock
        BY <1>2, <4>2, FitsIs
      <4>4. Bytes \in Nat
        BY <4>1, <4>3, <1>3, <1>7
      <4>. QED BY <4>4, <1>7, <1>9
    <3>. QED BY <3>1, <3>2
  <2>3. Open \in Texts /\ Len(Open) = IF job.op \in Brackets THEN 1 ELSE 0
    <3>1. CASE job.op = "array"
      BY <3>1, Signs DEF Open, Brackets
    <3>2. CASE job.op = "hash"
      BY <3>2, Signs DEF Open, Brackets
    <3>3. CASE job.op \notin {"array", "hash"}
      <4>1. Open = <<>> /\ job.op \notin Brackets
        BY <3>3 DEF Open, Brackets
      <4>2. <<>> \in Texts /\ Len(<<>>) = 0
        BY Signs, Zenon
      <4>. HIDE DEF Open
      <4>. QED BY <4>1, <4>2
    <3>. QED BY <3>1, <3>2, <3>3
  <2>4. WrittenTo(job, len, 0) = IF job.op \in Brackets THEN 1 ELSE 0
    <3>1. len[0] = 0
      <4>1. 0 \in 0..N(job)
        BY <1>3
      <4>. QED BY <4>1, <1>2, FitsIs
    <3>2. Pairs(0) = 0
      BY DEF Pairs
    <3>3. (IF 0 < N(job) THEN 0 ELSE Pairs(0)) = 0
      BY <3>2
    <3>4. Width(job) * 0 = 0
      BY <1>3
    <3>. QED BY <3>1, <3>3, <3>4 DEF WrittenTo
  <2>5. Writing(len)'
    <3>1. i' \in 1..(N(job') + 1) /\ i' - 1 = 0
      BY <1>1, <1>3
    <3>2. ~Single'
      BY <1>1 DEF Single
    <3>3. Measured(job, len)'
      BY <1>1, <1>5 DEF Measured
    <3>4. block' = Bytes' /\ block' <= MaxBlock
      BY <2>1, <2>2, <1>6, <1>7
    <3>5. text' \in Texts /\ Len(text') = WrittenTo(job', len, i' - 1)
      BY <2>1, <2>3, <2>4, <3>1, <1>1
    <3>. QED BY <3>1, <3>2, <3>3, <3>4, <3>5 DEF Writing
  <2>6. Ended'
    BY <2>1 DEF Ended
  <2>. QED BY <2>1, <2>2, <2>5, <2>6, <1>1, <1>2 DEF Inv
<1>. QED BY <1>8, <1>9
(* Behind every text but the last there is a separator.                    *)
LEMMA SeparatorIs ==
  ASSUME NEW j \in Jobs, j.op \in Making, NEW k \in 1..N(j)
  PROVE  /\ Separator(j.op, k, N(j), j.sep) \in Texts
         /\ Len(Separator(j.op, k, N(j), j.sep)) = IF k < N(j) THEN Width(j) ELSE 0
<1>1. N(j) \in Nat /\ j.sep \in Texts
  BY JobTyped
<1>2. j.op = "hash" => N(j) % 2 = 0
  BY JobTyped
<1>. DEFINE S == Separator(j.op, k, N(j), j.sep)
<1>3. CASE j.op = "join"
  <2>1. k < N(j) => S = j.sep
    BY <1>3 DEF Separator, Brackets
  <2>2. ~(k < N(j)) => S = <<>>
    BY <1>3 DEF Separator, Brackets
  <2>3. Width(j) = Len(j.sep)
    BY <1>3 DEF Width, Brackets
  <2>. HIDE DEF S
  <2>4. <<>> \in Texts /\ Len(<<>>) = 0
    BY Signs, Zenon
  <2>5. S \in Texts /\ Len(S) = IF k < N(j) THEN Width(j) ELSE 0
    BY <2>1, <2>2, <2>3, <2>4, <1>1
  <2>. QED BY <2>5, Zenon DEF S
<1>4. CASE j.op \in Brackets
  <2>1. Width(j) = 2
    BY <1>4 DEF Width, Brackets
  <2>2. j.op = "hash" /\ k % 2 = 1 => S = <<":", " ">> /\ k < N(j)
    <3>1. ASSUME j.op = "hash", k % 2 = 1 PROVE S = <<":", " ">>
      <4>1. ~(k % 2 = 0)
        BY <3>1
      <4>2. ~(j.op \in Brackets /\ k < N(j) /\ (j.op = "hash" => k % 2 = 0))
        BY <3>1, <4>1
      <4>3. ~(j.op = "join" /\ k < N(j))
        BY <3>1
      <4>. QED BY <3>1, <4>2, <4>3 DEF Separator
    <3>2. ASSUME j.op = "hash", k % 2 = 1 PROVE k < N(j)
      BY <3>2, <1>1, <1>2
    <3>. QED BY <3>1, <3>2
  <2>3. ~(j.op = "hash" /\ k % 2 = 1) /\ k < N(j) => S = <<",", " ">>
    <3>1. k % 2 = 1 \/ k % 2 = 0
      BY <1>1
    <3>. QED BY <3>1, <1>4 DEF Separator, Brackets
  <2>4. ~(j.op = "hash" /\ k % 2 = 1) /\ ~(k < N(j)) => S = <<>>
    BY <1>4 DEF Separator, Brackets
  <2>. HIDE DEF S
  <2>5. CASE j.op = "hash" /\ k % 2 = 1
    BY <2>1, <2>2, <2>5, Signs, Zenon DEF S
  <2>6. CASE ~(j.op = "hash" /\ k % 2 = 1) /\ k < N(j)
    BY <2>1, <2>3, <2>6, Signs, Zenon DEF S
  <2>7. CASE ~(j.op = "hash" /\ k % 2 = 1) /\ ~(k < N(j))
    <3>1. <<>> \in Texts /\ Len(<<>>) = 0
      BY Signs, Zenon
    <3>2. S = <<>> /\ ~(k < N(j))
      BY <2>4, <2>7
    <3>3. S \in Texts /\ Len(S) = IF k < N(j) THEN Width(j) ELSE 0
      BY <3>1, <3>2
    <3>. QED BY <3>3, Zenon DEF S
  <2>. QED BY <2>5, <2>6, <2>7
<1>5. CASE j.op = "str"
  <2>1. S = <<>> /\ Width(j) = 0
    BY <1>5 DEF Separator, Width, Brackets
  <2>. HIDE DEF S
  <2>2. <<>> \in Texts /\ Len(<<>>) = 0
    BY Signs, Zenon
  <2>3. S \in Texts /\ Len(S) = IF k < N(j) THEN Width(j) ELSE 0
    BY <2>1, <2>2
  <2>. QED BY <2>3, Zenon DEF S
<1>. QED BY <1>3, <1>4, <1>5 DEF Making, Brackets

LEMMA WrittenNext ==
  ASSUME NEW j \in Jobs, NEW len, Fits(j, len), NEW k \in 1..N(j)
  PROVE  /\ WrittenTo(j, len, k) =
              WrittenTo(j, len, k - 1) + (len[k] - len[k - 1])
                + IF k < N(j) THEN Width(j) ELSE 0
         /\ WrittenTo(j, len, k) \in Nat /\ WrittenTo(j, len, k - 1) \in Nat
<1>1. N(j) \in Nat /\ Width(j) \in Nat /\ k - 1 \in 0..N(j) /\ k \in 0..N(j) /\ k - 1 < N(j)
  BY JobTyped
<1>2. len[k] \in Nat /\ len[k - 1] \in Nat
  BY <1>1, FitsIs
<1>. DEFINE b == IF j.op \in Brackets THEN 1 ELSE 0
<1>3. b \in Nat
  OBVIOUS
<1>. HIDE DEF b
<1>4. WrittenTo(j, len, k - 1) = b + len[k - 1] + Width(j) * (k - 1)
  BY <1>1 DEF WrittenTo, b
<1>5. /\ Width(j) * (k - 1) \in Nat
      /\ Width(j) * ((k - 1) + 1) = Width(j) * (k - 1) + Width(j)
  BY <1>1, TimesNext
<1>6. CASE k < N(j)
  <2>1. WrittenTo(j, len, k) = b + len[k] + Width(j) * k
    BY <1>6 DEF WrittenTo, b
  <2>2. (k - 1) + 1 = k
    BY <1>1
  <2>. QED BY <2>1, <2>2, <1>1, <1>2, <1>3, <1>4, <1>5, <1>6
<1>7. CASE ~(k < N(j))
  <2>1. WrittenTo(j, len, k) = b + len[k] + Width(j) * Pairs(k)
    BY <1>7 DEF WrittenTo, b
  <2>2. Pairs(k) = k - 1
    BY DEF Pairs
  <2>. QED BY <2>1, <2>2, <1>1, <1>2, <1>3, <1>4, <1>5, <1>7
<1>. QED BY <1>6, <1>7

(* What is written when all items are, and what was counted.               *)
LEMMA WrittenAll ==
  ASSUME NEW j \in Jobs, NEW len, Fits(j, len)
  PROVE  /\ WrittenTo(j, len, N(j)) + (IF j.op \in Brackets THEN 2 ELSE 0) =
              CountedTo(j, len, N(j))
         /\ WrittenTo(j, len, N(j)) \in Nat
<1>1. N(j) \in Nat /\ Width(j) \in Nat /\ Pairs(N(j)) \in Nat /\ N(j) \in 0..N(j)
  BY JobTyped
<1>2. len[N(j)] \in Nat /\ Width(j) * Pairs(N(j)) \in Nat
  BY <1>1, FitsIs, TimesGrows
<1>3. ~(N(j) < N(j))
  BY <1>1
<1>4. WrittenTo(j, len, N(j)) =
        (IF j.op \in Brackets THEN 1 ELSE 0) + len[N(j)] + Width(j) * Pairs(N(j))
  BY <1>3 DEF WrittenTo
<1>. QED BY <1>2, <1>4 DEF CountedTo, Around

(* Up to there it is not more than that.                                   *)
LEMMA WrittenFits ==
  ASSUME NEW j \in Jobs, NEW len, Fits(j, len), NEW k \in 1..N(j)
  PROVE  WrittenTo(j, len, k) <= WrittenTo(j, len, N(j))
<1>1. N(j) \in Nat /\ Width(j) \in Nat /\ Pairs(N(j)) \in Nat /\ N(j) \in 0..N(j) /\ k \in 0..N(j)
  BY JobTyped
<1>2. len[k] \in Nat /\ len[N(j)] \in Nat /\ len[k] <= len[N(j)]
  BY <1>1, FitsIs
<1>. DEFINE m == IF k < N(j) THEN k ELSE Pairs(k)
            b == IF j.op \in Brackets THEN 1 ELSE 0
<1>3. m \in Nat /\ m <= Pairs(N(j)) /\ b \in Nat
  BY <1>1 DEF Pairs
<1>4. WrittenTo(j, len, k) = b + len[k] + Width(j) * m
  BY DEF WrittenTo
<1>5. WrittenTo(j, len, N(j)) = b + len[N(j)] + Width(j) * Pairs(N(j))
  <2>1. ~(N(j) < N(j))
    BY <1>1
  <2>. QED BY <2>1 DEF WrittenTo
<1>. HIDE DEF m, b
<1>6. /\ Width(j) * m \in Nat /\ Width(j) * Pairs(N(j)) \in Nat
      /\ Width(j) * m <= Width(j) * Pairs(N(j))
  BY <1>1, <1>3, TimesGrows
<1>. QED BY <1>2, <1>3, <1>4, <1>5, <1>6
LEMMA WriteInv ==
  ASSUME Write, NEW len, Fits(job, len), Inv(len)
  PROVE  Inv(len)'
<1>. DEFINE x == job.items[i]
            q == IF Quoted(x) THEN 1 ELSE 0
            s == Separator(job.op, i, N(job), job.sep)
<1>1. /\ pc = "write" /\ i <= N(job)
      /\ text' = text \o Quote(x) \o x.text \o Quote(x) \o s
      /\ pc' = IF Len(text') > block THEN "overrun" ELSE pc
      /\ i' = i + 1
      /\ job' = job /\ strs' = strs /\ total' = total /\ block' = block /\ pieces' = pieces
  BY DEF Write, N
<1>2. /\ job \in Jobs /\ job.op \in Making /\ total \in 0..(Word - 1) /\ block \in 0..MaxBlock
      /\ i \in 1..(N(job) + 1) /\ ~Single
      /\ Measured(job, len) /\ block = Bytes /\ block <= MaxBlock
      /\ text \in Texts /\ Len(text) = WrittenTo(job, len, i - 1)
  BY <1>1 DEF Inv, Writing
<1>3. i \in 1..N(job) /\ i \in 0..N(job) /\ N(job) \in Nat /\ N(job) # 0 /\ i \in Nat
  BY <1>1, <1>2, JobTyped
<1>4. x.text \in Texts /\ Len(x.text) \in Nat
  BY <1>2, <1>3, JobTyped
<1>5. Quote(x) \in Texts /\ Len(Quote(x)) = q
  <2>1. CASE Quoted(x)
    BY <2>1, Signs DEF Quote
  <2>2. CASE ~Quoted(x)
    <3>1. Quote(x) = <<>> /\ q = 0
      BY <2>2 DEF Quote
    <3>2. <<>> \in Texts /\ Len(<<>>) = 0
      BY Signs, Zenon
    <3>. HIDE DEF q, x
    <3>. QED BY <3>1, <3>2, Zenon
  <2>. QED BY <2>1, <2>2
<1>6. s \in Texts /\ Len(s) = IF i < N(job) THEN Width(job) ELSE 0
  BY <1>2, <1>3, SeparatorIs
<1>7. len[i] - len[i - 1] = Len(x.text) + q + q
  <2>1. len[i] = len[i - 1] + Len(x.text) + (IF job.op \in Brackets /\ x.quoted THEN 2 ELSE 0)
    BY <1>2, <1>3, FitsIs
  <2>2. i - 1 \in 0..N(job)
    BY <1>3
  <2>3. len[i] \in Nat /\ len[i - 1] \in Nat
    BY <1>2, <1>3, <2>2, FitsIs
  <2>4. q + q = IF job.op \in Brackets /\ x.quoted THEN 2 ELSE 0
    BY DEF Quoted
  <2>. HIDE DEF q, x
  <2>5. q + q \in Nat /\ len[i] = len[i - 1] + Len(x.text) + (q + q)
    BY <2>1, <2>4
  <2>6. q \in Nat
    BY DEF q
  <2>. QED BY <2>3, <2>5, <2>6, <1>4
<1>8. q \in Nat
  OBVIOUS
<1>. HIDE DEF q, s, x
<1>9. text' \in Texts /\ Len(text') = WrittenTo(job, len, i)
  <2>1. /\ text' \in Texts
        /\ Len(text') = Len(text) + Len(Quote(x)) + Len(x.text) + Len(Quote(x)) + Len(s)
    <3>1. /\ text \o Quote(x) \o x.text \o Quote(x) \o s \in Texts
          /\ Len(text \o Quote(x) \o x.text \o Quote(x) \o s) =
               Len(text) + Len(Quote(x)) + Len(x.text) + Len(Quote(x)) + Len(s)
      <4>1. text \in Texts /\ Quote(x) \in Texts /\ x.text \in Texts /\ s \in Texts
        BY <1>2, <1>4, <1>5, <1>6
      <4>. DEFINE a == text \o Quote(x)
                  b == a \o x.text
                  c == b \o Quote(x)
      <4>2. a \in Texts /\ Len(a) = Len(text) + Len(Quote(x))
        BY <4>1, Joined, Zenon
      <4>. HIDE DEF a
      <4>3. b \in Texts /\ Len(b) = Len(a) + Len(x.text)
        BY <4>1, <4>2, Joined, Zenon
      <4>. HIDE DEF b
      <4>4. c \in Texts /\ Len(c) = Len(b) + Len(Quote(x))
        BY <4>1, <4>3, Joined, Zenon
      <4>. HIDE DEF c
      <4>5. c \o s \in Texts /\ Len(c \o s) = Len(c) + Len(s)
        BY <4>1, <4>4, Joined, Zenon
      <4>6. Len(c) = Len(text) + Len(Quote(x)) + Len(x.text) + Len(Quote(x))
        BY <4>2, <4>3, <4>4, Zenon
      <4>7. c \o s = text \o Quote(x) \o x.text \o Quote(x) \o s
        BY Zenon DEF a, b, c
      <4>. QED BY <4>5, <4>6, <4>7, Zenon
    <3>. QED BY <1>1, <3>1, Zenon
  <2>2. /\ WrittenTo(job, len, i) =
             WrittenTo(job, len, i - 1) + (len[i] - len[i - 1])
               + IF i < N(job) THEN Width(job) ELSE 0
        /\ WrittenTo(job, len, i) \in Nat /\ WrittenTo(job, len, i - 1) \in Nat
    BY <1>2, <1>3, WrittenNext
  <2>3. Len(s) \in Nat
    BY <1>6 DEF Texts
  <2>4. WrittenTo(job, len, i) =
          WrittenTo(job, len, i - 1) + (Len(x.text) + q + q) + Len(s)
    BY <2>2, <1>6, <1>7
  <2>. QED BY <2>1, <2>2, <2>3, <2>4, <1>2, <1>4, <1>5, <1>8
<1>10. ~(Len(text') > block)
  <2>1. ~Nothing(job)
    BY <1>3 DEF Nothing
  <2>2. block = CountedTo(job, len, N(job)) + IF job.op \in Brackets THEN 0 ELSE 1
    BY <2>1, <1>2, BytesIs
  <2>3. /\ WrittenTo(job, len, N(job)) + (IF job.op \in Brackets THEN 2 ELSE 0) =
             CountedTo(job, len, N(job))
        /\ WrittenTo(job, len, N(job)) \in Nat
    BY <1>2, WrittenAll
  <2>4. Len(text') <= WrittenTo(job, len, N(job)) /\ Len(text') \in Nat
    <3>1. WrittenTo(job, len, i) <= WrittenTo(job, len, N(job))
      BY <1>2, <1>3, WrittenFits
    <3>. QED BY <3>1, <1>9 DEF Texts
  <2>5. CountedTo(job, len, N(job)) \in Nat
    <3>1. N(job) \in 0..N(job)
      BY <1>3
    <3>. QED BY <3>1, <1>2, FitsIs
  <2>. QED BY <2>2, <2>3, <2>4, <2>5
<1>11. pc' = "write"
  BY <1>1, <1>10
<1>12. Writing(len)'
  <2>1. i' \in 1..(N(job') + 1) /\ i' - 1 = i
    BY <1>1, <1>3
  <2>2. ~Single'
    BY <1>1, <1>2 DEF Single
  <2>3. Measured(job, len)'
    BY <1>1, <1>2 DEF Measured
  <2>4. block' = Bytes' /\ block' <= MaxBlock
    BY <1>1, <1>2 DEF Bytes
  <2>5. text' \in Texts /\ Len(text') = WrittenTo(job', len, i' - 1)
    BY <1>1, <1>9, <2>1
  <2>. QED BY <2>1, <2>2, <2>3, <2>4, <2>5 DEF Writing
<1>13. Ended'
  BY <1>11 DEF Ended
<1>. QED BY <1>1, <1>2, <1>11, <1>12, <1>13 DEF Inv

LEMMA FinishInv ==
  ASSUME Finish, NEW len, Fits(job, len), Inv(len)
  PROVE  Inv(len)'
<1>1. /\ pc = "write" /\ i > N(job)
      /\ text' = text \o Close
      /\ pc' = IF (IF job.op = "join" THEN total ELSE Len(text')) < block
               THEN "done" ELSE "overrun"
      /\ job' = job /\ strs' = strs /\ total' = total /\ block' = block
  BY DEF Finish, N
<1>2. /\ job \in Jobs /\ job.op \in Making /\ total \in 0..(Word - 1) /\ block \in 0..MaxBlock
      /\ i \in 1..(N(job) + 1) /\ ~Single
      /\ Measured(job, len) /\ block = Bytes /\ block <= MaxBlock
      /\ text \in Texts /\ Len(text) = WrittenTo(job, len, i - 1)
  BY <1>1 DEF Inv, Writing
<1>3. N(job) \in Nat /\ Len(job.sep) \in Nat
  BY <1>2, JobTyped
<1>4. i - 1 = N(job)
  BY <1>1, <1>2, <1>3
<1>5. Close \in Texts /\ Len(Close) = IF job.op \in Brackets THEN 1 ELSE 0
  <2>1. CASE job.op = "array"
    BY <2>1, Signs DEF Close, Brackets
  <2>2. CASE job.op = "hash"
    BY <2>2, Signs DEF Close, Brackets
  <2>3. CASE job.op \notin {"array", "hash"}
    <3>1. Close = <<>> /\ job.op \notin Brackets
      BY <2>3 DEF Close, Brackets
    <3>2. <<>> \in Texts /\ Len(<<>>) = 0
      BY Signs, Zenon
    <3>. HIDE DEF Close
    <3>. QED BY <3>1, <3>2
  <2>. QED BY <2>1, <2>2, <2>3
<1>6. Len(text') = WrittenTo(job, len, N(job)) + IF job.op \in Brackets THEN 1 ELSE 0
  <2>1. Len(text \o Close) = Len(text) + Len(Close)
    BY <1>2, <1>5, Joined
  <2>2. text' = text \o Close
    BY <1>1
  <2>3. Len(text) = WrittenTo(job, len, N(job))
    BY <1>2, <1>4
  <2>. QED BY <2>1, <2>2, <2>3, <1>5
<1>7. /\ WrittenTo(job, len, N(job)) + (IF job.op \in Brackets THEN 2 ELSE 0) =
           CountedTo(job, len, N(job))
      /\ WrittenTo(job, len, N(job)) \in Nat
  BY <1>2, WrittenAll
<1>8. CASE ~Nothing(job)
  <2>1. block = CountedTo(job, len, N(job)) + IF job.op \in Brackets THEN 0 ELSE 1
    BY <1>2, <1>8, BytesIs
  <2>2. total = CountedTo(job, len, N(job))
    BY <1>2, <1>8 DEF Measured
  <2>3. Len(text') + 1 = block /\ Len(text') \in Nat
    BY <2>1, <1>6, <1>7
  <2>4. Len(text') = Size
    BY <2>2, <1>6, <1>7 DEF Size
  <2>5. job.op = "join" => total < block
    BY <2>1, <2>2, <1>7 DEF Brackets
  <2>6. pc' = "done"
    BY <2>3, <2>5, <1>1, <1>2
  <2>7. Ended'
    <3>1. Size' = Size
      BY <1>1 DEF Size
    <3>. QED BY <2>3, <2>4, <2>6, <3>1, <1>1, <1>2 DEF Ended
  <2>. QED BY <2>6, <2>7, <1>1, <1>2 DEF Inv
<1>9. CASE Nothing(job)
  <2>1. Bytes = CASE Len(job.sep) = 0 -> 1
                  [] Len(job.sep) = 1 -> 0
                  [] OTHER -> Word - Len(job.sep) + 1
    BY <1>2, <1>9, BytesIs
  <2>2. total = IF Len(job.sep) = 0 THEN 0 ELSE Word - Len(job.sep)
    BY <1>2, <1>9 DEF Measured
  <2>3. /\ job.op = "join" /\ N(job) = 0 /\ job.op \notin Brackets /\ job.items = <<>>
        /\ Len(job.sep) <= MaxBlock
    <3>1. job.op = "join" /\ N(job) = 0 /\ job.op \notin Brackets
      BY <1>9 DEF Nothing, Brackets
    <3>2. 0 \in 0..N(job)
      BY <1>3
    <3>. QED BY <3>1, <3>2, <1>2, JobTyped, FitsIs
  <2>4. CASE Len(job.sep) = 0
    <3>1. total = 0 /\ block = 1 /\ pc' = "done"
      <4>1. total = 0 /\ Bytes = 1
        BY <2>1, <2>2, <2>4
      <4>2. block = 1
        BY <4>1, <1>2
      <4>3. pc' = "done"
        BY <4>1, <4>2, <2>3, <1>1
      <4>. QED BY <4>1, <4>2, <4>3
    <3>2. CountedTo(job, len, N(job)) = 0
      <4>1. len[0] = 0 /\ Width(job) = 0 /\ Pairs(0) = 0 /\ Around(job) = 0
        BY <1>2, <2>3, <2>4, FitsIs, <1>3 DEF Width, Pairs, Around
      <4>2. Width(job) * Pairs(N(job)) = 0
        BY <4>1, <2>3
      <4>. QED BY <4>1, <4>2, <2>3 DEF CountedTo
    <3>3. Len(text') = 0
      BY <3>2, <1>6, <1>7, <2>3
    <3>4. Ended'
      <4>1. Size' = 0
        BY <3>1, <2>3, <1>1 DEF Size
      <4>2. block' = 1 /\ 1 <= MaxBlock
        BY <3>1, <1>1, <1>2
      <4>. QED BY <4>1, <4>2, <3>1, <3>3 DEF Ended
    <3>. QED BY <3>1, <3>4, <1>1, <1>2 DEF Inv
  <2>5. CASE Len(job.sep) = 1
    <3>1. block = 0 /\ pc' = "overrun"
      BY <2>1, <2>3, <2>5, <1>1, <1>2
    <3>2. Ended'
      BY <3>1, <2>3, <2>5, <1>1 DEF Ended
    <3>. QED BY <3>1, <3>2, <1>1, <1>2 DEF Inv
  <2>6. CASE Len(job.sep) # 0 /\ Len(job.sep) # 1
    <3>1. block = Word - Len(job.sep) + 1
      BY <2>1, <2>6, <1>2
    <3>. QED BY <3>1, <2>3, <1>2, <1>3, Sizes
  <2>. QED BY <2>4, <2>5, <2>6
<1>. QED BY <1>8, <1>9
-----------------------------------------------------------------------------
(* Strings fill their blocks.                                              *)

(* What is cut allocates nothing that is counted here.                     *)
LEMMA CutInv ==
  ASSUME Trim \/ Substr \/ Split, NEW len, Inv(len)
  PROVE  Inv(len)'
<1>1. pc = "cut" /\ job.op \in {"trim", "substr", "split"}
  BY DEF Trim, Substr, Split
<1>2. job' = job /\ total' = total /\ block' = block
  BY DEF Trim, Substr, Split
<1>3. pc' \notin {"measure", "write"}
  BY <1>1 DEF Trim, Substr, Split
<1>4. job.op \notin Making
  BY <1>1 DEF Making
<1>. QED BY <1>1, <1>2, <1>3, <1>4 DEF Inv

(* The lengths of the texts of the call that is made.                      *)
Known(lengths) == \A j \in Jobs : job = j => Inv(lengths[j])

LEMMA InvFills ==
  ASSUME NEW len, Inv(len)
  PROVE  FillsItsBlock
<1>1. total \in 0..(Word - 1) /\ block \in 0..MaxBlock
  BY DEF Inv
<1>2. job.op \in Making => Ended
  BY DEF Inv
<1>. QED BY <1>1, <1>2 DEF Ended, FillsItsBlock

(* For any calls whose texts fit into memory: a string that is made (array *)
(* and hash str, join, str) fills its block to the last byte and is not    *)
(* written outside it, but for the two cases the property names.           *)
THEOREM StringsFillTheirBlocks ==
  ASSUME NEW lengths, \A j \in Jobs : Fits(j, lengths[j])
  PROVE  Spec => []FillsItsBlock
<1>. DEFINE IInv == job \in Jobs /\ Known(lengths)
<1>1. ASSUME Init PROVE IInv
  <2>1. job \in Jobs
    BY <1>1 DEF Init
  <2>2. Inv(lengths[job])
    BY <1>1, <2>1, InitInv
  <2>. QED BY <2>1, <2>2, Zenon DEF Known
<1>2. ASSUME IInv, [Next]_vars PROVE IInv'
  <2>1. job' = job
    BY <1>2 DEF Next, Measure, One, Allocate, Write, Finish, Trim, Substr, Split, vars
  <2>2. ASSUME NEW j \in Jobs, job = j PROVE Inv(lengths[j])'
    <3>. DEFINE len == lengths[j]
    <3>1. Fits(job, len) /\ Inv(len)
      BY <1>2, <2>2, Zenon DEF Known
    <3>. HIDE DEF len
    <3>2. CASE Measure
      BY <3>1, <3>2, MeasureInv DEF len
    <3>3. CASE One
      BY <3>1, <3>3, OneInv DEF len
    <3>4. CASE Allocate
      BY <3>1, <3>4, AllocateInv DEF len
    <3>5. CASE Write
      BY <3>1, <3>5, WriteInv DEF len
    <3>6. CASE Finish
      BY <3>1, <3>6, FinishInv DEF len
    <3>7. CASE Trim \/ Substr \/ Split
      BY <3>1, <3>7, CutInv DEF len
    <3>8. CASE UNCHANGED vars
      BY <3>1, <3>8 DEF len, vars, Inv, Measuring, Writing, Ended, Measured, Collecting, Bytes,
                        Size, Single
    <3>. QED BY <1>2, <3>2, <3>3, <3>4, <3>5, <3>6, <3>7, <3>8 DEF Next
  <2>3. Known(lengths)'
    BY <2>1, <2>2 DEF Known
  <2>. QED BY <1>2, <2>1, <2>3
<1>3. ASSUME IInv PROVE FillsItsBlock
  BY <1>3, InvFills DEF Known
<1>. QED BY <1>1, <1>2, <1>3, PTL DEF Spec

-----------------------------------------------------------------------------
(* Items with a separator between one and the next.                        *)

(* g begins with x, and each of the f makes the next of the last one.      *)
Builds(g, n, x, f, S) ==
  g \in [0..n -> S] /\ g[0] = x /\ \A k \in 1..n : g[k] = f[k][g[k - 1]]

(* A function defined by recursion over 0..n exists.                       *)
LEMMA CanBeBuilt ==
  ASSUME NEW S, NEW n \in Nat, NEW x \in S, NEW f \in [1..n -> [S -> S]]
  PROVE  \E g : Builds(g, n, x, f, S)
<1>. DEFINE Built(k) == \E g \in [0..k -> S] : g[0] = x /\ \A j \in 1..k : g[j] = f[j][g[j - 1]]
            T == { k \in 0..n : ~Built(k) }
<1>1. Built(0)
  <2>1. [k \in 0..0 |-> x] \in [0..0 -> S] /\ [k \in 0..0 |-> x][0] = x /\ 1..0 = {}
    OBVIOUS
  <2>. QED BY <2>1
<1>2. ASSUME NEW k \in 0..n, k # n, Built(k) PROVE Built(k + 1)
  <2>1. PICK g \in [0..k -> S] : g[0] = x /\ \A j \in 1..k : g[j] = f[j][g[j - 1]]
    BY <1>2
  <2>. DEFINE y == f[k + 1][g[k]]
              d == [j \in 0..(k + 1) |-> IF j = k + 1 THEN y ELSE g[j]]
  <2>2. k \in Nat /\ k + 1 \in 1..n /\ k \in 0..k /\ 0 # k + 1
    BY <1>2
  <2>3. y \in S
    <3>1. g[k] \in S /\ f[k + 1] \in [S -> S]
      BY <2>1, <2>2
    <3>. QED BY <3>1
  <2>. HIDE DEF y
  <2>4. \A j \in 0..(k + 1) : j # k + 1 => j \in 0..k
    BY <2>2
  <2>5. d \in [0..(k + 1) -> S]
    BY <2>1, <2>3, <2>4
  <2>6. d[0] = x /\ d[k + 1] = y /\ \A j \in 0..k : d[j] = g[j]
    <3>1. 0 \in 0..(k + 1) /\ k + 1 \in 0..(k + 1) /\ \A j \in 0..k : j \in 0..(k + 1) /\ j # k + 1
      BY <2>2
    <3>. QED BY <2>1, <2>2, <3>1
  <2>. HIDE DEF d
  <2>7. ASSUME NEW j \in 1..(k + 1) PROVE d[j] = f[j][d[j - 1]]
    <3>1. CASE j = k + 1
      <4>1. j - 1 = k /\ d[k] = g[k]
        BY <2>2, <2>6, <3>1
      <4>. QED BY <2>6, <3>1, <4>1 DEF y
    <3>2. CASE j # k + 1
      <4>1. j \in 1..k /\ j \in 0..k /\ j - 1 \in 0..k
        BY <2>2, <3>2
      <4>. QED BY <2>1, <2>6, <4>1
    <3>. QED BY <3>1, <3>2
  <2>. QED BY <2>5, <2>6, <2>7
<1>3. T = {}
  <2>1. SUFFICES ASSUME T # {} PROVE FALSE
    OBVIOUS
  <2>2. T \subseteq Nat
    OBVIOUS
  <2>3. PICK m \in T : \A k \in T : m <= k
    <3>. HIDE DEF T
    <3>. QED BY <2>1, <2>2, LeastIs
  <2>4. m \in 0..n /\ ~Built(m)
    BY <2>3
  <2>. HIDE DEF Built
  <2>5. m # 0
    BY <1>1, <2>4
  <2>6. m - 1 \in 0..n /\ m - 1 # n /\ (m - 1) + 1 = m /\ ~(m <= m - 1)
    BY <2>4, <2>5
  <2>7. Built(m - 1)
    BY <2>3, <2>6
  <2>. QED BY <1>2, <2>4, <2>6, <2>7
<1>. HIDE DEF Built
<1>4. n \in 0..n
  OBVIOUS
<1>5. Built(n)
  BY <1>3, <1>4
<1>. QED BY <1>5 DEF Built, Builds

(* The first k items with s between one and the next.                      *)
LEMMA JoinsIs ==
  ASSUME NEW items \in Seq(Texts), NEW s \in Texts
  PROVE  /\ Joins(items, s)[0] = <<>>
         /\ \A k \in 0..Len(items) : Joins(items, s)[k] \in Texts
         /\ \A k \in 1..Len(items) :
              Joins(items, s)[k] = IF k = 1 THEN items[1] ELSE Joins(items, s)[k - 1] \o s \o items[k]
<1>. DEFINE n == Len(items)
            P == Texts
            After(t, k) == IF k = 1 THEN items[1] ELSE t \o s \o items[k]
            Eq(g) == g = [k \in 0..n |-> IF k = 0 THEN <<>>
                                         ELSE IF k = 1 THEN items[1] ELSE g[k - 1] \o s \o items[k]]
            all == CHOOSE g : Eq(g)
            f == [k \in 1..n |-> [t \in P |-> After(t, k)]]
<1>1. n \in Nat /\ \A k \in 1..n : items[k] \in Texts
  BY LenProperties, ElementOfSeq
<1>2. Joins(items, s) = all
  BY DEF Joins
<1>3. <<>> \in P
  BY Signs, Zenon
<1>4. ASSUME NEW t \in P, NEW k \in 1..n PROVE After(t, k) \in P
  <2>1. items[k] \in Texts /\ (k = 1 => items[1] \in Texts)
    BY <1>1
  <2>2. t \o s \in Texts
    BY Joined
  <2>3. t \o s \o items[k] \in Texts
    BY <2>1, <2>2, Joined
  <2>. QED BY <2>1, <2>3
<1>. HIDE DEF P, n
<1>5. f \in [1..n -> [P -> P]] /\ \A k \in 1..n : \A t \in P : f[k][t] = After(t, k)
  <2>. HIDE DEF After
  <2>. QED BY <1>4
<1>. HIDE DEF f
<1>6. \E g : Eq(g)
  <2>1. PICK g : Builds(g, n, <<>>, f, P)
    BY <1>1, <1>3, <1>5, CanBeBuilt
  <2>2. g \in [0..n -> P] /\ g[0] = <<>> /\ \A k \in 1..n : g[k] = f[k][g[k - 1]]
    BY <2>1 DEF Builds
  <2>3. ASSUME NEW k \in 0..n
        PROVE  g[k] = IF k = 0 THEN <<>> ELSE IF k = 1 THEN items[1] ELSE g[k - 1] \o s \o items[k]
    <3>1. CASE k = 0
      BY <2>2, <3>1
    <3>2. CASE k # 0
      <4>1. k \in 1..n /\ k - 1 \in 0..n
        BY <1>1, <3>2
      <4>2. g[k - 1] \in P /\ g[k] = f[k][g[k - 1]]
        BY <2>2, <4>1
      <4>3. g[k] = After(g[k - 1], k)
        BY <1>5, <4>1, <4>2
      <4>. QED BY <3>2, <4>3
    <3>. QED BY <3>1, <3>2
  <2>4. Eq(g)
    BY <2>2, <2>3
  <2>. QED BY <2>4
<1>7. Eq(all)
  <2>. HIDE DEF Eq
  <2>. QED BY <1>6
<1>8. all = [k \in 0..n |-> IF k = 0 THEN <<>>
                            ELSE IF k = 1 THEN items[1] ELSE all[k - 1] \o s \o items[k]]
  BY <1>7
<1>. HIDE DEF all
<1>9. all[0] = <<>> /\ \A k \in 1..n : all[k] = After(all[k - 1], k)
  <2>1. 0 \in 0..n /\ \A k \in 1..n : k \in 0..n /\ k # 0
    BY <1>1
  <2>. QED BY <1>8, <2>1
<1>10. \A k \in 0..n : all[k] \in P
  <2>. DEFINE T == { k \in 0..n : all[k] \notin P }
  <2>1. SUFFICES ASSUME T # {} PROVE FALSE
    OBVIOUS
  <2>2. T \subseteq Nat
    OBVIOUS
  <2>3. PICK m \in T : \A k \in T : m <= k
    <3>. HIDE DEF T
    <3>. QED BY <2>1, <2>2, LeastIs
  <2>4. m \in 0..n /\ all[m] \notin P
    BY <2>3
  <2>5. m # 0
    BY <1>3, <1>9, <2>4
  <2>6. m - 1 \in 0..n /\ m \in 1..n /\ ~(m <= m - 1)
    BY <1>1, <2>4, <2>5
  <2>7. all[m - 1] \in P
    BY <2>3, <2>6
  <2>8. all[m] = After(all[m - 1], m)
    BY <1>9, <2>6
  <2>. HIDE DEF After
  <2>. QED BY <1>4, <2>4, <2>6, <2>7, <2>8
<1>. QED BY <1>2, <1>9, <1>10 DEF n, P

Colon == <<":", " ">>

(* The first k of the items, and what separates the last of them from the  *)
(* next one.                                                               *)
Glued(items, s, k) ==
  Joins(items, s)[k] \o IF 0 < k /\ k < Len(items) THEN s ELSE <<>>

(* Three texts one behind the other.                                       *)
LEMMA Regroup ==
  ASSUME NEW a \in Texts, NEW b \in Texts, NEW c \in Texts
  PROVE  (a \o b) \o c = a \o (b \o c)
BY ConcatAssociative DEF Texts

LEMMA NothingAdded ==
  ASSUME NEW a \in Texts
  PROVE  a \o <<>> = a /\ <<>> \o a = a
BY ConcatEmptySeq DEF Texts

(* An item and what follows it come behind those in front of it.           *)
LEMMA GluedIs ==
  ASSUME NEW items \in Seq(Texts), NEW s \in Texts
  PROVE  /\ Glued(items, s, 0) = <<>>
         /\ Glued(items, s, Len(items)) = Between(items, s)
         /\ Between(items, s) \in Texts
         /\ \A k \in 0..Len(items) : Glued(items, s, k) \in Texts
         /\ \A k \in 1..Len(items) :
              Glued(items, s, k) =
                Glued(items, s, k - 1) \o items[k] \o IF k < Len(items) THEN s ELSE <<>>
<1>. DEFINE n == Len(items)
            J == Joins(items, s)
<1>1. n \in Nat /\ \A k \in 1..n : items[k] \in Texts
  BY LenProperties, ElementOfSeq
<1>2. /\ J[0] = <<>>
      /\ \A k \in 0..n : J[k] \in Texts
      /\ \A k \in 1..n : J[k] = IF k = 1 THEN items[1] ELSE J[k - 1] \o s \o items[k]
  BY JoinsIs, Zenon
<1>3. <<>> \in Texts
  BY Signs, Zenon
<1>4. \A k \in 0..n : Glued(items, s, k) = J[k] \o IF 0 < k /\ k < n THEN s ELSE <<>>
  BY Zenon DEF Glued
<1>5. Between(items, s) = J[n]
  BY Zenon DEF Between
<1>. HIDE DEF J, n
<1>6. 0 \in 0..n /\ n \in 0..n
  BY <1>1
<1>7. Glued(items, s, 0) = <<>>
  <2>1. ~(0 < 0 /\ 0 < n)
    OBVIOUS
  <2>2. Glued(items, s, 0) = J[0] \o <<>>
    BY <1>4, <1>6, <2>1, Zenon
  <2>. QED BY <1>2, <1>3, <2>2, NothingAdded, Zenon
<1>8. Glued(items, s, n) = Between(items, s) /\ Between(items, s) \in Texts
  <2>1. ~(0 < n /\ n < n)
    BY <1>1
  <2>2. Glued(items, s, n) = J[n] \o <<>>
    BY <1>4, <1>6, <2>1, Zenon
  <2>. QED BY <1>2, <1>5, <1>6, <2>2, NothingAdded, Zenon
<1>9. ASSUME NEW k \in 0..n PROVE Glued(items, s, k) \in Texts
  <2>1. J[k] \in Texts
    BY <1>2, Zenon
  <2>2. CASE 0 < k /\ k < n
    BY <1>4, <2>1, <2>2, Joined, Zenon
  <2>3. CASE ~(0 < k /\ k < n)
    BY <1>3, <1>4, <2>1, <2>3, Joined, Zenon
  <2>. QED BY <2>2, <2>3
<1>10. ASSUME NEW k \in 1..n
       PROVE  Glued(items, s, k) = Glued(items, s, k - 1) \o items[k] \o IF k < n THEN s ELSE <<>>
  <2>1. k \in 0..n /\ k - 1 \in 0..n /\ 0 < k /\ k - 1 < n /\ (0 < k - 1 <=> k # 1)
    BY <1>1
  <2>2. items[k] \in Texts /\ J[k - 1] \in Texts
    BY <1>1, <1>2, <2>1, Zenon
  <2>3. Glued(items, s, k) = J[k] \o IF k < n THEN s ELSE <<>>
    BY <1>4, <2>1, Zenon
  <2>4. CASE k = 1
    <3>1. J[k] = items[k]
      BY <1>2, <2>4, Zenon
    <3>2. Glued(items, s, k - 1) = <<>>
      BY <1>7, <2>4
    <3>3. Glued(items, s, k - 1) \o items[k] = items[k]
      BY <2>2, <3>2, NothingAdded, Zenon
    <3>. QED BY <2>3, <3>1, <3>3, Zenon
  <2>5. CASE k # 1
    <3>1. J[k] = J[k - 1] \o s \o items[k]
      BY <1>2, <2>5, Zenon
    <3>2. Glued(items, s, k - 1) = J[k - 1] \o s
      BY <1>4, <2>1, <2>5, Zenon
    <3>. QED BY <2>3, <3>1, <3>2, Zenon
  <2>. QED BY <2>4, <2>5
<1>. QED BY <1>7, <1>8, <1>9, <1>10 DEF n

-----------------------------------------------------------------------------
(* What is meant, item by item.                                            *)

Bits(j) == [k \in 1..N(j) |-> IF j.op \in Brackets THEN Shown(j.items[k]) ELSE j.items[k].text]

Entries(j) == [k \in 1..(N(j) \div 2) |-> Bits(j)[2 * k - 1] \o Colon \o Bits(j)[2 * k]]

Parts(j) == IF j.op = "hash" THEN Entries(j) ELSE Bits(j)

Glue(j) == IF j.op \in Brackets THEN Comma ELSE IF j.op = "join" THEN j.sep ELSE <<>>

(* What is written between the brackets when the first k items are.        *)
UpTo(j, k) ==
  IF j.op = "hash"
  THEN Glued(Parts(j), Glue(j), k \div 2) \o IF k % 2 = 1 THEN Bits(j)[k] \o Colon ELSE <<>>
  ELSE Glued(Parts(j), Glue(j), k)

(* An item in quotes is a text.                                            *)
LEMMA ShownIs ==
  ASSUME NEW x, x.text \in Texts
  PROVE  Shown(x) \in Texts
<1>1. <<"\"">> \in Texts
  BY Signs, Zenon
<1>2. <<"\"">> \o x.text \in Texts
  BY <1>1, Joined, Zenon
<1>3. <<"\"">> \o x.text \o <<"\"">> \in Texts
  BY <1>1, <1>2, Joined, Zenon
<1>. QED BY <1>3, Zenon DEF Shown

LEMMA IsSeq ==
  ASSUME NEW S, NEW n \in Nat, NEW f, f \in [1..n -> S]
  PROVE  f \in Seq(S) /\ Len(f) = n
OBVIOUS

(* What the separators stand between are texts.                            *)
LEMMA PartsAre ==
  ASSUME NEW j \in Jobs
  PROVE  /\ Parts(j) \in Seq(Texts)
         /\ Len(Parts(j)) = IF j.op = "hash" THEN N(j) \div 2 ELSE N(j)
         /\ Glue(j) \in Texts
         /\ \A k \in 1..N(j) : Bits(j)[k] \in Texts
         /\ Comma \in Texts /\ Colon \in Texts
<1>1. /\ N(j) \in Nat /\ j.sep \in Texts /\ (j.op = "hash" => N(j) % 2 = 0)
      /\ \A k \in 1..N(j) : j.items[k].text \in Texts
  BY JobTyped
<1>2. Comma \in Texts /\ Colon \in Texts /\ <<>> \in Texts
  BY Signs, Zenon DEF Comma, Colon
<1>3. Glue(j) \in Texts
  BY <1>1, <1>2, Zenon DEF Glue
<1>4. ASSUME NEW k \in 1..N(j) PROVE Bits(j)[k] \in Texts
  <2>1. Bits(j)[k] = IF j.op \in Brackets THEN Shown(j.items[k]) ELSE j.items[k].text
    BY Zenon DEF Bits
  <2>2. j.items[k].text \in Texts /\ Shown(j.items[k]) \in Texts
    BY <1>1, ShownIs, Zenon
  <2>. QED BY <2>1, <2>2, Zenon
<1>5. Bits(j) \in [1..N(j) -> Texts]
  <2>1. Bits(j) = [k \in 1..N(j) |-> Bits(j)[k]]
    BY DEF Bits
  <2>. QED BY <1>4, <2>1
<1>6. CASE j.op = "hash"
  <2>1. N(j) \div 2 \in Nat /\ 2 * (N(j) \div 2) = N(j)
    BY <1>1, <1>6, TwiceHalf
  <2>2. ASSUME NEW k \in 1..(N(j) \div 2)
        PROVE  Bits(j)[2 * k - 1] \o Colon \o Bits(j)[2 * k] \in Texts
    <3>1. 2 * k - 1 \in 1..N(j) /\ 2 * k \in 1..N(j)
      BY <2>1, <1>1
    <3>2. Bits(j)[2 * k - 1] \in Texts /\ Bits(j)[2 * k] \in Texts
      BY <1>4, <3>1
    <3>3. Bits(j)[2 * k - 1] \o Colon \in Texts
      BY <3>2, <1>2, Joined, Zenon
    <3>. QED BY <3>2, <3>3, Joined, Zenon
  <2>3. Entries(j) \in [1..(N(j) \div 2) -> Texts]
    BY <2>2 DEF Entries
  <2>4. Entries(j) \in Seq(Texts) /\ Len(Entries(j)) = N(j) \div 2
    BY <2>1, <2>3, IsSeq
  <2>. QED BY <1>2, <1>3, <1>4, <1>6, <2>4 DEF Parts
<1>7. CASE j.op # "hash"
  <2>1. Bits(j) \in Seq(Texts) /\ Len(Bits(j)) = N(j)
    BY <1>1, <1>5, IsSeq
  <2>. QED BY <1>2, <1>3, <1>4, <1>7, <2>1 DEF Parts
<1>. QED BY <1>6, <1>7

-----------------------------------------------------------------------------
(* What is written when the first k items are.                             *)

LEMMA HalfOfNext ==
  ASSUME NEW k \in Nat \ {0}
  PROVE  /\ k % 2 = 1 => k \div 2 = (k - 1) \div 2 /\ (k - 1) % 2 = 0
         /\ k % 2 # 1 => /\ k % 2 = 0 /\ k \div 2 = (k - 1) \div 2 + 1 /\ (k - 1) % 2 = 1
                         /\ 2 * (k \div 2) = k /\ k \div 2 \in Nat
OBVIOUS

LEMMA UpToStarts ==
  ASSUME NEW j \in Jobs
  PROVE  UpTo(j, 0) = <<>>
<1>1. Glued(Parts(j), Glue(j), 0) = <<>>
  BY PartsAre, GluedIs
<1>2. 0 \div 2 = 0 /\ 0 % 2 # 1
  OBVIOUS
<1>3. <<>> \o <<>> = <<>>
  BY NothingAdded, Signs, Zenon
<1>. QED BY <1>1, <1>2, <1>3, Zenon DEF UpTo

LEMMA UpToEnds ==
  ASSUME NEW j \in Jobs
  PROVE  /\ UpTo(j, N(j)) = Between(Parts(j), Glue(j))
         /\ UpTo(j, N(j)) \in Texts
<1>1. /\ Parts(j) \in Seq(Texts) /\ Glue(j) \in Texts
      /\ Len(Parts(j)) = IF j.op = "hash" THEN N(j) \div 2 ELSE N(j)
  BY PartsAre
<1>2. /\ Glued(Parts(j), Glue(j), Len(Parts(j))) = Between(Parts(j), Glue(j))
      /\ Between(Parts(j), Glue(j)) \in Texts
  BY <1>1, GluedIs
<1>3. CASE j.op = "hash"
  <2>1. N(j) % 2 # 1
    <3>1. N(j) % 2 = 0
      BY <1>3, JobTyped
    <3>. QED BY <3>1
  <2>2. Between(Parts(j), Glue(j)) \o <<>> = Between(Parts(j), Glue(j))
    BY <1>2, NothingAdded, Zenon
  <2>. QED BY <1>1, <1>2, <1>3, <2>1, <2>2, Zenon DEF UpTo
<1>4. CASE j.op # "hash"
  BY <1>1, <1>2, <1>4, Zenon DEF UpTo
<1>. QED BY <1>3, <1>4

(* Each item adds its text and what separates it from the next one.        *)
LEMMA UpToNext ==
  ASSUME NEW j \in Jobs, j.op \in Making, NEW k \in 1..N(j)
  PROVE  /\ UpTo(j, k) = UpTo(j, k - 1) \o Bits(j)[k] \o Separator(j.op, k, N(j), j.sep)
         /\ UpTo(j, k - 1) \in Texts /\ Bits(j)[k] \in Texts
         /\ Separator(j.op, k, N(j), j.sep) \in Texts
<1>. DEFINE P == Parts(j)
            s == Glue(j)
            G(x) == Glued(P, s, x)
            sep == Separator(j.op, k, N(j), j.sep)
<1>1. /\ P \in Seq(Texts) /\ s \in Texts
      /\ Len(P) = IF j.op = "hash" THEN N(j) \div 2 ELSE N(j)
      /\ \A x \in 1..N(j) : Bits(j)[x] \in Texts
      /\ Comma \in Texts /\ Colon \in Texts
  BY PartsAre
<1>2. /\ G(0) = <<>>
      /\ \A x \in 0..Len(P) : G(x) \in Texts
      /\ \A x \in 1..Len(P) : G(x) = G(x - 1) \o P[x] \o IF x < Len(P) THEN s ELSE <<>>
  BY <1>1, GluedIs, Zenon
<1>3. /\ N(j) \in Nat /\ j.sep \in Texts /\ (j.op = "hash" => N(j) % 2 = 0)
  BY JobTyped
<1>4. <<>> \in Texts
  BY Signs, Zenon
<1>5. k \in Nat \ {0} /\ k - 1 \in 0..N(j) /\ k \in 0..N(j) /\ k <= N(j)
  BY <1>3
<1>6. CASE j.op # "hash"
  <2>1. Len(P) = N(j) /\ UpTo(j, k) = G(k) /\ UpTo(j, k - 1) = G(k - 1) /\ P[k] = Bits(j)[k]
    BY <1>1, <1>6, Zenon DEF UpTo, Parts
  <2>2. G(k) = G(k - 1) \o P[k] \o IF k < Len(P) THEN s ELSE <<>>
    BY <1>2, <2>1, Zenon
  <2>3. sep = IF k < N(j) THEN s ELSE <<>>
    <3>1. CASE j.op = "array"
      BY <3>1 DEF Separator, Glue, Brackets, Comma
    <3>2. CASE j.op = "join"
      BY <3>2 DEF Separator, Glue, Brackets
    <3>3. CASE j.op = "str"
      BY <3>3 DEF Separator, Glue, Brackets
    <3>. QED BY <1>6, <3>1, <3>2, <3>3 DEF Making
  <2>4. sep \in Texts
    BY <1>1, <1>4, <2>3, Zenon
  <2>5. G(k - 1) \in Texts
    BY <1>2, <1>5, <2>1, Zenon
  <2>. QED BY <1>1, <2>1, <2>2, <2>3, <2>4, <2>5, Zenon
<1>7. CASE j.op = "hash" /\ k % 2 = 1
  <2>. DEFINE e == k \div 2
  <2>1. (k - 1) \div 2 = e /\ (k - 1) % 2 # 1
    <3>1. k % 2 = 1 => k \div 2 = (k - 1) \div 2 /\ (k - 1) % 2 = 0
      BY <1>5, HalfOfNext, Zenon
    <3>. QED BY <1>7, <3>1
  <2>2. e \in 0..Len(P)
    BY <1>1, <1>3, <1>5, <1>7
  <2>. HIDE DEF e
  <2>3. G(e) \in Texts /\ G(e) \o <<>> = G(e)
    BY <1>2, <2>2, NothingAdded, Zenon
  <2>4. UpTo(j, k - 1) = G(e)
    BY <1>7, <2>1, <2>3, Zenon DEF UpTo
  <2>5. UpTo(j, k) = G(e) \o (Bits(j)[k] \o Colon)
    BY <1>7, <2>1, Zenon DEF UpTo, e
  <2>6. sep = Colon
    <3>1. j.op # "join" /\ ~(j.op = "hash" => k % 2 = 0)
      BY <1>7
    <3>2. j.op = "hash" /\ k % 2 = 1
      BY <1>7
    <3>. QED BY <3>1, <3>2 DEF Separator, Colon
  <2>7. Bits(j)[k] \in Texts
    BY <1>1, Zenon
  <2>8. (G(e) \o Bits(j)[k]) \o Colon = G(e) \o (Bits(j)[k] \o Colon)
    BY <1>1, <2>3, <2>7, Regroup, Zenon
  <2>. QED BY <1>1, <2>3, <2>4, <2>5, <2>6, <2>7, <2>8, Zenon
<1>8. CASE j.op = "hash" /\ k % 2 # 1
  <2>. DEFINE e == k \div 2
              b == Bits(j)[k - 1]
              c == Bits(j)[k]
  <2>0. /\ k % 2 = 0 /\ k \div 2 = (k - 1) \div 2 + 1 /\ (k - 1) % 2 = 1
        /\ 2 * (k \div 2) = k /\ k \div 2 \in Nat
    BY <1>5, <1>8, HalfOfNext, Zenon
  <2>1. (k - 1) \div 2 = e - 1 /\ (k - 1) % 2 = 1 /\ k - 1 \in 1..N(j) /\ e \in Nat /\ 2 * e = k
    BY <2>0, <1>5
  <2>2. Len(P) \in Nat /\ 2 * Len(P) = N(j)
    BY <1>1, <1>3, <1>8, TwiceHalf
  <2>. HIDE DEF e, P
  <2>3. e \in 1..Len(P) /\ (e < Len(P) <=> k < N(j)) /\ e - 1 \in 0..Len(P)
    BY <2>1, <2>2, <1>3, <1>5
  <2>4. P[e] = b \o Colon \o c
    <3>1. e \in 1..(N(j) \div 2) /\ 2 * e = k
      BY <1>1, <1>8, <2>1, <2>3
    <3>. QED BY <1>8, <3>1 DEF P, Parts, Entries
  <2>5. G(e - 1) \in Texts /\ b \in Texts /\ c \in Texts
    BY <1>1, <1>2, <2>1, <2>3, Zenon
  <2>6. UpTo(j, k - 1) = G(e - 1) \o (b \o Colon)
    BY <1>8, <2>1, Zenon DEF UpTo, P
  <2>7. G(e) \o <<>> = G(e) /\ G(e) \in Texts
    <3>1. e \in 0..Len(P)
      BY <2>2, <2>3
    <3>. QED BY <1>2, <3>1, NothingAdded, Zenon
  <2>8. UpTo(j, k) = G(e)
    BY <1>8, <2>7, Zenon DEF UpTo, e, P
  <2>9. sep = IF k < N(j) THEN Comma ELSE <<>>
    BY <1>8, <2>0 DEF Separator, Comma, Brackets
  <2>10. s = Comma
    BY <1>8 DEF Glue, Brackets
  <2>11. G(e) = G(e - 1) \o P[e] \o sep
    BY <1>2, <2>3, <2>9, <2>10, Zenon
  <2>12. b \o Colon \in Texts
    BY <1>1, <2>5, Joined, Zenon
  <2>13. (G(e - 1) \o (b \o Colon)) \o c = G(e - 1) \o (b \o Colon \o c)
    BY <2>5, <2>12, Regroup, Zenon
  <2>14. sep \in Texts
    BY <1>1, <1>4, <2>9, Zenon
  <2>15. G(e - 1) \o (b \o Colon) \in Texts
    BY <2>5, <2>12, Joined, Zenon
  <2>. QED BY <2>4, <2>5, <2>6, <2>8, <2>11, <2>13, <2>14, <2>15, Zenon
<1>. QED BY <1>6, <1>7, <1>8

-----------------------------------------------------------------------------
(* What is written is what is meant.                                        *)

(* A string that is being made is, up to the item that is next, what is    *)
(* meant; where it is done it is all of it.                                *)
Made ==
  /\ pc \in {"measure", "write", "done", "overrun", "null"}
  /\ pc = "write" => /\ ~Single /\ i \in 1..(N(job) + 1)
                     /\ text = Open \o UpTo(job, i - 1)
  /\ pc = "done" => text = IF Single /\ ~job.items[1].quoted THEN UpToZero(MeantText)
                           ELSE MeantText

LEMMA EndsAre == Open \in Texts /\ Close \in Texts
<1>1. /\ <<>> \in Texts /\ <<"[">> \in Texts /\ <<"]">> \in Texts
      /\ <<"{">> \in Texts /\ <<"}">> \in Texts
  BY Signs, Zenon
<1>2. CASE job.op = "array"
  BY <1>1, <1>2 DEF Open, Close
<1>3. CASE job.op = "hash"
  BY <1>1, <1>3 DEF Open, Close
<1>4. CASE job.op # "array" /\ job.op # "hash"
  BY <1>1, <1>4 DEF Open, Close
<1>. QED BY <1>2, <1>3, <1>4

(* What is meant is the parts with what separates them, in brackets.       *)
LEMMA MeantIs ==
  ASSUME job \in Jobs, job.op \in Making
  PROVE  MeantText = Open \o Between(Parts(job), Glue(job)) \o Close
<1>. DEFINE B == Between(Parts(job), Glue(job))
<1>1. B \in Texts
  BY PartsAre, GluedIs
<1>2. CASE job.op = "array"
  <2>1. Glue(job) = Comma /\ Open = <<"[">> /\ Close = <<"]">>
    BY <1>2 DEF Glue, Brackets, Open, Close
  <2>2. Parts(job) = [k \in 1..Len(job.items) |-> Shown(job.items[k])]
    BY <1>2 DEF Parts, Bits, Brackets, N
  <2>3. MeantText = <<"[">> \o Between([k \in 1..Len(job.items) |-> Shown(job.items[k])], Comma) \o <<"]">>
    BY <1>2 DEF MeantText
  <2>. QED BY <2>1, <2>2, <2>3, Zenon
<1>3. CASE job.op = "hash"
  <2>1. Glue(job) = Comma /\ Open = <<"{">> /\ Close = <<"}">>
    BY <1>3 DEF Glue, Brackets, Open, Close
  <2>. DEFINE all == [k \in 1..Len(job.items) |-> Shown(job.items[k])]
  <2>2. Bits(job) = all
    BY <1>3 DEF Bits, Brackets, N
  <2>3. MeantText = <<"{">> \o Between([k \in 1..(Len(job.items) \div 2) |->
                                  all[2 * k - 1] \o <<":", " ">> \o all[2 * k]], Comma) \o <<"}">>
    BY <1>3 DEF MeantText
  <2>. HIDE DEF all
  <2>4. Parts(job) = [k \in 1..(Len(job.items) \div 2) |-> all[2 * k - 1] \o <<":", " ">> \o all[2 * k]]
    BY <1>3, <2>2, Zenon DEF Parts, Entries, N, Colon
  <2>. QED BY <2>1, <2>3, <2>4, Zenon
<1>4. CASE job.op \in {"join", "str"}
  <2>1. Open = <<>> /\ Close = <<>>
    BY <1>4 DEF Open, Close
  <2>2. Parts(job) = [k \in 1..Len(job.items) |-> job.items[k].text]
    BY <1>4 DEF Parts, Bits, Brackets, N
  <2>3. MeantText = Between([k \in 1..Len(job.items) |-> job.items[k].text], Glue(job))
    <3>1. CASE job.op = "join"
      BY <3>1 DEF MeantText, Glue, Brackets
    <3>2. CASE job.op = "str"
      BY <3>2 DEF MeantText, Glue, Brackets
    <3>. QED BY <1>4, <3>1, <3>2
  <2>4. (<<>> \o B) \o <<>> = B
    BY <1>1, NothingAdded, Zenon
  <2>. QED BY <2>1, <2>2, <2>3, <2>4, Zenon
<1>. QED BY <1>2, <1>3, <1>4 DEF Making

(* str (x) is the text of x.                                               *)
LEMMA OneMade ==
  ASSUME One, job \in Jobs, job.op \in Making
  PROVE  Made'
<1>. DEFINE x == job.items[1]
<1>1. /\ Single
      /\ text' = IF x.quoted THEN x.text ELSE UpToZero(x.text)
      /\ pc' = "done" /\ job' = job
  BY DEF One
<1>2. job.op = "str" /\ N(job) = 1
  BY <1>1 DEF Single, N
<1>3. /\ Parts(job) \in Seq(Texts) /\ Glue(job) \in Texts /\ Len(Parts(job)) = 1
  BY <1>2, PartsAre
<1>4. Between(Parts(job), Glue(job)) = Parts(job)[1]
  <2>1. \A k \in 1..1 : Joins(Parts(job), Glue(job))[k] =
          IF k = 1 THEN Parts(job)[1] ELSE Joins(Parts(job), Glue(job))[k - 1] \o Glue(job) \o Parts(job)[k]
    BY <1>3, JoinsIs
  <2>2. Joins(Parts(job), Glue(job))[1] = Parts(job)[1]
    <3>1. 1 \in 1..1
      OBVIOUS
    <3>. QED BY <2>1, <3>1, Zenon
  <2>. QED BY <1>3, <2>2, Zenon DEF Between
<1>5. Parts(job)[1] = x.text
  <2>1. 1 \in 1..N(job)
    BY <1>2
  <2>. QED BY <1>2, <2>1 DEF Parts, Bits, Brackets
<1>6. Open = <<>> /\ Close = <<>>
  BY <1>2 DEF Open, Close
<1>7. x.text \in Texts
  <2>1. 1 \in 1..N(job)
    BY <1>2
  <2>. QED BY <2>1, JobTyped
<1>8. (<<>> \o x.text) \o <<>> = x.text
  BY <1>7, NothingAdded, Zenon
<1>9. MeantText = x.text
  BY <1>4, <1>5, <1>6, <1>8, MeantIs, Zenon
<1>10. MeantText' = MeantText /\ Single'
  BY <1>1 DEF MeantText, Single
<1>. QED BY <1>1, <1>9, <1>10, Zenon DEF Made

(* A string begins with its bracket.                                       *)
LEMMA AllocateMade ==
  ASSUME Allocate, job \in Jobs, job.op \in Making
  PROVE  Made'
<1>1. /\ ~Single /\ i' = 1 /\ job' = job
      /\ (pc' = "null" \/ (pc' = "write" /\ text' = Open))
  BY DEF Allocate
<1>2. CASE pc' = "null"
  BY <1>2 DEF Made
<1>3. CASE pc' = "write" /\ text' = Open
  <2>1. N(job) \in Nat
    BY JobTyped
  <2>2. i' \in 1..(N(job') + 1) /\ i' - 1 = 0
    BY <1>1, <2>1
  <2>3. Open \o UpTo(job, 0) = Open
    BY EndsAre, UpToStarts, NothingAdded, Zenon
  <2>4. ~Single' /\ Open' = Open
    BY <1>1 DEF Single, Open
  <2>5. text' = Open' \o UpTo(job', i' - 1)
    BY <1>1, <1>3, <2>2, <2>3, <2>4, Zenon
  <2>. QED BY <1>3, <2>2, <2>4, <2>5 DEF Made
<1>. QED BY <1>1, <1>2, <1>3

(* What is written of an item: its text, in quotes where it is shown so.   *)
LEMMA BitIs ==
  ASSUME job \in Jobs, NEW k \in 1..N(job), NEW t \in Texts
  PROVE  t \o Quote(job.items[k]) \o job.items[k].text \o Quote(job.items[k]) = t \o Bits(job)[k]
<1>. DEFINE x == job.items[k]
            q == <<"\"">>
<1>1. x.text \in Texts /\ q \in Texts
  BY JobTyped, Signs
<1>2. Bits(job)[k] = IF job.op \in Brackets THEN Shown(x) ELSE x.text
  BY DEF Bits
<1>3. CASE job.op \in Brackets /\ x.quoted
  <2>1. Quote(x) = q
    BY <1>3, Zenon DEF Quote, Quoted
  <2>2. Bits(job)[k] = (q \o x.text) \o q
    BY <1>2, <1>3, Zenon DEF Shown
  <2>3. q \o x.text \in Texts
    BY <1>1, Joined, Zenon
  <2>. HIDE DEF q
  <2>4. t \o ((q \o x.text) \o q) = (t \o (q \o x.text)) \o q
    BY <1>1, <2>3, Regroup, Zenon
  <2>5. t \o (q \o x.text) = (t \o q) \o x.text
    BY <1>1, Regroup, Zenon
  <2>. QED BY <2>1, <2>2, <2>4, <2>5, Zenon
<1>4. CASE ~(job.op \in Brackets /\ x.quoted)
  <2>1. Quote(x) = <<>>
    BY <1>4, Zenon DEF Quote, Quoted
  <2>2. Bits(job)[k] = x.text
    BY <1>2, <1>4, Zenon DEF Shown
  <2>3. t \o <<>> = t /\ (t \o x.text) \o <<>> = t \o x.text
    <3>1. t \o x.text \in Texts
      BY <1>1, Joined, Zenon
    <3>. QED BY <3>1, NothingAdded, Zenon
  <2>. QED BY <2>1, <2>2, <2>3, Zenon
<1>. QED BY <1>3, <1>4

(* The next item comes behind what is written.                             *)
LEMMA WriteMade ==
  ASSUME Write, job \in Jobs, job.op \in Making, Made
  PROVE  Made'
<1>. DEFINE x == job.items[i]
            s == Separator(job.op, i, N(job), job.sep)
<1>1. /\ pc = "write" /\ i <= N(job)
      /\ text' = text \o Quote(x) \o x.text \o Quote(x) \o s
      /\ (pc' = "overrun" \/ pc' = pc)
      /\ i' = i + 1 /\ job' = job
  BY DEF Write, N
<1>2. ~Single /\ i \in 1..(N(job) + 1) /\ text = Open \o UpTo(job, i - 1)
  BY <1>1 DEF Made
<1>3. N(job) \in Nat
  BY JobTyped
<1>4. i \in 1..N(job) /\ i' - 1 = i /\ i' \in 1..(N(job) + 1)
  BY <1>1, <1>2, <1>3
<1>5. /\ UpTo(job, i) = UpTo(job, i - 1) \o Bits(job)[i] \o s
      /\ UpTo(job, i - 1) \in Texts /\ Bits(job)[i] \in Texts /\ s \in Texts
  BY <1>4, UpToNext
<1>6. Open \in Texts /\ text \in Texts
  BY <1>2, <1>5, EndsAre, Joined, Zenon
<1>7. text \o Quote(x) \o x.text \o Quote(x) = text \o Bits(job)[i]
  BY <1>4, <1>6, BitIs
<1>8. text' = (text \o Bits(job)[i]) \o s
  BY <1>1, <1>7, Zenon
<1>. HIDE DEF s
<1>9. text' = Open \o UpTo(job, i)
  <2>. DEFINE u == UpTo(job, i - 1)
              b == Bits(job)[i]
  <2>. HIDE DEF u, b
  <2>1. u \in Texts /\ b \in Texts /\ u \o b \in Texts
    BY <1>5, Joined, Zenon DEF u, b
  <2>2. ((Open \o u) \o b) \o s = (Open \o (u \o b)) \o s
    BY <1>6, <2>1, Regroup, Zenon
  <2>3. (Open \o (u \o b)) \o s = Open \o ((u \o b) \o s)
    <3>1. s \in Texts /\ Open \in Texts
      BY <1>5, <1>6, Zenon
    <3>2. \A v \in Texts : (Open \o v) \o s = Open \o (v \o s)
      BY <3>1, Regroup, Zenon
    <3>. QED BY <2>1, <3>2, Zenon
  <2>4. text = Open \o u
    BY <1>2, Zenon DEF u
  <2>5. text' = (text \o b) \o s
    BY <1>8, Zenon DEF b
  <2>6. UpTo(job, i) = (u \o b) \o s
    BY <1>5, Zenon DEF u, b
  <2>. QED BY <2>2, <2>3, <2>4, <2>5, <2>6, Zenon
<1>10. ~Single' /\ Open' = Open
  BY <1>1, <1>2 DEF Single, Open
<1>11. text' = Open' \o UpTo(job', i' - 1)
  BY <1>1, <1>4, <1>9, <1>10, Zenon
<1>. QED BY <1>1, <1>4, <1>10, <1>11 DEF Made

(* Behind the last item only the bracket is missing.                       *)
LEMMA FinishMade ==
  ASSUME Finish, job \in Jobs, job.op \in Making, Made
  PROVE  Made'
<1>1. /\ pc = "write" /\ i > N(job)
      /\ text' = text \o Close
      /\ (pc' = "overrun" \/ pc' = "done")
      /\ job' = job
  BY DEF Finish, N
<1>2. ~Single /\ i \in 1..(N(job) + 1) /\ text = Open \o UpTo(job, i - 1)
  BY <1>1 DEF Made
<1>3. i - 1 = N(job)
  <2>1. N(job) \in Nat
    BY JobTyped
  <2>. QED BY <1>1, <1>2, <2>1
<1>4. text' = MeantText
  BY <1>1, <1>2, <1>3, UpToEnds, MeantIs, Zenon
<1>5. ~Single' /\ MeantText' = MeantText
  BY <1>1, <1>2 DEF Single, MeantText
<1>. QED BY <1>1, <1>4, <1>5, Zenon DEF Made

LEMMA MeasureMade ==
  ASSUME Measure, Made
  PROVE  Made'
<1>1. pc' \in {"measure", "overrun"}
  BY DEF Measure
<1>. QED BY <1>1 DEF Made

(* One more item: the separator and the item behind what there is.         *)
LEMMA OneMore ==
  ASSUME NEW items \in Seq(Texts), NEW s \in Texts, NEW p \in Texts
  PROVE  /\ Append(items, p) \in Seq(Texts)
         /\ Between(Append(items, p), s) = IF items = <<>> THEN p ELSE Between(items, s) \o s \o p
         /\ Between(<<>>, s) = <<>>
<1>. DEFINE n == Len(items)
            more == Append(items, p)
            J == Joins(items, s)
            K == Joins(more, s)
<1>1. n \in Nat /\ (n = 0 <=> items = <<>>)
  BY LenProperties, EmptySeq
<1>2. /\ more \in Seq(Texts) /\ Len(more) = n + 1
      /\ \A k \in 1..n : more[k] = items[k]
      /\ more[n + 1] = p
  BY AppendProperties
<1>3. J[0] = <<>> /\ \A k \in 1..n : J[k] = IF k = 1 THEN items[1] ELSE J[k - 1] \o s \o items[k]
  BY JoinsIs
<1>. HIDE DEF more, n
<1>4. K[0] = <<>> /\ \A k \in 1..(n + 1) : K[k] = IF k = 1 THEN more[1] ELSE K[k - 1] \o s \o more[k]
  <2>1. K[0] = <<>> /\ \A k \in 1..Len(more) : K[k] = IF k = 1 THEN more[1] ELSE K[k - 1] \o s \o more[k]
    BY <1>2, JoinsIs
  <2>. QED BY <1>2, <2>1
<1>5. Between(items, s) = J[n] /\ Between(more, s) = K[n + 1]
  BY <1>2, Zenon DEF Between, n
<1>. HIDE DEF J, K
<1>6. \A k \in 0..n : K[k] = J[k]
  <2>. DEFINE T == { k \in 0..n : K[k] # J[k] }
  <2>1. SUFFICES ASSUME T # {} PROVE FALSE
    OBVIOUS
  <2>2. T \subseteq Nat
    BY <1>1
  <2>3. PICK m \in T : \A k \in T : m <= k
    <3>. HIDE DEF T
    <3>. QED BY <2>1, <2>2, LeastIs
  <2>4. m \in 0..n /\ K[m] # J[m]
    BY <2>3
  <2>5. m # 0
    BY <1>3, <1>4, <2>4
  <2>6. m - 1 \in 0..n /\ m \in 1..n /\ m \in 1..(n + 1) /\ ~(m <= m - 1)
    BY <1>1, <2>4, <2>5
  <2>7. K[m - 1] = J[m - 1]
    BY <2>3, <2>6
  <2>8. more[m] = items[m] /\ (m = 1 => more[1] = items[1])
    BY <1>2, <2>6
  <2>9. K[m] = IF m = 1 THEN more[1] ELSE K[m - 1] \o s \o more[m]
    BY <1>4, <2>6, Zenon
  <2>10. J[m] = IF m = 1 THEN items[1] ELSE J[m - 1] \o s \o items[m]
    BY <1>3, <2>6, Zenon
  <2>. QED BY <2>4, <2>7, <2>8, <2>9, <2>10, Zenon
<1>7. Between(more, s) = IF items = <<>> THEN p ELSE Between(items, s) \o s \o p
  <2>1. n + 1 \in 1..(n + 1) /\ n \in 0..n /\ (n + 1) - 1 = n /\ (n + 1 = 1 <=> n = 0)
    BY <1>1
  <2>2. K[n + 1] = IF n + 1 = 1 THEN more[1] ELSE K[n] \o s \o more[n + 1]
    BY <1>4, <2>1
  <2>3. CASE n = 0
    BY <1>1, <1>2, <1>5, <2>1, <2>2, <2>3
  <2>4. CASE n # 0
    BY <1>1, <1>2, <1>5, <1>6, <2>1, <2>2, <2>4, Zenon
  <2>. QED BY <2>3, <2>4
<1>8. Between(<<>>, s) = <<>>
  <2>1. <<>> \in Seq(Texts) /\ Len(<<>>) = 0
    OBVIOUS
  <2>2. Joins(<<>>, s)[0] = <<>>
    BY <2>1, JoinsIs
  <2>. QED BY <2>1, <2>2 DEF Between
<1>. QED BY <1>2, <1>7, <1>8 DEF more

-----------------------------------------------------------------------------
(* Cutting.                                                                *)

(* The greatest of some numbers.                                           *)
LEMMA GreatestIs ==
  ASSUME NEW n \in Nat, NEW S, S \subseteq 0..n, S # {}
  PROVE  Max(S) \in S /\ \A x \in S : x <= Max(S)
<1>. DEFINE T == { n - x : x \in S }
<1>1. T \subseteq Nat /\ T # {}
  <2>1. PICK x \in S : TRUE
    OBVIOUS
  <2>2. n - x \in T
    OBVIOUS
  <2>. QED BY <2>2
<1>2. Min(T) \in T /\ \A x \in T : Min(T) <= x
  <2>. HIDE DEF T
  <2>. QED BY <1>1, LeastIs
<1>3. PICK y \in S : Min(T) = n - y
  BY <1>2
<1>4. \A x \in S : y >= x
  <2>1. SUFFICES ASSUME NEW x \in S PROVE y >= x
    OBVIOUS
  <2>2. n - x \in T
    OBVIOUS
  <2>3. n - y <= n - x
    BY <1>2, <1>3, <2>2
  <2>. QED BY <2>3
<1>5. Max(S) \in S /\ \A x \in S : Max(S) >= x
  BY <1>4, Zenon DEF Max
<1>6. \A x \in S : x \in Int
  OBVIOUS
<1>. QED BY <1>5, <1>6

LEMMA TextIs ==
  ASSUME NEW s \in Texts
  PROVE  /\ Len(s) \in Nat /\ \A x \in 1..Len(s) : s[x] \in Chars
         /\ Len(s) = 0 <=> s = <<>>
         /\ SubSeq(s, 1, Len(s)) = s
<1>1. s \in Seq(Chars)
  BY DEF Texts
<1>. QED BY <1>1, LenProperties, ElementOfSeq, EmptySeq, SubSeqFull

(* The bytes from k to l of a text.                                        *)
LEMMA PartOf ==
  ASSUME NEW s \in Texts, NEW k \in Nat, NEW l \in Nat, k <= l, l <= Len(s)
  PROVE  /\ SubSeq(s, k + 1, l) \in Texts
         /\ Len(SubSeq(s, k + 1, l)) = l - k
         /\ \A x \in 1..(l - k) : SubSeq(s, k + 1, l)[x] = s[k + x]
<1>1. \A x \in (k + 1)..l : s[x] \in Chars
  BY TextIs
<1>2. /\ SubSeq(s, k + 1, l) \in Seq(Chars)
      /\ Len(SubSeq(s, k + 1, l)) = IF k + 1 <= l THEN l - (k + 1) + 1 ELSE 0
      /\ \A x \in 1..(l - (k + 1) + 1) : SubSeq(s, k + 1, l)[x] = s[(k + 1) + x - 1]
  BY <1>1, SubSeqProperties
<1>3. l - (k + 1) + 1 = l - k /\ \A x \in Int : (k + 1) + x - 1 = k + x
  OBVIOUS
<1>4. Len(SubSeq(s, k + 1, l)) = l - k
  BY <1>2, <1>3
<1>5. \A x \in 1..(l - k) : SubSeq(s, k + 1, l)[x] = s[k + x]
  BY <1>2, <1>3
<1>. QED BY <1>2, <1>4, <1>5 DEF Texts

(* Bytes that are copied from inside a text.                               *)
LEMMA CopiedIs ==
  ASSUME NEW s \in Texts, NEW k \in Nat, NEW n \in Nat, k + n <= Len(s)
  PROVE  Copied(s, k, n) = SubSeq(s, k + 1, k + n)
<1>. DEFINE z == Append(s, Zero)
<1>1. s \in Seq(Chars) /\ Zero \in Chars
  BY TextAssumption DEF Texts
<1>2. z \in Seq(Chars) /\ Len(z) = Len(s) + 1 /\ \A x \in 1..Len(s) : z[x] = s[x]
  BY <1>1, AppendProperties
<1>3. Len(s) \in Nat
  BY <1>1
<1>. HIDE DEF z
<1>4. z \in Texts /\ k <= k + n /\ k + n \in Nat /\ k + n <= Len(z)
  BY <1>2, <1>3 DEF Texts
<1>5. /\ SubSeq(z, k + 1, k + n) \in Seq(Chars)
      /\ Len(SubSeq(z, k + 1, k + n)) = (k + n) - k
      /\ \A x \in 1..((k + n) - k) : SubSeq(z, k + 1, k + n)[x] = z[k + x]
  BY <1>4, PartOf DEF Texts
<1>6. /\ SubSeq(s, k + 1, k + n) \in Seq(Chars)
      /\ Len(SubSeq(s, k + 1, k + n)) = (k + n) - k
      /\ \A x \in 1..((k + n) - k) : SubSeq(s, k + 1, k + n)[x] = s[k + x]
  BY <1>4, PartOf DEF Texts
<1>7. \A x \in 1..((k + n) - k) : z[k + x] = s[k + x]
  <2>1. \A x \in 1..((k + n) - k) : k + x \in 1..Len(s)
    BY <1>3
  <2>. QED BY <1>2, <2>1
<1>8. SubSeq(z, k + 1, k + n) = SubSeq(s, k + 1, k + n)
  <2>. DEFINE a == SubSeq(z, k + 1, k + n)
              b == SubSeq(s, k + 1, k + n)
  <2>. HIDE DEF a, b
  <2>1. a \in Seq(Chars) /\ b \in Seq(Chars) /\ Len(a) = Len(b)
    BY <1>5, <1>6 DEF a, b
  <2>2. \A x \in 1..Len(a) : a[x] = b[x]
    BY <1>5, <1>6, <1>7 DEF a, b
  <2>. QED BY <2>1, <2>2, SeqEqual DEF a, b
<1>. QED BY <1>8 DEF Copied, z

(* In front of the first byte 0 there is none.                             *)
LEMMA NoZeroBefore ==
  ASSUME NEW s \in Texts
  PROVE  \A x \in 1..Len(UpToZero(s)) : s[x] # Zero
<1>. DEFINE zeros == { k \in DOMAIN s : s[k] = Zero }
<1>1. s \in Seq(Chars) /\ Len(s) \in Nat /\ DOMAIN s = 1..Len(s)
  BY DEF Texts
<1>2. CASE zeros = {}
  BY <1>1, <1>2 DEF UpToZero
<1>3. CASE zeros # {}
  <2>1. zeros \subseteq 1..Len(s) /\ zeros \subseteq Nat
    BY <1>1
  <2>2. Min(zeros) \in zeros /\ \A k \in zeros : Min(zeros) <= k
    <3>. HIDE DEF zeros
    <3>. QED BY <2>1, <1>3, LeastIs, Zenon
  <2>3. UpToZero(s) = SubSeq(s, 1, Min(zeros) - 1)
    BY <1>3 DEF UpToZero
  <2>4. PICK m : m = Min(zeros)
    OBVIOUS
  <2>5. m \in 1..Len(s) /\ UpToZero(s) = SubSeq(s, 1, m - 1) /\ \A k \in zeros : m <= k
    <3>. HIDE DEF zeros
    <3>. QED BY <2>1, <2>2, <2>3, <2>4
  <2>6. Len(UpToZero(s)) = m - 1
    <3>1. m - 1 \in Nat /\ 0 <= m - 1 /\ m - 1 <= Len(s) /\ 0 + 1 = 1 /\ (m - 1) - 0 = m - 1
      BY <1>1, <2>5
    <3>. QED BY <2>5, <3>1, PartOf
  <2>. QED BY <1>1, <2>5, <2>6
<1>. QED BY <1>2, <1>3

-----------------------------------------------------------------------------
(* What the cuts find.                                                     *)

(* No blank at either end of t, and nothing but blanks around it in s.     *)
Strips(s, t) ==
  /\ \E k \in 0..Len(s), l \in 0..Len(s) :
       /\ SubSeq(s, k + 1, l) = t
       /\ \A x \in (1..k) \cup ((l + 1)..Len(s)) : s[x] \in Blank
  /\ t # <<>> => t[1] \notin Blank /\ t[Len(t)] \notin Blank

(* The first byte that is not blank.                                       *)
LEMMA FirstIs ==
  ASSUME NEW s \in Texts, NEW n \in Nat, n = Len(s),
         NEW first, first = Min({ k \in 0..(n - 1) : s[k + 1] \notin Blank } \cup {n})
  PROVE  /\ first \in 0..n
         /\ first < n => s[first + 1] \notin Blank
         /\ \A x \in 1..first : s[x] \in Blank
<1>. DEFINE S == { k \in 0..(n - 1) : s[k + 1] \notin Blank } \cup {n}
<1>1. S \subseteq 0..n /\ S \subseteq Nat /\ n \in S
  OBVIOUS
<1>2. first \in S /\ \A k \in S : first <= k
  <2>. HIDE DEF S
  <2>1. S # {}
    BY <1>1
  <2>2. Min(S) \in S /\ \A k \in S : Min(S) <= k
    BY <1>1, <2>1, LeastIs, Zenon
  <2>3. first = Min(S)
    BY DEF S
  <2>. QED BY <2>2, <2>3
<1>3. first \in 0..n
  BY <1>1, <1>2
<1>4. first < n => s[first + 1] \notin Blank
  BY <1>2, <1>3
<1>5. ASSUME NEW x \in 1..first PROVE s[x] \in Blank
  <2>1. x - 1 \in 0..(n - 1) /\ (x - 1) + 1 = x /\ ~(first <= x - 1)
    BY <1>3
  <2>2. x - 1 \notin S
    BY <1>2, <2>1
  <2>. QED BY <2>1, <2>2
<1>. QED BY <1>3, <1>4, <1>5

(* The last byte that is not blank.                                        *)
LEMMA LastIs ==
  ASSUME NEW s, NEW n \in Nat, NEW first \in Nat, first < n - 1,
         s[first + 1] \notin Blank,
         NEW last,
         last = Max({ k \in (first + 1)..(n - 1) : s[k + 1] \notin Blank } \cup {first})
  PROVE  /\ last \in first..(n - 1) /\ s[last + 1] \notin Blank
         /\ \A x \in (last + 2)..n : s[x] \in Blank
<1>. DEFINE S == { k \in (first + 1)..(n - 1) : s[k + 1] \notin Blank } \cup {first}
<1>1. S \subseteq 0..n /\ first \in S
  OBVIOUS
<1>2. last \in S /\ \A k \in S : k <= last
  <2>. HIDE DEF S
  <2>1. S # {}
    BY <1>1
  <2>2. Max(S) \in S /\ \A k \in S : k <= Max(S)
    BY <1>1, <2>1, GreatestIs, Zenon
  <2>3. last = Max(S)
    BY DEF S
  <2>. QED BY <2>2, <2>3
<1>3. last \in first..(n - 1) /\ s[last + 1] \notin Blank
  BY <1>2
<1>4. ASSUME NEW x \in (last + 2)..n PROVE s[x] \in Blank
  <2>1. x - 1 \in (first + 1)..(n - 1) /\ (x - 1) + 1 = x /\ ~(x - 1 <= last)
    BY <1>3
  <2>2. x - 1 \notin S
    BY <1>2, <2>1
  <2>. QED BY <2>1, <2>2
<1>. QED BY <1>3, <1>4

(* trim leaves no blank at either end and cuts nothing else off.           *)
LEMMA TrimmedIs ==
  ASSUME NEW s \in Texts
  PROVE  IF s = <<>> THEN Trimmed(s) = <<Zero>> ELSE Strips(s, Trimmed(s))
<1>. DEFINE n == Len(s)
            first == Min({ k \in 0..(n - 1) : s[k + 1] \notin Blank } \cup {n})
            last == IF n = 0 THEN 0
                    ELSE IF first >= n - 1 THEN n - 1
                    ELSE Max({ k \in (first + 1)..(n - 1) : s[k + 1] \notin Blank } \cup {first})
<1>1. n \in Nat /\ (n = 0 <=> s = <<>>)
  BY TextIs
<1>2. Trimmed(s) = Copied(s, first, last + 1 - first)
  BY DEF Trimmed
<1>3. /\ first \in 0..n
      /\ first < n => s[first + 1] \notin Blank
      /\ \A x \in 1..first : s[x] \in Blank
  BY <1>1, FirstIs
<1>4. last = IF n = 0 THEN 0
             ELSE IF first >= n - 1 THEN n - 1
             ELSE Max({ k \in (first + 1)..(n - 1) : s[k + 1] \notin Blank } \cup {first})
  OBVIOUS
<1>. HIDE DEF n, first, last
<1>5. CASE s = <<>>
  <2>1. n = 0 /\ first = 0 /\ last + 1 - first = 1
    BY <1>1, <1>3, <1>4, <1>5
  <2>2. Copied(<<>>, 0, 1) = <<Zero>>
    <3>1. Append(<<>>, Zero) = <<Zero>> /\ <<Zero>> \in Seq({Zero}) /\ Len(<<Zero>>) = 1
      OBVIOUS
    <3>2. SubSeq(<<Zero>>, 1, 1) = <<Zero>>
      BY <3>1, SubSeqFull
    <3>. QED BY <3>1, <3>2 DEF Copied
  <2>3. Trimmed(s) = Copied(<<>>, 0, 1)
    BY <1>2, <1>5, <2>1, Zenon
  <2>. QED BY <1>5, <2>2, <2>3, Zenon
<1>6. CASE s # <<>>
  <2>1. /\ last \in 0..(n - 1) /\ first <= last + 1
        /\ first < n => first <= last /\ s[last + 1] \notin Blank
        /\ \A x \in (last + 2)..n : s[x] \in Blank
    <3>1. CASE first >= n - 1
      <4>1. last = n - 1 /\ n # 0
        BY <1>1, <1>4, <1>6, <3>1
      <4>2. (last + 2)..n = {}
        BY <1>1, <4>1
      <4>3. last \in 0..(n - 1) /\ first <= last + 1 /\ (first < n => first = last)
        BY <1>1, <1>3, <3>1, <4>1
      <4>. QED BY <1>3, <4>2, <4>3
    <3>2. CASE ~(first >= n - 1)
      <4>1. first < n - 1 /\ first < n /\ first \in Nat
        BY <1>1, <1>3, <3>2
      <4>2. last = Max({ k \in (first + 1)..(n - 1) : s[k + 1] \notin Blank } \cup {first})
        BY <1>1, <1>4, <1>6, <3>2
      <4>3. /\ last \in first..(n - 1) /\ s[last + 1] \notin Blank
            /\ \A x \in (last + 2)..n : s[x] \in Blank
        <5>1. s[first + 1] \notin Blank
          BY <1>3, <4>1
        <5>2. \A x : x = Max({ k \in (first + 1)..(n - 1) : s[k + 1] \notin Blank } \cup {first}) =>
                /\ x \in first..(n - 1) /\ s[x + 1] \notin Blank
                /\ \A y \in (x + 2)..n : s[y] \in Blank
          BY <1>1, <4>1, <5>1, LastIs
        <5>. QED BY <4>2, <5>2
      <4>. QED BY <1>3, <4>1, <4>3
    <3>. QED BY <3>1, <3>2
  <2>. DEFINE l == last + 1
              t == SubSeq(s, first + 1, l)
  <2>2. /\ l \in 0..n /\ first \in 0..n /\ first <= l /\ first \in Nat /\ l \in Nat
        /\ l - first \in Nat /\ first + (l - first) = l
        /\ first < n => first < l /\ s[l] \notin Blank
        /\ \A x \in (l + 1)..n : s[x] \in Blank
    <3>1. /\ l \in 0..n /\ first \in 0..n /\ first <= l /\ first \in Nat /\ l \in Nat
          /\ l - first \in Nat /\ first + (l - first) = l
      BY <1>1, <1>3, <2>1
    <3>2. first < n => first < l /\ s[l] \notin Blank
      <4>1. l = last + 1 /\ last \in Int /\ first \in Int
        BY <1>3, <2>1
      <4>. QED BY <2>1, <4>1
    <3>3. \A x \in (l + 1)..n : s[x] \in Blank
      <4>1. l + 1 = last + 2
        BY <2>1
      <4>. QED BY <2>1, <4>1
    <3>. QED BY <3>1, <3>2, <3>3
  <2>3. last + 1 - first = l - first
    <3>1. last \in Int /\ first \in Int /\ l = last + 1
      BY <1>3, <2>1
    <3>. QED BY <3>1
  <2>. HIDE DEF l
  <2>4. Trimmed(s) = t
    <3>1. first + (l - first) <= Len(s)
      BY <2>2, <1>1 DEF n
    <3>2. Copied(s, first, l - first) = SubSeq(s, first + 1, first + (l - first))
      BY <2>2, <3>1, CopiedIs
    <3>. QED BY <1>2, <2>2, <2>3, <3>2
  <2>5. /\ t \in Texts /\ Len(t) = l - first
        /\ \A x \in 1..(l - first) : t[x] = s[first + x]
    BY <2>2, PartOf DEF n
  <2>6. \E k \in 0..n, m \in 0..n :
          /\ SubSeq(s, k + 1, m) = t
          /\ \A x \in (1..k) \cup ((m + 1)..n) : s[x] \in Blank
    <3>1. \A x \in (1..first) \cup ((l + 1)..n) : s[x] \in Blank
      BY <1>3, <2>2
    <3>. QED BY <2>2, <3>1
  <2>. HIDE DEF t
  <2>7. ASSUME t # <<>> PROVE t[1] \notin Blank /\ t[Len(t)] \notin Blank
    <3>1. Len(t) # 0
      BY <2>5, <2>7, TextIs
    <3>2. first < l /\ first < n /\ 1 \in 1..(l - first) /\ l - first \in 1..(l - first)
          /\ first + (l - first) = l
      BY <1>1, <2>2, <2>5, <3>1
    <3>3. t[1] = s[first + 1] /\ t[l - first] = s[l]
      BY <2>5, <3>2
    <3>. QED BY <1>3, <2>2, <2>5, <3>2, <3>3
  <2>8. Strips(s, t)
    BY <2>6, <2>7 DEF Strips, n
  <2>. QED BY <1>6, <2>4, <2>8
<1>. QED BY <1>5, <1>6

(* substr copies what is between two indices that are in order and in the  *)
(* string.                                                                 *)
LEMMA SubstrMeant ==
  ASSUME Substr, job \in Jobs, Held(job), InOrder
  PROVE  pc' = "done" /\ text' = SubSeq(job.text, MeantFrom + 1, MeantTo)
<1>. DEFINE n == Len(job.text)
            from == FromEnd(job.from, n)
            to == IF job.to = <<>> THEN n ELSE FromEnd(job.to[1], n)
            size == (to - from) % Word
<1>1. job.text \in Texts /\ job.from \in Int /\ (job.to = <<>> \/ job.to[1] \in Int)
  <2>1. job.text \in Texts /\ job.from \in Int /\ job.to \in Seq(Int)
    BY TextAssumption
  <2>2. job.to = <<>> \/ job.to[1] \in Int
    <3>1. job.to # <<>> => Len(job.to) \in Nat \ {0}
      BY <2>1, EmptySeq
    <3>2. Len(job.to) \in Nat \ {0} => 1 \in 1..Len(job.to)
      OBVIOUS
    <3>3. 1 \in 1..Len(job.to) => job.to[1] \in Int
      BY <2>1, ElementOfSeq
    <3>. QED BY <3>1, <3>2, <3>3
  <2>. QED BY <2>1, <2>2
<1>2. n \in Nat /\ n < MaxBlock
  BY <1>1, TextIs DEF Held
<1>3. MaxBlock \in Nat /\ Word \in Nat \ {0} /\ 2 * MaxBlock < Word
  BY Sizes
<1>4. /\ \/ size = Word - 1 /\ pc' = "overrun" /\ UNCHANGED text
         \/ size \in MaxBlock..(Word - 2) /\ pc' = "null" /\ UNCHANGED text
         \/ /\ size < MaxBlock
            /\ IF size > 0 /\ (from < 0 \/ from + size > n + 1)
               THEN pc' = "overread" /\ UNCHANGED text
               ELSE pc' = "done" /\ text' = Copied(job.text, from, size)
  BY Zenon DEF Substr
<1>5. from = MeantFrom
  BY <1>1, <1>2 DEF FromEnd, MeantFrom
<1>6. to = MeantTo
  BY <1>1, <1>2 DEF FromEnd, MeantTo
<1>7. from \in Int /\ to \in Int
  BY <1>1, <1>2 DEF FromEnd
<1>8. size = (to - from) % Word
  OBVIOUS
<1>. HIDE DEF from, to, size
<1>9. 0 <= from /\ from <= to /\ to <= n
  BY <1>5, <1>6 DEF InOrder
<1>. HIDE DEF n
<1>10. to - from \in 0..(Word - 1) /\ to - from < MaxBlock /\ from \in Nat /\ to - from \in Nat
  BY <1>2, <1>3, <1>7, <1>9
<1>11. size = to - from
  BY <1>3, <1>8, <1>10, ModSmall
<1>12. /\ size < MaxBlock /\ size # Word - 1 /\ size \notin MaxBlock..(Word - 2)
       /\ ~(size > 0 /\ (from < 0 \/ from + size > n + 1))
       /\ from + size = to /\ size \in Nat
  BY <1>2, <1>3, <1>7, <1>9, <1>10, <1>11
<1>13. pc' = "done" /\ text' = Copied(job.text, from, size)
  BY <1>4, <1>12, Zenon
<1>14. Copied(job.text, from, size) = SubSeq(job.text, from + 1, from + size)
  <2>1. from + size <= Len(job.text)
    BY <1>9, <1>12 DEF n
  <2>. QED BY <1>1, <1>10, <1>12, <2>1, CopiedIs
<1>. QED BY <1>5, <1>6, <1>12, <1>13, <1>14

(* No separator in front of the first byte 0 of a piece.                   *)
Whole(p, sep) ==
  \A k \in 0..(Len(UpToZero(p)) - Len(sep)) : SubSeq(p, k + 1, k + Len(sep)) # sep

(* The pieces, with the separators between them, are what the text begins  *)
(* with: up to the separator the last one ended at, or all of it.          *)
Splitting ==
  /\ i \in Nat /\ pieces \in Seq(Texts)
  /\ job.sep = <<>> => i = 0 /\ (job.text = <<>> => pieces = <<>>)
  /\ job.sep # <<>> =>
       /\ Len(pieces) <= i
       /\ \/ pieces = <<>> /\ i = 0
          \/ /\ pieces # <<>> /\ i <= Len(job.text)
             /\ Between(pieces, job.sep) \o job.sep = SubSeq(job.text, 1, i)
          \/ /\ pieces # <<>> /\ i = Len(job.text) + Len(job.sep)
             /\ Between(pieces, job.sep) = job.text
       /\ \A p \in 1..Len(pieces) : Whole(pieces[p], job.sep)

Answered ==
  \/ pc = "done" /\ MeantCut
  \/ job.op = "trim" /\ job.text = <<>> /\ text = <<Zero>>
  \/ job.op = "split" /\ job.sep = <<>> /\ pc = "null" /\ job.text # <<>>
  \/ job.op = "substr" /\ ~InOrder

Cut ==
  /\ pc \in {"cut", "done", "null", "overrun", "overread"}
  /\ pc = "cut" /\ job.op = "split" => Splitting
  /\ pc # "cut" => Answered

LEMMA TrimCut ==
  ASSUME Trim, job \in Jobs
  PROVE  Cut'
<1>1. job.op = "trim" /\ text' = Trimmed(job.text) /\ pc' = "done" /\ job' = job
  BY DEF Trim
<1>2. job.text \in Texts
  BY TextAssumption
<1>3. IF job.text = <<>> THEN text' = <<Zero>> ELSE Strips(job.text, text')
  BY <1>1, <1>2, TrimmedIs, Zenon
<1>4. Strips(job.text, text') => MeantCut'
  BY <1>1 DEF Strips, MeantCut
<1>. QED BY <1>1, <1>3, <1>4 DEF Cut, Answered

LEMMA SubstrCut ==
  ASSUME Substr, job \in Jobs, Held(job)
  PROVE  Cut'
<1>1. job.op = "substr" /\ job' = job /\ pc' \in {"overrun", "null", "overread", "done"}
  BY DEF Substr
<1>2. InOrder' <=> InOrder
  BY <1>1 DEF InOrder, MeantFrom, MeantTo
<1>3. CASE ~InOrder
  BY <1>1, <1>2, <1>3 DEF Cut, Answered
<1>4. CASE InOrder
  <2>1. pc' = "done" /\ text' = SubSeq(job.text, MeantFrom + 1, MeantTo)
    BY <1>4, SubstrMeant
  <2>2. MeantFrom' = MeantFrom /\ MeantTo' = MeantTo
    BY <1>1 DEF MeantFrom, MeantTo
  <2>3. text' = SubSeq(job'.text, MeantFrom' + 1, MeantTo')
    BY <1>1, <2>1, <2>2
  <2>4. MeantCut'
    BY <1>1, <1>2, <1>4, <2>3 DEF MeantCut
  <2>. QED BY <1>1, <2>1, <2>4 DEF Cut, Answered
<1>. QED BY <1>3, <1>4

(* The next separator is at x, or there is none and x is the end.          *)
Nearest(s, sep, k, x) ==
  /\ x \in k..Len(s)
  /\ x = Len(s) \/ (x + Len(sep) <= Len(s) /\ Copied(s, x, Len(sep)) = sep)
  /\ \A y \in k..(Len(s) - Len(sep)) :
       Copied(s, y, Len(sep)) = sep /\ (\A z \in (k + 1)..y : s[z] # Zero) => x <= y

LEMMA NextIs ==
  ASSUME NEW s \in Texts, NEW sep \in Texts, sep # <<>>,
         NEW k \in Nat, k <= Len(s),
         NEW x, x = NextOf(s, sep, k)
  PROVE  Nearest(s, sep, k, x)
<1>. DEFINE n == Len(s)
            m == Len(sep)
            S == { y \in k..(n - m) :
                     Copied(s, y, m) = sep /\ \A z \in (k + 1)..y : s[z] # Zero } \cup {n}
<1>1. n \in Nat /\ m \in Nat
  BY TextIs
<1>2. x = Min(S)
  BY DEF NextOf
<1>. HIDE DEF n, m
<1>3. S \subseteq k..n /\ S \subseteq Nat /\ n \in S
  BY <1>1 DEF n
<1>4. x \in S /\ \A y \in S : x <= y
  <2>. HIDE DEF S
  <2>1. S # {}
    BY <1>3
  <2>. QED BY <1>2, <1>3, <2>1, LeastIs, Zenon
<1>5. x \in k..n
  BY <1>3, <1>4
<1>6. x = n \/ (x + m <= n /\ Copied(s, x, m) = sep)
  <2>1. x # n => x \in k..(n - m) /\ Copied(s, x, m) = sep
    BY <1>4
  <2>. QED BY <1>1, <1>5, <2>1
<1>7. \A y \in k..(n - m) :
        Copied(s, y, m) = sep /\ (\A z \in (k + 1)..y : s[z] # Zero) => x <= y
  BY <1>4
<1>. QED BY <1>5, <1>6, <1>7 DEF Nearest, n, m

(* A part of a part is a part of the whole.                                *)
LEMMA PartOfPart ==
  ASSUME NEW s \in Texts, NEW a \in Nat, NEW b \in Nat, b <= Len(s),
         NEW k \in Nat, NEW m \in Nat \ {0}, k + m <= b - a
  PROVE  SubSeq(SubSeq(s, a + 1, b), k + 1, k + m) = SubSeq(s, (a + k) + 1, (a + k) + m)
<1>1. PICK c \in Nat : c = a + k
  OBVIOUS
<1>. DEFINE t == SubSeq(s, a + 1, b)
            u == SubSeq(t, k + 1, k + m)
            v == SubSeq(s, c + 1, c + m)
<1>2. /\ a <= b /\ b - a \in Nat /\ k <= k + m /\ k + m \in Nat /\ (k + m) - k = m
      /\ c + m \in Nat /\ c <= c + m /\ c + m <= Len(s) /\ (c + m) - c = m
  BY <1>1, TextIs
<1>3. t \in Texts /\ Len(t) = b - a /\ \A x \in 1..(b - a) : t[x] = s[a + x]
  BY <1>2, PartOf
<1>. HIDE DEF t
<1>4. u \in Texts /\ Len(u) = m /\ \A x \in 1..m : u[x] = t[k + x]
  BY <1>2, <1>3, PartOf
<1>5. v \in Texts /\ Len(v) = m /\ \A x \in 1..m : v[x] = s[c + x]
  BY <1>2, PartOf
<1>. HIDE DEF u, v
<1>6. ASSUME NEW x \in 1..m PROVE u[x] = v[x]
  <2>1. k + x \in 1..(b - a) /\ a + (k + x) = c + x
    BY <1>1, <1>2
  <2>. QED BY <1>3, <1>4, <1>5, <2>1
<1>7. u = v
  BY <1>4, <1>5, <1>6, SeqEqual DEF Texts
<1>. QED BY <1>1, <1>7 DEF u, v, t

(* A piece goes up to the next separator, or to the end.                   *)
LEMMA SplitCut ==
  ASSUME Split, job \in Jobs, Held(job), Cut
  PROVE  Cut'
<1>. DEFINE s == job.text
            sep == job.sep
            n == Len(s)
            m == Len(sep)
<1>1. /\ pc = "cut" /\ job.op = "split" /\ job' = job /\ text' = text
  BY DEF Split
<1>2. IF i >= n THEN pc' = "done" /\ UNCHANGED <<i, pieces>>
      ELSE IF Len(pieces) = MaxPieces THEN pc' = "null" /\ UNCHANGED <<i, pieces>>
      ELSE LET piece == Copied(s, i, NextOf(s, sep, i) - i)
           IN /\ pieces' = Append(pieces, piece)
              /\ i' = Behind(i, piece, sep)
              /\ UNCHANGED pc
  BY Zenon DEF Split
<1>3. Splitting
  BY <1>1 DEF Cut
<1>4. /\ s \in Texts /\ sep \in Texts /\ n \in Nat /\ m \in Nat
      /\ (n = 0 <=> s = <<>>) /\ (m = 0 <=> sep = <<>>) /\ SubSeq(s, 1, n) = s
  <2>1. s \in Texts /\ sep \in Texts
    BY TextAssumption
  <2>. QED BY <2>1, TextIs
<1>5. i \in Nat /\ pieces \in Seq(Texts) /\ MaxPieces \in Nat /\ n <= MaxPieces /\ Len(pieces) \in Nat
  <2>1. i \in Nat /\ pieces \in Seq(Texts)
    BY <1>3 DEF Splitting
  <2>2. MaxPieces \in Nat
    BY TextAssumption
  <2>3. n <= MaxPieces
    BY Zenon DEF Held
  <2>4. Len(pieces) \in Nat
    BY <2>1, LenProperties
  <2>. QED BY <2>1, <2>2, <2>3, <2>4
<1>. HIDE DEF n, m
<1>6. CASE i >= n
  <2>1. pc' = "done" /\ i' = i /\ pieces' = pieces
    BY <1>2, <1>6
  <2>2. Between(<<>>, sep) = <<>>
    <3>1. <<>> \in Seq(Texts)
      OBVIOUS
    <3>. QED BY <1>4, <3>1, OneMore
  <2>3. CASE sep = <<>>
    <3>1. i = 0
      BY <1>3, <2>3 DEF Splitting
    <3>2. s = <<>>
      BY <1>4, <1>6, <3>1
    <3>3. pieces = <<>>
      BY <1>3, <2>3, <3>2 DEF Splitting
    <3>4. Between(pieces', job'.sep) = job'.text /\ Len(pieces') = 0
      BY <1>1, <2>1, <2>2, <3>2, <3>3
    <3>5. MeantCut'
      BY <1>1, <3>4 DEF MeantCut
    <3>. QED BY <2>1, <3>5 DEF Cut, Answered
  <2>4. CASE sep # <<>>
    <3>. DEFINE again == Between(pieces, sep)
    <3>1. again = s \/ again \o sep = s
      <4>1. CASE pieces = <<>> /\ i = 0
        <5>1. s = <<>>
          BY <1>4, <1>6, <4>1
        <5>. QED BY <2>2, <4>1, <5>1
      <4>2. CASE i <= n /\ again \o sep = SubSeq(s, 1, i)
        <5>1. i = n
          BY <1>4, <1>5, <1>6, <4>2
        <5>. QED BY <1>4, <4>2, <5>1
      <4>3. CASE again = s
        BY <4>3
      <4>. QED BY <1>3, <2>4, <4>1, <4>2, <4>3 DEF Splitting, n, m
    <3>2. \A p \in 1..Len(pieces) : Whole(pieces[p], sep)
      BY <1>3, <2>4 DEF Splitting
    <3>3. MeantCut'
      <4>1. LET more == Between(pieces', job'.sep)
            IN /\ more = job'.text \/ more \o job'.sep = job'.text
               /\ \A p \in 1..Len(pieces') : Whole(pieces'[p], job'.sep)
        BY <1>1, <2>1, <3>1, <3>2
      <4>. QED BY <1>1, <4>1 DEF MeantCut, Whole
    <3>. QED BY <2>1, <3>3 DEF Cut, Answered
  <2>. QED BY <2>3, <2>4
<1>7. CASE ~(i >= n) /\ Len(pieces) = MaxPieces
  <2>1. pc' = "null"
    BY <1>2, <1>7
  <2>2. sep = <<>>
    <3>1. SUFFICES ASSUME sep # <<>> PROVE FALSE
      OBVIOUS
    <3>2. Len(pieces) <= i
      BY <1>3, <3>1 DEF Splitting
    <3>. QED BY <1>4, <1>5, <1>7, <3>2
  <2>3. s # <<>>
    BY <1>4, <1>5, <1>7
  <2>. QED BY <1>1, <2>1, <2>2, <2>3 DEF Cut, Answered
<1>8. CASE ~(i >= n) /\ Len(pieces) # MaxPieces
  <2>. DEFINE x == NextOf(s, sep, i)
              piece == Copied(s, i, x - i)
  <2>1. pieces' = Append(pieces, piece) /\ i' = i + Len(piece) + m /\ pc' = "cut"
    BY <1>1, <1>2, <1>8 DEF Behind, m
  <2>2. CASE sep = <<>>
    <3>1. i = 0
      BY <1>3, <2>2 DEF Splitting
    <3>. HIDE DEF x
    <3>2. x = 0
      <4>. DEFINE S == { y \in i..(n - m) :
                           Copied(s, y, m) = sep /\ \A z \in (i + 1)..y : s[z] # Zero } \cup {n}
      <4>1. x = Min(S)
        BY DEF NextOf, x, n, m
      <4>2. S \subseteq Nat
        <5>1. S \subseteq (i..(n - m)) \cup {n}
          OBVIOUS
        <5>2. (i..(n - m)) \cup {n} \subseteq Nat
          BY <1>4, <1>5
        <5>. HIDE DEF S
        <5>. QED BY <5>1, <5>2
      <4>3. 0 \in S
        <5>1. 0 \in i..(n - m) /\ \A z \in (i + 1)..0 : FALSE
          BY <1>4, <2>2, <3>1
        <5>2. Copied(s, 0, m) = sep
          <6>1. m = 0
            BY <1>4, <2>2
          <6>2. Copied(s, 0, 0) = SubSeq(s, 1, 0)
            BY <1>4, CopiedIs DEF n
          <6>3. SubSeq(s, 1, 0) = <<>>
            BY SubSeqEmpty
          <6>. QED BY <2>2, <6>1, <6>2, <6>3
        <5>. QED BY <5>1, <5>2
      <4>4. x \in S /\ \A y \in S : x <= y
        <5>. HIDE DEF S
        <5>1. S # {}
          BY <4>3
        <5>. QED BY <4>1, <4>2, <5>1, LeastIs, Zenon
      <4>5. x \in Nat /\ x <= 0
        <5>. HIDE DEF S
        <5>. QED BY <4>2, <4>3, <4>4
      <4>. QED BY <4>5
    <3>3. piece = <<>>
      <4>1. x - i = 0 /\ 0 + 0 <= n
        BY <1>4, <3>1, <3>2
      <4>2. Copied(s, 0, 0) = SubSeq(s, 1, 0)
        BY <1>4, CopiedIs DEF n
      <4>3. SubSeq(s, 1, 0) = <<>>
        BY SubSeqEmpty
      <4>. QED BY <3>1, <4>1, <4>2, <4>3
    <3>. HIDE DEF piece
    <3>4. piece \in Texts /\ Len(piece) = 0
      BY <3>3, Signs
    <3>5. i' = 0 /\ pieces' \in Seq(Texts) /\ s # <<>>
      <4>1. s # <<>>
        BY <1>4, <1>5, <1>8
      <4>2. i' = 0
        BY <1>4, <2>1, <2>2, <3>1, <3>4
      <4>3. pieces' \in Seq(Texts)
        BY <1>5, <2>1, <3>4, AppendProperties
      <4>. QED BY <4>1, <4>2, <4>3
    <3>6. Splitting'
      BY <1>1, <2>2, <3>5 DEF Splitting
    <3>. QED BY <2>1, <3>6 DEF Cut
  <2>3. CASE sep # <<>>
    <3>. HIDE DEF x
    <3>1. i <= n
      BY <1>4, <1>5, <1>8
    <3>2. /\ x \in i..n
          /\ x = n \/ (x + m <= n /\ Copied(s, x, m) = sep)
          /\ \A y \in i..(n - m) :
               Copied(s, y, m) = sep /\ (\A z \in (i + 1)..y : s[z] # Zero) => x <= y
      <4>1. ASSUME NEW w, w = NextOf(s, sep, i)
            PROVE  /\ w \in i..n
                   /\ w = n \/ (w + m <= n /\ Copied(s, w, m) = sep)
                   /\ \A y \in i..(n - m) :
                        Copied(s, y, m) = sep /\ (\A z \in (i + 1)..y : s[z] # Zero) => w <= y
        <5>1. s \in Texts /\ sep \in Texts
          BY <1>4
        <5>2. i \in Nat /\ i <= Len(s)
          BY <1>4, <1>5, <3>1 DEF n
        <5>3. Nearest(s, sep, i, w)
          BY <2>3, <4>1, <5>1, <5>2, NextIs, Zenon
        <5>. QED BY <5>3, Zenon DEF Nearest, n, m
      <4>. QED BY <4>1, Zenon DEF x
    <3>3. /\ x \in Nat /\ i <= x /\ x <= n /\ x - i \in Nat /\ i + (x - i) = x
      BY <1>4, <1>5, <3>2
    <3>4. piece = SubSeq(s, i + 1, x)
      <4>1. i + (x - i) <= n
        BY <3>3
      <4>2. Copied(s, i, x - i) = SubSeq(s, i + 1, i + (x - i))
        BY <1>4, <1>5, <3>3, <4>1, CopiedIs DEF n
      <4>. QED BY <3>3, <4>2
    <3>. HIDE DEF piece
    <3>5. /\ piece \in Texts /\ Len(piece) = x - i
          /\ \A w \in 1..(x - i) : piece[w] = s[i + w]
      BY <1>4, <1>5, <3>3, <3>4, PartOf DEF n
    <3>6. i' = x + m /\ m >= 1
      BY <1>4, <1>5, <2>1, <2>3, <3>3, <3>5
    <3>7. /\ pieces' \in Seq(Texts) /\ Len(pieces') = Len(pieces) + 1 /\ pieces' # <<>>
          /\ \A p \in 1..Len(pieces) : pieces'[p] = pieces[p]
          /\ pieces'[Len(pieces) + 1] = piece
      BY <1>5, <2>1, <3>5, AppendProperties
    <3>8. Between(pieces', sep) = SubSeq(s, 1, x)
      <4>1. Between(pieces', sep) = IF pieces = <<>> THEN piece
                                    ELSE Between(pieces, sep) \o sep \o piece
        <5>1. pieces' = Append(pieces, piece)
          BY <2>1
        <5>2. sep \in Texts /\ pieces \in Seq(Texts) /\ piece \in Texts
          BY <1>4, <1>5, <3>5
        <5>. HIDE DEF sep
        <5>. QED BY <5>1, <5>2, OneMore, Zenon
      <4>2. CASE pieces = <<>> /\ i = 0
        BY <3>4, <4>1, <4>2
      <4>3. CASE pieces # <<>> /\ Between(pieces, sep) \o sep = SubSeq(s, 1, i)
        <5>1. SubSeq(s, 1, i) \o SubSeq(s, i + 1, x) = SubSeq(s, 1, x)
          <6>1. s \in Seq(Chars) /\ 1 \in 1..(n + 1) /\ i \in (1 - 1)..n /\ x \in i..n
            BY <1>4, <1>5, <3>1, <3>2 DEF Texts
          <6>. QED BY <6>1, ConcatAdjacentSubSeq DEF n
        <5>. QED BY <3>4, <4>1, <4>3, <5>1, Zenon
      <4>4. i # n + m
        BY <1>4, <1>5, <1>8
      <4>. QED BY <1>3, <2>3, <4>2, <4>3, <4>4 DEF Splitting, n, m
    <3>9. \/ /\ i' <= n /\ Between(pieces', sep) \o sep = SubSeq(s, 1, i')
          \/ i' = n + m /\ Between(pieces', sep) = s
      <4>1. CASE x = n
        BY <1>4, <3>6, <3>8, <4>1
      <4>2. CASE x + m <= n /\ Copied(s, x, m) = sep
        <5>1. sep = SubSeq(s, x + 1, x + m)
          BY <1>4, <3>3, <4>2, CopiedIs DEF n
        <5>2. SubSeq(s, 1, x) \o SubSeq(s, x + 1, x + m) = SubSeq(s, 1, x + m)
          <6>1. s \in Seq(Chars) /\ 1 \in 1..(n + 1) /\ x \in (1 - 1)..n /\ x + m \in x..n
            BY <1>4, <3>3, <4>2 DEF Texts
          <6>. QED BY <6>1, ConcatAdjacentSubSeq DEF n
        <5>. QED BY <3>6, <3>8, <4>2, <5>1, <5>2
      <4>. QED BY <3>2, <4>1, <4>2
    <3>10. Whole(piece, sep)
      <4>1. SUFFICES ASSUME NEW k \in 0..(Len(UpToZero(piece)) - m),
                            SubSeq(piece, k + 1, k + m) = sep
                     PROVE  FALSE
        BY Zenon DEF Whole, m
      <4>. DEFINE z == Len(UpToZero(piece))
                  y == i + k
      <4>2. z <= Len(piece) /\ z \in Nat /\ \A w \in 1..z : piece[w] # Zero
        <5>1. UpToZero(piece) \in Texts
          BY <3>5, UpToZeroFits
        <5>. QED BY <5>1, <3>5, UpToZeroFits, NoZeroBefore, TextIs
      <4>3. k \in 0..(z - m)
        OBVIOUS
      <4>. HIDE DEF z
      <4>4. /\ k \in Nat /\ k + m <= x - i /\ k + m <= z /\ k < z /\ y \in i..(n - m)
            /\ y \in Nat /\ y + m <= n /\ ~(x <= y)
        BY <1>4, <1>5, <3>3, <3>5, <3>6, <4>2, <4>3
      <4>5. Copied(s, y, m) = sep
        <5>1. Copied(s, y, m) = SubSeq(s, y + 1, y + m)
          BY <1>4, <4>4, CopiedIs DEF n
        <5>2. SubSeq(SubSeq(s, i + 1, x), k + 1, k + m) = SubSeq(s, y + 1, y + m)
          <6>1. /\ s \in Texts /\ x <= Len(s) /\ m \in Nat \ {0} /\ k + m <= x - i
                /\ i \in Nat /\ x \in Nat /\ k \in Nat
            BY <1>4, <1>5, <3>3, <3>6, <4>4 DEF n
          <6>. QED BY <6>1, PartOfPart
        <5>. QED BY <3>4, <4>1, <5>1, <5>2
      <4>6. \A w \in (i + 1)..y : s[w] # Zero
        <5>1. SUFFICES ASSUME NEW w \in (i + 1)..y PROVE s[w] # Zero
          OBVIOUS
        <5>2. w - i \in 1..(x - i) /\ w - i \in 1..z /\ i + (w - i) = w
          BY <1>4, <1>5, <3>3, <4>2, <4>4, <5>1
        <5>3. piece[w - i] = s[w] /\ piece[w - i] # Zero
          BY <3>5, <4>2, <5>2
        <5>. QED BY <5>3
      <4>. HIDE DEF y
      <4>. QED BY <3>2, <4>4, <4>5, <4>6
    <3>11. \A p \in 1..Len(pieces') : Whole(pieces'[p], sep)
      <4>1. SUFFICES ASSUME NEW p \in 1..Len(pieces') PROVE Whole(pieces'[p], sep)
        OBVIOUS
      <4>2. CASE p = Len(pieces) + 1
        BY <3>7, <3>10, <4>2
      <4>3. CASE p # Len(pieces) + 1
        <5>1. p \in 1..Len(pieces)
          BY <1>5, <3>7, <4>3
        <5>2. pieces'[p] = pieces[p]
          BY <3>7, <5>1
        <5>. QED BY <1>3, <2>3, <5>1, <5>2 DEF Splitting
      <4>. QED BY <4>2, <4>3
    <3>12. Len(pieces') <= i' /\ i' \in Nat
      <4>1. Len(pieces) <= i
        BY <1>3, <2>3 DEF Splitting
      <4>. QED BY <1>4, <1>5, <3>3, <3>6, <3>7, <4>1
    <3>13. Splitting'
      BY <1>1, <2>3, <3>7, <3>9, <3>11, <3>12 DEF Splitting, n, m
    <3>. QED BY <2>1, <3>13 DEF Cut
  <2>. QED BY <2>2, <2>3
<1>. QED BY <1>6, <1>7, <1>8

-----------------------------------------------------------------------------
(* Answers are meant.                                                      *)

Answering == job \in Jobs /\ (job.op \in Making => Made) /\ (job.op \in Cutting => Cut)

LEMMA OpIs ==
  ASSUME NEW j \in Jobs
  PROVE  /\ j.op \in Making \/ j.op \in Cutting
         /\ j.op \in Making => j.op \notin Cutting
<1>1. j.op \in Making \cup Cutting
  BY JobTyped
<1>. QED BY <1>1 DEF Making, Cutting

LEMMA InitAnswering ==
  ASSUME Init
  PROVE  Answering
<1>1. job \in Jobs /\ pc = (IF job.op \in Making THEN "measure" ELSE "cut")
      /\ i = (IF job.op \in Making THEN 1 ELSE 0) /\ pieces = <<>>
  BY DEF Init
<1>2. CASE job.op \in Making
  BY <1>1, <1>2, OpIs DEF Answering, Made
<1>3. CASE job.op \notin Making
  <2>1. pc = "cut" /\ i = 0
    BY <1>1, <1>3
  <2>2. <<>> \in Seq(Texts) /\ Len(<<>>) = 0
    OBVIOUS
  <2>3. Splitting
    BY <1>1, <2>1, <2>2 DEF Splitting
  <2>4. Cut
    BY <2>1, <2>3 DEF Cut
  <2>. QED BY <1>1, <1>3, <2>4 DEF Answering
<1>. QED BY <1>2, <1>3

(* Every step goes on with what is meant.                                  *)
LEMMA NextAnswering ==
  ASSUME Answering, [Next]_vars, \A j \in Jobs : Held(j)
  PROVE  Answering'
<1>1. /\ job \in Jobs /\ Held(job)
      /\ job.op \in Making => Made
      /\ job.op \in Cutting => Cut
      /\ job.op \in Making => job.op \notin Cutting
  BY OpIs DEF Answering
<1>2. job' = job
  BY DEF Next, Measure, One, Allocate, Write, Finish, Trim, Substr, Split, vars
<1>3. CASE job.op \in Making
  <2>1. pc # "cut"
    BY <1>1, <1>3 DEF Made
  <2>2. Made'
    <3>1. CASE Measure
      BY <1>1, <1>3, <3>1, MeasureMade
    <3>2. CASE One
      BY <1>1, <1>3, <3>2, OneMade
    <3>3. CASE Allocate
      BY <1>1, <1>3, <3>3, AllocateMade
    <3>4. CASE Write
      BY <1>1, <1>3, <3>4, WriteMade
    <3>5. CASE Finish
      BY <1>1, <1>3, <3>5, FinishMade
    <3>6. CASE Trim \/ Substr \/ Split
      BY <2>1, <3>6 DEF Trim, Substr, Split
    <3>7. CASE UNCHANGED vars
      <4>1. UNCHANGED <<job, pc, i, text>>
        BY <3>7 DEF vars
      <4>2. Open' = Open /\ MeantText' = MeantText /\ Single' = Single
        BY <4>1 DEF Open, MeantText, Single
      <4>. QED BY <1>1, <1>3, <4>1, <4>2 DEF Made
    <3>. QED BY <3>1, <3>2, <3>3, <3>4, <3>5, <3>6, <3>7 DEF Next
  <2>. QED BY <1>1, <1>2, <1>3, <2>2 DEF Answering
<1>4. CASE job.op \in Cutting
  <2>1. pc \notin {"measure", "write"}
    BY <1>1, <1>4 DEF Cut
  <2>2. Cut'
    <3>1. CASE Measure \/ One \/ Allocate \/ Write \/ Finish
      BY <2>1, <3>1 DEF Measure, One, Allocate, Write, Finish
    <3>2. CASE Trim
      BY <1>1, <3>2, TrimCut
    <3>3. CASE Substr
      BY <1>1, <3>3, SubstrCut
    <3>4. CASE Split
      BY <1>1, <1>4, <3>4, SplitCut
    <3>5. CASE UNCHANGED vars
      <4>1. UNCHANGED <<job, pc, i, text, pieces>>
        BY <3>5 DEF vars
      <4>2. MeantCut' = MeantCut /\ InOrder' = InOrder
        BY <4>1 DEF MeantCut, InOrder, MeantFrom, MeantTo
      <4>3. Splitting' = Splitting
        BY <4>1 DEF Splitting
      <4>. QED BY <1>1, <1>4, <4>1, <4>2, <4>3 DEF Cut, Answered
    <3>. QED BY <3>1, <3>2, <3>3, <3>4, <3>5 DEF Next
  <2>. QED BY <1>1, <1>2, <1>4, <2>2 DEF Answering
<1>. QED BY <1>1, <1>3, <1>4, OpIs

(* For any calls on texts that are in memory: what array and hash str,     *)
(* join and str make is the items with their quotes and separators, and    *)
(* what trim, substr and split cut is what they promise, but for the       *)
(* exceptions the property names.                                          *)
THEOREM AnswersAreMeant ==
  ASSUME \A j \in Jobs : Held(j)
  PROVE  Spec => []AnswerIsMeant
<1>1. Init => Answering
  BY InitAnswering
<1>2. Answering /\ [Next]_vars => Answering'
  BY NextAnswering
<1>3. Answering => AnswerIsMeant
  <2>1. SUFFICES ASSUME Answering PROVE AnswerIsMeant
    OBVIOUS
  <2>2. pc = "done" /\ job.op \in Making =>
          text = IF Single /\ ~job.items[1].quoted THEN UpToZero(MeantText) ELSE MeantText
    BY <2>1 DEF Answering, Made
  <2>3. job.op \in Cutting /\ pc \in {"done", "null", "overrun", "overread"} => Answered
    BY <2>1 DEF Answering, Cut
  <2>. QED BY <2>2, <2>3 DEF AnswerIsMeant, Answered
<1>. QED BY <1>1, <1>2, <1>3, PTL DEF Spec
=============================================================================
