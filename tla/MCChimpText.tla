----------------------------- MODULE MCChimpText -----------------------------
(* An instance of ChimpText for TLC: items of up to two characters, one of *)
(* them with a byte 0 in it, in arrays of up to three and hashes of up to  *)
(* two entries, and one array longer than the block its texts are          *)
(* collected in; strings of up to five characters are cut, and split also  *)
(* where there are bytes 0 in up to four of them.                          *)
EXTENDS ChimpText

Job(op, items, s, sep, from, to) ==
  [op |-> op, items |-> items, text |-> s, sep |-> sep, from |-> from, to |-> to]

Of(op, items, sep) == Job(op, items, <<>>, sep, 0, <<>>)
Cut(op, s, sep, from, to) == Job(op, <<>>, s, sep, from, to)

UpTo(n, S) == UNION { [1..k -> S] : k \in 0..n }

MCChars == {"a", "b", "c", "1", "[", "]", "{", "}", ":", ",", " ", "\"", Zero}

Item(s, quoted) == [text |-> s, quoted |-> quoted]
Items == { Item(<<>>, TRUE), Item(<<"a">>, TRUE), Item(<<"a", Zero>>, TRUE),
           Item(<<"1">>, FALSE), Item(<<"[", Zero, "]">>, FALSE) }
Seps == { <<>>, <<",">>, <<",", " ">> }

MCJobs ==
  { Of("array", s, <<>>) : s \in UpTo(3, Items) }
  \cup { Of("array", [k \in 1..12 |-> Item(<<"a">>, TRUE)], <<>>) }
  \cup { Of("hash", s, <<>>) : s \in { t \in UpTo(4, Items) : Len(t) % 2 = 0 } }
  \cup { Of("join", s, sep) : s \in UpTo(3, Items), sep \in Seps }
  \cup { Of("str", s, <<>>) : s \in UpTo(3, Items) }
  \cup { Cut("trim", s, <<>>, 0, <<>>) : s \in UpTo(5, {"a", " "}) }
  \cup { Cut("substr", s, <<>>, from, to) :
           s \in { SubSeq(<<"a", "b", "c">>, 1, n) : n \in 0..3 }, from \in -5..5,
           to \in { <<>> } \cup { <<k>> : k \in -5..5 } }
  \cup { Cut("split", s, sep, 0, <<>>) : s \in UpTo(5, {"a", ","}) \cup UpTo(4, {"a", ",", Zero}),
           sep \in { <<>>, <<",">>, <<",", ",">>, <<"a", ",">> } }

Lengths(j) ==
  [k \in 0..Len(j.items) |->
     FoldLeft(LAMBDA sum, x : sum + Len(x.text) + IF j.op \in Brackets /\ x.quoted THEN 2 ELSE 0,
              0, SubSeq(j.items, 1, k))]

\* What ChimpTextProofs supposes of the calls.
ASSUME JobsFit == \A j \in MCJobs : Fits(j, Lengths(j)) /\ Held(j)
=============================================================================
