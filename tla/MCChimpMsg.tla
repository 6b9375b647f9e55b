------------------------------ MODULE MCChimpMsg ------------------------------
(* An instance of ChimpMsg for TLC.  The messages: each scalar, each array *)
(* of up to two of them, and arrays of up to three scalars and arrays.     *)
EXTENDS ChimpMsg

UpTo(n, S) == UNION { [1..k -> S] : k \in 0..n }
ArrayOf(s) == <<"array", s>>

Sent1 == { Nil, <<"int", 1>>, <<"str", 0, 1>>, <<"str", 2, 1>>, <<"method", "m">>, <<"module", "m">> }
           \cup { <<"task", t>> : t \in Tasks }
Refused == { <<"closure">>, <<"hash">> }
Nested == { ArrayOf(<<>>), ArrayOf(<<Nil>>), ArrayOf(<< <<"str", 2, 1>>, Nil>>),
            ArrayOf(<< ArrayOf(<< <<"task", "t">> >>) >>) }

MCMessages ==
  Sent1 \cup Refused \cup Nested \cup { ArrayOf(s) : s \in UpTo(2, Sent1 \cup Refused) }
    \cup { ArrayOf(s) : s \in UpTo(3, Nested \cup { Nil, <<"int", 1>>, <<"task", "t">> }) }

\* What an earlier message may have left in the memory of this one.
MCStale == { Nil, <<"str", 1, 2>>, <<"array", 2>>, <<"task", "u">> }
=============================================================================
