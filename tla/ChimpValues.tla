------------------------------ MODULE ChimpValues ------------------------------
(***************************************************************************)
(* The values of a program and what their classes do with them: comparison *)
(* (chimp_object_cmp in src/libchimp/object.c), items, attributes and      *)
(* arithmetic (array.c, hash.c, int.c and the chimp_num_ functions of      *)
(* core.c).                                                                *)
(*                                                                         *)
(* A value is a tuple whose first item is the name of its class.  A string *)
(* is a number (its identity and order matter, and it is not added to); a  *)
(* float does not occur; nothing is changed in place.  Two objects         *)
(* made apart may be equal tuples, so where the code compares addresses    *)
(* both outcomes are possible for them.                                    *)
(***************************************************************************)
EXTENDS Integers, Sequences

Nil == <<"nil">>
Unset == <<"unset">>            \* NULL: a variable nobody has assigned
Bool(b) == <<"bool", b>>
Number(n) == <<"int", n>>
Class(c) == <<"class", c>>
IsMethod(v) == v[1] \in {"method", "closure"}

\* CHIMP_ANY_CLASS: bound, native and bytecode methods have one class.
ClassOf(v) == Class(IF v[1] \in {"closure", "native"} THEN "method" ELSE v[1])

\* chimp_vm_truthy.
Truthy(v) == v # Nil /\ v # Bool(FALSE)

-----------------------------------------------------------------------------
(* chimp_object_cmp: the class of the left value compares, else that of    *)
(* the right.  Each operator is the set of the results there may be.       *)

Ordered == {"int", "str"}                    \* classes that order their values
Made == {"hash", "closure", "native"}        \* made at run time, without a cmp

CmpOrdered(l, r) ==
  IF l[1] \notin Ordered THEN "LT"
  ELSE IF l[1] # r[1] THEN "NOT_IMPL"
  ELSE IF l[2] < r[2] THEN "LT" ELSE IF l[2] > r[2] THEN "GT" ELSE "EQ"

CmpTasks(l, r) ==
  IF l[1] # r[1] THEN {"NOT_IMPL"}
  ELSE {"LT", "GT"} \union (IF l = r THEN {"EQ"} ELSE {})

CmpScalars(l, r) ==
  IF l[1] \in Ordered THEN {CmpOrdered(l, r)}
  ELSE IF l[1] = "task" THEN CmpTasks(l, r)
  ELSE IF r[1] \in Ordered THEN {CmpOrdered(l, r)}
  ELSE IF l # r THEN {"NOT_IMPL"}
  ELSE {"EQ"} \union (IF l[1] \in Made THEN {"NOT_IMPL"} ELSE {})

\* The first items that differ decide; items[i] is what comparing the i-th
\* items may give.
CmpArrays(items) ==
  LET n == Len(items)
  IN UNION { IF i > n THEN {"EQ"} ELSE items[i] \ {"EQ"} :
               i \in { j \in 1..(n + 1) : \A k \in 1..(j - 1) : "EQ" \in items[k] } }

\* An array casts whatever it is compared with to an array, and the cast of a
\* value of another class is a CHIMP_BUG.
CmpStray == {"BUG"}

CmpWith(l, r, items) ==
  IF l[1] = "array" /\ r[1] = "array"
  THEN IF Len(l[2]) # Len(r[2]) THEN {"NOT_IMPL"} ELSE CmpArrays(items)
  ELSE IF l[1] = "array" THEN CmpStray
  ELSE IF r[1] = "array" /\ l[1] \notin Ordered \union {"task"} THEN CmpStray
  ELSE CmpScalars(l, r)

\* Arrays nest at most three deep.
Paired(l, r) ==
  IF l[1] = "array" /\ r[1] = "array" /\ Len(l[2]) = Len(r[2]) THEN DOMAIN l[2] ELSE {}

CmpItems(l, r) == CmpWith(l, r, [i \in Paired(l, r) |-> CmpScalars(l[2][i], r[2][i])])
CmpInner(l, r) == CmpWith(l, r, [i \in Paired(l, r) |-> CmpItems(l[2][i], r[2][i])])
Cmp(l, r) == CmpWith(l, r, [i \in Paired(l, r) |-> CmpInner(l[2][i], r[2][i])])

-----------------------------------------------------------------------------
(* Items, attributes, arithmetic.                                          *)

\* chimp_hash_put: a key that is there gets the new value.
HashPut(pairs, k, v) ==
  IF \E i \in DOMAIN pairs : pairs[i][1] = k
  THEN [i \in DOMAIN pairs |-> IF pairs[i][1] = k THEN <<k, v>> ELSE pairs[i]]
  ELSE Append(pairs, <<k, v>>)

\* Array indices count from the end when negative; what is not there is nil.
ItemOf(v, key) ==
  IF v[1] = "array"
  THEN LET n == Len(v[2])
           i == IF key[2] < 0 THEN n + key[2] + 1 ELSE key[2] + 1
       IN IF i \in 1..n THEN v[2][i] ELSE Nil
  ELSE IF \E i \in DOMAIN v[2] : v[2][i][1] = key
       THEN LET i == CHOOSE j \in DOMAIN v[2] : v[2][j][1] = key IN v[2][i][2]
       ELSE Nil

HasItems(v, key) ==
  \/ v[1] = "hash"
  \/ v[1] = "array" /\ key[1] = "int"

HasAttr(v, name) ==
  \/ name = "size" /\ v[1] \in {"array", "hash"}
  \/ name = "send" /\ v[1] = "task"

\* C division rounds towards zero.
Quotient(a, b) ==
  LET q == (IF a < 0 THEN -a ELSE a) \div (IF b < 0 THEN -b ELSE b)
  IN IF (a < 0) # (b < 0) THEN -q ELSE q

\* chimp_num_add and its kind return NULL for what is no number.
Compute(op, l, r) ==
  IF op = "ADD" /\ l[1] = "array" THEN <<"array", l[2] \o r[2]>>
  ELSE IF r[1] # "int" THEN Unset
  ELSE Number(CASE op = "ADD" -> l[2] + r[2]
                [] op = "SUB" -> l[2] - r[2]
                [] op = "MUL" -> l[2] * r[2]
                [] op = "DIV" -> Quotient(l[2], r[2]))

Computes(op, l, r) ==
  \/ l[1] = "int"
  \/ l[1] = "array" /\ r[1] = "array" /\ op = "ADD"

=============================================================================
