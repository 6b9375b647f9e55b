---------------------------- MODULE ChimpMsgProofs ----------------------------
(***************************************************************************)
(* Proofs about ChimpMsg, for every set of messages, however nested, and   *)
(* every size of a cell.                                                   *)
(***************************************************************************)
EXTENDS ChimpMsg, FiniteSetTheorems, SequenceTheorems, WellFoundedInduction, TLAPS

-----------------------------------------------------------------------------
(* What is left of a message.                                              *)

LEMMA NatMin ==
  ASSUME NEW T, T \subseteq Nat, T # {}
  PROVE  \E m \in T : \A n \in T : m <= n
<1>. DEFINE R == {p \in Nat \X Nat : p[1] < p[2]}
<1>1. R = OpToRel(<, Nat)
  BY Zenon DEF OpToRel
<1>2. IsWellFoundedOn(R, Nat)
  BY <1>1, NatLessThanWellFounded, Zenon
<1>3. PICK m \in T : \A n \in T : <<n, m>> \notin R
  <2>. HIDE DEF R
  <2>. QED BY <1>2, WFMin, Zenon
<1>4. ASSUME NEW n \in T PROVE m <= n
  <2>1. m \in Nat /\ n \in Nat /\ <<n, m>> \in Nat \X Nat
    BY <1>3
  <2>2. ~(<<n, m>>[1] < <<n, m>>[2])
    BY <1>3, <2>1, Zenon
  <2>. QED BY <2>1, <2>2
<1>. QED BY <1>3, <1>4

(* A function can be applied again and again.                              *)
LEMMA Iterates ==
  \A S : \A x \in S : \A f \in [S -> S] :
    \E g \in [Nat -> S] : g[0] = x /\ \A k \in Nat : g[k + 1] = f[g[k]]
<1>. SUFFICES ASSUME NEW S, NEW x \in S, NEW f \in [S -> S]
     PROVE  \E g \in [Nat -> S] : g[0] = x /\ \A k \in Nat : g[k + 1] = f[g[k]]
  BY Zenon
<1>. DEFINE Begun(n) == {h \in [0..n -> S] : h[0] = x /\ \A k \in 0..(n - 1) : h[k + 1] = f[h[k]]}
<1>1. ASSUME NEW n \in Nat PROVE Begun(n) # {}
  <2>. DEFINE T == {k \in Nat : Begun(k) = {}}
  <2>1. SUFFICES ASSUME T # {} PROVE FALSE
    BY <1>1
  <2>2. PICK m \in T : \A k \in T : m <= k
    <3>. HIDE DEF T
    <3>1. T \subseteq Nat
      BY DEF T
    <3>. QED BY <2>1, <3>1, NatMin
  <2>3. [k \in 0..0 |-> x] \in Begun(0)
    OBVIOUS
  <2>4. m \in Nat /\ m # 0 /\ Begun(m) = {}
    BY <2>2, <2>3
  <2>5. PICK h : h \in Begun(m - 1)
    <3>1. m - 1 \in Nat /\ ~(m <= m - 1)
      BY <2>4
    <3>. QED BY <2>2, <3>1
  <2>. DEFINE e == [k \in 0..m |-> IF k = m THEN f[h[m - 1]] ELSE h[k]]
  <2>6. e \in Begun(m)
    <3>1. h \in [0..(m - 1) -> S] /\ h[0] = x /\ \A k \in 0..(m - 2) : h[k + 1] = f[h[k]]
      BY <2>4, <2>5
    <3>2. e \in [0..m -> S] /\ e[0] = x
      BY <3>1, <2>4
    <3>3. ASSUME NEW k \in 0..(m - 1) PROVE e[k + 1] = f[e[k]]
      BY <3>1, <3>3, <2>4
    <3>. HIDE DEF e
    <3>. QED BY <3>2, <3>3
  <2>. QED BY <2>4, <2>6
<1>2. ASSUME NEW n \in Nat, NEW m \in Nat, n <= m, NEW h \in Begun(n), NEW e \in Begun(m)
      PROVE  h[n] = e[n]
  <2>. DEFINE T == {k \in 0..n : h[k] # e[k]}
  <2>1. SUFFICES ASSUME T # {} PROVE FALSE
    BY <1>2
  <2>2. PICK k \in T : \A j \in T : k <= j
    <3>. HIDE DEF T
    <3>1. T \subseteq Nat
      BY DEF T
    <3>. QED BY <2>1, <3>1, NatMin
  <2>3. k \in 0..n /\ h[k] # e[k]
    BY <2>2
  <2>4. k # 0
    BY <2>3
  <2>5. h[k - 1] = e[k - 1]
    BY <2>2, <2>3, <2>4
  <2>6. h[(k - 1) + 1] = f[h[k - 1]] /\ e[(k - 1) + 1] = f[e[k - 1]]
    BY <2>3, <2>4, <1>2
  <2>. QED BY <2>3, <2>5, <2>6
<1>. DEFINE some == [n \in Nat |-> CHOOSE h \in Begun(n) : TRUE]
            g == [n \in Nat |-> some[n][n]]
<1>3. \A n \in Nat : some[n] \in Begun(n)
  <2>. HIDE DEF Begun
  <2>. QED BY <1>1
<1>4. ASSUME NEW n \in Nat PROVE some[n][n] \in S
  <2>1. some[n] \in Begun(n)
    BY <1>3
  <2>. HIDE DEF some
  <2>. QED BY <2>1
<1>5. some[0][0] = x
  <2>1. some[0] \in Begun(0)
    BY <1>3
  <2>. HIDE DEF some
  <2>. QED BY <2>1
<1>6. ASSUME NEW n \in Nat PROVE some[n + 1][n + 1] = f[some[n][n]]
  <2>1. some[n][n] = some[n + 1][n]
    <3>1. n + 1 \in Nat /\ n <= n + 1
      OBVIOUS
    <3>2. some[n] \in Begun(n) /\ some[n + 1] \in Begun(n + 1)
      <4>. HIDE DEF Begun, some
      <4>. QED BY <1>3, <3>1
    <3>. HIDE DEF Begun, some
    <3>. QED BY <3>1, <3>2, <1>2
  <2>2. some[n + 1] \in Begun(n + 1)
    <3>1. n + 1 \in Nat
      OBVIOUS
    <3>. HIDE DEF Begun, some
    <3>. QED BY <1>3, <3>1
  <2>3. n \in 0..((n + 1) - 1)
    OBVIOUS
  <2>. HIDE DEF some
  <2>. QED BY <2>1, <2>2, <2>3
<1>7. g \in [Nat -> S]
  <2>. HIDE DEF some
  <2>. QED BY <1>4
<1>8. g[0] = x /\ \A k \in Nat : g[k + 1] = f[g[k]]
  <2>. HIDE DEF some
  <2>. QED BY <1>5, <1>6
<1>. QED BY <1>7, <1>8

LEMMA AfterType ==
  ASSUME NEW s \in Seq(Messages)
  PROVE  After(s) \in Seq(Messages)
<1>1. CASE s = <<>>
  BY <1>1 DEF After
<1>2. CASE s # <<>>
  <2>1. Head(s) \in Messages /\ Tail(s) \in Seq(Messages)
    BY <1>2, HeadTailProperties
  <2>2. CASE Head(s)[1] = "array"
    <3>1. Head(s)[2] \in Seq(Messages)
      BY <2>1, <2>2, MsgAssumption
    <3>. QED BY <2>1, <2>2, <3>1, <1>2, ConcatProperties DEF After
  <2>. QED BY <2>1, <2>2, <1>2 DEF After
<1>. QED BY <1>1, <1>2

(* Left is what its definition says.                                       *)
LEMMA LeftIs ==
  ASSUME NEW v \in Messages
  PROVE  /\ Left(v) \in [Nat -> Seq(Messages)]
         /\ Left(v)[0] = <<v>>
         /\ \A k \in Nat : Left(v)[k + 1] = After(Left(v)[k])
<1>. DEFINE f == [s \in Seq(Messages) |-> After(s)]
            Eq(g) == g = [k \in Nat |-> IF k = 0 THEN <<v>> ELSE After(g[k - 1])]
<1>1. f \in [Seq(Messages) -> Seq(Messages)]
  BY AfterType
<1>2. <<v>> \in Seq(Messages)
  OBVIOUS
<1>3. PICK g \in [Nat -> Seq(Messages)] : g[0] = <<v>> /\ \A k \in Nat : g[k + 1] = f[g[k]]
  <2>. DEFINE S == Seq(Messages)
              x == <<v>>
  <2>1. f \in [S -> S] /\ x \in S
    BY <1>1, <1>2
  <2>. HIDE DEF f, S, x
  <2>2. \A y \in S : \A h \in [S -> S] :
          \E g \in [Nat -> S] : g[0] = y /\ \A k \in Nat : g[k + 1] = h[g[k]]
    BY Iterates
  <2>3. \A h \in [S -> S] :
          \E g \in [Nat -> S] : g[0] = x /\ \A k \in Nat : g[k + 1] = h[g[k]]
    BY <2>1, <2>2
  <2>4. \E g \in [Nat -> S] : g[0] = x /\ \A k \in Nat : g[k + 1] = f[g[k]]
    BY <2>1, <2>3
  <2>. QED BY <2>4 DEF S, x
<1>4. \A k \in Nat : g[k + 1] = After(g[k])
  BY <1>3
<1>5. Eq(g)
  <2>1. ASSUME NEW k \in Nat PROVE g[k] = IF k = 0 THEN <<v>> ELSE After(g[k - 1])
    <3>1. CASE k = 0
      BY <3>1, <1>3
    <3>2. CASE k # 0
      <4>1. k - 1 \in Nat /\ (k - 1) + 1 = k
        BY <3>2
      <4>. QED BY <4>1, <3>2, <1>4
    <3>. QED BY <3>1, <3>2
  <2>. QED BY <2>1, <1>3
<1>6. Left(v) = CHOOSE h : Eq(h)
  BY DEF Left
<1>7. Eq(Left(v))
  <2>. HIDE DEF Eq
  <2>. QED BY <1>5, <1>6
<1>. DEFINE l == Left(v)
<1>8. l = [k \in Nat |-> IF k = 0 THEN <<v>> ELSE After(l[k - 1])]
  BY <1>7
<1>. HIDE DEF l
<1>9. l[0] = <<v>> /\ \A k \in Nat : l[k + 1] = After(l[k])
  <2>1. l[0] = <<v>>
    BY <1>8
  <2>2. ASSUME NEW k \in Nat PROVE l[k + 1] = After(l[k])
    <3>1. k + 1 \in Nat /\ k + 1 # 0 /\ (k + 1) - 1 = k
      OBVIOUS
    <3>. QED BY <1>8, <3>1
  <2>. QED BY <2>1, <2>2
<1>10. \A k \in Nat : l[k] \in Seq(Messages)
  <2>. DEFINE T == {k \in Nat : l[k] \notin Seq(Messages)}
  <2>1. SUFFICES ASSUME T # {} PROVE FALSE
    OBVIOUS
  <2>2. PICK m \in T : \A k \in T : m <= k
    <3>. HIDE DEF T
    <3>1. T \subseteq Nat
      BY DEF T
    <3>. QED BY <2>1, <3>1, NatMin
  <2>3. m # 0
    <3>1. <<v>> \in Seq(Messages)
      OBVIOUS
    <3>. QED BY <2>2, <1>9, <3>1
  <2>4. m - 1 \in Nat /\ l[m - 1] \in Seq(Messages)
    BY <2>2, <2>3
  <2>5. l[(m - 1) + 1] \in Seq(Messages)
    BY <2>4, <1>9, AfterType
  <2>. QED BY <2>2, <2>5
<1>11. l \in [Nat -> Seq(Messages)]
  BY <1>8, <1>10
<1>. QED BY <1>9, <1>11 DEF l

-----------------------------------------------------------------------------
(* Cells.                                                                  *)

\* How far the reader advances, and how many items a cell announces.
Width(c) == IF c[1] = "str" THEN CellSize + c[2] + 1 ELSE CellSize
Announced(c) == IF c[1] = "array" THEN c[2] ELSE 0

LEMMA CellFacts ==
  ASSUME NEW c, IsCell(c)
  PROVE  /\ Width(c) \in Nat /\ SizeOf(c) \in Nat /\ Announced(c) \in Nat
         /\ Width(c) >= CellSize /\ Width(c) <= SizeOf(c) /\ CellSize > 0 /\ CellSize \in Nat
         /\ c[1] # "task" => SizeOf(c) = Width(c)
         /\ c[1] \in {"task", "array"} => Width(c) = CellSize
         /\ c = Nil <=> c[1] = "nil"
         /\ c = Nil => Width(c) = CellSize /\ SizeOf(c) = CellSize
<1>1. CellSize \in Nat /\ CellSize > 0
  BY MsgAssumption
<1>2. c = Nil <=> c[1] = "nil"
  BY DEF IsCell, Nil
<1>3. CASE c[1] = "str"
  BY <1>1, <1>2, <1>3 DEF Width, SizeOf, Announced, IsCell
<1>4. CASE c[1] = "task"
  BY <1>1, <1>2, <1>4 DEF Width, SizeOf, Announced, IsCell
<1>5. CASE c[1] = "array"
  BY <1>1, <1>2, <1>5 DEF Width, SizeOf, Announced, IsCell
<1>6. CASE c[1] \notin {"str", "task", "array"}
  <2>1. Width(c) = CellSize /\ SizeOf(c) = CellSize /\ Announced(c) = 0
    BY <1>6 DEF Width, SizeOf, Announced
  <2>. QED BY <1>1, <1>2, <1>6, <2>1
<1>. QED BY <1>3, <1>4, <1>5, <1>6

(* The cell a value is written to.                                         *)
LEMMA CellOfFacts ==
  ASSUME NEW v \in Messages
  PROVE  /\ IsCell(CellOf(v)) /\ SizeOf(CellOf(v)) = SizeOf(v)
         /\ CellOf(v)[1] = v[1]
         /\ Advance(v) = IF CellOf(v) = Nil THEN 0 ELSE Width(CellOf(v))
         /\ v = Nil <=> CellOf(v) = Nil
         /\ v[1] # "array" => CellOf(v) = v
         /\ v[1] = "array" => v[2] \in Seq(Messages) /\ v = <<"array", v[2]>>
                              /\ CellOf(v) = <<"array", Len(v[2])>>
<1>1. CASE v[1] = "array"
  <2>1. v[2] \in Seq(Messages) /\ v = <<"array", v[2]>>
    BY <1>1, MsgAssumption
  <2>2. CellOf(v) = <<"array", Len(v[2])>> /\ Len(v[2]) \in Nat
    BY <1>1, <2>1 DEF CellOf
  <2>3. CellOf(v)[1] = "array" /\ CellOf(v)[2] = Len(v[2])
    BY <2>2
  <2>4. SizeOf(CellOf(v)) = CellSize /\ SizeOf(v) = CellSize /\ Advance(v) = CellSize
    BY <1>1, <2>3 DEF SizeOf, Advance
  <2>5. Width(CellOf(v)) = CellSize /\ v # Nil /\ CellOf(v) # Nil
    BY <1>1, <2>3 DEF Width, Nil
  <2>. QED BY <1>1, <2>1, <2>2, <2>3, <2>4, <2>5 DEF IsCell
<1>2. CASE v[1] # "array"
  <2>1. CellOf(v) = v
    BY <1>2 DEF CellOf
  <2>2. IsCell(v)
    BY <1>2, MsgAssumption DEF IsCell, Nil
  <2>3. v = Nil <=> v[1] = "nil"
    BY <2>2, CellFacts
  <2>4. Advance(v) = IF v = Nil THEN 0 ELSE Width(v)
    BY <2>3 DEF Advance, Width
  <2>. QED BY <1>2, <2>1, <2>2, <2>3, <2>4
<1>. QED BY <1>1, <1>2

LEMMA AfterFacts ==
  ASSUME NEW s \in Seq(Messages), s # <<>>
  PROVE  /\ Head(s) \in Messages
         /\ Len(After(s)) = Len(s) - 1 + Announced(CellOf(Head(s)))
         /\ Head(s)[1] # "array" => After(s) = Tail(s)
         /\ Head(s)[1] = "array" => After(s) = Head(s)[2] \o Tail(s)
<1>. DEFINE h == Head(s)
            t == Tail(s)
            n == Len(t)
            a == After(s)
<1>1. h \in Messages /\ t \in Seq(Messages) /\ n = Len(s) - 1 /\ Len(s) \in Nat
  BY HeadTailProperties, LenProperties
<1>2. a = IF h[1] = "array" THEN h[2] \o t ELSE t
  BY DEF After
<1>. SUFFICES /\ Len(a) = n + Announced(CellOf(h))
              /\ h[1] # "array" => a = t
              /\ h[1] = "array" => a = h[2] \o t
  <2>. HIDE DEF h, t, n, a
  <2>1. Len(s) - 1 + Announced(CellOf(h)) = n + Announced(CellOf(h))
    BY <1>1
  <2>. QED BY <1>1, <2>1, Zenon DEF h, t, a
<1>. HIDE DEF h, t, a
<1>3. CASE h[1] = "array"
  <2>1. h[2] \in Seq(Messages) /\ a = h[2] \o t /\ Announced(CellOf(h)) = Len(h[2])
    BY <1>1, <1>2, <1>3, CellOfFacts DEF Announced
  <2>2. Len(h[2] \o t) = Len(h[2]) + n /\ Len(h[2]) \in Nat
    BY <1>1, <2>1, ConcatProperties, LenProperties
  <2>. QED BY <1>1, <1>3, <2>1, <2>2
<1>4. CASE h[1] # "array"
  <2>1. a = t /\ Announced(CellOf(h)) = 0
    BY <1>1, <1>2, <1>4, CellOfFacts DEF Announced
  <2>. QED BY <1>1, <1>4, <2>1
<1>. QED BY <1>3, <1>4

-----------------------------------------------------------------------------
(* Packing.  w is what is left of the message after each of its values.    *)

\* p[i] are the bytes counted for the first i values.
Counted(w, n, p) ==
  /\ n \in Nat /\ p \in [0..n -> Nat] /\ p[0] = 0
  /\ \A i \in 0..(n - 1) : w[i] # <<>> /\ p[i + 1] = p[i] + SizeOf(Head(w[i]))
  /\ \A i \in 0..n : i <= p[i] /\ p[i] <= p[n]

\* The cells follow each other from 0 to E without a gap; at E there is at most a nil.  q[o]
\* are the items that are announced and not yet there, before the cell at o is read.
Layout(b, E, q, sz) ==
  /\ E \in Nat /\ sz \in Nat /\ IsFiniteSet(DOMAIN b)
  /\ \A o \in DOMAIN b : o \in Nat /\ o <= E /\ IsCell(b[o]) /\ o + SizeOf(b[o]) <= sz
  /\ E \in DOMAIN b => b[E] = Nil
  /\ 0 \in DOMAIN b \cup {E}
  /\ q \in [DOMAIN b \cup {E} -> Nat] /\ q[0] = 1
  /\ \A o \in DOMAIN b \ {E} :
       /\ b[o] # Nil
       /\ o + Width(b[o]) \in DOMAIN b \cup {E}
       /\ q[o + Width(b[o])] = q[o] - 1 + Announced(b[o])
       /\ \A x \in DOMAIN b \cup {E} : x > o => x >= o + Width(b[o])

\* Nothing follows a nil.
Tidy(w, sz) == ~\E k \in 0..sz : Len(w[k]) > 1 /\ Head(w[k]) = Nil

CellAt(w, k) == CellOf(Head(w[k]))

\* m[o] is how many values were done before the one whose cell is at o was written there.  In
\* a tidy message every cell is still there.
Order(b, E, m, w, sz) ==
  /\ m \in [DOMAIN b \cup {E} -> Nat]
  /\ \A o \in DOMAIN b : w[m[o]] # <<>> /\ b[o] = CellAt(w, m[o])
  /\ Tidy(w, sz) => m[0] = 0 /\ \A o \in DOMAIN b \ {E} : m[o + Width(b[o])] = m[o] + 1

Written(b, E, c) == [o \in DOMAIN b \cup {E} |-> IF o = E THEN c ELSE b[o]]

LEMMA CountsOn ==
  ASSUME NEW w, NEW n, NEW p, Counted(w, n, p), w[n] \in Seq(Messages), w[n] # <<>>
  PROVE  \E x : Counted(w, n + 1, x) /\ x[n + 1] = p[n] + SizeOf(Head(w[n]))
<1>. DEFINE c == SizeOf(Head(w[n]))
            x == [i \in 0..(n + 1) |-> IF i = n + 1 THEN p[n] + c ELSE p[i]]
<1>1. c \in Nat /\ c > 0
  <2>1. Head(w[n]) \in Messages
    BY AfterFacts
  <2>. HIDE DEF c
  <2>. QED BY <2>1, CellOfFacts, CellFacts DEF c
<1>2. n \in Nat /\ p \in [0..n -> Nat] /\ p[n] \in Nat
  BY DEF Counted
<1>. HIDE DEF c
<1>3. x \in [0..(n + 1) -> Nat] /\ x[0] = 0 /\ x[n + 1] = p[n] + c
  BY <1>1, <1>2 DEF Counted
<1>4. \A i \in 0..n : x[i] = p[i]
  BY <1>2
<1>. HIDE DEF x
<1>5. ASSUME NEW i \in 0..n PROVE w[i] # <<>> /\ x[i + 1] = x[i] + SizeOf(Head(w[i]))
  <2>1. CASE i = n
    BY <2>1, <1>2, <1>3, <1>4 DEF c
  <2>2. CASE i # n
    BY <2>2, <1>2, <1>4 DEF Counted
  <2>. QED BY <2>1, <2>2
<1>6. ASSUME NEW i \in 0..(n + 1) PROVE i <= x[i] /\ x[i] <= x[n + 1]
  <2>1. \A k \in 0..n : k <= p[k] /\ p[k] <= p[n] /\ p[k] \in Nat
    BY <1>2 DEF Counted
  <2>2. CASE i = n + 1
    BY <2>1, <2>2, <1>1, <1>2, <1>3
  <2>3. CASE i # n + 1
    BY <2>1, <2>3, <1>1, <1>2, <1>3, <1>4
  <2>. QED BY <2>2, <2>3
<1>7. Counted(w, n + 1, x)
  BY <1>2, <1>3, <1>5, <1>6 DEF Counted
<1>. QED BY <1>3, <1>7 DEF c

(* A nil is put at the end and leaves it where it is.                      *)
LEMMA NilLayout ==
  ASSUME NEW b, NEW E, NEW q, NEW sz, Layout(b, E, q, sz), E + CellSize <= sz
  PROVE  Layout(Written(b, E, Nil), E, q, sz)
<1>. DEFINE d == Written(b, E, Nil)
<1>1. DOMAIN d = DOMAIN b \cup {E} /\ d[E] = Nil /\ \A o \in DOMAIN b \ {E} : d[o] = b[o]
  BY DEF Written
<1>2. IsFiniteSet(DOMAIN d)
  BY <1>1, FS_AddElement DEF Layout
<1>3. IsCell(Nil) /\ SizeOf(Nil) = CellSize
  BY CellFacts DEF IsCell, Nil
<1>. HIDE DEF d
<1>4. \A o \in DOMAIN d : o \in Nat /\ o <= E /\ IsCell(d[o]) /\ o + SizeOf(d[o]) <= sz
  BY <1>1, <1>3 DEF Layout
<1>5. DOMAIN d \cup {E} = DOMAIN b \cup {E} /\ DOMAIN d \ {E} = DOMAIN b \ {E}
  BY <1>1
<1>. QED BY <1>1, <1>2, <1>4, <1>5 DEF Layout, d

(* Any other cell moves the end behind it.                                 *)
LEMMA CellLayout ==
  ASSUME NEW b, NEW E, NEW q, NEW sz, Layout(b, E, q, sz),
         NEW c, IsCell(c), c # Nil, E + SizeOf(c) <= sz, q[E] > 0
  PROVE  LET F == E + Width(c)
             x == [o \in DOMAIN b \cup {E} \cup {F} |-> IF o = F THEN q[E] - 1 + Announced(c) ELSE q[o]]
         IN Layout(Written(b, E, c), F, x, sz)
<1>. DEFINE d == Written(b, E, c)
            F == E + Width(c)
            new == q[E] - 1 + Announced(c)
            x == [o \in DOMAIN b \cup {E} \cup {F} |-> IF o = F THEN new ELSE q[o]]
<1>1. DOMAIN d = DOMAIN b \cup {E} /\ d[E] = c /\ \A o \in DOMAIN b \ {E} : d[o] = b[o]
  BY DEF Written
<1>2. IsFiniteSet(DOMAIN d)
  BY <1>1, FS_AddElement DEF Layout
<1>3. E \in Nat /\ F \in Nat /\ F > E /\ sz \in Nat /\ q[E] \in Nat /\ new \in Nat
  BY CellFacts DEF Layout
<1>4. \A o \in DOMAIN b : o \in Nat /\ o <= E
  BY DEF Layout
<1>5. F \notin DOMAIN d
  BY <1>1, <1>3, <1>4
<1>6. x \in [DOMAIN d \cup {F} -> Nat] /\ x[F] = new /\ \A o \in DOMAIN d : x[o] = q[o]
  BY <1>1, <1>3, <1>5 DEF Layout
<1>. HIDE DEF d, x, new, F
<1>7. \A o \in DOMAIN d : o \in Nat /\ o <= F /\ IsCell(d[o]) /\ o + SizeOf(d[o]) <= sz
  BY <1>1, <1>3, <1>4 DEF Layout
<1>8. 0 \in DOMAIN d /\ x[0] = 1
  BY <1>1, <1>6 DEF Layout
<1>9. ASSUME NEW o \in DOMAIN d \ {F}
      PROVE  /\ d[o] # Nil
             /\ o + Width(d[o]) \in DOMAIN d \cup {F}
             /\ x[o + Width(d[o])] = x[o] - 1 + Announced(d[o])
             /\ \A y \in DOMAIN d \cup {F} : y > o => y >= o + Width(d[o])
  <2>1. CASE o = E
    <3>1. d[o] = c /\ o + Width(d[o]) = F /\ x[o] = q[E] /\ x[F] = new
      BY <2>1, <1>1, <1>6 DEF F
    <3>2. \A y \in DOMAIN d : ~(y > E)
      BY <1>1, <1>3, <1>4
    <3>. QED BY <2>1, <3>1, <3>2, <1>3 DEF new
  <2>2. CASE o # E
    <3>1. o \in DOMAIN b \ {E} /\ d[o] = b[o] /\ o \in Nat /\ o <= E
      BY <2>2, <1>1, <1>4
    <3>2. /\ b[o] # Nil
          /\ o + Width(b[o]) \in DOMAIN b \cup {E}
          /\ q[o + Width(b[o])] = q[o] - 1 + Announced(b[o])
          /\ \A y \in DOMAIN b \cup {E} : y > o => y >= o + Width(b[o])
      BY <3>1 DEF Layout
    <3>3. o + Width(b[o]) <= E
      BY <3>2, <1>3, <1>4
    <3>4. \A y \in DOMAIN d \cup {F} : y > o => y >= o + Width(b[o])
      <4>1. o + Width(b[o]) \in Nat
        BY <3>2, <1>1, <1>3, <1>4
      <4>. QED BY <3>2, <3>3, <4>1, <1>1, <1>3
    <3>. QED BY <3>1, <3>2, <3>4, <1>1, <1>6
  <2>. QED BY <2>1, <2>2
<1>10. Layout(d, F, x, sz)
  BY <1>2, <1>3, <1>5, <1>6, <1>7, <1>8, <1>9 DEF Layout
<1>. QED BY <1>10 DEF d, F, x, new

LEMMA NilOrder ==
  ASSUME NEW b, NEW E, NEW q, NEW sz, NEW m, NEW w, NEW k \in Nat,
         Layout(b, E, q, sz), Order(b, E, m, w, sz),
         w[k] # <<>>, CellAt(w, k) = Nil, Tidy(w, sz) => m[E] = k
  PROVE  Order(Written(b, E, Nil), E, [m EXCEPT ![E] = k], w, sz)
<1>. DEFINE d == Written(b, E, Nil)
            x == [m EXCEPT ![E] = k]
<1>1. DOMAIN d = DOMAIN b \cup {E} /\ d[E] = Nil /\ \A o \in DOMAIN b \ {E} : d[o] = b[o]
  BY DEF Written
<1>2. m \in [DOMAIN b \cup {E} -> Nat]
  BY DEF Order
<1>3. x \in [DOMAIN b \cup {E} -> Nat] /\ x[E] = k /\ \A o \in DOMAIN b \ {E} : x[o] = m[o]
  BY <1>2
<1>4. Tidy(w, sz) => x = m
  BY <1>2
<1>. HIDE DEF d, x
<1>5. x \in [DOMAIN d \cup {E} -> Nat]
  BY <1>1, <1>3
<1>6. ASSUME NEW o \in DOMAIN d PROVE w[x[o]] # <<>> /\ d[o] = CellAt(w, x[o])
  <2>1. CASE o = E
    BY <2>1, <1>1, <1>3
  <2>2. CASE o # E
    BY <2>2, <1>1, <1>3 DEF Order
  <2>. QED BY <2>1, <2>2
<1>7. ASSUME Tidy(w, sz) PROVE x[0] = 0 /\ \A o \in DOMAIN d \ {E} : x[o + Width(d[o])] = x[o] + 1
  BY <1>1, <1>4, <1>7 DEF Order
<1>8. Order(d, E, x, w, sz)
  BY <1>5, <1>6, <1>7 DEF Order
<1>. QED BY <1>8 DEF d, x

\* The value after the k-th is there now.
Follows(b, E, c, k, w, sz) ==
  \E x : Order(Written(b, E, c), E + Width(c), x, w, sz) /\ x[E + Width(c)] = k + 1

LEMMA CellOrder ==
  ASSUME NEW b, NEW E, NEW q, NEW sz, NEW m, NEW w, NEW k \in Nat,
         Layout(b, E, q, sz), Order(b, E, m, w, sz),
         w[k] # <<>>, IsCell(CellAt(w, k)), CellAt(w, k) # Nil,
         Tidy(w, sz) => m[E] = k
  PROVE  Follows(b, E, CellAt(w, k), k, w, sz)
<1>. DEFINE c == CellAt(w, k)
<1>0. IsCell(c) /\ c # Nil
  OBVIOUS
<1>. HIDE DEF c
<1>. DEFINE d == Written(b, E, c)
            F == E + Width(c)
            x == [o \in DOMAIN b \cup {E} \cup {F} |->
                    IF o = F THEN k + 1 ELSE IF o = E THEN k ELSE m[o]]
<1>1. DOMAIN d = DOMAIN b \cup {E} /\ d[E] = c /\ \A o \in DOMAIN b \ {E} : d[o] = b[o]
  BY DEF Written
<1>2. /\ E \in Nat /\ F \in Nat /\ F > E
      /\ \A o \in DOMAIN b : o \in Nat /\ o <= E
  BY <1>0, CellFacts DEF Layout
<1>3. F \notin DOMAIN b \cup {E}
  BY <1>2
<1>4. m \in [DOMAIN b \cup {E} -> Nat]
  BY DEF Order
<1>5. /\ x \in [DOMAIN d \cup {F} -> Nat] /\ x[F] = k + 1 /\ x[E] = k
      /\ \A o \in DOMAIN b \ {E} : x[o] = m[o]
  BY <1>1, <1>3, <1>4
<1>6. Tidy(w, sz) => \A o \in DOMAIN b \cup {E} : x[o] = m[o]
  BY <1>5
<1>. HIDE DEF d, x, F
<1>7. ASSUME NEW o \in DOMAIN d PROVE w[x[o]] # <<>> /\ d[o] = CellAt(w, x[o])
  <2>1. CASE o = E
    BY <2>1, <1>1, <1>5 DEF c
  <2>2. CASE o # E
    BY <2>2, <1>1, <1>5 DEF Order
  <2>. QED BY <2>1, <2>2
<1>8. ASSUME Tidy(w, sz) PROVE x[0] = 0 /\ \A o \in DOMAIN d \ {F} : x[o + Width(d[o])] = x[o] + 1
  <2>1. x[0] = 0
    BY <1>6, <1>8 DEF Order, Layout
  <2>2. ASSUME NEW o \in DOMAIN d \ {F} PROVE x[o + Width(d[o])] = x[o] + 1
    <3>1. CASE o = E
      BY <3>1, <1>1, <1>5 DEF F
    <3>2. CASE o # E
      <4>1. o \in DOMAIN b \ {E} /\ d[o] = b[o] /\ o + Width(b[o]) \in DOMAIN b \cup {E}
        BY <3>2, <1>1 DEF Layout
      <4>2. m[o + Width(b[o])] = m[o] + 1
        BY <4>1, <1>8 DEF Order
      <4>. QED BY <4>1, <4>2, <1>6, <1>8
    <3>. QED BY <3>1, <3>2
  <2>. QED BY <2>1, <2>2
<1>9. Order(d, F, x, w, sz)
  BY <1>5, <1>7, <1>8 DEF Order
<1>. QED BY <1>5, <1>9 DEF d, F, c, Follows

-----------------------------------------------------------------------------
(* Reading.                                                                *)

\* Before what is at o is read, y items are announced and not there yet.  Behind the cells
\* there is room for a cell for each of them.
Position(b, E, q, sz, o, y) ==
  \/ o \in DOMAIN b \cup {E} /\ y = q[o]
  \/ o \in Nat /\ o > E /\ o + CellSize * y <= sz

\* The arrays that are being read.
Arrays(X) == [size : Nat, items : Seq(X)]
IsOpen(o) == o # <<>> /\ \E X : o \in Seq(Arrays(X))
Lacks(a) == a.size - Len(a.items)

\* s[i] is what the arrays up to the i-th lack, with what is inside them not counted twice.
Expects(o, s) ==
  /\ s \in [1..Len(o) -> Nat]
  /\ s[1] = Lacks(o[1])
  /\ \A i \in 1..Len(o) : Lacks(o[i]) >= 0
  /\ \A i \in 2..Len(o) : s[i - 1] > 0 /\ Lacks(o[i - 1]) > 0 /\ s[i] = s[i - 1] - 1 + Lacks(o[i])

LEMMA PositionBound ==
  ASSUME NEW b, NEW E, NEW q, NEW sz, Layout(b, E, q, sz), E + CellSize * q[E] <= sz,
         NEW o, NEW y \in Nat, Position(b, E, q, sz, o, y)
  PROVE  o \in Nat /\ o <= sz /\ (y > 0 => o + CellSize <= sz)
<1>1. CellSize \in Nat /\ CellSize > 0
  BY MsgAssumption
<1>2. E \in Nat /\ sz \in Nat /\ q[E] \in Nat
  BY DEF Layout
<1>3. \A k \in Nat : CellSize * k \in Nat /\ (k > 0 => CellSize * k >= CellSize)
  BY <1>1
<1>4. E <= sz
  BY <1>2, <1>3
<1>5. CASE o \in DOMAIN b
  <2>1. o \in Nat /\ o <= E /\ o + SizeOf(b[o]) <= sz /\ SizeOf(b[o]) >= CellSize /\ SizeOf(b[o]) \in Nat
    BY <1>5, <1>1, CellFacts DEF Layout
  <2>. QED BY <2>1, <1>1, <1>2, <1>4
<1>6. CASE o \notin DOMAIN b /\ o = E
  <2>1. y = q[E]
    BY <1>6, <1>2 DEF Position
  <2>. QED BY <2>1, <1>1, <1>2, <1>3, <1>4, <1>6
<1>7. CASE o \in Nat /\ o > E /\ o + CellSize * y <= sz
  BY <1>7, <1>1, <1>2, <1>3
<1>. QED BY <1>5, <1>6, <1>7 DEF Position

LEMMA ReadCell ==
  ASSUME NEW b, NEW E, NEW q, NEW sz, Layout(b, E, q, sz), E + CellSize * q[E] <= sz,
         NEW o \in DOMAIN b, q[o] > 0
  PROVE  /\ IsCell(b[o]) /\ q[o] \in Nat
         /\ Position(b, E, q, sz, o + Width(b[o]), q[o] - 1 + Announced(b[o]))
<1>1. CellSize \in Nat /\ CellSize > 0
  BY MsgAssumption
<1>2. E \in Nat /\ sz \in Nat /\ q[E] \in Nat /\ q[o] \in Nat /\ IsCell(b[o])
  BY DEF Layout
<1>3. CASE o # E
  BY <1>3 DEF Layout, Position
<1>4. CASE o = E
  <2>1. Width(b[o]) = CellSize /\ Announced(b[o]) = 0
    BY <1>4, CellFacts DEF Layout, Announced, Nil
  <2>2. CellSize * q[E] = CellSize * (q[E] - 1) + CellSize
    BY <1>1, <1>2
  <2>3. CellSize * (q[E] - 1) \in Int
    BY <1>1, <1>2
  <2>4. (E + CellSize) + CellSize * (q[E] - 1) <= sz
    BY <2>2, <2>3, <1>1, <1>2
  <2>. QED BY <1>1, <1>2, <1>4, <2>1, <2>4 DEF Position
<1>. QED BY <1>2, <1>3, <1>4

LEMMA ReadNothing ==
  ASSUME NEW b, NEW E, NEW q, NEW sz, Layout(b, E, q, sz), E + CellSize * q[E] <= sz,
         NEW o, o \notin DOMAIN b, NEW y \in Nat, y > 0, Position(b, E, q, sz, o, y)
  PROVE  Position(b, E, q, sz, o + CellSize, y - 1) /\ o + CellSize > E /\ o \in Nat /\ o >= E
<1>1. CellSize \in Nat /\ CellSize > 0
  BY MsgAssumption
<1>2. E \in Nat /\ sz \in Nat /\ q[E] \in Nat
  BY DEF Layout
<1>3. o \in Nat /\ o >= E /\ o + CellSize * y <= sz
  BY <1>2 DEF Position
<1>4. CellSize * y = CellSize * (y - 1) + CellSize /\ CellSize * (y - 1) \in Int
  BY <1>1
<1>5. (o + CellSize) + CellSize * (y - 1) <= sz
  BY <1>1, <1>2, <1>3, <1>4
<1>. QED BY <1>1, <1>2, <1>3, <1>5 DEF Position

LEMMA IntoOpen ==
  ASSUME NEW o, IsOpen(o), NEW v
  PROVE  /\ IsOpen(Into(o, v)) /\ Len(Into(o, v)) = Len(o) /\ Len(o) \in Nat /\ Len(o) > 0
         /\ \A i \in 1..Len(o) :
              /\ Into(o, v)[i].size = o[i].size /\ o[i].size \in Nat /\ Len(o[i].items) \in Nat
              /\ i # Len(o) => Into(o, v)[i] = o[i]
              /\ i = Len(o) => Len(Into(o, v)[i].items) = Len(o[i].items) + 1
         /\ \A j \in 1..Len(o[Len(o)].items) : Into(o, v)[Len(o)].items[j] = o[Len(o)].items[j]
         /\ Into(o, v)[Len(o)].items[Len(o[Len(o)].items) + 1] = v
<1>1. PICK X : o \in Seq(Arrays(X))
  BY DEF IsOpen
<1>. DEFINE Y == X \cup {v}
            n == Len(o)
            items == o[n].items
            e == [o[n] EXCEPT !.items = Append(items, v)]
            d == Into(o, v)
<1>2. n \in Nat /\ n > 0 /\ o # <<>>
  BY <1>1, LenProperties, EmptySeq DEF IsOpen
<1>3. o \in Seq(Arrays(Y))
  <2>1. Seq(X) \subseteq Seq(Y)
    BY SeqMonotonic
  <2>2. Arrays(X) \subseteq Arrays(Y)
    BY <2>1 DEF Arrays
  <2>. QED BY <2>2, <1>1, SeqMonotonic
<1>4. \A i \in 1..n : o[i] \in Arrays(Y)
  BY <1>3, ElementOfSeq
<1>5. \A i \in 1..n : o[i].size \in Nat /\ o[i].items \in Seq(Y) /\ Len(o[i].items) \in Nat
  BY <1>4, LenProperties DEF Arrays
<1>6. /\ Append(items, v) \in Seq(Y) /\ Len(Append(items, v)) = Len(items) + 1
      /\ \A j \in 1..Len(items) : Append(items, v)[j] = items[j]
      /\ Append(items, v)[Len(items) + 1] = v
  <2>1. v \in Y /\ items \in Seq(Y)
    BY <1>2, <1>5
  <2>. HIDE DEF Y, items
  <2>. QED BY <2>1, AppendProperties
<1>7. e \in Arrays(Y) /\ e.size = o[n].size /\ e.items = Append(items, v)
  <2>. DEFINE a == o[n]
              all == Append(items, v)
  <2>1. a \in [size : Nat, items : Seq(Y)] /\ all \in Seq(Y)
    BY <1>2, <1>4, <1>6 DEF Arrays
  <2>2. e = [a EXCEPT !.items = all]
    OBVIOUS
  <2>. HIDE DEF a, all, e, Y
  <2>. QED BY <2>1, <2>2 DEF Arrays, a, all
<1>8. d = [o EXCEPT ![n] = e]
  BY DEF Into
<1>. HIDE DEF e, d, Y
<1>9. d \in Seq(Arrays(Y)) /\ Len(d) = n /\ \A i \in 1..n : d[i] = IF i = n THEN e ELSE o[i]
  BY <1>2, <1>3, <1>7, <1>8, ExceptSeq
<1>10. d # <<>>
  BY <1>9, <1>2, EmptySeq
<1>11. IsOpen(d)
  BY <1>9, <1>10 DEF IsOpen
<1>12. ASSUME NEW i \in 1..n
       PROVE  /\ d[i].size = o[i].size /\ o[i].size \in Nat /\ Len(o[i].items) \in Nat
              /\ i # n => d[i] = o[i]
              /\ i = n => Len(d[i].items) = Len(o[i].items) + 1
  BY <1>5, <1>6, <1>7, <1>9
<1>13. d[n].items = Append(items, v)
  BY <1>2, <1>7, <1>9
<1>. QED BY <1>2, <1>6, <1>9, <1>11, <1>12, <1>13 DEF d

Opening(o, n) == Append(o, [size |-> n, items |-> <<>>])
Without(o) == SubSeq(o, 1, Len(o) - 1)

LEMMA OpeningOpen ==
  ASSUME NEW o, IsOpen(o), NEW n \in Nat
  PROVE  /\ IsOpen(Opening(o, n)) /\ Len(Opening(o, n)) = Len(o) + 1
         /\ \A i \in 1..Len(o) : Opening(o, n)[i] = o[i]
         /\ Opening(o, n)[Len(o) + 1] = [size |-> n, items |-> <<>>]
<1>1. PICK X : o \in Seq(Arrays(X))
  BY DEF IsOpen
<1>2. [size |-> n, items |-> <<>>] \in Arrays(X)
  BY DEF Arrays
<1>. DEFINE e == [size |-> n, items |-> <<>>]
            d == Opening(o, n)
<1>. HIDE DEF e
<1>3. d \in Seq(Arrays(X)) /\ d # <<>> /\ Len(d) = Len(o) + 1
      /\ (\A i \in 1..Len(o) : d[i] = o[i]) /\ d[Len(o) + 1] = e
  BY <1>1, <1>2, AppendProperties DEF Opening, e
<1>. QED BY <1>3 DEF IsOpen, e

LEMMA WithoutOpen ==
  ASSUME NEW o, IsOpen(o), Len(o) > 1
  PROVE  /\ IsOpen(Without(o)) /\ Len(Without(o)) = Len(o) - 1
         /\ \A i \in 1..(Len(o) - 1) : Without(o)[i] = o[i]
<1>1. PICK X : o \in Seq(Arrays(X))
  BY DEF IsOpen
<1>. DEFINE n == Len(o) - 1
            d == Without(o)
<1>2. n \in Nat /\ n > 0 /\ \A i \in 1..n : o[i] \in Arrays(X)
  BY <1>1, LenProperties, ElementOfSeq
<1>3. /\ d \in Seq(Arrays(X)) /\ Len(d) = n
      /\ \A i \in 1..n : d[i] = o[i]
  <2>1. /\ SubSeq(o, 1, n) \in Seq(Arrays(X))
        /\ Len(SubSeq(o, 1, n)) = IF 1 <= n THEN n - 1 + 1 ELSE 0
        /\ \A i \in 1..(n - 1 + 1) : SubSeq(o, 1, n)[i] = o[1 + i - 1]
    <3>. HIDE DEF n
    <3>. QED BY <1>2, SubSeqProperties
  <2>2. d = SubSeq(o, 1, n)
    BY DEF Without
  <2>. HIDE DEF n, d
  <2>. QED BY <2>1, <2>2, <1>2
<1>4. d # <<>>
  BY <1>2, <1>3, EmptySeq
<1>. QED BY <1>3, <1>4 DEF IsOpen

LEMMA LacksInt ==
  ASSUME NEW o, IsOpen(o), NEW i \in 1..Len(o)
  PROVE  Lacks(o[i]) \in Int /\ Len(o) \in Nat /\ Len(o) > 0
<1>1. o[i].size \in Nat /\ Len(o[i].items) \in Nat /\ Len(o) \in Nat /\ Len(o) > 0
  BY IntoOpen
<1>. QED BY <1>1 DEF Lacks

LEMMA ExpectsTop ==
  ASSUME NEW o, IsOpen(o), NEW s, Expects(o, s)
  PROVE  s[Len(o)] \in Nat /\ s[Len(o)] >= Lacks(o[Len(o)])
<1>1. Len(o) \in Nat /\ Len(o) > 0
  BY IntoOpen
<1>2. Lacks(o[Len(o)]) \in Int
  BY <1>1, LacksInt
<1>3. CASE Len(o) = 1
  BY <1>1, <1>2, <1>3 DEF Expects
<1>4. CASE Len(o) # 1
  <2>. DEFINE n == Len(o)
  <2>1. s \in [1..n -> Nat] /\ \A i \in 2..n : s[i - 1] > 0 /\ s[i] = s[i - 1] - 1 + Lacks(o[i])
    BY DEF Expects
  <2>2. n \in Nat /\ n > 1 /\ Lacks(o[n]) \in Int
    <3>1. \A k : k \in Nat /\ k > 0 /\ k # 1 => k > 1
      OBVIOUS
    <3>. QED BY <3>1, <1>1, <1>2, <1>4, Zenon
  <2>. HIDE DEF n
  <2>3. n \in 2..n /\ n - 1 \in 1..n
    BY <2>2
  <2>4. s[n - 1] \in Nat /\ s[n - 1] > 0 /\ s[n] \in Nat /\ s[n] = s[n - 1] - 1 + Lacks(o[n])
    BY <2>1, <2>2, <2>3
  <2>. QED BY <2>2, <2>4 DEF n
<1>. QED BY <1>3, <1>4

LEMMA IntoExpects ==
  ASSUME NEW o, IsOpen(o), NEW s, Expects(o, s), Lacks(o[Len(o)]) > 0, NEW v
  PROVE  \E x : Expects(Into(o, v), x) /\ x[Len(o)] = s[Len(o)] - 1
<1>. DEFINE n == Len(o)
            d == Into(o, v)
            x == [i \in 1..n |-> IF i = n THEN s[n] - 1 ELSE s[i]]
<1>1. /\ n \in Nat /\ n > 0 /\ Len(d) = n
      /\ \A i \in 1..n : i # n => d[i] = o[i]
  BY IntoOpen
<1>2. \A i \in 1..n : Lacks(o[i]) \in Int
  BY LacksInt
<1>3. Lacks(d[n]) = Lacks(o[n]) - 1
  <2>1. d[n].size = o[n].size /\ Len(d[n].items) = Len(o[n].items) + 1 /\ o[n].size \in Nat
        /\ Len(o[n].items) \in Nat
    BY <1>1, IntoOpen
  <2>. HIDE DEF d, n
  <2>. QED BY <2>1 DEF Lacks
<1>4. s[n] \in Nat /\ s[n] > 0
  BY <1>1, <1>2, ExpectsTop
<1>5. s \in [1..n -> Nat]
  BY DEF Expects
<1>. HIDE DEF d, n
<1>6. x \in [1..n -> Nat] /\ x[n] = s[n] - 1 /\ \A i \in 1..n : i # n => x[i] = s[i]
  BY <1>1, <1>4, <1>5
<1>. HIDE DEF x
<1>7. x[1] = Lacks(d[1])
  <2>1. s[1] = Lacks(o[1])
    BY DEF Expects
  <2>2. CASE n = 1
    BY <2>1, <2>2, <1>3, <1>6
  <2>3. CASE n # 1
    BY <2>1, <2>3, <1>1, <1>6
  <2>. QED BY <2>2, <2>3
<1>8. \A i \in 1..n : Lacks(d[i]) >= 0
  <2>1. \A i \in 1..n : Lacks(o[i]) >= 0
    BY DEF Expects, n
  <2>2. Lacks(d[n]) >= 0
    BY <1>1, <1>2, <1>3 DEF n
  <2>. QED BY <2>1, <2>2, <1>1
<1>9. ASSUME NEW i \in 2..n
      PROVE  x[i - 1] > 0 /\ Lacks(d[i - 1]) > 0 /\ x[i] = x[i - 1] - 1 + Lacks(d[i])
  <2>1. s[i - 1] > 0 /\ Lacks(o[i - 1]) > 0 /\ s[i] = s[i - 1] - 1 + Lacks(o[i])
    BY DEF Expects, n
  <2>2. i - 1 \in 1..n /\ i - 1 # n /\ i \in 1..n
    BY <1>1
  <2>3. x[i - 1] = s[i - 1] /\ d[i - 1] = o[i - 1] /\ s[i - 1] \in Nat
    BY <2>2, <1>1, <1>5, <1>6
  <2>4. x[i] = x[i - 1] - 1 + Lacks(d[i])
    <3>1. CASE i = n
      BY <2>1, <2>2, <2>3, <3>1, <1>2, <1>3, <1>6
    <3>2. CASE i # n
      BY <2>1, <2>2, <2>3, <3>2, <1>1, <1>6
    <3>. QED BY <3>1, <3>2
  <2>. QED BY <2>1, <2>3, <2>4
<1>10. Expects(d, x)
  BY <1>1, <1>6, <1>7, <1>8, <1>9 DEF Expects
<1>. QED BY <1>6, <1>10 DEF d, n

LEMMA OpeningExpects ==
  ASSUME NEW o, IsOpen(o), NEW s, Expects(o, s), Lacks(o[Len(o)]) > 0, NEW k \in Nat
  PROVE  \E x : Expects(Opening(o, k), x) /\ x[Len(o) + 1] = s[Len(o)] - 1 + k
<1>. DEFINE n == Len(o)
            d == Opening(o, k)
            x == [i \in 1..(n + 1) |-> IF i = n + 1 THEN s[n] - 1 + k ELSE s[i]]
<1>1. n \in Nat /\ n > 0 /\ \A i \in 1..n : Lacks(o[i]) \in Int
  BY LacksInt, IntoOpen
<1>2. /\ Len(d) = n + 1
      /\ \A i \in 1..n : d[i] = o[i]
      /\ Lacks(d[n + 1]) = k
  <2>1. d[n + 1] = [size |-> k, items |-> <<>>] /\ Len(d) = n + 1 /\ \A i \in 1..n : d[i] = o[i]
    BY OpeningOpen
  <2>. HIDE DEF d, n
  <2>2. Lacks(d[n + 1]) = k
    BY <2>1 DEF Lacks
  <2>. QED BY <2>1, <2>2
<1>3. s[n] \in Nat /\ s[n] > 0
  BY <1>1, ExpectsTop
<1>4. s \in [1..n -> Nat]
  BY DEF Expects
<1>. HIDE DEF d
<1>5. x \in [1..(n + 1) -> Nat] /\ x[n + 1] = s[n] - 1 + k /\ \A i \in 1..n : x[i] = s[i]
  <2>. HIDE DEF n
  <2>. QED BY <1>1, <1>3, <1>4
<1>. HIDE DEF x
<1>6. \A i \in 2..n : s[i - 1] > 0 /\ Lacks(o[i - 1]) > 0 /\ s[i] = s[i - 1] - 1 + Lacks(o[i])
  BY DEF Expects
<1>7. Lacks(o[n]) > 0 /\ s[1] = Lacks(o[1]) /\ \A i \in 1..n : Lacks(o[i]) >= 0
  BY DEF Expects
<1>. HIDE DEF n
<1>8. ASSUME NEW i \in 2..(n + 1)
      PROVE  x[i - 1] > 0 /\ Lacks(d[i - 1]) > 0 /\ x[i] = x[i - 1] - 1 + Lacks(d[i])
  <2>1. CASE i = n + 1
    BY <2>1, <1>1, <1>2, <1>3, <1>5, <1>7
  <2>2. CASE i # n + 1
    <3>1. i \in 2..n /\ i \in 1..n /\ i - 1 \in 1..n
      BY <2>2, <1>1
    <3>. QED BY <3>1, <1>2, <1>5, <1>6
  <2>. QED BY <2>1, <2>2
<1>9. Expects(d, x)
  <2>1. \A i \in 1..(n + 1) : Lacks(d[i]) >= 0
    BY <1>1, <1>2, <1>7
  <2>2. x[1] = Lacks(d[1])
    BY <1>1, <1>2, <1>5, <1>7
  <2>. QED BY <2>1, <2>2, <1>2, <1>5, <1>8 DEF Expects
<1>. QED BY <1>5, <1>9 DEF d, n

LEMMA ClosingExpects ==
  ASSUME NEW o, IsOpen(o), Len(o) > 1, NEW s, Expects(o, s), Lacks(o[Len(o)]) = 0, NEW v
  PROVE  \E x : Expects(Into(Without(o), v), x) /\ x[Len(o) - 1] = s[Len(o)]
<1>. DEFINE n == Len(o) - 1
            d == Without(o)
            y == [i \in 1..n |-> s[i]]
<1>1. n \in Nat /\ n > 0 /\ Len(o) = n + 1 /\ \A i \in 1..Len(o) : Lacks(o[i]) \in Int
  BY LacksInt, IntoOpen
<1>2. IsOpen(d) /\ Len(d) = n /\ \A i \in 1..n : d[i] = o[i]
  BY WithoutOpen
<1>3. s \in [1..(n + 1) -> Nat] /\ s[1] = Lacks(o[1]) /\ (\A i \in 1..(n + 1) : Lacks(o[i]) >= 0)
      /\ \A i \in 2..(n + 1) :
           s[i - 1] > 0 /\ Lacks(o[i - 1]) > 0 /\ s[i] = s[i - 1] - 1 + Lacks(o[i])
  BY <1>1 DEF Expects
<1>. HIDE DEF n, d
<1>4. y \in [1..n -> Nat] /\ \A i \in 1..n : y[i] = s[i]
  BY <1>1, <1>3
<1>. HIDE DEF y
<1>5. Expects(d, y)
  <2>1. ASSUME NEW i \in 2..n
        PROVE  y[i - 1] > 0 /\ Lacks(d[i - 1]) > 0 /\ y[i] = y[i - 1] - 1 + Lacks(d[i])
    <3>1. i \in 2..(n + 1) /\ i \in 1..n /\ i - 1 \in 1..n
      BY <1>1
    <3>. QED BY <3>1, <1>2, <1>3, <1>4
  <2>2. \A i \in 1..n : i \in 1..(n + 1) /\ Lacks(d[i]) >= 0
    BY <1>1, <1>2, <1>3
  <2>3. y[1] = Lacks(d[1])
    BY <1>1, <1>2, <1>3, <1>4
  <2>. QED BY <2>1, <2>2, <2>3, <1>2, <1>4 DEF Expects
<1>6. Lacks(d[Len(d)]) > 0 /\ s[n + 1] = s[n] - 1
  <2>1. n + 1 \in 2..(n + 1) /\ (n + 1) - 1 = n /\ n \in 1..n
    BY <1>1
  <2>2. Lacks(o[n]) > 0 /\ s[n + 1] = s[n] - 1 + Lacks(o[n + 1]) /\ s[n] \in Nat
    BY <2>1, <1>1, <1>3
  <2>3. Lacks(o[n + 1]) = 0
    BY <1>1
  <2>. QED BY <2>1, <2>2, <2>3, <1>2
<1>7. PICK x : Expects(Into(d, v), x) /\ x[Len(d)] = y[Len(d)] - 1
  BY <1>2, <1>5, <1>6, IntoExpects
<1>8. x[n] = s[n + 1]
  BY <1>1, <1>2, <1>4, <1>6, <1>7
<1>. QED BY <1>7, <1>8, <1>1 DEF d, n

-----------------------------------------------------------------------------
(* Reading a tidy message v.                                               *)

\* What of the items t the array e still lacks, with the one that is being read, and what has to
\* be read after the i-th array.
Owed(e, t) == SubSeq(t, Len(e.items) + 1, Len(t))
Below(R, i) == IF i = 1 THEN <<>> ELSE Tail(R[i - 1])

\* a[i] are the items the i-th open array will have, R[i] what of it and of the arrays around
\* it is still to be read, with the item that is being read.
Nest(o, a, R, v) ==
  /\ a \in [1..Len(o) -> Seq(Messages)] /\ R \in [1..Len(o) -> Seq(Messages)]
  /\ a[1] = <<v>>
  /\ \A i \in 1..Len(o) :
       /\ o[i].size = Len(a[i])
       /\ Len(o[i].items) <= Len(a[i])
       /\ \A j \in 1..Len(o[i].items) : o[i].items[j] = a[i][j]
       /\ R[i] = Owed(o[i], a[i]) \o Below(R, i)
  /\ \A i \in 1..(Len(o) - 1) :
       /\ Len(o[i].items) < Len(a[i])
       /\ a[i][Len(o[i].items) + 1] = <<"array", a[i + 1]>>
       /\ R[i] # <<>>

LEMMA HeadIs ==
  ASSUME NEW S, NEW s \in Seq(S), s # <<>>
  PROVE  Head(s) = s[1]
<1>1. Len(s) \in Nat /\ Len(s) > 0
  BY EmptySeq, LenProperties
<1>2. 1 \in 1..Len(s) /\ Len(s) \in 1..Len(s)
  BY <1>1
<1>3. Head(SubSeq(s, 1, Len(s))) = s[1]
  BY <1>2, HeadTailOfSubSeq
<1>. QED BY <1>3, SubSeqFull

LEMMA FirstAndRest ==
  ASSUME NEW S, NEW z \in Seq(S), NEW y \in Seq(S), Len(z) = Len(y) + 1,
         \A i \in 1..Len(y) : y[i] = z[i + 1]
  PROVE  z # <<>> /\ Head(z) = z[1] /\ Tail(z) = y
<1>1. Len(y) \in Nat /\ z # <<>>
  BY LenProperties, EmptySeq
<1>2. Head(z) = z[1]
  BY <1>1, HeadIs
<1>3. /\ Tail(z) \in Seq(S) /\ Len(Tail(z)) = Len(y)
      /\ \A i \in 1..Len(Tail(z)) : Tail(z)[i] = z[i + 1]
  BY <1>1, HeadTailProperties
<1>4. Tail(z) = y
  BY <1>3, SeqEqual
<1>. QED BY <1>1, <1>2, <1>4

LEMMA NextOfList ==
  ASSUME NEW S, NEW t \in Seq(S), NEW u \in Seq(S), NEW c \in Nat, c < Len(t)
  PROVE  \A z : z = SubSeq(t, c + 1, Len(t)) \o u =>
           z \in Seq(S) /\ z # <<>> /\ Head(z) = t[c + 1] /\ Tail(z) = SubSeq(t, c + 2, Len(t)) \o u
<1>. SUFFICES ASSUME NEW z, z = SubSeq(t, c + 1, Len(t)) \o u
     PROVE z \in Seq(S) /\ z # <<>> /\ Head(z) = t[c + 1] /\ Tail(z) = SubSeq(t, c + 2, Len(t)) \o u
  OBVIOUS
<1>. DEFINE n == Len(t)
            first == SubSeq(t, c + 1, n)
            rest == SubSeq(t, c + 2, n)
            y == rest \o u
<1>1. n \in Nat /\ (\A i \in 1..n : t[i] \in S) /\ Len(u) \in Nat
  BY LenProperties, ElementOfSeq
<1>2. /\ first \in Seq(S) /\ Len(first) = n - c
      /\ \A i \in 1..(n - c) : first[i] = t[c + i]
  <2>1. c + 1 \in Int /\ n \in Int /\ (\A i \in (c + 1)..n : t[i] \in S) /\ c + 1 <= n
    BY <1>1
  <2>. HIDE DEF n, first
  <2>2. /\ first \in Seq(S) /\ Len(first) = n - (c + 1) + 1
        /\ \A i \in 1..(n - (c + 1) + 1) : first[i] = t[(c + 1) + i - 1]
    BY <2>1, SubSeqProperties DEF first
  <2>3. ASSUME NEW i \in 1..(n - c) PROVE first[i] = t[c + i]
    <3>1. i \in 1..(n - (c + 1) + 1) /\ (c + 1) + i - 1 = c + i
      BY <2>1
    <3>. QED BY <3>1, <2>2
  <2>. QED BY <2>1, <2>2, <2>3
<1>3. /\ rest \in Seq(S) /\ Len(rest) = n - c - 1
      /\ \A i \in 1..(n - c - 1) : rest[i] = t[c + 1 + i]
  <2>1. c + 2 \in Int /\ n \in Int /\ (\A i \in (c + 2)..n : t[i] \in S) /\ c + 1 <= n
    BY <1>1
  <2>. HIDE DEF n, rest
  <2>2. /\ rest \in Seq(S) /\ Len(rest) = IF c + 2 <= n THEN n - (c + 2) + 1 ELSE 0
        /\ \A i \in 1..(n - (c + 2) + 1) : rest[i] = t[(c + 2) + i - 1]
    BY <2>1, SubSeqProperties DEF rest
  <2>3. ASSUME NEW i \in 1..(n - c - 1) PROVE rest[i] = t[c + 1 + i]
    <3>1. i \in 1..(n - (c + 2) + 1) /\ (c + 2) + i - 1 = c + 1 + i
      BY <2>1
    <3>. QED BY <3>1, <2>2
  <2>. QED BY <2>1, <2>2, <2>3
<1>. HIDE DEF n, first, rest
<1>4. /\ z \in Seq(S) /\ Len(z) = n - c + Len(u)
      /\ \A i \in 1..(n - c + Len(u)) : z[i] = IF i <= n - c THEN t[c + i] ELSE u[i - (n - c)]
  <2>1. /\ first \o u \in Seq(S) /\ Len(first \o u) = Len(first) + Len(u)
        /\ \A i \in 1..(Len(first) + Len(u)) :
             (first \o u)[i] = IF i <= Len(first) THEN first[i] ELSE u[i - Len(first)]
    BY <1>2, ConcatProperties
  <2>2. z = first \o u
    BY DEF first, n
  <2>3. \A i \in 1..(n - c + Len(u)) : i <= n - c => i \in 1..(n - c)
    BY <1>1
  <2>. QED BY <2>1, <2>2, <2>3, <1>2
<1>5. /\ y \in Seq(S) /\ Len(y) = n - c - 1 + Len(u)
      /\ \A i \in 1..(n - c - 1 + Len(u)) :
           y[i] = IF i <= n - c - 1 THEN t[c + 1 + i] ELSE u[i - (n - c - 1)]
  <2>1. /\ y \in Seq(S) /\ Len(y) = Len(rest) + Len(u)
        /\ \A i \in 1..(Len(rest) + Len(u)) :
             y[i] = IF i <= Len(rest) THEN rest[i] ELSE u[i - Len(rest)]
    BY <1>3, ConcatProperties
  <2>2. \A i \in 1..(n - c - 1 + Len(u)) : i <= n - c - 1 => i \in 1..(n - c - 1)
    BY <1>1
  <2>. QED BY <2>1, <2>2, <1>3
<1>6. n - c > 0
  BY <1>1 DEF n
<1>7. z[1] = t[c + 1] /\ Len(z) = Len(y) + 1
  BY <1>1, <1>4, <1>5, <1>6
<1>8. ASSUME NEW i \in 1..Len(y) PROVE y[i] = z[i + 1]
  <2>1. i + 1 \in 1..(n - c + Len(u)) /\ i \in 1..(n - c - 1 + Len(u))
    BY <1>1, <1>5
  <2>2. z[i + 1] = IF i + 1 <= n - c THEN t[c + (i + 1)] ELSE u[(i + 1) - (n - c)]
    BY <2>1, <1>4
  <2>3. c + (i + 1) = c + 1 + i /\ (i + 1) - (n - c) = i - (n - c - 1)
        /\ (i + 1 <= n - c <=> i <= n - c - 1)
    BY <1>1
  <2>. QED BY <2>1, <2>2, <2>3, <1>5
<1>. HIDE DEF y
<1>9. z # <<>> /\ Head(z) = z[1] /\ Tail(z) = y
  BY <1>4, <1>5, <1>7, <1>8, FirstAndRest, Zenon
<1>. QED BY <1>4, <1>7, <1>8, <1>9 DEF y, first, rest, n

LEMMA NestNext ==
  ASSUME NEW o, IsOpen(o), NEW a, NEW R, NEW v, Nest(o, a, R, v),
         NEW i \in 1..Len(o), Lacks(o[i]) > 0
  PROVE  LET c == Len(o[i].items)
         IN /\ c \in Nat /\ c < Len(a[i]) /\ a[i][c + 1] \in Messages
            /\ R[i] # <<>> /\ Head(R[i]) = a[i][c + 1]
            /\ Tail(R[i]) = SubSeq(a[i], c + 2, Len(a[i])) \o Below(R, i)
            /\ Tail(R[i]) \in Seq(Messages)
<1>. DEFINE c == Len(o[i].items)
            t == a[i]
            u == Below(R, i)
<1>1. c \in Nat /\ o[i].size \in Nat
  BY IntoOpen
<1>2. t \in Seq(Messages) /\ o[i].size = Len(t) /\ R[i] = SubSeq(t, c + 1, Len(t)) \o u
      /\ R[i] \in Seq(Messages)
  BY DEF Nest, Owed
<1>3. c < Len(t)
  <2>. HIDE DEF t
  <2>1. o[i].size - c > 0
    BY DEF Lacks
  <2>. HIDE DEF c
  <2>. QED BY <2>1, <1>1, <1>2
<1>4. u \in Seq(Messages)
  <2>1. CASE i = 1
    BY <2>1 DEF Below
  <2>2. CASE i # 1
    <3>1. i - 1 \in 1..(Len(o) - 1) /\ i - 1 \in 1..Len(o)
      BY <2>2, IntoOpen
    <3>2. R[i - 1] \in Seq(Messages) /\ R[i - 1] # <<>>
      BY <3>1 DEF Nest
    <3>. QED BY <2>2, <3>2, HeadTailProperties DEF Below
  <2>. QED BY <2>1, <2>2
<1>5. t[c + 1] \in Messages
  <2>. HIDE DEF t, c
  <2>1. c + 1 \in 1..Len(t)
    BY <1>1, <1>2, <1>3
  <2>. QED BY <2>1, <1>2, ElementOfSeq
<1>. HIDE DEF c, t, u
<1>6. R[i] # <<>> /\ Head(R[i]) = t[c + 1] /\ Tail(R[i]) = SubSeq(t, c + 2, Len(t)) \o u
  <2>. DEFINE z == R[i]
  <2>1. z = SubSeq(t, c + 1, Len(t)) \o u
    BY <1>2
  <2>. HIDE DEF z
  <2>2. z # <<>> /\ Head(z) = t[c + 1] /\ Tail(z) = SubSeq(t, c + 2, Len(t)) \o u
    <3>1. c \in Nat /\ c < Len(t) /\ t \in Seq(Messages) /\ u \in Seq(Messages)
      BY <1>1, <1>2, <1>3, <1>4
    <3>2. \A x : x = SubSeq(t, c + 1, Len(t)) \o u =>
            x \in Seq(Messages) /\ x # <<>> /\ Head(x) = t[c + 1]
            /\ Tail(x) = SubSeq(t, c + 2, Len(t)) \o u
      BY <3>1, NextOfList
    <3>. QED BY <2>1, <3>2, Zenon
  <2>. QED BY <2>2 DEF z
<1>8. Tail(R[i]) \in Seq(Messages)
  BY <1>2, <1>6, HeadTailProperties
<1>. QED BY <1>1, <1>3, <1>5, <1>6, <1>8 DEF c, t, u

(* An item is put into the innermost array.                                *)
LEMMA NestInto ==
  ASSUME NEW o, IsOpen(o), NEW a, NEW R, NEW v, Nest(o, a, R, v), Lacks(o[Len(o)]) > 0,
         NEW y, y = Head(R[Len(o)])
  PROVE  Nest(Into(o, y), a, [R EXCEPT ![Len(o)] = Tail(R[Len(o)])], v)
<1>. DEFINE n == Len(o)
            c == Len(o[n].items)
            d == Into(o, y)
            rest == Tail(R[n])
            x == [R EXCEPT ![n] = rest]
<1>1. n \in Nat /\ n > 0 /\ n \in 1..n
  BY IntoOpen
<1>2. /\ c \in Nat /\ c < Len(a[n]) /\ a[n][c + 1] = y
      /\ rest = SubSeq(a[n], c + 2, Len(a[n])) \o Below(R, n)
      /\ rest \in Seq(Messages)
  <2>1. Lacks(o[n]) > 0
    OBVIOUS
  <2>. HIDE DEF n
  <2>2. LET e == Len(o[n].items)
        IN /\ e \in Nat /\ e < Len(a[n]) /\ a[n][e + 1] \in Messages
           /\ R[n] # <<>> /\ Head(R[n]) = a[n][e + 1]
           /\ Tail(R[n]) = SubSeq(a[n], e + 2, Len(a[n])) \o Below(R, n)
           /\ Tail(R[n]) \in Seq(Messages)
    BY <1>1, <2>1, NestNext, Zenon DEF n
  <2>. QED BY <2>2 DEF n
<1>3. /\ Len(d) = n
      /\ \A i \in 1..n : d[i].size = o[i].size
      /\ \A i \in 1..n : i # n => d[i] = o[i]
      /\ Len(d[n].items) = c + 1
      /\ \A j \in 1..c : d[n].items[j] = o[n].items[j]
      /\ d[n].items[c + 1] = y
  BY <1>1, IntoOpen
<1>. HIDE DEF d, rest, c, n
<1>4. /\ a \in [1..n -> Seq(Messages)] /\ R \in [1..n -> Seq(Messages)] /\ a[1] = <<v>>
      /\ \A i \in 1..n :
           /\ o[i].size = Len(a[i])
           /\ Len(o[i].items) <= Len(a[i])
           /\ \A j \in 1..Len(o[i].items) : o[i].items[j] = a[i][j]
           /\ R[i] = Owed(o[i], a[i]) \o Below(R, i)
      /\ \A i \in 1..(n - 1) :
           /\ Len(o[i].items) < Len(a[i])
           /\ a[i][Len(o[i].items) + 1] = <<"array", a[i + 1]>>
           /\ R[i] # <<>>
  BY DEF Nest, n
<1>5. x \in [1..n -> Seq(Messages)] /\ x[n] = rest /\ \A i \in 1..n : i # n => x[i] = R[i]
  BY <1>1, <1>2, <1>4
<1>. HIDE DEF x
<1>6. ASSUME NEW i \in 1..n PROVE Below(x, i) = Below(R, i)
  <2>1. i # 1 => i - 1 \in 1..n /\ i - 1 # n
    BY <1>1
  <2>. QED BY <2>1, <1>5 DEF Below
<1>7. ASSUME NEW i \in 1..n
      PROVE  /\ d[i].size = Len(a[i])
             /\ Len(d[i].items) <= Len(a[i])
             /\ \A j \in 1..Len(d[i].items) : d[i].items[j] = a[i][j]
             /\ x[i] = Owed(d[i], a[i]) \o Below(x, i)
  <2>1. CASE i # n
    <3>1. d[i] = o[i] /\ x[i] = R[i] /\ Below(x, i) = Below(R, i)
      BY <2>1, <1>3, <1>5, <1>6
    <3>2. /\ o[i].size = Len(a[i])
          /\ Len(o[i].items) <= Len(a[i])
          /\ \A j \in 1..Len(o[i].items) : o[i].items[j] = a[i][j]
          /\ R[i] = Owed(o[i], a[i]) \o Below(R, i)
      BY <1>4, Zenon
    <3>. QED BY <3>1, <3>2, Zenon
  <2>2. CASE i = n
    <3>1. d[i].size = Len(a[i]) /\ Len(d[i].items) <= Len(a[i])
      <4>1. Len(a[n]) \in Nat
        BY <1>1, <1>4, LenProperties
      <4>2. d[n].size = Len(a[n])
        BY <1>1, <1>3, <1>4
      <4>. QED BY <4>1, <4>2, <2>2, <1>2, <1>3
    <3>2. ASSUME NEW j \in 1..Len(d[i].items) PROVE d[i].items[j] = a[i][j]
      <4>1. \A k \in 1..c : o[n].items[k] = a[n][k]
        BY <1>1, <1>4 DEF c
      <4>2. j \in 1..c \/ j = c + 1
        BY <2>2, <1>2, <1>3
      <4>. QED BY <4>1, <4>2, <2>2, <1>2, <1>3
    <3>3. x[i] = Owed(d[i], a[i]) \o Below(x, i)
      <4>1. (c + 1) + 1 = c + 2
        BY <1>2
      <4>2. Below(x, i) = Below(R, n) /\ x[i] = rest /\ Len(d[i].items) + 1 = c + 2
        BY <4>1, <2>2, <1>3, <1>5, <1>6
      <4>. QED BY <4>2, <2>2, <1>2, Zenon DEF Owed
    <3>. QED BY <3>1, <3>2, <3>3
  <2>. QED BY <2>1, <2>2
<1>8. ASSUME NEW i \in 1..(n - 1)
      PROVE  /\ Len(d[i].items) < Len(a[i])
             /\ a[i][Len(d[i].items) + 1] = <<"array", a[i + 1]>>
             /\ x[i] # <<>>
  <2>1. i \in 1..n /\ i # n
    BY <1>1
  <2>. QED BY <2>1, <1>3, <1>4, <1>5
<1>9. Nest(d, a, x, v)
  BY <1>3, <1>4, <1>5, <1>7, <1>8 DEF Nest
<1>. QED BY <1>9 DEF d, x, rest, n

(* An array is opened.                                                     *)
LEMMA NestOpening ==
  ASSUME NEW o, IsOpen(o), NEW a, NEW R, NEW v, Nest(o, a, R, v), Lacks(o[Len(o)]) > 0,
         NEW t \in Seq(Messages), Head(R[Len(o)]) = <<"array", t>>
  PROVE  \E b, x : Nest(Opening(o, Len(t)), b, x, v) /\ x[Len(o) + 1] = t \o Tail(R[Len(o)])
<1>. DEFINE n == Len(o)
            k == Len(t)
            d == Opening(o, k)
            rest == t \o Tail(R[n])
            b == [i \in 1..(n + 1) |-> IF i = n + 1 THEN t ELSE a[i]]
            x == [i \in 1..(n + 1) |-> IF i = n + 1 THEN rest ELSE R[i]]
<1>1. n \in Nat /\ n > 0 /\ n \in 1..n /\ k \in Nat
  BY IntoOpen
<1>2. /\ Len(o[n].items) \in Nat /\ Len(o[n].items) < Len(a[n])
      /\ a[n][Len(o[n].items) + 1] = <<"array", t>>
      /\ R[n] # <<>> /\ Tail(R[n]) \in Seq(Messages)
  <2>1. Lacks(o[n]) > 0
    OBVIOUS
  <2>. HIDE DEF n
  <2>2. LET e == Len(o[n].items)
        IN /\ e \in Nat /\ e < Len(a[n]) /\ a[n][e + 1] \in Messages
           /\ R[n] # <<>> /\ Head(R[n]) = a[n][e + 1]
           /\ Tail(R[n]) = SubSeq(a[n], e + 2, Len(a[n])) \o Below(R, n)
           /\ Tail(R[n]) \in Seq(Messages)
    BY <1>1, <2>1, NestNext, Zenon DEF n
  <2>. QED BY <2>2 DEF n
<1>3. /\ Len(d) = n + 1
      /\ \A i \in 1..n : d[i] = o[i]
      /\ d[n + 1] = [size |-> k, items |-> <<>>]
  BY <1>1, OpeningOpen
<1>4. rest \in Seq(Messages)
  BY <1>2, ConcatProperties
<1>. HIDE DEF d, rest, n, k
<1>5. /\ a \in [1..n -> Seq(Messages)] /\ R \in [1..n -> Seq(Messages)] /\ a[1] = <<v>>
      /\ \A i \in 1..n :
           /\ o[i].size = Len(a[i])
           /\ Len(o[i].items) <= Len(a[i])
           /\ \A j \in 1..Len(o[i].items) : o[i].items[j] = a[i][j]
           /\ R[i] = Owed(o[i], a[i]) \o Below(R, i)
      /\ \A i \in 1..(n - 1) :
           /\ Len(o[i].items) < Len(a[i])
           /\ a[i][Len(o[i].items) + 1] = <<"array", a[i + 1]>>
           /\ R[i] # <<>>
  BY DEF Nest, n
<1>6. /\ b \in [1..(n + 1) -> Seq(Messages)] /\ b[n + 1] = t /\ \A i \in 1..n : b[i] = a[i]
      /\ x \in [1..(n + 1) -> Seq(Messages)] /\ x[n + 1] = rest /\ \A i \in 1..n : x[i] = R[i]
  BY <1>1, <1>4, <1>5
<1>. HIDE DEF b, x
<1>7. ASSUME NEW i \in 1..(n + 1)
      PROVE  /\ d[i].size = Len(b[i])
             /\ Len(d[i].items) <= Len(b[i])
             /\ \A j \in 1..Len(d[i].items) : d[i].items[j] = b[i][j]
             /\ x[i] = Owed(d[i], b[i]) \o Below(x, i)
  <2>1. CASE i # n + 1
    <3>1. i \in 1..n
      BY <2>1, <1>1
    <3>2. Below(x, i) = Below(R, i)
      <4>1. i # 1 => i - 1 \in 1..n
        BY <3>1, <1>1
      <4>. QED BY <4>1, <1>6 DEF Below
    <3>3. d[i] = o[i] /\ x[i] = R[i] /\ b[i] = a[i]
      BY <3>1, <1>3, <1>6
    <3>4. /\ o[i].size = Len(a[i])
          /\ Len(o[i].items) <= Len(a[i])
          /\ \A j \in 1..Len(o[i].items) : o[i].items[j] = a[i][j]
          /\ R[i] = Owed(o[i], a[i]) \o Below(R, i)
      BY <1>5, <3>1, Zenon
    <3>. QED BY <3>2, <3>3, <3>4, Zenon
  <2>2. CASE i = n + 1
    <3>1. d[i].size = k /\ d[i].items = <<>> /\ Len(d[i].items) = 0
      BY <2>2, <1>3
    <3>2. b[i] = t /\ x[i] = rest /\ Len(b[i]) = k
      BY <2>2, <1>6 DEF k
    <3>3. Below(x, i) = Tail(R[n])
      <4>1. i # 1 /\ i - 1 = n /\ n \in 1..n
        BY <2>2, <1>1
      <4>. QED BY <4>1, <1>6 DEF Below
    <3>4. SubSeq(t, 1, Len(t)) = t
      BY SubSeqFull
    <3>5. x[i] = Owed(d[i], b[i]) \o Below(x, i)
      <4>1. Len(d[i].items) + 1 = 1
        BY <3>1
      <4>. QED BY <4>1, <3>2, <3>3, <3>4, Zenon DEF rest, k, Owed
    <3>6. Len(d[i].items) <= Len(b[i]) /\ \A j \in 1..Len(d[i].items) : d[i].items[j] = b[i][j]
      BY <3>1, <3>2, <1>1
    <3>. QED BY <3>1, <3>2, <3>5, <3>6
  <2>. QED BY <2>1, <2>2
<1>8. ASSUME NEW i \in 1..n
      PROVE  /\ Len(d[i].items) < Len(b[i])
             /\ b[i][Len(d[i].items) + 1] = <<"array", b[i + 1]>>
             /\ x[i] # <<>>
  <2>1. CASE i = n
    BY <2>1, <1>1, <1>2, <1>3, <1>6
  <2>2. CASE i # n
    <3>1. i \in 1..(n - 1) /\ i + 1 \in 1..n
      BY <2>2, <1>1
    <3>. QED BY <3>1, <1>3, <1>5, <1>6
  <2>. QED BY <2>1, <2>2
<1>9. Nest(d, b, x, v)
  <2>1. b[1] = <<v>> /\ (n + 1) - 1 = n
    BY <1>1, <1>5, <1>6
  <2>. QED BY <2>1, <1>3, <1>6, <1>7, <1>8 DEF Nest
<1>. QED BY <1>6, <1>9 DEF d, rest, n, k

(* The innermost array is whole, and becomes an item of the one around it. *)
LEMMA NestClosing ==
  ASSUME NEW o, IsOpen(o), NEW a, NEW R, NEW v, Nest(o, a, R, v), Len(o) > 1,
         Lacks(o[Len(o)]) = 0, Lacks(o[Len(o) - 1]) > 0
  PROVE  \E b, x : /\ Nest(Into(Without(o), <<"array", o[Len(o)].items>>), b, x, v)
                   /\ x[Len(o) - 1] = R[Len(o)]
<1>. DEFINE n == Len(o) - 1
            d == Without(o)
            b == [i \in 1..n |-> a[i]]
            y == [i \in 1..n |-> R[i]]
            item == <<"array", o[n + 1].items>>
<1>1. n \in Nat /\ n > 0 /\ Len(o) = n + 1 /\ n \in 1..n
  BY IntoOpen
<1>2. IsOpen(d) /\ Len(d) = n /\ \A i \in 1..n : d[i] = o[i]
  BY WithoutOpen
<1>. HIDE DEF n, d
<1>3. /\ a \in [1..(n + 1) -> Seq(Messages)] /\ R \in [1..(n + 1) -> Seq(Messages)] /\ a[1] = <<v>>
      /\ \A i \in 1..(n + 1) :
           /\ o[i].size = Len(a[i])
           /\ Len(o[i].items) <= Len(a[i])
           /\ \A j \in 1..Len(o[i].items) : o[i].items[j] = a[i][j]
           /\ R[i] = Owed(o[i], a[i]) \o Below(R, i)
      /\ \A i \in 1..n :
           /\ Len(o[i].items) < Len(a[i])
           /\ a[i][Len(o[i].items) + 1] = <<"array", a[i + 1]>>
           /\ R[i] # <<>>
  <2>1. (n + 1) - 1 = n
    BY <1>1
  <2>. QED BY <2>1, <1>1 DEF Nest
<1>4. /\ b \in [1..n -> Seq(Messages)] /\ \A i \in 1..n : b[i] = a[i]
      /\ y \in [1..n -> Seq(Messages)] /\ \A i \in 1..n : y[i] = R[i]
  <2>1. \A i \in 1..n : i \in 1..(n + 1)
    BY <1>1
  <2>. QED BY <2>1, <1>3
<1>. HIDE DEF b, y
<1>5. Nest(d, b, y, v)
  <2>1. ASSUME NEW i \in 1..n PROVE Below(y, i) = Below(R, i)
    <3>1. i # 1 => i - 1 \in 1..n
      BY <1>1
    <3>. QED BY <3>1, <1>4 DEF Below
  <2>2. ASSUME NEW i \in 1..n
        PROVE  /\ d[i].size = Len(b[i])
               /\ Len(d[i].items) <= Len(b[i])
               /\ \A j \in 1..Len(d[i].items) : d[i].items[j] = b[i][j]
               /\ y[i] = Owed(d[i], b[i]) \o Below(y, i)
    <3>1. i \in 1..(n + 1)
      BY <1>1
    <3>2. d[i] = o[i] /\ y[i] = R[i] /\ b[i] = a[i]
      BY <1>2, <1>4
    <3>3. /\ o[i].size = Len(a[i])
          /\ Len(o[i].items) <= Len(a[i])
          /\ \A j \in 1..Len(o[i].items) : o[i].items[j] = a[i][j]
          /\ R[i] = Owed(o[i], a[i]) \o Below(R, i)
      BY <1>3, <3>1, Zenon
    <3>. QED BY <2>1, <3>2, <3>3, Zenon
  <2>3. ASSUME NEW i \in 1..(n - 1)
        PROVE  /\ Len(d[i].items) < Len(b[i])
               /\ b[i][Len(d[i].items) + 1] = <<"array", b[i + 1]>>
               /\ y[i] # <<>>
    <3>1. i \in 1..n /\ i + 1 \in 1..n
      BY <1>1
    <3>. QED BY <3>1, <1>2, <1>3, <1>4
  <2>4. b[1] = <<v>>
    BY <1>1, <1>3, <1>4
  <2>. QED BY <2>2, <2>3, <2>4, <1>2, <1>4 DEF Nest
<1>6. o[n + 1].items = a[n + 1]
  <2>1. PICK X : o \in Seq(Arrays(X))
    BY DEF IsOpen
  <2>2. n + 1 \in 1..(n + 1) /\ o[n + 1] \in Arrays(X)
    BY <2>1, <1>1, ElementOfSeq
  <2>3. o[n + 1].items \in Seq(X) /\ o[n + 1].size \in Nat /\ Len(o[n + 1].items) \in Nat
    BY <2>2, LenProperties DEF Arrays
  <2>4. Lacks(o[n + 1]) = 0
    BY <1>1
  <2>5. Len(o[n + 1].items) = Len(a[n + 1])
    <3>1. o[n + 1].size = Len(a[n + 1])
      BY <2>2, <1>3
    <3>. QED BY <2>3, <2>4, <3>1 DEF Lacks
  <2>6. a[n + 1] \in Seq(Messages) /\ \A j \in 1..Len(o[n + 1].items) : o[n + 1].items[j] = a[n + 1][j]
    BY <2>2, <1>3
  <2>. DEFINE f == o[n + 1].items
              g == a[n + 1]
  <2>. HIDE DEF f, g
  <2>7. f \in Seq(X) /\ g \in Seq(Messages) /\ Len(f) = Len(g) /\ \A j \in 1..Len(f) : f[j] = g[j]
    BY <2>3, <2>5, <2>6 DEF f, g
  <2>8. f \in Seq(X \cup Messages) /\ g \in Seq(X \cup Messages)
    <3>1. Seq(X) \subseteq Seq(X \cup Messages) /\ Seq(Messages) \subseteq Seq(X \cup Messages)
      BY SeqMonotonic
    <3>. QED BY <3>1, <2>7
  <2>9. f = g
    BY <2>7, <2>8, SeqEqual
  <2>. QED BY <2>9 DEF f, g
<1>7. Lacks(d[n]) > 0
  BY <1>1, <1>2 DEF n
<1>8. /\ Len(d[n].items) \in Nat
      /\ Head(y[n]) = item
      /\ Tail(y[n]) = SubSeq(b[n], Len(d[n].items) + 2, Len(b[n])) \o Below(y, n)
  <2>1. LET e == Len(d[n].items)
        IN /\ e \in Nat /\ e < Len(b[n]) /\ b[n][e + 1] \in Messages
           /\ y[n] # <<>> /\ Head(y[n]) = b[n][e + 1]
           /\ Tail(y[n]) = SubSeq(b[n], e + 2, Len(b[n])) \o Below(y, n)
           /\ Tail(y[n]) \in Seq(Messages)
    <3>1. n \in 1..Len(d) /\ IsOpen(d)
      BY <1>1, <1>2
    <3>. QED BY <3>1, <1>5, <1>7, NestNext
  <2>2. b[n][Len(d[n].items) + 1] = item
    <3>1. d[n] = o[n] /\ b[n] = a[n]
      BY <1>1, <1>2, <1>4
    <3>2. a[n][Len(o[n].items) + 1] = <<"array", a[n + 1]>>
      BY <1>1, <1>3
    <3>. QED BY <3>1, <3>2, <1>6
  <2>. HIDE DEF item
  <2>. QED BY <2>1, <2>2
<1>. DEFINE x == [y EXCEPT ![n] = Tail(y[n])]
<1>9. Nest(Into(d, item), b, x, v)
  <2>. HIDE DEF item, x
  <2>1. Nest(Into(d, item), b, [y EXCEPT ![Len(d)] = Tail(y[Len(d)])], v)
    BY <1>2, <1>5, <1>7, <1>8, NestInto
  <2>. QED BY <2>1, <1>2 DEF x
<1>10. x[n] = R[n + 1]
  <2>1. x[n] = Tail(y[n])
    BY <1>1, <1>4
  <2>2. n + 1 \in 1..(n + 1) /\ n + 1 # 1 /\ (n + 1) - 1 = n
    BY <1>1
  <2>3. R[n + 1] = SubSeq(a[n + 1], Len(o[n + 1].items) + 1, Len(a[n + 1])) \o Tail(R[n])
    <3>1. R[n + 1] = Owed(o[n + 1], a[n + 1]) \o Below(R, n + 1)
      BY <2>2, <1>3
    <3>2. Below(R, n + 1) = Tail(R[n])
      BY <2>2 DEF Below
    <3>. QED BY <3>1, <3>2, Zenon DEF Owed
  <2>4. SubSeq(a[n + 1], Len(a[n + 1]) + 1, Len(a[n + 1])) = <<>>
    <3>. DEFINE g == a[n + 1]
    <3>1. g \in Seq(Messages)
      BY <2>2, <1>3
    <3>. HIDE DEF g
    <3>2. SubSeq(g, Len(g) + 1, Len(g)) = <<>>
      BY <3>1, SubSeqEmpty
    <3>. QED BY <3>2 DEF g
  <2>5. Tail(R[n]) \in Seq(Messages)
    <3>. DEFINE g == R[n]
    <3>1. g \in Seq(Messages) /\ g # <<>>
      BY <1>1, <1>3
    <3>. HIDE DEF g
    <3>2. Tail(g) \in Seq(Messages)
      BY <3>1, HeadTailProperties
    <3>. QED BY <3>2 DEF g
  <2>6. R[n + 1] = <<>> \o Tail(R[n])
    BY <2>3, <2>4, <1>6
  <2>7. R[n + 1] = Tail(R[n])
    <3>. DEFINE g == Tail(R[n])
    <3>. HIDE DEF g
    <3>1. g \in Seq(Messages)
      BY <2>5 DEF g
    <3>2. <<>> \o g = g
      BY <3>1, ConcatEmptySeq
    <3>. QED BY <3>2, <2>6 DEF g
  <2>. QED BY <2>1, <2>7, <1>1, <1>4
<1>. QED BY <1>1, <1>9, <1>10 DEF d, n

-----------------------------------------------------------------------------
(* Writing, step by step.                                                  *)

\* w is what is left of the message after each of its values.
Values(w) ==
  /\ w \in [Nat -> Seq(Messages)]
  /\ \A k \in Nat : w[k + 1] = After(w[k])

\* k values are done, z of them nils whose cells were written over.
EncodesAt(w, b, o, t, sz, n, p, k, z, q, m) ==
  /\ Counted(w, n, p) /\ w[n] = <<>> /\ sz = p[n]
  /\ k \in 0..n /\ t = w[k] /\ z \in Nat
  /\ Layout(b, o, q, sz) /\ q[o] = Len(t) + z /\ o + CellSize * z <= p[k]
  /\ Order(b, o, m, w, sz)
  /\ Tidy(w, sz) => m[o] = IF o \in DOMAIN b THEN k - 1 ELSE k

Encodes(w, b, o, t, sz) == \E n, p, k, z, q, m : EncodesAt(w, b, o, t, sz, n, p, k, z, q, m)

LEMMA EncodesFacts ==
  ASSUME NEW w, NEW b, NEW o, NEW t, NEW sz, Encodes(w, b, o, t, sz)
  PROVE  /\ IsFiniteSet(DOMAIN b) /\ o \in Nat /\ o <= sz
         /\ \A x \in DOMAIN b : x \in Nat /\ IsCell(b[x]) /\ x + SizeOf(b[x]) <= sz
         /\ o \in DOMAIN b => b[o] = Nil
<1>1. PICK n, p, k, z, q, m : EncodesAt(w, b, o, t, sz, n, p, k, z, q, m)
  BY DEF Encodes
<1>2. /\ Counted(w, n, p) /\ sz = p[n] /\ k \in 0..n /\ z \in Nat
      /\ Layout(b, o, q, sz) /\ o + CellSize * z <= p[k]
  BY <1>1 DEF EncodesAt
<1>3. n \in Nat /\ p[k] \in Nat /\ p[n] \in Nat /\ p[k] <= sz
  BY <1>2 DEF Counted
<1>4. /\ IsFiniteSet(DOMAIN b) /\ o \in Nat
      /\ \A x \in DOMAIN b : x \in Nat /\ IsCell(b[x]) /\ x + SizeOf(b[x]) <= sz
      /\ o \in DOMAIN b => b[o] = Nil
  BY <1>2 DEF Layout
<1>5. CellSize * z \in Nat
  BY <1>2, MsgAssumption
<1>6. o <= sz
  BY <1>2, <1>3, <1>4, <1>5
<1>. QED BY <1>4, <1>6

LEMMA EncodesFirst ==
  ASSUME NEW w, NEW n, NEW p, Counted(w, n, p), w[n] = <<>>, Values(w), Len(w[0]) = 1,
         NEW b, DOMAIN b = {}
  PROVE  Encodes(w, b, 0, w[0], p[n])
<1>. DEFINE q == [x \in {0} |-> 1]
            m == [x \in {0} |-> 0]
            sz == p[n]
<1>1. n \in Nat /\ p[n] \in Nat /\ p[0] = 0
  BY DEF Counted
<1>2. q \in [{0} -> Nat] /\ q[0] = 1 /\ m \in [{0} -> Nat] /\ m[0] = 0
  OBVIOUS
<1>. HIDE DEF q, m, sz
<1>3. DOMAIN b \cup {0} = {0} /\ IsFiniteSet(DOMAIN b)
  BY FS_EmptySet
<1>4. Layout(b, 0, q, sz)
  BY <1>1, <1>2, <1>3 DEF Layout, sz
<1>5. Order(b, 0, m, w, sz)
  BY <1>2, <1>3 DEF Order
<1>6. CellSize * 0 = 0
  BY MsgAssumption
<1>7. EncodesAt(w, b, 0, w[0], sz, n, p, 0, 0, q, m)
  BY <1>1, <1>2, <1>4, <1>5, <1>6 DEF EncodesAt, sz
<1>. QED BY <1>7 DEF Encodes, sz

LEMMA EncodesNext ==
  ASSUME NEW w, Values(w), NEW b, NEW o, NEW t, NEW sz, Encodes(w, b, o, t, sz), t # <<>>
  PROVE  /\ t \in Seq(Messages) /\ Head(t) \in Messages
         /\ Encodes(w, Written(b, o, CellOf(Head(t))), o + Advance(Head(t)), After(t), sz)
<1>1. PICK n, p, k, z, q, m : EncodesAt(w, b, o, t, sz, n, p, k, z, q, m)
  BY DEF Encodes
<1>2. /\ Counted(w, n, p) /\ w[n] = <<>> /\ sz = p[n]
      /\ k \in 0..n /\ t = w[k] /\ z \in Nat
      /\ Layout(b, o, q, sz) /\ q[o] = Len(t) + z /\ o + CellSize * z <= p[k]
      /\ Order(b, o, m, w, sz)
  BY <1>1 DEF EncodesAt
<1>. DEFINE v == Head(t)
            c == CellOf(v)
            a == After(t)
            d == Written(b, o, c)
<1>3. n \in Nat /\ k \in Nat /\ k < n /\ k \in 0..(n - 1) /\ k + 1 \in 0..n
  BY <1>2 DEF Counted
<1>4. t \in Seq(Messages) /\ a = w[k + 1]
  BY <1>2, <1>3 DEF Values
<1>5. v \in Messages /\ Len(a) = Len(t) - 1 + Announced(c) /\ Len(t) \in Nat
  BY <1>4, AfterFacts, LenProperties
<1>6. Len(t) > 0
  BY <1>4, EmptySeq, LenProperties
<1>7. /\ IsCell(c) /\ SizeOf(c) = SizeOf(v) /\ (v = Nil <=> c = Nil)
      /\ Advance(v) = IF c = Nil THEN 0 ELSE Width(c)
  BY <1>5, CellOfFacts
<1>8. /\ Width(c) \in Nat /\ SizeOf(c) \in Nat /\ Announced(c) \in Nat
      /\ Width(c) >= CellSize /\ Width(c) <= SizeOf(c) /\ CellSize > 0 /\ CellSize \in Nat
      /\ c = Nil => Width(c) = CellSize /\ SizeOf(c) = CellSize /\ Announced(c) = 0
  BY <1>7, CellFacts DEF Announced, Nil
<1>9. /\ p[k] \in Nat /\ p[k + 1] \in Nat /\ p[k + 1] = p[k] + SizeOf(c) /\ p[k + 1] <= sz
      /\ k <= sz /\ sz \in Nat
  <2>1. p[k] \in Nat /\ p[k + 1] \in Nat /\ p[k + 1] <= p[n] /\ k <= p[k] /\ p[k] <= p[n] /\ p[n] \in Nat
    BY <1>2, <1>3 DEF Counted
  <2>2. p[k + 1] = p[k] + SizeOf(v)
    BY <1>2, <1>3 DEF Counted
  <2>. QED BY <2>1, <2>2, <1>2, <1>3, <1>7
<1>10. o \in Nat /\ CellSize * z \in Nat /\ o + SizeOf(c) <= sz /\ q[o] > 0 /\ q[o] \in Nat
  <2>1. o \in Nat /\ CellSize * z \in Nat
    BY <1>2, <1>8 DEF Layout
  <2>2. q[o] > 0 /\ q[o] \in Nat
    BY <1>2, <1>5, <1>6
  <2>3. o + CellSize * z <= p[k]
    BY <1>2
  <2>. HIDE DEF c
  <2>4. o + SizeOf(c) <= sz
    <3>. DEFINE f == CellSize * z
    <3>1. f \in Nat /\ o + f <= p[k]
      BY <2>1, <2>3
    <3>. HIDE DEF f
    <3>. QED BY <3>1, <2>1, <1>8, <1>9
  <2>. QED BY <2>1, <2>2, <2>4
<1>11. Tidy(w, sz) => o \notin DOMAIN b /\ m[o] = k
  <2>1. SUFFICES ASSUME Tidy(w, sz), o \in DOMAIN b PROVE FALSE
    BY <1>1 DEF EncodesAt
  <2>2. m[o] = k - 1 /\ m[o] \in Nat
    BY <1>1, <2>1 DEF EncodesAt, Order
  <2>. DEFINE e == w[k - 1]
  <2>3. b[o] = Nil /\ e # <<>> /\ b[o] = CellOf(Head(e)) /\ k - 1 \in Nat
    BY <1>2, <2>1, <2>2 DEF Layout, Order, CellAt
  <2>4. e \in Seq(Messages) /\ t = After(e)
    <3>1. (k - 1) + 1 = k
      BY <1>3
    <3>. QED BY <3>1, <2>3, <1>2 DEF Values
  <2>. HIDE DEF e
  <2>5. Head(e) \in Messages /\ Len(t) = Len(e) - 1 + Announced(CellOf(Head(e))) /\ Len(e) \in Nat
    BY <2>3, <2>4, AfterFacts, LenProperties
  <2>6. Head(e) = Nil /\ Announced(CellOf(Head(e))) = 0
    BY <2>3, <2>5, CellOfFacts DEF Announced, Nil
  <2>7. Len(e) > 1
    BY <2>5, <2>6, <1>5, <1>6
  <2>8. k - 1 \in 0..sz
    BY <2>3, <1>3, <1>9
  <2>. QED BY <2>1, <2>6, <2>7, <2>8 DEF Tidy, e
<1>. HIDE DEF v, c, a, d
<1>12. CASE c = Nil
  <2>. DEFINE x == [m EXCEPT ![o] = k]
  <2>1. DOMAIN d = DOMAIN b \cup {o} /\ Advance(v) = 0 /\ o + Advance(v) = o
    BY <1>7, <1>10, <1>12 DEF d, Written
  <2>2. Layout(d, o, q, sz)
    BY <1>2, <1>8, <1>10, <1>12, NilLayout DEF d
  <2>3. Order(d, o, x, w, sz)
    <3>1. w[k] # <<>> /\ CellAt(w, k) = Nil
      BY <1>2, <1>12 DEF c, v, CellAt
    <3>2. Order(Written(b, o, Nil), o, [m EXCEPT ![o] = k], w, sz)
      BY <3>1, <1>2, <1>3, <1>11, NilOrder
    <3>. QED BY <3>2, <1>12 DEF d
  <2>4. x[o] = k
    BY <1>2 DEF Order
  <2>. HIDE DEF x
  <2>5. q[o] = Len(a) + (z + 1) /\ z + 1 \in Nat
    <3>1. Announced(c) = 0
      BY <1>8, <1>12
    <3>2. Len(a) = Len(t) - 1
      BY <3>1, <1>5
    <3>3. z \in Nat /\ q[o] = Len(t) + z
      BY <1>2
    <3>. QED BY <3>2, <3>3, <1>5
  <2>6. CellSize * (z + 1) = CellSize * z + CellSize
    BY <1>2, <1>8
  <2>7. o + CellSize * (z + 1) <= p[k + 1]
    <3>. DEFINE f == CellSize * z
    <3>1. f \in Nat /\ o \in Nat /\ o + f <= p[k]
      BY <1>2, <1>10
    <3>2. CellSize \in Nat /\ p[k] \in Nat /\ p[k + 1] = p[k] + CellSize
      BY <1>8, <1>9, <1>12
    <3>. HIDE DEF f
    <3>3. o + (f + CellSize) <= p[k + 1]
      BY <3>1, <3>2
    <3>. QED BY <3>3, <2>6 DEF f
  <2>8. Tidy(w, sz) => x[o] = IF o \in DOMAIN d THEN (k + 1) - 1 ELSE k + 1
    BY <2>1, <2>4, <1>3
  <2>9. EncodesAt(w, d, o, a, sz, n, p, k + 1, z + 1, q, x)
    BY <1>2, <1>3, <1>4, <2>2, <2>3, <2>5, <2>7, <2>8 DEF EncodesAt
  <2>10. Encodes(w, d, o + Advance(v), a, sz)
    BY <2>1, <2>9 DEF Encodes
  <2>. QED BY <2>10, <1>4, <1>5 DEF a, c, d, v
<1>13. CASE c # Nil
  <2>. DEFINE F == o + Width(c)
              y == [i \in DOMAIN b \cup {o} \cup {F} |-> IF i = F THEN q[o] - 1 + Announced(c) ELSE q[i]]
  <2>1. DOMAIN d = DOMAIN b \cup {o} /\ F = o + Advance(v)
    BY <1>7, <1>13 DEF d, Written
  <2>2. Layout(d, F, y, sz)
    BY <1>2, <1>7, <1>10, <1>13, CellLayout DEF d
  <2>3. PICK x : Order(d, F, x, w, sz) /\ x[F] = k + 1
    <3>1. w[k] # <<>> /\ c = CellAt(w, k)
      BY <1>2 DEF c, v, CellAt
    <3>2. Layout(b, o, q, sz) /\ Order(b, o, m, w, sz) /\ k \in Nat /\ IsCell(c) /\ c # Nil
      BY <1>2, <1>3, <1>7, <1>13
    <3>3. Tidy(w, sz) => m[o] = k
      BY <1>11
    <3>4. Follows(b, o, CellAt(w, k), k, w, sz)
      BY <3>1, <3>2, <3>3, CellOrder
    <3>. QED BY <3>1, <3>4 DEF d, Follows
  <2>4. y[F] = q[o] - 1 + Announced(c)
    OBVIOUS
  <2>5. F \notin DOMAIN d
    <3>1. \A i \in DOMAIN b : i \in Nat /\ i <= o
      BY <1>2 DEF Layout
    <3>2. F > o /\ F \in Nat
      BY <1>8, <1>10
    <3>. HIDE DEF F
    <3>. QED BY <3>1, <3>2, <2>1, <1>10
  <2>. HIDE DEF y
  <2>6. y[F] = Len(a) + z
    BY <2>4, <1>2, <1>5, <1>8
  <2>7. F + CellSize * z <= p[k + 1]
    <3>. DEFINE f == CellSize * z
                u == Width(c)
    <3>1. f \in Nat /\ o \in Nat /\ o + f <= p[k]
      BY <1>2, <1>10
    <3>2. u \in Nat /\ u <= SizeOf(c) /\ SizeOf(c) \in Nat
      BY <1>8
    <3>3. p[k] \in Nat /\ p[k + 1] = p[k] + SizeOf(c)
      BY <1>9
    <3>. HIDE DEF f, u
    <3>4. (o + u) + f <= p[k + 1]
      BY <3>1, <3>2, <3>3
    <3>. QED BY <3>4 DEF f, u
  <2>. HIDE DEF F
  <2>8. EncodesAt(w, d, F, a, sz, n, p, k + 1, z, y, x)
    BY <1>2, <1>3, <1>4, <2>2, <2>3, <2>4, <2>5, <2>6, <2>7 DEF EncodesAt
  <2>9. Encodes(w, d, o + Advance(v), a, sz)
    BY <2>1, <2>8 DEF Encodes
  <2>. QED BY <2>9, <1>4, <1>5 DEF a, c, d, v
<1>. QED BY <1>12, <1>13

-----------------------------------------------------------------------------
(* Reading, step by step.                                                  *)

\* What the receiver finds: nothing has to be done after the last value.
Finds(b, E, q, m, w, sz) ==
  /\ Layout(b, E, q, sz) /\ E + CellSize * q[E] <= sz
  /\ Order(b, E, m, w, sz)
  /\ Tidy(w, sz) => w[IF E \in DOMAIN b THEN m[E] + 1 ELSE m[E]] = <<>>

\* Where it is, whatever it has to make of the cells.
Stands(b, E, q, sz, o, op) ==
  /\ IsOpen(op)
  /\ \E s : Expects(op, s) /\ Position(b, E, q, sz, o, s[Len(op)])

\* What it has to read is what was still to be written before the cell there was.
Tracks(b, E, m, w, o, op, v) ==
  \E a, R : Nest(op, a, R, v) /\ R[Len(op)] = IF o \in DOMAIN b \cup {E} THEN w[m[o]] ELSE <<>>

Decodes(w, b, o, op, sz, v) ==
  \E E, q, m :
    Finds(b, E, q, m, w, sz) /\ Stands(b, E, q, sz, o, op) /\ (Tidy(w, sz) => Tracks(b, E, m, w, o, op, v))

LEMMA DecodesFirst ==
  ASSUME NEW w, Values(w), NEW b, NEW o, NEW sz, Encodes(w, b, o, <<>>, sz),
         NEW v \in Messages, w[0] = <<v>>
  PROVE  Decodes(w, b, 0, << [size |-> 1, items |-> <<>>] >>, sz, v)
<1>. DEFINE op == << [size |-> 1, items |-> <<>>] >>
<1>1. PICK n, p, k, z, q, m : EncodesAt(w, b, o, <<>>, sz, n, p, k, z, q, m)
  BY DEF Encodes
<1>2. /\ Counted(w, n, p) /\ sz = p[n]
      /\ k \in 0..n /\ <<>> = w[k] /\ z \in Nat
      /\ Layout(b, o, q, sz) /\ q[o] = Len(<<>>) + z /\ o + CellSize * z <= p[k]
      /\ Order(b, o, m, w, sz)
      /\ Tidy(w, sz) => m[o] = IF o \in DOMAIN b THEN k - 1 ELSE k
  BY <1>1, Zenon DEF EncodesAt
<1>3. p[k] \in Nat /\ p[k] <= sz /\ sz \in Nat /\ k \in Nat /\ n \in Nat
  BY <1>2 DEF Counted
<1>4. /\ o \in Nat /\ q \in [DOMAIN b \cup {o} -> Nat] /\ q[0] = 1
      /\ 0 \in DOMAIN b \cup {o} /\ m \in [DOMAIN b \cup {o} -> Nat]
      /\ Tidy(w, sz) => m[0] = 0
  BY <1>2 DEF Layout, Order
<1>5. Finds(b, o, q, m, w, sz)
  <2>1. q[o] = z
    BY <1>2
  <2>2. CellSize * z \in Nat
    BY <1>2, MsgAssumption
  <2>3. o + CellSize * q[o] <= sz
    BY <2>1, <2>2, <1>2, <1>3, <1>4
  <2>4. Tidy(w, sz) => w[IF o \in DOMAIN b THEN m[o] + 1 ELSE m[o]] = <<>>
    <3>1. Tidy(w, sz) => (IF o \in DOMAIN b THEN m[o] + 1 ELSE m[o]) = k
      BY <1>2, <1>3
    <3>. QED BY <3>1, <1>2
  <2>. QED BY <2>3, <2>4, <1>2 DEF Finds
<1>6. op[1] = [size |-> 1, items |-> <<>>] /\ Len(op) = 1 /\ op # <<>> /\ op \in Seq(Arrays({}))
  BY DEF Arrays
<1>. HIDE DEF op
<1>7. Lacks(op[1]) = 1
  BY <1>6 DEF Lacks
<1>8. Stands(b, o, q, sz, 0, op)
  <2>. DEFINE s == [i \in 1..1 |-> 1]
  <2>1. s \in [1..1 -> Nat] /\ s[1] = 1
    OBVIOUS
  <2>. HIDE DEF s
  <2>2. Expects(op, s)
    BY <2>1, <1>6, <1>7 DEF Expects
  <2>3. Position(b, o, q, sz, 0, s[Len(op)])
    BY <2>1, <1>4, <1>6 DEF Position
  <2>4. IsOpen(op)
    BY <1>6 DEF IsOpen
  <2>. QED BY <2>2, <2>3, <2>4 DEF Stands
<1>9. ASSUME Tidy(w, sz) PROVE Tracks(b, o, m, w, 0, op, v)
  <2>. DEFINE t == <<v>>
              a == [i \in 1..1 |-> t]
  <2>1. t \in Seq(Messages) /\ Len(t) = 1
    OBVIOUS
  <2>. HIDE DEF t
  <2>2. a \in [1..1 -> Seq(Messages)] /\ a[1] = t
    BY <2>1
  <2>. HIDE DEF a
  <2>3. Owed(op[1], t) \o Below(a, 1) = t
    <3>1. Len(op[1].items) + 1 = 1
      BY <1>6
    <3>2. SubSeq(t, 1, Len(t)) = t /\ t \o <<>> = t
      BY <2>1, SubSeqFull, ConcatEmptySeq
    <3>3. Below(a, 1) = <<>>
      BY DEF Below
    <3>. QED BY <3>1, <3>2, <3>3, Zenon DEF Owed
  <2>4. a[1] = Owed(op[1], a[1]) \o Below(a, 1)
    BY <2>2, <2>3, Zenon
  <2>5. op[1].size = Len(a[1]) /\ Len(op[1].items) <= Len(a[1]) /\ Len(op[1].items) = 0
    BY <2>1, <2>2, <1>6
  <2>6. Nest(op, a, a, v)
    <3>1. ASSUME NEW i \in 1..1
          PROVE  /\ op[i].size = Len(a[i])
                 /\ Len(op[i].items) <= Len(a[i])
                 /\ \A j \in 1..Len(op[i].items) : op[i].items[j] = a[i][j]
                 /\ a[i] = Owed(op[i], a[i]) \o Below(a, i)
      <4>1. i = 1
        OBVIOUS
      <4>2. \A j \in 1..Len(op[1].items) : op[1].items[j] = a[1][j]
        BY <2>5
      <4>. QED BY <4>1, <4>2, <2>4, <2>5, Zenon
    <3>2. 1..(1 - 1) = {}
      OBVIOUS
    <3>3. a[1] = <<v>>
      BY <2>2 DEF t
    <3>. QED BY <3>1, <3>2, <3>3, <2>2, <1>6 DEF Nest
  <2>7. a[Len(op)] = w[m[0]]
    BY <1>4, <1>6, <1>9, <2>2 DEF t
  <2>. QED BY <2>6, <2>7, <1>4 DEF Tracks
<1>. QED BY <1>5, <1>8, <1>9 DEF Decodes, op

LEMMA DecodesFacts ==
  ASSUME NEW w, NEW b, NEW o, NEW op, NEW sz, NEW v, Decodes(w, b, o, op, sz, v)
  PROVE  /\ IsOpen(op) /\ o \in Nat /\ o <= sz
         /\ \A i \in 1..Len(op) : Lacks(op[i]) >= 0 /\ (i < Len(op) => Lacks(op[i]) > 0)
         /\ Lacks(op[Len(op)]) > 0 => o + CellSize <= sz
         /\ o \in DOMAIN b =>
              IsCell(b[o]) /\ \A x \in DOMAIN b : x >= o + Width(b[o]) <=> x >= o /\ x # o
         /\ o \notin DOMAIN b /\ Lacks(op[Len(op)]) > 0 => \A x \in DOMAIN b : ~(x >= o)
<1>1. PICK E, q, m : Finds(b, E, q, m, w, sz) /\ Stands(b, E, q, sz, o, op)
  BY DEF Decodes
<1>2. Layout(b, E, q, sz) /\ E + CellSize * q[E] <= sz
  BY <1>1 DEF Finds
<1>3. PICK s : Expects(op, s) /\ Position(b, E, q, sz, o, s[Len(op)])
  BY <1>1 DEF Stands
<1>4. IsOpen(op)
  BY <1>1 DEF Stands
<1>. DEFINE y == s[Len(op)]
<1>5. y \in Nat /\ y >= Lacks(op[Len(op)]) /\ Lacks(op[Len(op)]) \in Int
  <2>1. Len(op) \in 1..Len(op)
    BY <1>4, IntoOpen
  <2>. QED BY <2>1, <1>3, <1>4, ExpectsTop, LacksInt
<1>. HIDE DEF y
<1>6. Position(b, E, q, sz, o, y)
  BY <1>3 DEF y
<1>7. o \in Nat /\ o <= sz /\ (y > 0 => o + CellSize <= sz)
  BY <1>2, <1>5, <1>6, PositionBound
<1>8. Lacks(op[Len(op)]) > 0 => y > 0
  BY <1>5
<1>9. \A i \in 1..Len(op) : Lacks(op[i]) >= 0 /\ (i < Len(op) => Lacks(op[i]) > 0)
  <2>1. ASSUME NEW i \in 1..Len(op), i < Len(op) PROVE Lacks(op[i]) > 0
    <3>1. Len(op) \in Nat /\ i + 1 \in 2..Len(op) /\ (i + 1) - 1 = i
      BY <2>1, <1>4, IntoOpen
    <3>. QED BY <3>1, <1>3 DEF Expects
  <2>. QED BY <2>1, <1>3 DEF Expects
<1>10. /\ E \in Nat
       /\ \A x \in DOMAIN b : x \in Nat /\ x <= E /\ IsCell(b[x])
       /\ E \in DOMAIN b => b[E] = Nil
       /\ \A z \in DOMAIN b \ {E} : \A x \in DOMAIN b \cup {E} : x > z => x >= z + Width(b[z])
  BY <1>2 DEF Layout
<1>11. ASSUME o \in DOMAIN b, NEW x \in DOMAIN b
       PROVE  x >= o + Width(b[o]) <=> x >= o /\ x # o
  <2>1. Width(b[o]) \in Nat /\ Width(b[o]) > 0
    BY <1>10, <1>11, CellFacts
  <2>2. x \in Nat /\ x <= E
    BY <1>10
  <2>3. x > o => x >= o + Width(b[o])
    <3>1. CASE o = E
      BY <3>1, <2>2, <1>10
    <3>2. CASE o # E
      BY <3>2, <1>10, <1>11
    <3>. QED BY <3>1, <3>2
  <2>. QED BY <2>1, <2>2, <2>3, <1>7
<1>12. ASSUME o \notin DOMAIN b, Lacks(op[Len(op)]) > 0, NEW x \in DOMAIN b
       PROVE  ~(x >= o)
  <2>1. o >= E
    BY <1>2, <1>5, <1>6, <1>8, <1>12, ReadNothing
  <2>2. x \in Nat /\ x <= E /\ x # o
    BY <1>10, <1>12
  <2>. QED BY <2>1, <2>2, <1>7, <1>10
<1>. QED BY <1>4, <1>7, <1>8, <1>9, <1>10, <1>11, <1>12

(* A cell that is no array becomes an item.                                *)
LEMMA DecodesItem ==
  ASSUME NEW w, Values(w), NEW b, NEW o, NEW op, NEW sz, NEW v, Decodes(w, b, o, op, sz, v),
         Lacks(op[Len(op)]) > 0, o \in DOMAIN b, b[o][1] # "array"
  PROVE  Decodes(w, b, o + Width(b[o]), Into(op, b[o]), sz, v)
<1>1. PICK E, q, m : /\ Finds(b, E, q, m, w, sz) /\ Stands(b, E, q, sz, o, op)
                     /\ Tidy(w, sz) => Tracks(b, E, m, w, o, op, v)
  BY DEF Decodes
<1>2. Layout(b, E, q, sz) /\ E + CellSize * q[E] <= sz /\ Order(b, E, m, w, sz)
  BY <1>1 DEF Finds
<1>. DEFINE c == b[o]
            F == o + Width(c)
            d == Into(op, c)
            n == Len(op)
<1>3. PICK s : Expects(op, s) /\ Position(b, E, q, sz, o, s[n])
  BY <1>1 DEF Stands
<1>4. IsOpen(op) /\ IsCell(c) /\ Announced(c) = 0 /\ Len(d) = n
  BY <1>1, <1>2, IntoOpen DEF Stands, Layout, Announced
<1>5. /\ E \in Nat /\ o \in Nat /\ o <= E
      /\ o = E => c = Nil
      /\ o # E => c # Nil /\ F \in DOMAIN b \cup {E}
  BY <1>2 DEF Layout
<1>6. Width(c) \in Nat /\ Width(c) > 0
  BY <1>4, CellFacts
<1>. HIDE DEF c, F, d, n
<1>7. s[n] = q[o] /\ q[o] > 0 /\ q[o] \in Nat
  <2>1. s[n] = q[o]
    BY <1>3, <1>5 DEF Position
  <2>2. s[n] \in Nat /\ s[n] > 0
    <3>1. n \in 1..n
      BY <1>4, IntoOpen DEF n
    <3>2. s[n] \in Nat /\ s[n] >= Lacks(op[n]) /\ Lacks(op[n]) \in Int
      BY <3>1, <1>3, <1>4, ExpectsTop, LacksInt DEF n
    <3>. QED BY <3>2 DEF n
  <2>. QED BY <2>1, <2>2
<1>8. Stands(b, E, q, sz, F, d)
  <2>1. PICK x : Expects(d, x) /\ x[n] = s[n] - 1
    BY <1>3, <1>4, IntoExpects DEF d, n
  <2>2. Position(b, E, q, sz, F, q[o] - 1 + Announced(c))
    BY <1>2, <1>7, ReadCell DEF c, F
  <2>3. q[o] - 1 + Announced(c) = x[Len(d)]
    BY <2>1, <1>4, <1>7
  <2>4. IsOpen(d)
    BY <1>4, IntoOpen DEF d
  <2>. QED BY <2>1, <2>2, <2>3, <2>4 DEF Stands
<1>9. ASSUME Tidy(w, sz) PROVE Tracks(b, E, m, w, F, d, v)
  <2>1. PICK a, R : Nest(op, a, R, v) /\ R[n] = IF o \in DOMAIN b \cup {E} THEN w[m[o]] ELSE <<>>
    BY <1>1, <1>9 DEF Tracks, n
  <2>. DEFINE k == m[o]
              r == w[k]
  <2>2. R[n] = r /\ r # <<>> /\ c = CellOf(Head(r)) /\ k \in Nat
    BY <2>1, <1>2 DEF Order, CellAt, c
  <2>3. r \in Seq(Messages) /\ w[k + 1] = After(r)
    BY <2>2 DEF Values
  <2>4. /\ F \in DOMAIN b \cup {E} => m[F] = k + 1
        /\ F \notin DOMAIN b \cup {E} => w[k + 1] = <<>>
    <3>1. CASE o = E
      <4>1. F > E /\ F \in Nat
        BY <3>1, <1>5, <1>6 DEF F
      <4>2. F \notin DOMAIN b \cup {E}
        BY <4>1, <1>2 DEF Layout
      <4>3. w[m[E] + 1] = <<>>
        BY <3>1, <1>1, <1>9 DEF Finds
      <4>. QED BY <3>1, <4>2, <4>3
    <3>2. CASE o # E
      BY <3>2, <1>2, <1>5, <1>9 DEF Order, F, c
    <3>. QED BY <3>1, <3>2
  <2>. HIDE DEF r, k
  <2>5. Head(r) \in Messages /\ Head(r)[1] # "array" /\ Head(r) = c /\ After(r) = Tail(r)
    <3>1. Head(r) \in Messages /\ (Head(r)[1] # "array" => After(r) = Tail(r))
      BY <2>2, <2>3, AfterFacts
    <3>2. CellOf(Head(r))[1] = Head(r)[1] /\ (Head(r)[1] # "array" => CellOf(Head(r)) = Head(r))
      BY <3>1, CellOfFacts
    <3>3. c[1] # "array"
      BY DEF c
    <3>. QED BY <3>1, <3>2, <3>3, <2>2
  <2>. DEFINE x == [R EXCEPT ![n] = Tail(R[n])]
  <2>6. Nest(d, a, x, v)
    <3>1. c = Head(R[Len(op)])
      BY <2>2, <2>5 DEF n
    <3>2. Nest(Into(op, c), a, [R EXCEPT ![Len(op)] = Tail(R[Len(op)])], v)
      BY <3>1, <2>1, <1>4, NestInto
    <3>. QED BY <3>2 DEF d, n
  <2>7. x[n] = After(r)
    <3>1. n \in DOMAIN R
      <4>1. n \in 1..n
        BY <1>4, IntoOpen DEF n
      <4>. QED BY <4>1, <2>1 DEF Nest, n
    <3>. QED BY <3>1, <2>2, <2>5
  <2>. HIDE DEF x
  <2>8. x[Len(d)] = IF F \in DOMAIN b \cup {E} THEN w[m[F]] ELSE <<>>
    BY <2>3, <2>4, <2>7, <1>4
  <2>. QED BY <2>6, <2>8 DEF Tracks
<1>. QED BY <1>1, <1>8, <1>9 DEF Decodes, F, d, c

(* The cell of an array opens it.                                          *)
LEMMA DecodesArray ==
  ASSUME NEW w, Values(w), NEW b, NEW o, NEW op, NEW sz, NEW v, Decodes(w, b, o, op, sz, v),
         Lacks(op[Len(op)]) > 0, o \in DOMAIN b, b[o][1] = "array"
  PROVE  Decodes(w, b, o + CellSize, Opening(op, b[o][2]), sz, v)
<1>1. PICK E, q, m : /\ Finds(b, E, q, m, w, sz) /\ Stands(b, E, q, sz, o, op)
                     /\ Tidy(w, sz) => Tracks(b, E, m, w, o, op, v)
  BY DEF Decodes
<1>2. Layout(b, E, q, sz) /\ E + CellSize * q[E] <= sz /\ Order(b, E, m, w, sz)
  BY <1>1 DEF Finds
<1>. DEFINE c == b[o]
            i == c[2]
            F == o + CellSize
            d == Opening(op, i)
            n == Len(op)
<1>3. PICK s : Expects(op, s) /\ Position(b, E, q, sz, o, s[n])
  BY <1>1 DEF Stands
<1>4. IsOpen(op) /\ IsCell(c)
  BY <1>1, <1>2 DEF Stands, Layout
<1>5. c[1] = "array" /\ i \in Nat /\ Announced(c) = i /\ c # Nil /\ Width(c) = CellSize
  <2>1. c[1] = "array"
    OBVIOUS
  <2>. HIDE DEF c
  <2>2. Width(c) = CellSize /\ (c = Nil <=> c[1] = "nil")
    BY <2>1, <1>4, CellFacts
  <2>. QED BY <2>1, <2>2, <1>4 DEF IsCell, Announced
<1>6. /\ E \in Nat /\ o \in Nat /\ o # E /\ F \in DOMAIN b \cup {E}
  BY <1>2, <1>5 DEF Layout
<1>7. Len(d) = n + 1 /\ n \in Nat /\ n > 0 /\ IsOpen(d)
  BY <1>4, <1>5, IntoOpen, OpeningOpen
<1>. HIDE DEF c, F, d, n, i
<1>8. s[n] = q[o] /\ q[o] > 0 /\ q[o] \in Nat
  <2>1. s[n] = q[o]
    BY <1>3, <1>2, <1>6 DEF Position, Layout
  <2>2. s[n] \in Nat /\ s[n] > 0
    <3>1. n \in 1..n
      BY <1>7
    <3>2. s[n] \in Nat /\ s[n] >= Lacks(op[n]) /\ Lacks(op[n]) \in Int
      BY <3>1, <1>3, <1>4, ExpectsTop, LacksInt DEF n
    <3>. QED BY <3>2 DEF n
  <2>. QED BY <2>1, <2>2
<1>9. Stands(b, E, q, sz, F, d)
  <2>1. PICK x : Expects(d, x) /\ x[n + 1] = s[n] - 1 + i
    BY <1>3, <1>4, <1>5, OpeningExpects DEF d, n
  <2>2. Position(b, E, q, sz, o + Width(c), q[o] - 1 + Announced(c))
    BY <1>2, <1>8, ReadCell DEF c
  <2>3. q[o] - 1 + Announced(c) = x[Len(d)] /\ o + Width(c) = F
    BY <2>1, <1>5, <1>7, <1>8 DEF F
  <2>. QED BY <2>1, <2>2, <2>3, <1>7 DEF Stands
<1>10. ASSUME Tidy(w, sz) PROVE Tracks(b, E, m, w, F, d, v)
  <2>1. PICK a, R : Nest(op, a, R, v) /\ R[n] = IF o \in DOMAIN b \cup {E} THEN w[m[o]] ELSE <<>>
    BY <1>1, <1>10 DEF Tracks, n
  <2>. DEFINE k == m[o]
              r == w[k]
              t == Head(r)[2]
  <2>2. R[n] = r /\ r # <<>> /\ c = CellOf(Head(r)) /\ k \in Nat
    BY <2>1, <1>2 DEF Order, CellAt, c
  <2>3. r \in Seq(Messages) /\ w[k + 1] = After(r)
    BY <2>2 DEF Values
  <2>4. m[F] = k + 1
    BY <1>2, <1>5, <1>6, <1>10 DEF Order, F, c
  <2>. HIDE DEF r, k
  <2>5. Head(r)[1] = "array" /\ t \in Seq(Messages) /\ Head(r) = <<"array", t>>
        /\ c = <<"array", Len(t)>> /\ After(r) = t \o Tail(r)
    <3>1. Head(r) \in Messages /\ (Head(r)[1] = "array" => After(r) = Head(r)[2] \o Tail(r))
      BY <2>2, <2>3, AfterFacts
    <3>2. /\ CellOf(Head(r))[1] = Head(r)[1]
          /\ Head(r)[1] = "array" => Head(r)[2] \in Seq(Messages) /\ Head(r) = <<"array", Head(r)[2]>>
                                     /\ CellOf(Head(r)) = <<"array", Len(Head(r)[2])>>
      BY <3>1, CellOfFacts
    <3>3. Head(r)[1] = "array"
      BY <3>2, <2>2, <1>5
    <3>. QED BY <3>1, <3>2, <3>3, <2>2
  <2>. HIDE DEF t
  <2>6. i = Len(t)
    BY <2>5 DEF i
  <2>7. PICK e, x : Nest(d, e, x, v) /\ x[n + 1] = t \o Tail(R[n])
    <3>1. Head(R[Len(op)]) = <<"array", t>>
      BY <2>2, <2>5 DEF n
    <3>2. \E e, x : Nest(Opening(op, Len(t)), e, x, v) /\ x[Len(op) + 1] = t \o Tail(R[Len(op)])
      BY <3>1, <2>1, <2>5, <1>4, NestOpening
    <3>. QED BY <3>2, <2>6, Zenon DEF d, n
  <2>8. x[n + 1] = After(r)
    BY <2>2, <2>5, <2>7, Zenon
  <2>9. x[Len(d)] = IF F \in DOMAIN b \cup {E} THEN w[m[F]] ELSE <<>>
    BY <2>3, <2>4, <2>8, <1>6, <1>7
  <2>. QED BY <2>7, <2>9 DEF Tracks
<1>. QED BY <1>1, <1>9, <1>10 DEF Decodes, F, d, c, i

(* Memory nobody wrote is only reached in a message that is not tidy.      *)
LEMMA DecodesNothing ==
  ASSUME NEW c, NEW w, NEW b, NEW o, NEW op, NEW sz, NEW v, Decodes(w, b, o, op, sz, v),
         Lacks(op[Len(op)]) > 0, o \notin DOMAIN b
  PROVE  ~Tidy(w, sz) /\ Decodes(w, b, o + CellSize, Into(op, c), sz, v)
<1>1. PICK E, q, m : /\ Finds(b, E, q, m, w, sz) /\ Stands(b, E, q, sz, o, op)
                     /\ Tidy(w, sz) => Tracks(b, E, m, w, o, op, v)
  BY DEF Decodes
<1>2. Layout(b, E, q, sz) /\ E + CellSize * q[E] <= sz
  BY <1>1 DEF Finds
<1>. DEFINE n == Len(op)
            d == Into(op, c)
<1>3. PICK s : Expects(op, s) /\ Position(b, E, q, sz, o, s[n])
  BY <1>1 DEF Stands
<1>4. IsOpen(op) /\ IsOpen(d) /\ Len(d) = n /\ n \in 1..n
  BY <1>1, IntoOpen DEF Stands
<1>5. s[n] \in Nat /\ s[n] > 0
  <2>1. s[n] \in Nat /\ s[n] >= Lacks(op[n]) /\ Lacks(op[n]) \in Int
    BY <1>3, <1>4, ExpectsTop, LacksInt
  <2>. QED BY <2>1
<1>6. ~Tidy(w, sz)
  <2>1. SUFFICES ASSUME Tidy(w, sz) PROVE FALSE
    OBVIOUS
  <2>2. PICK a, R : Nest(op, a, R, v) /\ R[n] = IF o \in DOMAIN b \cup {E} THEN w[m[o]] ELSE <<>>
    BY <1>1, <2>1 DEF Tracks
  <2>3. R[n] = <<>>
    <3>1. CASE o = E
      <4>1. w[m[E]] = <<>>
        BY <1>1, <2>1, <3>1 DEF Finds
      <4>. QED BY <2>2, <3>1, <4>1
    <3>2. CASE o # E
      BY <2>2, <3>2
    <3>. QED BY <3>1, <3>2
  <2>4. R[n] # <<>>
    <3>1. n \in 1..Len(op) /\ Lacks(op[n]) > 0
      BY <1>4
    <3>. HIDE DEF n
    <3>2. LET e == Len(op[n].items)
          IN /\ e \in Nat /\ e < Len(a[n]) /\ a[n][e + 1] \in Messages
             /\ R[n] # <<>> /\ Head(R[n]) = a[n][e + 1]
             /\ Tail(R[n]) = SubSeq(a[n], e + 2, Len(a[n])) \o Below(R, n)
             /\ Tail(R[n]) \in Seq(Messages)
      <4>1. IsOpen(op) /\ Nest(op, a, R, v)
        BY <1>4, <2>2
      <4>. QED BY <4>1, <3>1, NestNext, Zenon
    <3>. QED BY <3>2
  <2>. QED BY <2>3, <2>4
<1>7. Stands(b, E, q, sz, o + CellSize, d)
  <2>. DEFINE y == s[n]
  <2>1. PICK x : Expects(d, x) /\ x[n] = s[n] - 1
    BY <1>3, <1>4, IntoExpects
  <2>2. y \in Nat /\ y > 0 /\ Position(b, E, q, sz, o, y)
    BY <1>3, <1>5
  <2>. HIDE DEF y
  <2>3. Position(b, E, q, sz, o + CellSize, y - 1)
    BY <1>2, <2>2, ReadNothing
  <2>4. x[Len(d)] = y - 1
    BY <2>1, <1>4 DEF y
  <2>. QED BY <2>1, <2>3, <2>4, <1>4 DEF Stands
<1>. QED BY <1>1, <1>6, <1>7 DEF Decodes

(* A whole array becomes an item of the one around it.                     *)
LEMMA DecodesClosing ==
  ASSUME NEW w, NEW b, NEW o, NEW op, NEW sz, NEW v, Decodes(w, b, o, op, sz, v),
         Len(op) > 1, Lacks(op[Len(op)]) = 0
  PROVE  Decodes(w, b, o, Into(Without(op), <<"array", op[Len(op)].items>>), sz, v)
<1>1. PICK E, q, m : /\ Finds(b, E, q, m, w, sz) /\ Stands(b, E, q, sz, o, op)
                     /\ Tidy(w, sz) => Tracks(b, E, m, w, o, op, v)
  BY DEF Decodes
<1>. DEFINE n == Len(op) - 1
            item == <<"array", op[Len(op)].items>>
            d == Into(Without(op), item)
<1>2. PICK s : Expects(op, s) /\ Position(b, E, q, sz, o, s[Len(op)])
  BY <1>1 DEF Stands
<1>3. IsOpen(op) /\ IsOpen(Without(op)) /\ Len(Without(op)) = n
  BY <1>1, WithoutOpen DEF Stands
<1>4. IsOpen(d) /\ Len(d) = n /\ n \in Nat /\ n > 0
  BY <1>3, IntoOpen
<1>. HIDE DEF d, item
<1>5. Stands(b, E, q, sz, o, d)
  <2>1. PICK x : Expects(d, x) /\ x[Len(op) - 1] = s[Len(op)]
    BY <1>2, <1>3, ClosingExpects DEF d
  <2>2. x[Len(d)] = s[Len(op)]
    BY <2>1, <1>4
  <2>. QED BY <2>1, <2>2, <1>2, <1>4 DEF Stands
<1>6. ASSUME Tidy(w, sz) PROVE Tracks(b, E, m, w, o, d, v)
  <2>1. PICK a, R : Nest(op, a, R, v) /\ R[Len(op)] = IF o \in DOMAIN b \cup {E} THEN w[m[o]] ELSE <<>>
    BY <1>1, <1>6 DEF Tracks
  <2>2. Lacks(op[Len(op) - 1]) > 0
    <3>1. Len(op) \in 2..Len(op)
      BY <1>4
    <3>. QED BY <3>1, <1>2 DEF Expects
  <2>3. PICK e, x : Nest(d, e, x, v) /\ x[Len(op) - 1] = R[Len(op)]
    BY <2>1, <2>2, <1>3, NestClosing DEF d, item
  <2>. QED BY <2>1, <2>3, <1>4 DEF Tracks
<1>. QED BY <1>1, <1>5, <1>6 DEF Decodes, d, item

(* What is read in the end is what was sent.                               *)
LEMMA DecodesLast ==
  ASSUME NEW w, NEW b, NEW o, NEW op, NEW sz, NEW v, Decodes(w, b, o, op, sz, v),
         Len(op[Len(op)].items) = 1, Len(op) = 1, Tidy(w, sz)
  PROVE  op[Len(op)].items[1] = v
<1>1. PICK E, q, m : Tracks(b, E, m, w, o, op, v)
  BY DEF Decodes
<1>2. PICK a, R : Nest(op, a, R, v)
  BY <1>1 DEF Tracks
<1>3. a[1] = <<v>> /\ op[1].items[1] = a[1][1]
  BY <1>2 DEF Nest
<1>. QED BY <1>3

-----------------------------------------------------------------------------
(* The inductive invariant: what has been counted while measuring, how the *)
(* block is laid out while writing, and what the reader will find in it.   *)

Typed ==
  /\ sent \in Messages
  /\ pc \in {"measure", "encode", "decode", "done", "bug", "failed"}
  /\ size \in Nat /\ at \in Nat
  /\ refs \in [Tasks -> Nat]
  /\ held \subseteq Tasks
  /\ kept \in [Tasks -> Nat]

\* A size was found where nobody wrote: from there on reading may be anywhere.
Astray == unwritten \cap {"str", "array"} # {}

Cells ==
  /\ IsFiniteSet(DOMAIN block)
  /\ \A o \in DOMAIN block : o \in Nat /\ IsCell(block[o]) /\ o + SizeOf(block[o]) <= size
  /\ pc # "measure" /\ ~Astray => at <= size

\* An array that has another one inside it lacks that.
Opened ==
  open = <<>> \/
    /\ IsOpen(open)
    /\ \A i \in 1..Len(open) : Lacks(open[i]) >= 0 /\ (i < Len(open) => Lacks(open[i]) > 0)

Measuring ==
  pc = "measure" =>
    /\ at = 0 /\ DOMAIN block = {}
    /\ \E n, p : Counted(Left(sent), n, p) /\ todo = Left(sent)[n] /\ size = p[n]

Encoding == pc = "encode" => Encodes(Left(sent), block, at, todo, size)

Decoding ==
  /\ pc = "decode" /\ ~Astray => Decodes(Left(sent), block, at, open, size, sent)
  /\ pc = "decode" => IsOpen(open)

\* Reading goes where nobody wrote only behind all cells, and only in a message that is not tidy.
Past == \A x \in DOMAIN block : ~(x >= at)

Leaving ==
  unwritten # {} => pc \in {"decode", "done", "failed"} /\ Past /\ SomethingFollowsNil

\* What is dropped has been counted.
Owning == \A t \in held : refs[t] > 0

Shape ==
  /\ Typed /\ Cells /\ Opened /\ Measuring /\ Encoding /\ Decoding /\ Leaving /\ Owning
  /\ RoundTrip

Inv == Shape /\ CountsExact

LEMMA LeftValues ==
  ASSUME Typed
  PROVE  Values(Left(sent)) /\ Left(sent)[0] = <<sent>>
<1>1. sent \in Messages
  BY DEF Typed
<1>. QED BY <1>1, LeftIs DEF Values

LEMMA TidySent == Tidy(Left(sent), size) <=> ~SomethingFollowsNil
BY DEF Tidy, SomethingFollowsNil

LEMMA MeasureShape == ASSUME Shape, Measure PROVE Shape'
<1>. USE DEF Shape
<1>1. pc = "measure" /\ todo # <<>> /\ UNCHANGED <<sent, at, block, open, got, unwritten, refs, held, kept>>
  BY DEF Measure
<1>2. at = 0 /\ DOMAIN block = {} /\ Values(Left(sent)) /\ sent \in Messages
  BY <1>1, LeftValues DEF Measuring, Typed
<1>. DEFINE w == Left(sent)
<1>3. PICK n, p : Counted(w, n, p) /\ todo = w[n] /\ size = p[n]
  BY <1>1 DEF Measuring
<1>4. n \in Nat /\ todo \in Seq(Messages)
  BY <1>2, <1>3 DEF Counted, Values
<1>5. Opened' /\ Owning' /\ w' = w
  BY <1>1 DEF Opened, Owning
<1>. HIDE DEF w
<1>6. CASE size' = size + SizeOf(Head(todo)) /\ todo' = Rest /\ UNCHANGED pc
  <2>1. PICK x : Counted(w, n + 1, x) /\ x[n + 1] = p[n] + SizeOf(Head(w[n]))
    BY <1>1, <1>3, <1>4, CountsOn
  <2>2. size' = x[n + 1] /\ n + 1 \in Nat /\ x[n + 1] \in Nat
    <3>1. n + 1 \in 0..(n + 1)
      BY <1>4
    <3>2. x[n + 1] \in Nat
      BY <2>1, <3>1 DEF Counted
    <3>. QED BY <2>1, <3>2, <1>3, <1>4, <1>6
  <2>3. todo' = w[n + 1]
    <3>1. todo' = After(todo)
      BY <1>1, <1>6 DEF Rest, After
    <3>2. w[n + 1] = After(w[n])
      BY <1>2, <1>4 DEF Values, w
    <3>. QED BY <3>1, <3>2, <1>3
  <2>4. Measuring'
    <3>1. \E nn, pp : Counted(w, nn, pp) /\ todo' = w[nn] /\ size' = pp[nn]
      BY <2>1, <2>2, <2>3
    <3>2. \E nn, pp : Counted(Left(sent'), nn, pp) /\ todo' = Left(sent')[nn] /\ size' = pp[nn]
      BY <3>1, <1>1 DEF w
    <3>. QED BY <3>2, <1>1, <1>2 DEF Measuring
  <2>5. Typed' /\ Cells'
    BY <2>2, <1>1, <1>2, <1>6 DEF Typed, Cells, Astray
  <2>6. Encoding' /\ Decoding' /\ Leaving' /\ RoundTrip'
    BY <1>1, <1>6 DEF Encoding, Decoding, Leaving, RoundTrip
  <2>. QED BY <2>4, <2>5, <2>6, <1>5
<1>7. CASE pc' = "bug" /\ UNCHANGED <<size, todo>>
  <2>1. Typed' /\ Cells'
    BY <1>1, <1>2, <1>7 DEF Typed, Cells, Astray
  <2>2. Measuring' /\ Encoding' /\ Decoding' /\ Leaving' /\ RoundTrip'
    BY <1>1, <1>7 DEF Measuring, Encoding, Decoding, Leaving, RoundTrip
  <2>. QED BY <2>1, <2>2, <1>5
<1>. QED BY <1>6, <1>7 DEF Measure

LEMMA AllocateShape == ASSUME Shape, Allocate PROVE Shape'
<1>. USE DEF Shape
<1>1. /\ pc = "measure" /\ todo = <<>> /\ pc' = "encode" /\ todo' = <<sent>>
      /\ UNCHANGED <<sent, size, at, block, open, got, unwritten, refs, held, kept>>
  BY DEF Allocate
<1>2. /\ at = 0 /\ DOMAIN block = {}
      /\ Values(Left(sent)) /\ Left(sent)[0] = <<sent>>
  BY <1>1, LeftValues DEF Measuring
<1>. DEFINE w == Left(sent)
<1>3. PICK n, p : Counted(w, n, p) /\ todo = w[n] /\ size = p[n]
  BY <1>1 DEF Measuring
<1>4. Encodes(w, block, 0, w[0], p[n])
  <2>1. Len(w[0]) = 1 /\ w[n] = <<>>
    BY <1>1, <1>2, <1>3
  <2>. HIDE DEF w
  <2>2. Values(w)
    BY <1>2 DEF w
  <2>. QED BY <2>1, <2>2, <1>2, <1>3, EncodesFirst
<1>5. Encoding'
  <2>1. Encodes(Left(sent), block, at, <<sent>>, size)
    BY <1>2, <1>3, <1>4
  <2>. QED BY <2>1, <1>1 DEF Encoding
<1>6. Typed' /\ Cells' /\ Opened' /\ Owning'
  BY <1>1, <1>2 DEF Typed, Cells, Astray, Opened, Owning
<1>7. Measuring' /\ Decoding' /\ Leaving' /\ RoundTrip'
  BY <1>1 DEF Measuring, Decoding, Leaving, RoundTrip
<1>. QED BY <1>5, <1>6, <1>7

LEMMA EncodeShape == ASSUME Shape, Encode PROVE Shape'
<1>. USE DEF Shape
<1>. DEFINE v == Head(todo)
<1>1. pc = "encode" /\ todo # <<>> /\ UNCHANGED <<sent, size, open, got, unwritten, held, kept>>
  BY DEF Encode
<1>2. Encodes(Left(sent), block, at, todo, size) /\ Values(Left(sent))
  BY <1>1, LeftValues DEF Encoding
<1>3. /\ todo \in Seq(Messages) /\ v \in Messages
      /\ Encodes(Left(sent), Written(block, at, CellOf(v)), at + Advance(v), After(todo), size)
  BY <1>1, <1>2, EncodesNext
<1>4. Opened' /\ Left(sent') = Left(sent)
  BY <1>1 DEF Opened
<1>5. CASE pc' = "bug" /\ UNCHANGED <<todo, at, block, refs>>
  <2>1. Typed' /\ Cells' /\ Owning'
    BY <1>1, <1>5 DEF Typed, Cells, Astray, Owning
  <2>2. Measuring' /\ Encoding' /\ Decoding' /\ Leaving' /\ RoundTrip'
    BY <1>1, <1>5 DEF Measuring, Encoding, Decoding, Leaving, RoundTrip
  <2>. QED BY <2>1, <2>2, <1>4
<1>6. CASE /\ block' = [o \in DOMAIN block \cup {at} |-> IF o = at THEN CellOf(v) ELSE block[o]]
           /\ at' = at + Advance(v) /\ todo' = Rest /\ RefTask(v) /\ UNCHANGED pc
  <2>. DEFINE d == Written(block, at, CellOf(v))
              e == at + Advance(v)
  <2>1. block' = d /\ at' = e /\ todo' = After(todo)
    BY <1>1, <1>6 DEF Written, Rest, After
  <2>. HIDE DEF d, e
  <2>2. Encodes(Left(sent), d, e, After(todo), size)
    BY <1>3 DEF d, e
  <2>3. Encoding'
    BY <2>1, <2>2, <1>1 DEF Encoding
  <2>4. /\ IsFiniteSet(DOMAIN d) /\ e \in Nat /\ e <= size
        /\ \A x \in DOMAIN d : x \in Nat /\ IsCell(d[x]) /\ x + SizeOf(d[x]) <= size
    BY <2>2, EncodesFacts
  <2>5. refs' \in [Tasks -> Nat] /\ Owning'
    <3>1. v[1] = "task" => v[2] \in Tasks
      BY <1>3, MsgAssumption
    <3>. HIDE DEF v
    <3>2. refs \in [Tasks -> Nat]
      BY DEF Typed
    <3>3. refs' \in [Tasks -> Nat] /\ \A t \in Tasks : refs[t] > 0 => refs'[t] > 0
      BY <3>1, <3>2, <1>6 DEF RefTask
    <3>4. held \subseteq Tasks /\ held' = held
      BY <1>1 DEF Typed
    <3>. QED BY <3>3, <3>4 DEF Owning
  <2>6. Typed'
    BY <2>1, <2>4, <2>5, <1>1, <1>6 DEF Typed
  <2>7. Cells'
    BY <2>1, <2>4, <1>1 DEF Cells, Astray
  <2>8. Measuring' /\ Decoding' /\ Leaving' /\ RoundTrip'
    BY <1>1, <1>6 DEF Measuring, Decoding, Leaving, RoundTrip
  <2>. QED BY <2>3, <2>5, <2>6, <2>7, <2>8, <1>4
<1>. QED BY <1>5, <1>6 DEF Encode

LEMMA DeliverShape == ASSUME Shape, Deliver PROVE Shape'
<1>. USE DEF Shape
<1>. DEFINE op == << [size |-> 1, items |-> <<>>] >>
<1>1. /\ pc = "encode" /\ todo = <<>> /\ pc' = "decode" /\ at' = 0 /\ open' = op
      /\ UNCHANGED <<sent, todo, size, block, got, unwritten, refs, held, kept>>
  BY DEF Deliver
<1>2. /\ Encodes(Left(sent), block, at, <<>>, size) /\ sent \in Messages
      /\ Values(Left(sent)) /\ Left(sent)[0] = <<sent>>
  BY <1>1, LeftValues DEF Encoding, Typed
<1>3. Decodes(Left(sent), block, 0, op, size, sent)
  BY <1>2, DecodesFirst
<1>. HIDE DEF op
<1>5. Opened' /\ IsOpen(open')
  <2>1. IsOpen(op) /\ \A i \in 1..Len(op) : Lacks(op[i]) >= 0 /\ (i < Len(op) => Lacks(op[i]) > 0)
    BY <1>3, DecodesFacts
  <2>. QED BY <2>1, <1>1 DEF Opened
<1>4. Decoding'
  BY <1>1, <1>3, <1>5 DEF Decoding
<1>6. Typed' /\ Cells' /\ Owning'
  BY <1>1 DEF Typed, Cells, Astray, Owning
<1>7. Measuring' /\ Encoding' /\ Leaving' /\ RoundTrip'
  BY <1>1 DEF Measuring, Encoding, Leaving, RoundTrip
<1>. QED BY <1>4, <1>5, <1>6, <1>7

(* A step of the reader that leaves it reading.                            *)
LEMMA ReadShape ==
  ASSUME Shape, pc = "decode", UNCHANGED <<sent, pc, todo, size, block, got, refs, held>>,
         kept' \in [Tasks -> Nat], at' \in Nat,
         Astray' \/ (Decodes(Left(sent), block, at', open', size, sent) /\ at' <= size),
         IsOpen(open'),
         \A i \in 1..Len(open') : Lacks(open'[i]) >= 0 /\ (i < Len(open') => Lacks(open'[i]) > 0),
         unwritten' # {} => Past' /\ SomethingFollowsNil
  PROVE  Shape'
<1>. USE DEF Shape
<1>1. Decoding'
  BY DEF Decoding
<1>2. Opened' /\ Owning'
  BY DEF Opened, Owning
<1>3. Typed' /\ Cells'
  BY DEF Typed, Cells
<1>4. Measuring' /\ Encoding'
  BY DEF Measuring, Encoding
<1>5. SomethingFollowsNil' <=> SomethingFollowsNil
  BY DEF SomethingFollowsNil
<1>6. Leaving' /\ RoundTrip'
  BY <1>5 DEF Leaving, RoundTrip
<1>. QED BY <1>1, <1>2, <1>3, <1>4, <1>6

(* One that keeps to the block.                                            *)
LEMMA ReadInside ==
  ASSUME Shape, pc = "decode", UNCHANGED <<sent, pc, todo, size, block, got, refs, held>>,
         kept' \in [Tasks -> Nat],
         Decodes(Left(sent), block, at', open', size, sent),
         unwritten' # {} => Past' /\ SomethingFollowsNil
  PROVE  Shape'
<1>1. /\ IsOpen(open') /\ at' \in Nat /\ at' <= size
      /\ \A i \in 1..Len(open') : Lacks(open'[i]) >= 0 /\ (i < Len(open') => Lacks(open'[i]) > 0)
  <2>. DEFINE o == at'
              op == open'
              w == Left(sent)
  <2>1. Decodes(w, block, o, op, size, sent)
    OBVIOUS
  <2>. HIDE DEF o, op, w
  <2>2. /\ IsOpen(op) /\ o \in Nat /\ o <= size
        /\ \A i \in 1..Len(op) : Lacks(op[i]) >= 0 /\ (i < Len(op) => Lacks(op[i]) > 0)
    BY <2>1, DecodesFacts
  <2>. QED BY <2>2 DEF o, op
<1>. QED BY <1>1, ReadShape

(* Where the reader stands, in the words of the actions.                   *)
LEMMA Reads ==
  ASSUME Shape, pc = "decode"
  PROVE  /\ IsOpen(open) /\ at \in Nat
         /\ Values(Left(sent)) /\ kept \in [Tasks -> Nat]
         /\ \A i \in 1..Len(open) : Lacks(open[i]) >= 0 /\ (i < Len(open) => Lacks(open[i]) > 0)
         /\ Reading => Lacks(open[Len(open)]) > 0
         /\ Len(Top.items) = Top.size => Lacks(open[Len(open)]) = 0
         /\ ~Astray => Decodes(Left(sent), block, at, open, size, sent)
         /\ ~Astray /\ Reading => at + CellSize <= size
         /\ at \in DOMAIN block =>
              /\ unwritten = {} /\ ~Astray /\ IsCell(block[at])
              /\ \A x \in DOMAIN block : x >= at + Width(block[at]) <=> x >= at /\ x # at
         /\ Reading /\ at \notin DOMAIN block => Past /\ SomethingFollowsNil
<1>1. /\ IsOpen(open) /\ open # <<>> /\ at \in Nat /\ Values(Left(sent)) /\ kept \in [Tasks -> Nat]
      /\ \A i \in 1..Len(open) : Lacks(open[i]) >= 0 /\ (i < Len(open) => Lacks(open[i]) > 0)
  BY LeftValues DEF Shape, Typed, Decoding, Opened, IsOpen
<1>2. /\ Reading => Lacks(open[Len(open)]) > 0
      /\ Len(Top.items) = Top.size => Lacks(open[Len(open)]) = 0
  <2>. DEFINE n == Len(open)
              e == open[n]
  <2>1. e.size \in Nat /\ Len(e.items) \in Nat
    <3>1. n \in 1..n
      BY <1>1, IntoOpen
    <3>. HIDE DEF n
    <3>2. open[n].size \in Nat /\ Len(open[n].items) \in Nat
      BY <3>1, <1>1, IntoOpen DEF n
    <3>. QED BY <3>2
  <2>. HIDE DEF e
  <2>2. /\ Len(e.items) < e.size => Lacks(e) > 0
        /\ Len(e.items) = e.size => Lacks(e) = 0
    BY <2>1 DEF Lacks
  <2>3. Top = e
    BY DEF Top, e
  <2>. QED BY <2>2, <2>3 DEF Reading, e
<1>3. at \in DOMAIN block => unwritten = {} /\ ~Astray
  <2>1. at \in DOMAIN block => ~Past
    BY <1>1 DEF Past
  <2>2. unwritten = {} => ~Astray
    BY DEF Astray
  <2>. QED BY <2>1, <2>2 DEF Shape, Leaving
<1>4. CASE ~Astray
  <2>1. Decodes(Left(sent), block, at, open, size, sent)
    BY <1>4 DEF Shape, Decoding
  <2>2. /\ Lacks(open[Len(open)]) > 0 => at + CellSize <= size
        /\ at \in DOMAIN block =>
             IsCell(block[at]) /\ \A x \in DOMAIN block : x >= at + Width(block[at]) <=> x >= at /\ x # at
        /\ at \notin DOMAIN block /\ Lacks(open[Len(open)]) > 0 => \A x \in DOMAIN block : ~(x >= at)
    BY <2>1, DecodesFacts
  <2>3. Reading /\ at \notin DOMAIN block => SomethingFollowsNil
    BY <2>1, <1>2, DecodesNothing, TidySent
  <2>. QED BY <2>1, <2>2, <2>3, <1>1, <1>2, <1>3 DEF Past
<1>5. CASE Astray
  <2>1. Past /\ SomethingFollowsNil /\ at \notin DOMAIN block
    BY <1>3, <1>5 DEF Shape, Leaving, Astray
  <2>. QED BY <2>1, <1>1, <1>2, <1>5
<1>. QED BY <1>4, <1>5

(* An array takes an item it lacks.                                        *)
LEMMA IntoLacks ==
  ASSUME NEW o, IsOpen(o), Lacks(o[Len(o)]) > 0, NEW v,
         \A i \in 1..Len(o) : Lacks(o[i]) >= 0 /\ (i < Len(o) => Lacks(o[i]) > 0)
  PROVE  LET d == Into(o, v)
         IN IsOpen(d) /\ \A i \in 1..Len(d) : Lacks(d[i]) >= 0 /\ (i < Len(d) => Lacks(d[i]) > 0)
<1>. DEFINE d == Into(o, v)
<1>1. /\ IsOpen(d) /\ Len(d) = Len(o) /\ Len(o) \in Nat
      /\ \A i \in 1..Len(o) :
           /\ d[i].size = o[i].size /\ o[i].size \in Nat /\ Len(o[i].items) \in Nat
           /\ i # Len(o) => d[i] = o[i]
           /\ i = Len(o) => Len(d[i].items) = Len(o[i].items) + 1
  BY IntoOpen
<1>. HIDE DEF d
<1>2. ASSUME NEW i \in 1..Len(o)
      PROVE  Lacks(d[i]) >= 0 /\ (i < Len(o) => Lacks(d[i]) > 0)
  <2>1. CASE i = Len(o)
    BY <2>1, <1>1 DEF Lacks
  <2>2. CASE i # Len(o)
    BY <2>2, <1>1
  <2>. QED BY <2>1, <2>2
<1>3. IsOpen(d) /\ \A i \in 1..Len(d) : Lacks(d[i]) >= 0 /\ (i < Len(d) => Lacks(d[i]) > 0)
  BY <1>1, <1>2
<1>. QED BY <1>3 DEF d

(* Memory that nobody wrote is taken for an item.                          *)
LEMMA StaleItem ==
  ASSUME Shape, Reading, at \notin DOMAIN block, NEW c \in Stale, c[1] # "array",
         open' = Into(open, c), at' = at + Width(c), unwritten' = unwritten \cup {c[1]},
         kept' \in [Tasks -> Nat], UNCHANGED <<sent, pc, todo, size, block, got, refs, held>>
  PROVE  Shape'
<1>1. /\ pc = "decode" /\ IsOpen(open) /\ at \in Nat /\ Lacks(open[Len(open)]) > 0
      /\ \A i \in 1..Len(open) : Lacks(open[i]) >= 0 /\ (i < Len(open) => Lacks(open[i]) > 0)
      /\ ~Astray => Decodes(Left(sent), block, at, open, size, sent)
      /\ Past /\ SomethingFollowsNil
  BY Reads DEF Reading
<1>2. IsCell(c) /\ Width(c) \in Nat
  BY StaleAssumption, CellFacts
<1>3. Past' /\ at' \in Nat
  <2>1. \A x \in DOMAIN block : x \in Nat
    BY DEF Shape, Cells
  <2>. QED BY <2>1, <1>1, <1>2 DEF Past
<1>4. CASE c[1] = "str" \/ Astray
  <2>1. Astray'
    BY <1>4 DEF Astray
  <2>. DEFINE d == Into(open, c)
  <2>2. IsOpen(d) /\ \A i \in 1..Len(d) : Lacks(d[i]) >= 0 /\ (i < Len(d) => Lacks(d[i]) > 0)
    BY <1>1, IntoLacks
  <2>3. open' = d
    OBVIOUS
  <2>. HIDE DEF d
  <2>. QED BY <2>1, <2>2, <2>3, <1>1, <1>3, ReadShape
<1>5. CASE c[1] # "str" /\ ~Astray
  <2>1. Width(c) = CellSize
    BY <1>5 DEF Width
  <2>2. Decodes(Left(sent), block, at + CellSize, Into(open, c), size, sent)
    BY <1>1, <1>5, DecodesNothing
  <2>3. Decodes(Left(sent), block, at', open', size, sent)
    BY <2>1, <2>2
  <2>. QED BY <2>3, <1>1, <1>3, ReadInside
<1>. QED BY <1>4, <1>5

LEMMA DecodeScalarShape == ASSUME Shape, DecodeScalar PROVE Shape'
<1>1. PICK c \in Readable : c[1] \notin {"array", "task"} /\ open' = Into(open, c)
                            /\ at' = at + SizeOf(c) /\ Found(c)
  BY DEF DecodeScalar
<1>2. /\ Reading /\ pc = "decode" /\ kept' \in [Tasks -> Nat]
      /\ UNCHANGED <<sent, pc, todo, size, block, got, refs, held>>
  BY DEF DecodeScalar, Reading, Shape, Typed
<1>3. CASE at \in DOMAIN block
  <2>1. c = block[at] /\ unwritten' = unwritten
    BY <1>1, <1>3 DEF Readable, Found
  <2>2. /\ Decodes(Left(sent), block, at, open, size, sent)
        /\ Values(Left(sent)) /\ Lacks(open[Len(open)]) > 0 /\ IsCell(block[at]) /\ unwritten = {}
    BY <1>2, <1>3, Reads
  <2>3. SizeOf(block[at]) = Width(block[at]) /\ block[at][1] # "array"
    BY <1>1, <2>1, <2>2, CellFacts
  <2>4. Decodes(Left(sent), block, at + Width(block[at]), Into(open, block[at]), size, sent)
    BY <1>3, <2>2, <2>3, DecodesItem
  <2>5. Decodes(Left(sent), block, at', open', size, sent)
    BY <1>1, <2>1, <2>3, <2>4
  <2>. QED BY <1>2, <2>1, <2>2, <2>5, ReadInside
<1>4. CASE at \notin DOMAIN block
  <2>1. c \in Stale /\ unwritten' = unwritten \cup {c[1]}
    BY <1>1, <1>4 DEF Readable, Found
  <2>2. SizeOf(c) = Width(c) /\ c[1] # "array"
    BY <1>1, <2>1, StaleAssumption, CellFacts
  <2>. QED BY <1>1, <1>2, <1>4, <2>1, <2>2, StaleItem
<1>. QED BY <1>3, <1>4

LEMMA DecodeTaskShape == ASSUME Shape, DecodeTask PROVE Shape'
<1>1. PICK c \in Readable : c[1] = "task" /\ open' = Into(open, c)
                            /\ kept' = [kept EXCEPT ![c[2]] = @ + 1] /\ Found(c)
  BY DEF DecodeTask
<1>2. /\ Reading /\ pc = "decode" /\ at' = at + CellSize /\ kept \in [Tasks -> Nat]
      /\ UNCHANGED <<sent, pc, todo, size, block, got, refs, held>>
  BY DEF DecodeTask, Reading, Shape, Typed
<1>3. kept' \in [Tasks -> Nat]
  <2>. DEFINE u == c[2]
  <2>1. kept' = [kept EXCEPT ![u] = @ + 1]
    BY <1>1
  <2>. HIDE DEF u
  <2>2. kept \in [Tasks -> Nat]
    BY <1>2
  <2>3. [kept EXCEPT ![u] = @ + 1] \in [Tasks -> Nat]
    <3>1. CASE u \in Tasks
      BY ONLY <2>2, <3>1
    <3>2. CASE u \notin Tasks
      <4>1. [kept EXCEPT ![u] = @ + 1] = kept
        BY ONLY <2>2, <3>2
      <4>. QED BY ONLY <2>2, <4>1
    <3>. QED BY <3>1, <3>2
  <2>. QED BY ONLY <2>1, <2>3
<1>4. CASE at \in DOMAIN block
  <2>1. c = block[at] /\ unwritten' = unwritten
    BY <1>1, <1>4 DEF Readable, Found
  <2>2. /\ Decodes(Left(sent), block, at, open, size, sent)
        /\ Values(Left(sent)) /\ Lacks(open[Len(open)]) > 0 /\ IsCell(block[at]) /\ unwritten = {}
    BY <1>2, <1>4, Reads
  <2>3. Width(block[at]) = CellSize /\ block[at][1] # "array"
    BY <1>1, <2>1, <2>2, CellFacts
  <2>4. Decodes(Left(sent), block, at + Width(block[at]), Into(open, block[at]), size, sent)
    BY <1>4, <2>2, <2>3, DecodesItem
  <2>5. Decodes(Left(sent), block, at', open', size, sent)
    BY <1>1, <1>2, <2>1, <2>3, <2>4, Zenon
  <2>. QED BY <1>2, <1>3, <2>1, <2>2, <2>5, ReadInside
<1>5. CASE at \notin DOMAIN block
  <2>1. c \in Stale /\ unwritten' = unwritten \cup {c[1]}
    BY <1>1, <1>5 DEF Readable, Found
  <2>2. Width(c) = CellSize /\ c[1] # "array"
    BY <1>1, <2>1, StaleAssumption, CellFacts
  <2>3. at' = at + Width(c)
    BY <1>2, <2>2
  <2>. QED BY <1>1, <1>2, <1>3, <1>5, <2>1, <2>2, <2>3, StaleItem
<1>. QED BY <1>4, <1>5

LEMMA DecodeArrayShape == ASSUME Shape, DecodeArray PROVE Shape'
<1>1. PICK c \in Readable : c[1] = "array" /\ open' = Opening(open, c[2]) /\ Found(c)
  BY DEF DecodeArray, Opening
<1>2. /\ Reading /\ pc = "decode" /\ at' = at + CellSize /\ kept' \in [Tasks -> Nat]
      /\ UNCHANGED <<sent, pc, todo, size, block, got, refs, held>>
  BY DEF DecodeArray, Reading, Shape, Typed
<1>3. CASE at \in DOMAIN block
  <2>1. c = block[at] /\ unwritten' = unwritten
    BY <1>1, <1>3 DEF Readable, Found
  <2>2. /\ Decodes(Left(sent), block, at, open, size, sent)
        /\ Values(Left(sent)) /\ Lacks(open[Len(open)]) > 0 /\ unwritten = {}
    BY <1>2, <1>3, Reads
  <2>3. Decodes(Left(sent), block, at + CellSize, Opening(open, block[at][2]), size, sent)
    BY <1>1, <1>3, <2>1, <2>2, DecodesArray
  <2>4. Decodes(Left(sent), block, at', open', size, sent)
    BY <1>1, <1>2, <2>1, <2>3
  <2>. QED BY <1>2, <2>1, <2>2, <2>4, ReadInside
<1>4. CASE at \notin DOMAIN block
  <2>1. c \in Stale /\ unwritten' = unwritten \cup {c[1]}
    BY <1>1, <1>4 DEF Readable, Found
  <2>2. c[2] \in Nat /\ Astray'
    BY <1>1, <2>1, StaleAssumption DEF IsCell, Astray
  <2>3. /\ IsOpen(open) /\ at \in Nat /\ Lacks(open[Len(open)]) > 0
        /\ \A i \in 1..Len(open) : Lacks(open[i]) >= 0 /\ (i < Len(open) => Lacks(open[i]) > 0)
        /\ Past /\ SomethingFollowsNil
    BY <1>2, <1>4, Reads
  <2>4. Past' /\ at' \in Nat
    <3>1. \A x \in DOMAIN block : x \in Nat
      BY DEF Shape, Cells
    <3>2. CellSize \in Nat
      BY MsgAssumption
    <3>. QED BY <3>1, <3>2, <1>2, <2>3 DEF Past
  <2>5. /\ IsOpen(open')
        /\ \A i \in 1..Len(open') : Lacks(open'[i]) >= 0 /\ (i < Len(open') => Lacks(open'[i]) > 0)
    <3>. DEFINE d == open'
                k == c[2]
                n == Len(open)
    <3>1. d = Opening(open, k) /\ k \in Nat
      BY <1>1, <2>2
    <3>. HIDE DEF d, k
    <3>2. /\ IsOpen(d) /\ Len(d) = n + 1 /\ n \in Nat
          /\ \A i \in 1..n : d[i] = open[i]
          /\ d[n + 1] = [size |-> k, items |-> <<>>]
      BY <2>3, <3>1, OpeningOpen, IntoOpen
    <3>3. Lacks(d[n + 1]) = k
      BY <3>1, <3>2 DEF Lacks
    <3>4. \A i \in 1..n : Lacks(d[i]) >= 0 /\ Lacks(d[i]) > 0
      BY <2>3, <3>2
    <3>5. \A i \in 1..(n + 1) : Lacks(d[i]) >= 0 /\ (i < n + 1 => Lacks(d[i]) > 0)
      <4>. HIDE DEF n
      <4>. QED BY <3>1, <3>2, <3>3, <3>4
    <3>. QED BY <3>2, <3>5 DEF d
  <2>. QED BY <1>2, <2>2, <2>3, <2>4, <2>5, ReadShape
<1>. QED BY <1>3, <1>4

LEMMA CloseArrayShape == ASSUME Shape, CloseArray PROVE Shape'
<1>. DEFINE item == <<"array", open[Len(open)].items>>
<1>1. /\ pc = "decode" /\ Len(open) > 1 /\ Len(Top.items) = Top.size
      /\ open' = Into(Without(open), item)
      /\ UNCHANGED <<sent, pc, todo, size, at, block, got, unwritten, refs, held, kept>>
  BY DEF CloseArray, Outer, Without, Top
<1>2. /\ IsOpen(open) /\ at \in Nat /\ kept \in [Tasks -> Nat] /\ Lacks(open[Len(open)]) = 0
      /\ \A i \in 1..Len(open) : Lacks(open[i]) >= 0 /\ (i < Len(open) => Lacks(open[i]) > 0)
      /\ ~Astray => Decodes(Left(sent), block, at, open, size, sent)
  BY <1>1, Reads
<1>3. unwritten' # {} => Past' /\ SomethingFollowsNil
  BY <1>1 DEF Shape, Leaving, Past
<1>4. CASE ~Astray
  <2>1. Decodes(Left(sent), block, at, Into(Without(open), item), size, sent)
    BY <1>1, <1>2, <1>4, DecodesClosing
  <2>2. Decodes(Left(sent), block, at', open', size, sent)
    BY <1>1, <2>1
  <2>. QED BY <1>1, <1>2, <1>3, <2>2, ReadInside
<1>5. CASE Astray
  <2>. DEFINE o == Without(open)
              d == Into(o, item)
  <2>1. /\ IsOpen(o) /\ Len(o) = Len(open) - 1 /\ Len(open) \in Nat
        /\ \A i \in 1..(Len(open) - 1) : o[i] = open[i]
    BY <1>1, <1>2, WithoutOpen, IntoOpen
  <2>. HIDE DEF o, item
  <2>2. \A i \in 1..Len(o) : Lacks(o[i]) > 0 /\ Lacks(o[i]) >= 0
    BY <1>1, <1>2, <2>1
  <2>3. Lacks(o[Len(o)]) > 0
    BY <1>1, <2>1, <2>2
  <2>4. IsOpen(d) /\ \A i \in 1..Len(d) : Lacks(d[i]) >= 0 /\ (i < Len(d) => Lacks(d[i]) > 0)
    BY <2>1, <2>2, <2>3, IntoLacks
  <2>5. open' = d
    BY <1>1 DEF o
  <2>6. Astray'
    BY <1>1, <1>5 DEF Astray
  <2>. HIDE DEF d
  <2>. QED BY <1>1, <1>2, <1>3, <2>4, <2>5, <2>6, ReadShape
<1>. QED BY <1>4, <1>5

LEMMA DecodeFailsShape == ASSUME Shape, DecodeFails PROVE Shape'
<1>1. /\ Reading /\ at \notin DOMAIN block /\ pc = "decode" /\ pc' = "failed"
      /\ UNCHANGED <<sent, todo, size, at, block, open, got, unwritten, refs, held, kept>>
  BY DEF DecodeFails, Reading
<1>2. Past /\ SomethingFollowsNil
  BY <1>1, Reads
<1>3. Typed' /\ Opened' /\ Cells' /\ Owning'
  BY <1>1 DEF Shape, Typed, Opened, Cells, Astray, Owning
<1>4. Measuring' /\ Encoding' /\ Decoding'
  BY <1>1 DEF Measuring, Encoding, Decoding
<1>5. SomethingFollowsNil' /\ Past'
  BY <1>1, <1>2 DEF SomethingFollowsNil, Past
<1>6. Leaving' /\ RoundTrip'
  BY <1>1, <1>5 DEF Leaving, RoundTrip
<1>. QED BY <1>3, <1>4, <1>6 DEF Shape

LEMMA FinishShape == ASSUME Shape, Finish PROVE Shape'
<1>1. /\ pc = "decode" /\ Len(open) = 1 /\ Len(Top.items) = 1 /\ pc' = "done" /\ got' = Top.items[1]
      /\ UNCHANGED <<sent, todo, size, at, block, open, unwritten, refs, held, kept>>
  BY DEF Finish
<1>2. ~SomethingFollowsNil => got' = sent
  <2>1. SUFFICES ASSUME ~SomethingFollowsNil PROVE got' = sent
    OBVIOUS
  <2>2. Tidy(Left(sent), size) /\ ~Astray
    BY <2>1, TidySent DEF Shape, Leaving, Astray
  <2>3. Decodes(Left(sent), block, at, open, size, sent)
    BY <1>1, <2>2, Reads
  <2>4. Len(open[Len(open)].items) = 1 /\ Len(open) = 1
    BY <1>1 DEF Top
  <2>5. open[Len(open)].items[1] = sent
    BY <2>2, <2>3, <2>4, DecodesLast, Zenon
  <2>. QED BY <2>5, <1>1 DEF Top
<1>3. Leaving' /\ RoundTrip'
  <2>1. SomethingFollowsNil' <=> SomethingFollowsNil
    BY <1>1 DEF SomethingFollowsNil
  <2>. QED BY <2>1, <1>1, <1>2 DEF Shape, Leaving, Past, RoundTrip
<1>4. Typed' /\ Opened' /\ Cells' /\ Owning'
  BY <1>1 DEF Shape, Typed, Opened, Cells, Astray, Owning
<1>5. Measuring' /\ Encoding' /\ Decoding'
  BY <1>1 DEF Measuring, Encoding, Decoding
<1>. QED BY <1>3, <1>4, <1>5 DEF Shape

(* The sender cannot drop more than it has counted.                        *)
LEMMA DropShape == ASSUME Shape, NEW t \in Tasks, Drop(t) PROVE Shape'
<1>1. /\ pc \in {"decode", "done", "failed"} /\ t \in held /\ held' = held \ {t}
      /\ refs' = [refs EXCEPT ![t] = @ - 1]
      /\ UNCHANGED <<sent, pc, todo, size, at, block, open, got, unwritten, kept>>
  BY DEF Drop, Sent
<1>2. refs \in [Tasks -> Nat] /\ refs[t] > 0 /\ held \subseteq Tasks
  BY <1>1 DEF Shape, Typed, Owning
<1>3. Typed' /\ Owning'
  BY <1>1, <1>2 DEF Shape, Typed, Owning
<1>4. Opened' /\ Cells'
  BY <1>1 DEF Shape, Opened, Cells, Astray
<1>5. Measuring' /\ Encoding' /\ Decoding'
  BY <1>1 DEF Shape, Measuring, Encoding, Decoding, Astray
<1>6. Leaving' /\ RoundTrip'
  <2>1. SomethingFollowsNil' <=> SomethingFollowsNil
    BY <1>1 DEF SomethingFollowsNil
  <2>. QED BY <2>1, <1>1 DEF Shape, Leaving, Past, RoundTrip
<1>. QED BY <1>3, <1>4, <1>5, <1>6 DEF Shape

-----------------------------------------------------------------------------
(* The references of a task.                                               *)

LEMMA SameCount ==
  ASSUME CountsExact, "task" \in unwritten => "task" \in unwritten', UNCHANGED <<refs, held, kept>>,
         \A t \in Tasks : Unread(t)' = Unread(t)
  PROVE  CountsExact'
BY DEF CountsExact

LEMMA EncodeCount == ASSUME Inv, Encode PROVE CountsExact'
<1>. DEFINE v == Head(todo)
            c == CellOf(v)
<1>1. /\ pc = "encode" /\ todo # <<>> /\ UNCHANGED <<unwritten, held, kept>> /\ CountsExact
      /\ refs \in [Tasks -> Nat] /\ IsFiniteSet(DOMAIN block) /\ unwritten = {}
  BY DEF Encode, Inv, Shape, Typed, Cells, Leaving
<1>2. CASE pc' = "bug" /\ UNCHANGED <<todo, at, block, refs>>
  <2>1. \A t \in Tasks : Unread(t)' = Unread(t)
    BY <1>1, <1>2 DEF Unread, Sent
  <2>. QED BY <2>1, <1>1, <1>2, SameCount
<1>3. CASE /\ block' = [o \in DOMAIN block \cup {at} |-> IF o = at THEN c ELSE block[o]]
           /\ RefTask(v) /\ UNCHANGED pc
  <2>1. Encodes(Left(sent), block, at, todo, size) /\ Values(Left(sent))
    BY <1>1, LeftValues DEF Inv, Shape, Encoding
  <2>2. v \in Messages
    BY <2>1, <1>1, EncodesNext
  <2>3. /\ v[1] = "task" => v = <<"task", v[2]>> /\ v[2] \in Tasks
        /\ c[1] = v[1] /\ (v[1] # "array" => c = v)
    BY <2>2, CellOfFacts, MsgAssumption
  <2>4. at \in DOMAIN block => block[at] = Nil
    BY <2>1, EncodesFacts
  <2>5. SUFFICES ASSUME NEW t \in Tasks
        PROVE  refs'[t] = (IF t \in held' THEN 1 ELSE 0) + Cardinality(Unread(t)') + kept'[t]
    BY DEF CountsExact
  <2>. DEFINE S == Unread(t)
  <2>6. /\ refs[t] = (IF t \in held THEN 1 ELSE 0) + Cardinality(S) + kept[t]
        /\ IsFiniteSet(S) /\ at \notin S
    <3>1. refs[t] = (IF t \in held THEN 1 ELSE 0) + Cardinality(S) + kept[t]
      BY <1>1 DEF CountsExact
    <3>2. S \subseteq DOMAIN block
      BY DEF Unread
    <3>3. IsFiniteSet(S)
      <4>. HIDE DEF S
      <4>. QED BY <3>2, <1>1, FS_Subset
    <3>4. at \notin S
      BY <2>4 DEF Unread, Nil
    <3>. QED BY <3>1, <3>3, <3>4
  <2>7. Cardinality(S) \in Nat
    <3>. HIDE DEF S
    <3>. QED BY <2>6, FS_CardinalityType
  <2>. HIDE DEF v, c
  <2>8. Unread(t)' = IF c = <<"task", t>> THEN S \cup {at} ELSE S
    BY <2>6, <1>1, <1>3 DEF Unread, Sent
  <2>9. CASE c = <<"task", t>>
    <3>1. v[1] = "task" /\ v[2] = t
      BY <2>3, <2>9
    <3>2. refs'[t] = refs[t] + 1
      BY <3>1, <1>1, <1>3 DEF RefTask
    <3>3. Cardinality(Unread(t)') = Cardinality(S) + 1
      <4>. HIDE DEF S
      <4>1. Cardinality(S \cup {at}) = Cardinality(S) + 1
        BY <2>6, FS_AddElement
      <4>. QED BY <4>1, <2>8, <2>9
    <3>4. kept[t] \in Nat
      BY DEF Inv, Shape, Typed
    <3>. HIDE DEF S
    <3>. QED BY <3>2, <3>3, <3>4, <2>6, <2>7, <1>1
  <2>10. CASE c # <<"task", t>>
    <3>1. ~(v[1] = "task" /\ v[2] = t)
      BY <2>3, <2>10
    <3>2. refs'[t] = refs[t]
      <4>1. CASE v[1] = "task"
        BY <4>1, <3>1, <2>3, <1>1, <1>3 DEF RefTask
      <4>2. CASE v[1] # "task"
        BY <4>2, <1>3 DEF RefTask
      <4>. QED BY <4>1, <4>2
    <3>3. Unread(t)' = S
      BY <2>8, <2>10
    <3>. QED BY <3>2, <3>3, <2>6, <1>1
  <2>. QED BY <2>9, <2>10
<1>. QED BY <1>2, <1>3 DEF Encode

LEMMA DecodeTaskCount == ASSUME Inv, DecodeTask PROVE CountsExact'
<1>0. SUFFICES ASSUME "task" \notin unwritten' PROVE CountsExact'
  BY DEF CountsExact
<1>1. /\ at \in DOMAIN block /\ block[at][1] = "task" /\ pc = "decode"
      /\ at' = at + CellSize /\ kept' = [kept EXCEPT ![block[at][2]] = @ + 1]
      /\ UNCHANGED <<pc, block, refs, held>> /\ unwritten' = unwritten
  <2>1. PICK c \in Readable : c[1] = "task" /\ kept' = [kept EXCEPT ![c[2]] = @ + 1] /\ Found(c)
    BY DEF DecodeTask
  <2>2. at \in DOMAIN block
    BY <1>0, <2>1 DEF Found
  <2>3. c = block[at] /\ unwritten' = unwritten
    BY <2>1, <2>2 DEF Readable, Found
  <2>. QED BY <2>1, <2>2, <2>3 DEF DecodeTask, Reading
<1>2. /\ at \in Nat /\ kept \in [Tasks -> Nat] /\ IsCell(block[at])
      /\ \A x \in DOMAIN block : x >= at + Width(block[at]) <=> x >= at /\ x # at
  BY <1>1, Reads DEF Inv
<1>3. Width(block[at]) = CellSize /\ block[at][2] \in Tasks /\ block[at] = <<"task", block[at][2]>>
  BY <1>1, <1>2, CellFacts DEF IsCell
<1>4. IsFiniteSet(DOMAIN block) /\ CountsExact
  BY DEF Inv, Shape, Cells
<1>5. SUFFICES ASSUME NEW t \in Tasks
      PROVE  refs'[t] = (IF t \in held' THEN 1 ELSE 0) + Cardinality(Unread(t)') + kept'[t]
  BY DEF CountsExact
<1>. DEFINE S == Unread(t)
<1>6. refs[t] = (IF t \in held THEN 1 ELSE 0) + Cardinality(S) + kept[t] /\ IsFiniteSet(S)
  <2>1. refs[t] = (IF t \in held THEN 1 ELSE 0) + Cardinality(S) + kept[t]
    BY <1>0, <1>1, <1>4 DEF CountsExact
  <2>2. S \subseteq DOMAIN block
    BY DEF Unread
  <2>. HIDE DEF S
  <2>. QED BY <2>1, <2>2, <1>4, FS_Subset
<1>7. Unread(t)' = S \ {at}
  BY <1>1, <1>2, <1>3 DEF Unread, Sent
<1>8. at \in S <=> block[at][2] = t
  BY <1>1, <1>2, <1>3 DEF Unread, Sent
<1>9. Cardinality(S) \in Nat /\ kept[t] \in Nat
  <2>. HIDE DEF S
  <2>. QED BY <1>2, <1>6, FS_CardinalityType
<1>. HIDE DEF S
<1>10. CASE at \in S
  <2>1. Cardinality(S \ {at}) = Cardinality(S) - 1
    BY <1>6, <1>10, FS_RemoveElement
  <2>2. kept'[t] = kept[t] + 1
    BY <1>1, <1>2, <1>8, <1>10
  <2>. QED BY <2>1, <2>2, <1>1, <1>6, <1>7, <1>9
<1>11. CASE at \notin S
  <2>1. S \ {at} = S
    BY <1>11
  <2>2. kept'[t] = kept[t]
    BY <1>1, <1>2, <1>3, <1>8, <1>11
  <2>. QED BY <2>1, <2>2, <1>1, <1>6, <1>7
<1>. QED BY <1>10, <1>11

LEMMA DropCount == ASSUME Inv, NEW u \in Tasks, Drop(u) PROVE CountsExact'
<1>1. /\ u \in held /\ held' = held \ {u}
      /\ refs' = [refs EXCEPT ![u] = @ - 1]
      /\ UNCHANGED <<pc, at, block, unwritten, kept>>
  BY DEF Drop
<1>2. SUFFICES ASSUME "task" \notin unwritten, NEW t \in Tasks
      PROVE  refs'[t] = (IF t \in held' THEN 1 ELSE 0) + Cardinality(Unread(t)') + kept'[t]
  BY <1>1 DEF CountsExact
<1>3. Unread(t)' = Unread(t)
  BY <1>1 DEF Unread, Sent
<1>4. /\ refs[t] = (IF t \in held THEN 1 ELSE 0) + Cardinality(Unread(t)) + kept[t]
      /\ refs \in [Tasks -> Nat]
  BY <1>1, <1>2 DEF Inv, CountsExact, Shape, Typed
<1>. DEFINE n == Cardinality(Unread(t))
<1>5. n \in Nat /\ kept[t] \in Nat
  <2>. DEFINE S == Unread(t)
  <2>1. S \subseteq DOMAIN block /\ IsFiniteSet(DOMAIN block)
    BY DEF Unread, Inv, Shape, Cells
  <2>. HIDE DEF S
  <2>2. Cardinality(S) \in Nat
    BY <2>1, FS_Subset, FS_CardinalityType
  <2>. QED BY <2>2 DEF S, Inv, Shape, Typed
<1>6. Cardinality(Unread(t)') = n
  BY <1>3
<1>. HIDE DEF n
<1>7. CASE t = u
  BY <1>1, <1>4, <1>5, <1>6, <1>7 DEF n
<1>8. CASE t # u
  BY <1>1, <1>4, <1>5, <1>6, <1>8 DEF n
<1>. QED BY <1>7, <1>8

(* A step of the reader past a cell that names no task.                    *)
LEMMA DecodeCount ==
  ASSUME Inv, DecodeScalar \/ DecodeArray \/ CloseArray \/ DecodeFails \/ Finish
  PROVE  CountsExact'
<1>1. /\ pc = "decode" /\ UNCHANGED <<block, refs, held, kept>> /\ CountsExact
      /\ pc' \in {"decode", "done", "failed"} /\ unwritten \subseteq unwritten'
  BY DEF DecodeScalar, DecodeArray, CloseArray, DecodeFails, Finish, Reading, Inv, Found
<1>2. /\ at \in Nat
      /\ at \in DOMAIN block =>
           /\ IsCell(block[at])
           /\ \A x \in DOMAIN block : x >= at + Width(block[at]) <=> x >= at /\ x # at
      /\ Reading /\ at \notin DOMAIN block => \A x \in DOMAIN block : ~(x >= at)
      /\ \A x \in DOMAIN block : x \in Nat
  BY <1>1, Reads DEF Inv, Shape, Cells, Past
<1>3. SUFFICES \A t \in Tasks : Unread(t)' = Unread(t)
  BY <1>1, SameCount
<1>4. CASE at' = at
  BY <1>1, <1>4 DEF Unread, Sent
<1>5. CASE at \in DOMAIN block /\ block[at][1] # "task" /\ at' = at + Width(block[at])
  <2>1. ASSUME NEW t \in Tasks PROVE Unread(t)' = Unread(t)
    <3>1. block[at] # <<"task", t>>
      BY <1>5
    <3>2. ASSUME NEW x \in DOMAIN block, block[x] = <<"task", t>>
          PROVE  x >= at' <=> x >= at
      BY <3>1, <3>2, <1>2, <1>5
    <3>. QED BY <3>2, <1>1, <1>5 DEF Unread, Sent
  <2>. QED BY <2>1
<1>6. ASSUME Reading, at \notin DOMAIN block, NEW c \in Stale, at' = at + Width(c)
      PROVE  \A t \in Tasks : Unread(t)' = Unread(t)
  <2>1. Width(c) \in Nat
    BY StaleAssumption, CellFacts
  <2>2. ASSUME NEW x \in DOMAIN block PROVE ~(x >= at) /\ ~(x >= at')
    BY <2>1, <1>2, <1>6
  <2>. QED BY <2>2, <1>1 DEF Unread, Sent
<1>7. ASSUME NEW c \in Readable, Reading, c[1] # "task", at' = at + Width(c)
      PROVE  \A t \in Tasks : Unread(t)' = Unread(t)
  <2>1. CASE at \in DOMAIN block
    <3>1. c = block[at]
      BY <2>1 DEF Readable
    <3>. QED BY <3>1, <2>1, <1>5, <1>7
  <2>2. CASE at \notin DOMAIN block
    <3>1. c \in Stale
      BY <2>2 DEF Readable
    <3>. QED BY <3>1, <2>2, <1>6, <1>7
  <2>. QED BY <2>1, <2>2
<1>8. \A c \in Readable : Reading => IsCell(c)
  <2>1. CASE at \in DOMAIN block
    BY <2>1, <1>2 DEF Readable
  <2>2. CASE at \notin DOMAIN block
    BY <2>2, StaleAssumption DEF Readable
  <2>. QED BY <2>1, <2>2
<1>9. CASE DecodeScalar
  <2>1. PICK c \in Readable : c[1] \notin {"array", "task"} /\ at' = at + SizeOf(c)
    BY <1>9 DEF DecodeScalar
  <2>2. Reading
    BY <1>9 DEF DecodeScalar
  <2>3. SizeOf(c) = Width(c)
    BY <2>1, <2>2, <1>8, CellFacts
  <2>. QED BY <2>1, <2>2, <2>3, <1>7
<1>10. CASE DecodeArray
  <2>1. PICK c \in Readable : c[1] = "array"
    BY <1>10 DEF DecodeArray
  <2>2. Reading /\ at' = at + CellSize
    BY <1>10 DEF DecodeArray
  <2>3. CellSize = Width(c) /\ c[1] # "task"
    BY <2>1, <2>2, <1>8, CellFacts
  <2>. QED BY <2>2, <2>3, <1>7
<1>11. CASE CloseArray \/ DecodeFails \/ Finish
  <2>1. at' = at
    BY <1>11 DEF CloseArray, DecodeFails, Finish
  <2>. QED BY <2>1, <1>4
<1>. QED BY <1>9, <1>10, <1>11

LEMMA OtherCount == ASSUME Inv, Measure \/ Allocate \/ Deliver PROVE CountsExact'
<1>1. /\ UNCHANGED <<block, unwritten, refs, held, kept>> /\ CountsExact
      /\ \A o \in DOMAIN block : o \in Nat
  BY DEF Measure, Allocate, Deliver, Inv, Shape, Cells
<1>2. \A t \in Tasks : Unread(t)' = Unread(t)
  <2>1. CASE Measure \/ Allocate
    BY <2>1, <1>1 DEF Measure, Allocate, Unread, Sent
  <2>2. CASE Deliver
    <3>1. pc = "encode" /\ pc' = "decode" /\ at' = 0
      BY <2>2 DEF Deliver
    <3>2. \A o \in DOMAIN block : o >= at'
      BY <3>1, <1>1
    <3>. QED BY <3>1, <3>2, <1>1 DEF Unread, Sent
  <2>. QED BY <2>1, <2>2
<1>. QED BY <1>1, <1>2, SameCount

-----------------------------------------------------------------------------
(* The theorems.                                                           *)

LEMMA InitInv == Init => Inv
<1>. SUFFICES ASSUME Init PROVE Inv
  OBVIOUS
<1>. USE DEF Init
<1>1. Typed
  BY DEF Typed
<1>2. DOMAIN block = {} /\ IsFiniteSet(DOMAIN block)
  BY FS_EmptySet
<1>3. Cells /\ Opened /\ Leaving /\ Owning
  BY <1>2 DEF Cells, Opened, Leaving, Owning
<1>4. Measuring
  <2>. DEFINE p == [i \in 0..0 |-> 0]
              w == Left(sent)
  <2>1. w[0] = <<sent>>
    BY <1>1, LeftValues
  <2>. HIDE DEF w
  <2>2. Counted(w, 0, p) /\ p[0] = 0
    BY DEF Counted
  <2>3. \E n, q : Counted(w, n, q) /\ todo = w[n] /\ size = q[n]
    BY <2>1, <2>2
  <2>. QED BY <2>3, <1>2 DEF Measuring, w
<1>5. Encoding /\ Decoding /\ RoundTrip
  BY DEF Encoding, Decoding, RoundTrip
<1>6. CountsExact
  <2>1. ASSUME NEW t \in Tasks PROVE Unread(t) = {}
    BY <1>2 DEF Unread
  <2>2. Cardinality({}) = 0
    BY FS_EmptySet
  <2>3. \A t \in Tasks : t \in held /\ refs[t] = 1 /\ kept[t] = 0
    BY DEF Init
  <2>4. ASSUME NEW t \in Tasks
        PROVE  refs[t] = (IF t \in held THEN 1 ELSE 0) + Cardinality(Unread(t)) + kept[t]
    <3>1. Cardinality(Unread(t)) = 0 /\ t \in held /\ refs[t] = 1 /\ kept[t] = 0
      BY <2>1, <2>2, <2>3, Zenon
    <3>. QED BY ONLY <3>1
  <2>. QED BY <2>4 DEF CountsExact
<1>. QED BY <1>1, <1>3, <1>4, <1>5, <1>6 DEF Inv, Shape

LEMMA NextInv == Inv /\ [Next]_vars => Inv'
<1>. SUFFICES ASSUME Inv, [Next]_vars PROVE Inv'
  OBVIOUS
<1>1. Shape
  BY DEF Inv
<1>2. CASE Measure
  BY <1>1, <1>2, MeasureShape, OtherCount DEF Inv
<1>3. CASE Allocate
  BY <1>1, <1>3, AllocateShape, OtherCount DEF Inv
<1>4. CASE Encode
  BY <1>1, <1>4, EncodeShape, EncodeCount DEF Inv
<1>5. CASE Deliver
  BY <1>1, <1>5, DeliverShape, OtherCount DEF Inv
<1>6. CASE DecodeScalar
  BY <1>1, <1>6, DecodeScalarShape, DecodeCount DEF Inv
<1>7. CASE DecodeTask
  BY <1>1, <1>7, DecodeTaskShape, DecodeTaskCount DEF Inv
<1>8. CASE DecodeArray
  BY <1>1, <1>8, DecodeArrayShape, DecodeCount DEF Inv
<1>9. CASE CloseArray
  BY <1>1, <1>9, CloseArrayShape, DecodeCount DEF Inv
<1>10. CASE DecodeFails
  BY <1>1, <1>10, DecodeFailsShape, DecodeCount DEF Inv
<1>11. CASE Finish
  BY <1>1, <1>11, FinishShape, DecodeCount DEF Inv
<1>12. ASSUME NEW t \in Tasks, Drop(t) PROVE Inv'
  BY <1>1, <1>12, DropShape, DropCount DEF Inv
<1>13. CASE UNCHANGED vars
  <2>. USE <1>13 DEF vars
  <2>1. Typed' /\ Cells' /\ Opened'
    BY <1>1 DEF Shape, Typed, Cells, Opened, Astray
  <2>2. Measuring' /\ Encoding' /\ Decoding'
    BY <1>1 DEF Shape, Measuring, Encoding, Decoding, Astray
  <2>3. SomethingFollowsNil' <=> SomethingFollowsNil
    BY DEF SomethingFollowsNil
  <2>4. RoundTrip' /\ Leaving' /\ Owning'
    BY <1>1, <2>3 DEF Shape, RoundTrip, Leaving, Past, Owning
  <2>5. \A t \in Tasks : Unread(t)' = Unread(t)
    BY DEF Unread, Sent
  <2>6. CountsExact'
    BY <2>5 DEF Inv, CountsExact
  <2>. QED BY <2>1, <2>2, <2>4, <2>6 DEF Inv, Shape
<1>. QED
  BY <1>2, <1>3, <1>4, <1>5, <1>6, <1>7, <1>8, <1>9, <1>10, <1>11, <1>12, <1>13 DEF Next

(* Whatever is sent, the state of a message is what it is meant to be      *)
(* (libchimp/msg.c).                                                       *)
THEOREM Invariant == Spec => []Inv
<1>. QED BY InitInv, NextInv, PTL DEF Spec

(* The variables have their types, and no array that is read gets more     *)
(* items than its cell announced.                                          *)
THEOREM TypeCorrect == Spec => []TypeOK
<1>1. ASSUME Inv PROVE TypeOK
  <2>1. Typed /\ Cells /\ Opened
    BY <1>1 DEF Inv, Shape
  <2>2. \A i \in DOMAIN open : Len(open[i].items) <= open[i].size
    <3>1. CASE open = <<>>
      BY <3>1
    <3>2. CASE IsOpen(open) /\ \A i \in 1..Len(open) : Lacks(open[i]) >= 0
      <4>1. DOMAIN open = 1..Len(open)
        <5>1. PICK X : open \in Seq(Arrays(X))
          BY <3>2 DEF IsOpen
        <5>. QED BY <5>1, LenProperties
      <4>2. ASSUME NEW i \in 1..Len(open) PROVE Len(open[i].items) <= open[i].size
        <5>1. open[i].size \in Nat /\ Len(open[i].items) \in Nat
          BY <3>2, IntoOpen
        <5>. QED BY <5>1, <3>2 DEF Lacks
      <4>. QED BY <4>1, <4>2
    <3>. QED BY <2>1, <3>1, <3>2 DEF Opened
  <2>. QED BY <2>1, <2>2 DEF TypeOK, Typed, Cells
<1>. QED BY <1>1, Invariant, PTL

(* Writing stays inside the block that was measured.  So does reading, and *)
(* goes on doing so where a value after a nil makes it take memory that    *)
(* nobody wrote for an item, until it takes a size from there for that of  *)
(* a string or an array.                                                   *)
THEOREM NothingOutside == Spec => []StaysInBlock
<1>1. ASSUME Inv PROVE StaysInBlock
  <2>1. Cells /\ Shape
    BY <1>1 DEF Inv, Shape
  <2>2. Reading /\ ~Astray => at + CellSize <= size
    <3>1. Reading => pc = "decode"
      BY DEF Reading
    <3>. QED BY <2>1, <3>1, Reads
  <2>3. pc = "encode" => ~Astray
    BY <2>1 DEF Shape, Leaving, Astray
  <2>. QED BY <2>1, <2>2, <2>3 DEF StaysInBlock, Cells, Astray
<1>. QED BY <1>1, Invariant, PTL

(* What is received is what was sent, however nested, unless something     *)
(* follows a nil in it.                                                    *)
THEOREM ReceivedIsSent == Spec => []RoundTrip
<1>1. ASSUME Inv PROVE RoundTrip
  BY <1>1 DEF Inv, Shape
<1>. QED BY <1>1, Invariant, PTL

(* Every handle and every cell that is still to be read counts once, so a  *)
(* task named in a message outlives the handles of its sender.             *)
THEOREM ReferencesExact == Spec => []CountsExact
<1>1. ASSUME Inv PROVE CountsExact
  BY <1>1 DEF Inv
<1>. QED BY <1>1, Invariant, PTL
=============================================================================
