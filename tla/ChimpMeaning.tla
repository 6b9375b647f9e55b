------------------------------ MODULE ChimpMeaning ------------------------------
(***************************************************************************)
(* What a program means, as the tests under test/ use the language, told   *)
(* without a compiler, a stack or jumps: names are those of the text       *)
(* around a function, the first pattern of a match that fits its subject   *)
(* is chosen and decides which names are bound, `and` and `or` evaluate    *)
(* their right side only when the left does not decide, operands are       *)
(* evaluated from left to right.  Syntax trees are those of ChimpCompile.  *)
(*                                                                         *)
(* A state holds the variables' values, the messages passed to tasks, the  *)
(* value of the last expression, and how the last statement was left: go,  *)
(* ret or break.  A function is <<"fn", id, params, body, env>>, where env *)
(* leads from names to variables.                                          *)
(***************************************************************************)
EXTENDS ChimpValues, SequencesExt

Start == [cells |-> <<>>, sent |-> <<>>, value |-> Nil, exit |-> "go"]

Yields(s, v) == [s EXCEPT !.value = v]

-----------------------------------------------------------------------------
(* Patterns: does a value fit, and what do its names stand for?            *)

SameClass(v, c) == v[1] = c
HasKey(v, k) == \E i \in DOMAIN v[2] : v[2][i][1] = k

RECURSIVE Fits(_, _), NamesOf(_), Bound(_, _)

Fits(p, v) ==
  CASE p[1] \in {"ident", "_"} -> TRUE
    [] p[1] = "nil"   -> v = Nil
    [] p[1] = "const" -> v = p[2]
    [] p[1] = "array" -> /\ SameClass(v, "array") /\ Len(v[2]) = Len(p[2])
                         /\ \A i \in DOMAIN p[2] : Fits(p[2][i], v[2][i])
    [] p[1] = "hash"  -> /\ SameClass(v, "hash") /\ Len(v[2]) = Len(p[2])
                         /\ \A i \in DOMAIN p[2] : Fits(p[2][i][2], ItemOf(v, p[2][i][1]))

NamesOf(p) ==
  CASE p[1] = "ident" -> {p[2]}
    [] p[1] = "array" -> UNION { NamesOf(p[2][i]) : i \in DOMAIN p[2] }
    [] p[1] = "hash"  -> UNION { NamesOf(p[2][i][2]) : i \in DOMAIN p[2] }
    [] OTHER -> {}

\* The values a pattern gives its names, in the order of the text.
Bound(p, v) ==
  CASE p[1] = "ident" -> << <<p[2], v>> >>
    [] p[1] = "array" -> FoldLeft(LAMBDA acc, i : acc \o Bound(p[2][i], ItemOf(v, Number(i - 1))),
                                  <<>>, [i \in DOMAIN p[2] |-> i])
    [] p[1] = "hash"  -> FoldLeft(LAMBDA acc, pair : acc \o Bound(pair[2], ItemOf(v, pair[1])),
                                  <<>>, p[2])
    [] OTHER -> <<>>

-----------------------------------------------------------------------------
(* The names a function body declares, those of inner functions left out.  *)

RECURSIVE Declared(_)
Declared(body) ==
  UNION { CASE body[i][1] = "var" -> {body[i][2]}
            [] body[i][1] \in {"if", "while"} ->
                 UNION { Declared(body[i][j]) : j \in 3..Len(body[i]) }
            [] body[i][1] = "match" ->
                 UNION { NamesOf(body[i][3][j][1]) \union Declared(body[i][3][j][2]) :
                           j \in DOMAIN body[i][3] }
            [] OTHER -> {} :
          i \in DOMAIN body }

\* New variables for names, on top of env.
Extended(env, names, n) ==
  LET new == SetToSeq(names)
  IN [x \in names \union DOMAIN env |->
        IF x \in names THEN n + (CHOOSE i \in DOMAIN new : new[i] = x) ELSE env[x]]

Assign(s, env, x, v) == [s EXCEPT !.cells[env[x]] = v]

-----------------------------------------------------------------------------
(* Expressions and statements.  funcs are the functions of the module, and *)
(* Run(n, env, s) is the state after a node below this one.                *)

Named(funcs, x) ==
  LET i == CHOOSE j \in DOMAIN funcs : funcs[j][1] = x
  IN <<"fn", x, funcs[i][2], funcs[i][3], <<>>>>

ValueOfName(x, env, s, funcs) ==
  IF x \in DOMAIN env THEN s.cells[env[x]]
  ELSE IF \E i \in DOMAIN funcs : funcs[i][1] = x THEN Named(funcs, x)
  ELSE Class(x)

\* The values of es, one after the other.
EvalAll(es, env, s, Run(_, _, _)) ==
  FoldLeft(LAMBDA acc, e : LET r == Run(e, env, acc) IN Yields(r, Append(acc.value, r.value)),
           Yields(s, <<>>), es)

\* One statement after the other, until one leaves the body.
ExecAll(body, env, s, Run(_, _, _)) ==
  FoldLeft(LAMBDA acc, st : IF acc.exit = "go" THEN Run(st, env, acc) ELSE acc, s, body)

\* What a function called with args does: its value is what it returns, or
\* that of its last statement when that is an expression.
Apply(f, args, s, Run(_, _, _)) ==
  LET names == {f[3][i] : i \in DOMAIN f[3]} \union Declared(f[4])
      env == Extended(f[5], names, Len(s.cells))
      entry == [s EXCEPT !.cells = @ \o [i \in DOMAIN SetToSeq(names) |-> Unset],
                         !.value = Nil]
      called == FoldLeft(LAMBDA acc, i : Assign(acc, env, f[3][i], args[i]),
                         entry, [i \in DOMAIN f[3] |-> i])
  IN [ExecAll(f[4], env, called, Run) EXCEPT !.exit = "go"]

\* Values are equal when they look the same; only numbers and strings are
\* ordered, each among themselves.
EvalBinop(op, l, r) ==
  CASE op = "CMPEQ"  -> Bool(l = r)
    [] op = "CMPNEQ" -> Bool(l # r)
    [] op = "CMPLT"  -> Bool(l[2] < r[2])
    [] op = "CMPGT"  -> Bool(l[2] > r[2])
    [] op = "CMPLTE" -> Bool(l[2] <= r[2])
    [] op = "CMPGTE" -> Bool(l[2] >= r[2])
    [] OTHER -> Compute(op, l, r)

\* The pairs of a hash have no order of their own: any will do.
Pairs(vs) == Reverse([i \in 1..(Len(vs) \div 2) |-> <<vs[2 * i - 1], vs[2 * i]>>])

Eval(e, env, s, funcs, Run(_, _, _)) ==
  LET first == Run(e[2], env, s)
      all == EvalAll(e[2], env, s, Run)
      args == EvalAll(e[3], env, first, Run)
  IN CASE e[1] = "const"   -> Yields(s, e[2])
       [] e[1] = "nil"     -> Yields(s, Nil)
       [] e[1] = "ident"   -> Yields(s, ValueOfName(e[2], env, s, funcs))
       [] e[1] = "array"   -> Yields(all, <<"array", all.value>>)
       [] e[1] = "hash"    -> Yields(all, <<"hash", Pairs(all.value)>>)
       [] e[1] = "getitem" -> LET r == Run(e[3], env, first)
                              IN Yields(r, ItemOf(first.value, r.value))
       [] e[1] = "getattr" -> Yields(first, <<"native", e[3], first.value>>)
       [] e[1] = "not"     -> Yields(first, Bool(~Truthy(first.value)))
       [] e[1] = "fn"      -> Yields(s, <<"fn", e[2], e[3], e[4], env>>)
       [] e[1] = "call"    -> IF first.value[1] = "native"
                              THEN Yields(args, Number(Len(first.value[3][2])))
                              ELSE Apply(first.value, args.value, args, Run)
       [] e[1] = "spawn"   -> [args EXCEPT !.sent = Append(@, <<first.value[2],
                                                               <<"array", args.value>>>>),
                                           !.value = <<"task", first.value[2]>>]
       [] e[1] = "binop"   ->
            LET l == Run(e[3], env, s)
                r == Run(e[4], env, l)
            IN CASE e[2] = "AND" -> IF Truthy(l.value) THEN r ELSE l
                 [] e[2] = "OR"  -> IF Truthy(l.value) THEN l ELSE r
                 [] OTHER -> Yields(r, EvalBinop(e[2], l.value, r.value))

\* A statement that is no expression has no value.
Exec(st, env, s0, Run(_, _, _)) ==
  LET s == Yields(s0, Nil)
      test == Run(st[2], env, s)
      new == Run(st[3], env, s)
      Body(body, t) == ExecAll(body, env, Yields(t, Nil), Run)
  IN CASE st[1] = "expr"  -> test
       [] st[1] = "ret"   -> [IF Len(st) = 1 THEN s ELSE test EXCEPT !.exit = "ret"]
       [] st[1] = "break" -> [s EXCEPT !.exit = "break"]
       [] st[1] \in {"assign", "var"} ->
            IF Len(st) = 2 THEN s ELSE Yields(Assign(new, env, st[2], new.value), Nil)
       [] st[1] = "if"    ->
            IF Truthy(test.value) THEN Body(st[3], test)
            ELSE IF Len(st) = 4 THEN Body(st[4], test) ELSE Yields(test, Nil)
       [] st[1] = "while" ->
            LET r == Body(st[3], test)
            IN IF ~Truthy(test.value) THEN Yields(test, Nil)
               ELSE CASE r.exit = "ret"   -> r
                      [] r.exit = "break" -> [Yields(r, Nil) EXCEPT !.exit = "go"]
                      [] OTHER            -> Run(st, env, r)
       [] st[1] = "match" ->
            LET fitting == { i \in DOMAIN st[3] : Fits(st[3][i][1], test.value) }
                first == CHOOSE i \in fitting : \A j \in fitting : i <= j
                bound == FoldLeft(LAMBDA acc, b : Assign(acc, env, b[1], b[2]),
                                  test, Bound(st[3][first][1], test.value))
            IN IF fitting = {} THEN Yields(test, Nil) ELSE Body(st[3][first][2], bound)

Statements == {"expr", "assign", "var", "if", "while", "match", "ret", "break"}

RECURSIVE RunNode(_, _, _, _)
RunNode(n, env, s, funcs) ==
  LET Run(m, env2, t) == RunNode(m, env2, t, funcs)
  IN IF n[1] \in Statements THEN Exec(n, env, s, Run) ELSE Eval(n, env, s, funcs, Run)

\* What main returns and the messages it passed on.
Meaning(funcs) ==
  LET r == Apply(Named(funcs, "main"), <<>>, Start, LAMBDA n, env, s : RunNode(n, env, s, funcs))
  IN [result |-> r.value, sent |-> r.sent]

=============================================================================
