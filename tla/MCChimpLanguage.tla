---------------------------- MODULE MCChimpLanguage ----------------------------
(***************************************************************************)
(* Families of small programs for ChimpLanguage: expressions two deep,     *)
(* matches of every subject against two patterns, and statements,          *)
(* closures, calls and loops over small numbers.                           *)
(***************************************************************************)
EXTENDS ChimpLanguage

\* Syntax for short.
I(n) == <<"const", <<"int", n>>>>
S(n) == <<"const", <<"str", n>>>>
Id(x) == <<"ident", x>>
App(f, es) == <<"call", f, es>>
Op2(op, l, r) == <<"binop", op, l, r>>
Arr(es) == <<"array", es>>
Item(e, k) == <<"getitem", e, k>>
Do(e) == <<"expr", e>>
Ret(e) == <<"ret", e>>
Var(x, e) == <<"var", x, e>>
Set(x, e) == <<"assign", x, e>>
Incr(x) == Set(x, Op2("ADD", Id(x), I(1)))
Wild == <<"_">>
NilE == <<"nil">>
Main(body) == <<"main", <<>>, body>>

-----------------------------------------------------------------------------
(* Expressions.  note(n) tells a task of n and returns it, so the order of *)
(* evaluation shows, and what is not evaluated.                            *)

Note == << <<"hear", <<"n">>, << Ret(Id("n")) >>>>,
           <<"note", <<"n">>, << Do(<<"spawn", Id("hear"), <<Id("n")>>>>), Ret(Id("n")) >>>> >>

Leaves == { App(Id("note"), << I(1) >>), App(Id("note"), << NilE >>) }

Branches ==
  Leaves
    \union { <<"not", e>> : e \in Leaves }
    \union { Op2(op, l, r) : op \in {"AND", "OR", "CMPEQ"}, l \in Leaves, r \in Leaves }

Exprs2 ==
  { Op2(op, l, r) : op \in {"AND", "OR"}, l \in Branches, r \in Branches }
    \union { Arr(<<l, r>>) : l \in Branches, r \in Leaves }
    \union { <<"not", e>> : e \in Branches }

Numbers == { Op2(op, I(a), I(b)) : op \in Arithmetic \union Comparisons,
                                   a \in {-7, 2}, b \in {-2, 2, 3} }

ExprPrograms == { Append(Note, Main(<< Ret(e) >>)) : e \in Exprs2 \union Numbers }

-----------------------------------------------------------------------------
(* Matches.                                                                *)

Subjects ==
  { I(1), I(2), S(1), NilE, Arr(<<>>), Arr(<< I(1) >>), Arr(<< I(1), I(2) >>),
    Arr(<< Arr(<< I(1) >>), I(2) >>), <<"hash", <<>>>>, <<"hash", << S(1), I(1) >>>>,
    <<"hash", << S(1), I(1), S(2), I(2) >>>>, <<"hash", << S(1), Arr(<< I(1) >>) >>>> }

K1 == <<"str", 1>>
K2 == <<"str", 2>>

Patterns ==
  { I(1), S(1), NilE, Id("x"), Wild, Arr(<<>>), Arr(<< Id("x") >>), Arr(<< I(2) >>),
    Arr(<< Id("x"), Id("y") >>), Arr(<< I(1), I(1) >>), Arr(<< Wild, Id("x") >>),
    Arr(<< Arr(<< Id("x") >>), Id("y") >>), Arr(<< Arr(<< I(2) >>), Wild >>),
    <<"hash", <<>>>>, <<"hash", << <<K1, Id("x")>> >>>>,
    <<"hash", << <<K1, I(2)>> >>>>, <<"hash", << <<K1, I(1)>>, <<K2, Id("x")>> >>>>,
    <<"hash", << <<K1, Arr(<< Id("x") >>)>> >>>> }

\* The patterns tried after one of those.
Others ==
  { I(1), NilE, Id("x"), Arr(<< Id("x") >>), Arr(<< Wild, Id("x") >>),
    <<"hash", << <<K1, Id("x")>> >>>>, <<"hash", << <<K1, I(1)>>, <<K2, Id("x")>> >>>> }

\* The names a pattern binds, as an array, after the number of its clause.
Names2(p) == SetToSeq(M!NamesOf(p))
Told(n, p) == Arr(<< I(n) >> \o [i \in DOMAIN Names2(p) |-> Id(Names2(p)[i])])

MatchProgram(subject, ps) ==
  << Main(<< Var("r", NilE),
             <<"match", subject, [i \in DOMAIN ps |-> <<ps[i], << Set("r", Told(i, ps[i])) >>>>]>>,
             Ret(Id("r")) >>) >>

ValueOfExpr(e) == M!RunNode(e, <<>>, M!Start, <<>>).value

\* Left out of the sound programs: an array compared with a constant, which stops the machine,
\* and a hash pattern one of whose items fails.
RECURSIVE Stray(_, _), HashItemFails(_, _)
Stray(p, v) ==
  \/ p[1] = "const" /\ v[1] = "array"
  \/ /\ p[1] = "array" /\ v[1] = "array" /\ Len(p[2]) = Len(v[2])
     /\ \E i \in DOMAIN p[2] : Stray(p[2][i], v[2][i])
  \/ /\ p[1] = "hash" /\ v[1] = "hash" /\ Len(p[2]) = Len(v[2])
     /\ \E i \in DOMAIN p[2] : Stray(p[2][i][2], ItemOf(v, p[2][i][1]))

HashItemFails(p, v) ==
  \/ p[1] = "hash" /\ v[1] = "hash" /\ Len(p[2]) = Len(v[2]) /\ ~M!Fits(p, v)
  \/ /\ p[1] = "array" /\ v[1] = "array" /\ Len(p[2]) = Len(v[2])
     /\ \E i \in DOMAIN p[2] : HashItemFails(p[2][i], v[2][i])

Matched(e, Out(_, _)) ==
  { ps \in Patterns \X Others : ~\E i \in 1..2 : Out(ps[i], ValueOfExpr(e)) }

Both(p, v) == Stray(p, v) \/ HashItemFails(p, v)

MatchPrograms == UNION { { MatchProgram(e, ps) : ps \in Matched(e, Both) } : e \in Subjects }

\* With hash patterns whose items may fail.
HashMatchPrograms == UNION { { MatchProgram(e, ps) : ps \in Matched(e, Stray) } : e \in Subjects }

-----------------------------------------------------------------------------
(* Statements.                                                             *)

\* A loop left by its condition or by break, around one of the same kind.
Loop(n, k) ==
  Append(Note,
    Main(<< Var("i", I(0)), Var("j", I(0)),
            <<"while", Op2("CMPLT", Id("i"), I(n)),
              << Incr("i"), Set("j", I(0)),
                 <<"while", <<"const", Bool(TRUE)>>,
                   << <<"if", Op2("CMPEQ", Id("j"), I(k)), << <<"break">> >>,
                        << Do(App(Id("note"), << Id("j") >>)) >>>>,
                      Incr("j") >>>>,
                 <<"if", Op2("CMPGT", Id("i"), I(k)), << <<"break">> >>>> >>>>,
            Ret(Arr(<< Id("i"), Id("j") >>)) >>))

\* break and ret inside the clauses of a match inside a loop.
LoopMatch(n, k) ==
  << Main(<< Var("i", I(0)),
             <<"while", Op2("CMPLT", Id("i"), I(n)),
               << <<"match", Id("i"), << <<I(k), << <<"break">> >>>>,
                                         <<I(2), << Ret(S(1)) >>>>,
                                         <<Wild, << Incr("i") >>>> >>>> >>>>,
             Ret(Id("i")) >>) >>

\* Recursion below operands the caller keeps on the stack.
Factorial(n) ==
  << <<"fact", <<"n">>, << <<"if", Op2("CMPLT", Id("n"), I(2)), << Ret(I(1)) >>>>,
                           Ret(Op2("MUL", Id("n"),
                                   App(Id("fact"), << Op2("SUB", Id("n"), I(1)) >>))) >>>>,
     Main(<< Ret(Arr(<< I(7), App(Id("fact"), << I(n) >>), App(Id("fact"), << I(2) >>) >>)) >>) >>

\* Arguments in their order; a match that leaves its subject when it returns.
TwoArgs(a, b) ==
  << <<"sub", <<"a", "b">>, << <<"match", Id("b"), << <<I(2), << Ret(NilE) >>>> >>>>,
                              Ret(Op2("SUB", Id("a"), Id("b"))) >>>>,
     Main(<< Ret(Arr(<< App(Id("sub"), << I(a), I(b) >>), I(9) >>)) >>) >>

\* A closure that counts, and its variable seen from outside.
Counter(n) ==
  << Main(<< Var("c", I(n)),
             Var("inc", <<"fn", "inc", <<>>, << Incr("c"), Ret(Id("c")) >>>>),
             Do(App(Id("inc"), <<>>)), Incr("c"),
             Ret(Arr(<< App(Id("inc"), <<>>), Id("c") >>)) >>) >>

\* Closures that outlive the call that made their variable, one each.
Adders(a, b) ==
  << <<"adder", <<"a">>,
        << Ret(<<"fn", "add", <<"b">>, << Set("a", Op2("ADD", Id("a"), Id("b"))), Ret(Id("a")) >>>>) >>>>,
     Main(<< Var("f", App(Id("adder"), << I(a) >>)), Var("g", App(Id("adder"), << I(b) >>)),
             Ret(Arr(<< App(Id("f"), << I(1) >>), App(Id("g"), << I(1) >>),
                        App(Id("f"), << I(1) >>) >>)) >>) >>

\* Names of a pattern in a closure of its clause; a hash taken apart.
Captured(n) ==
  << Main(<< <<"match", Arr(<< I(n), <<"hash", << S(1), I(3), S(2), I(4) >>>> >>),
               << <<Arr(<< Id("x"), Id("h") >>),
                    << Ret(App(<<"fn", "f", <<"k">>,
                                  << Ret(Arr(<< Id("x"), Item(Id("h"), Id("k")),
                                                App(<<"getattr", Id("h"), "size">>, <<>>) >>)) >>>>,
                                << S(n) >>)) >>>> >>>>,
             Ret(NilE) >>) >>

\* Arrays: items from either end and beyond, and concatenation.
ItemAt(n) ==
  << Main(<< Var("a", Op2("ADD", Arr(<< I(5), I(6) >>), Arr(<< I(7) >>))),
             Ret(Item(Id("a"), I(n))) >>) >>

\* As many constants as one byte can number, the first and the last in use.
Literals(k) == Arr([i \in 1..64 |-> I(64 * k + i)])
Full == << Main(<< Do(Literals(0)), Do(Literals(1)), Do(Literals(2)),
                   Ret(Arr(<< Literals(0), Literals(3) >>)) >>) >>

Small == 0..3
StmtPrograms ==
  UNION { { Loop(n, k), LoopMatch(n, k), TwoArgs(n, k), Adders(n, k) } : n \in Small, k \in Small }
    \union UNION { { Factorial(n), Counter(n), Captured(n), ItemAt(n - 4), ItemAt(n) } : n \in Small }
    \union { Full }

-----------------------------------------------------------------------------
(* What no value can do: each of these stops the machine.                  *)

FaultyExprs ==
  { App(I(1), <<>>), Item(I(1), I(1)), Item(Arr(<<>>), S(1)), Op2("DIV", I(1), I(0)),
    Op2("ADD", I(1), NilE), Op2("ADD", NilE, I(1)), Op2("ADD", Arr(<<>>), I(1)),
    <<"getattr", I(1), "size">>, <<"hash", << NilE, I(1) >>>>, Id("x"),
    Op2("CMPEQ", Arr(<< I(1) >>), S(1)),
    <<"spawn", <<"fn", "f", <<>>, << Ret(Id("x")) >>>>, <<>>>> }

FaultyPrograms == { << Main(<< <<"var", "x">>, Ret(e) >>) >> : e \in FaultyExprs }

AllPrograms ==
  { Program(p) : p \in ExprPrograms \union MatchPrograms \union StmtPrograms }
    \union { Faulty(p) : p \in FaultyPrograms }

ASSUME ProgramsArePlain == \A p \in AllPrograms : Plain(p)

-----------------------------------------------------------------------------
(* What the code of a program was made of, for the theorems about compiled *)
(* code: every program here is such a program.                             *)

RECURSIVE Within(_), WithinPatterns(_), Unlooped(_), Deep(_), DeepPattern(_), Tested(_, _, _), Bound(_, _)
Within(nodes) == nodes \union UNION { Within(Below(n)) : n \in nodes }
WithinPatterns(ps) == ps \union UNION { WithinPatterns(Nodes(Items(p))) : p \in ps }

\* The statements of a body that are in no loop of it.
Unlooped(stmts) ==
  stmts \union UNION { Unlooped({ m \in Below(s) : m[1] \in Statements }) :
                        s \in { s \in stmts : s[1] # "while" } }

DeepOver(depths) == IF depths = {} THEN 0 ELSE 1 + Max(depths)
Deep(n) == DeepOver({ Deep(m) : m \in Below(n) })
DeepPattern(p) == DeepOver({ DeepPattern(q) : q \in Nodes(Items(p)) })

Tested(p, label, depth) ==
  { <<p, label, depth>> }
    \union UNION { Tested(q, ItemLabel(p, label, depth), depth + 1) : q \in Nodes(Items(p)) }
Bound(p, path) ==
  { <<p, path>> }
    \union UNION { Bound(Items(p)[i], Append(path, Keys(p)[i])) : i \in DOMAIN Items(p) }

Function(unit, units) ==
  LET nodes == Within(Nodes(unit.body))
      stmts == { n \in nodes : n[1] \in Statements }
      tried == UNION { Tried(s) : s \in stmts }
      patterns == WithinPatterns(tried)
      tests == UNION { Tested(p, NextLabel, 0) : p \in tried }
      binds == UNION { Bound(p, <<>>) : p \in tried }
  IN [params |-> unit.params, body |-> unit.body, units |-> units,
      stmts |-> stmts, exprs |-> nodes \ stmts, whole |-> Unlooped(Nodes(unit.body)),
      patterns |-> patterns, tests |-> tests, binds |-> binds,
      deep |-> [n \in nodes |-> Deep(n)], inner |-> [p \in patterns |-> DeepPattern(p)],
      code |-> [n \in nodes |-> NodeCode(n, units)],
      test |-> [t \in tests |-> PatternTest(t[1], t[2], t[3])],
      bind |-> [b \in binds |-> BindVars(b[1], b[2])]]

Functions(funcs) ==
  LET units == VisitModule(funcs).units
  IN [id \in DOMAIN units |-> Function(units[id], units)]

ASSUME ProgramsAreCompiled ==
  \A p \in { Append(Note, Main(<< Ret(e) >>)) : e \in Branches }
            \union { MatchProgram(NilE, ps) : ps \in Patterns \X Others }
            \union StmtPrograms \union FaultyPrograms :
    CompiledFrom(Compile(p), Functions(p))

HashPatternPrograms == { Program(p) : p \in HashMatchPrograms }
=============================================================================
