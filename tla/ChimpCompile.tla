----------------------------- MODULE ChimpCompile -----------------------------
(***************************************************************************)
(* The compiler: the symbol table of src/libchimp/symtable.c, and the code *)
(* generator of src/libchimp/compile.c (ChimpEmit) led through the syntax  *)
(* trees to the code units ChimpVM runs.                                   *)
(*                                                                         *)
(* A syntax node is a tuple whose first item says what it is:              *)
(*   expressions  const v, nil, ident x, array es, hash <<k, v, ...>>,     *)
(*                getitem e k, getattr e x, call f es, spawn f es,         *)
(*                binop op l r, not e, fn id params body                   *)
(*   statements   expr e, assign x e, var x e, if e b, if e b b, while e b,*)
(*                match e <<pattern, b>>s, ret e, ret, break               *)
(*   patterns     const v, nil, ident x, _, array ps, hash <<key, p>>s     *)
(* where a body is a sequence of statements.  A module is a sequence of    *)
(* functions <<name, params, body>>; id tells the fn nodes apart, as their *)
(* addresses do in the code.  Classes, use and the special names __file__  *)
(* and __line__ are left out; so is the limit of 16 on the variables of a  *)
(* pattern and on their paths.                                             *)
(***************************************************************************)
EXTENDS ChimpEmit, SequencesExt, TLC

-----------------------------------------------------------------------------
(* The symbol table.  A visit threads the table through the tree: scopes   *)
(* is the chain of open scopes, units what is known of each function, ok   *)
(* whether every name was found.                                           *)

BuiltinNames == {"array", "hash"}

Table0 == [scopes |-> << [kind |-> "module", syms |-> <<>>] >>, units |-> <<>>, ok |-> TRUE]

\* chimp_symtable_add: the last flag a name is given counts.
AddSym(t, x, flag) ==
  [t EXCEPT !.scopes[Len(t.scopes)].syms = (x :> flag) @@ @]

EnterScope(t) == [t EXCEPT !.scopes = Append(@, [kind |-> "func", syms |-> <<>>])]

LeaveScope(t, id, params, body) ==
  [t EXCEPT !.scopes = Front(@),
            !.units = (id :> [params |-> params, body |-> body,
                              syms |-> Last(t.scopes).syms]) @@ @]

\* chimp_symtable_visit_expr_ident: a name of an open function scope around
\* this one is free here, and only here.
VisitIdent(t, x) ==
  LET known == { i \in DOMAIN t.scopes : x \in DOMAIN t.scopes[i].syms }
      nearest == CHOOSE i \in known : \A j \in known : j <= i
  IN IF known # {}
     THEN IF nearest # Len(t.scopes) /\ t.scopes[nearest].kind # "module"
          THEN AddSym(t, x, "free") ELSE t
     ELSE IF x \in BuiltinNames THEN AddSym(t, x, "builtin")
     ELSE [t EXCEPT !.ok = FALSE]

\* What the visitor does below a node is a sequence of nodes and of marks,
\* <<"decl", x>>, <<"enter">> and <<"leave", id, params, body>>.
Declared(xs) == [i \in DOMAIN xs |-> <<"decl", xs[i]>>]

RECURSIVE VisitPattern(_)
VisitPattern(p) ==
  CASE p[1] = "ident" -> << <<"decl", p[2]>> >>
    [] p[1] = "array" -> Flatten([i \in DOMAIN p[2] |-> VisitPattern(p[2][i])])
    [] p[1] = "hash"  -> Flatten([i \in DOMAIN p[2] |-> VisitPattern(p[2][i][2])])
    [] OTHER -> <<>>

\* chimp_symtable_visit_decl_func and chimp_symtable_visit_expr_fn.
VisitFn(id, params, body) ==
  << <<"enter">> >> \o Declared(params) \o body \o << <<"leave", id, params, body>> >>

\* The key of a getitem is not visited.
VisitExpr(e) ==
  CASE e[1] \in {"const", "nil"} -> <<>>
    [] e[1] \in {"array", "hash"} -> e[2]
    [] e[1] \in {"getitem", "getattr", "not"} -> << e[2] >>
    [] e[1] \in {"call", "spawn"} -> << e[2] >> \o e[3]
    [] e[1] = "binop" -> << e[3], e[4] >>
    [] e[1] = "fn" -> VisitFn(e[2], e[3], e[4])

VisitStmt(s) ==
  CASE s[1] = "assign" -> << <<"ident", s[2]>>, s[3] >>
    [] s[1] = "var"    -> << <<"decl", s[2]>> >> \o Tail(Tail(s))
    [] s[1] \in {"expr", "ret", "break"} -> Tail(s)
    [] s[1] \in {"if", "while"} -> << s[2] >> \o Flatten(Tail(Tail(s)))
    [] s[1] = "match"  ->
         << s[2] >> \o Flatten([i \in DOMAIN s[3] |-> VisitPattern(s[3][i][1]) \o s[3][i][2]])

RECURSIVE VisitNode(_, _)
VisitNode(t, n) ==
  CASE n[1] = "ident" -> VisitIdent(t, n[2])
    [] n[1] = "decl"  -> AddSym(t, n[2], "decl")
    [] n[1] = "enter" -> EnterScope(t)
    [] n[1] = "leave" -> LeaveScope(t, n[2], n[3], n[4])
    [] OTHER -> FoldLeft(VisitNode, t, IF n[1] \in Statements THEN VisitStmt(n) ELSE VisitExpr(n))

VisitModule(funcs) ==
  FoldLeft(VisitNode, Table0,
           Flatten([i \in DOMAIN funcs |-> << <<"decl", funcs[i][1]>> >>
                                             \o VisitFn(funcs[i][1], funcs[i][2], funcs[i][3])]))

\* What a unit declares and what it takes from the scopes around it.
Names(unit, flag) == SetToSeq(Flagged(unit, flag))

-----------------------------------------------------------------------------
(* Code: what ChimpEmit makes of a node, all the way down.                 *)

RECURSIVE PatternTest(_, _, _)
PatternTest(p, label, depth) ==
  LET items == Items(p)
  IN PatternCode(p,
                 [i \in DOMAIN items |->
                    PatternTest(items[i], ItemLabel(p, label, depth), depth + 1)],
                 label, depth)

RECURSIVE BindVars(_, _)
BindVars(p, path) ==
  LET items == Items(p)
  IN PatternVars(p, path, [i \in DOMAIN items |-> BindVars(items[i], Append(path, Keys(p)[i]))])

Nodes(seq) == {seq[i] : i \in DOMAIN seq}

Below(n) ==
  CASE n[1] \in {"const", "nil", "ident", "fn", "break"} -> {}
    [] n[1] \in {"array", "hash"} -> Nodes(n[2])
    [] n[1] \in {"getattr", "not", "expr"} -> {n[2]}
    [] n[1] = "getitem" -> {n[2], n[3]}
    [] n[1] \in {"call", "spawn"} -> {n[2]} \union Nodes(n[3])
    [] n[1] = "binop" -> {n[3], n[4]}
    [] n[1] = "ret" -> Nodes(Tail(n))
    [] n[1] \in {"assign", "var"} -> Nodes(Tail(Tail(n)))
    [] n[1] \in {"if", "while"} -> {n[2]} \union UNION { Nodes(n[i]) : i \in 3..Len(n) }
    [] n[1] = "match" -> {n[2]} \union UNION { Nodes(n[3][i][2]) : i \in DOMAIN n[3] }

RECURSIVE NodeCode(_, _)
NodeCode(n, units) ==
  LET code == [m \in Below(n) |-> NodeCode(m, units)]
  IN IF n[1] \notin Statements THEN ExprCode(n, units, code)
     ELSE StmtCode(n, code, [p \in Tried(n) |-> PatternTest(p, NextLabel, 0)],
                            [p \in Tried(n) |-> BindVars(p, <<>>)])

BytecodeMethod(unit, units) ==
  [vars |-> Names(unit, "decl"), free |-> Names(unit, "free")]
    @@ Assembled(MethodCode(unit.params, unit.body,
                            [m \in Nodes(unit.body) |-> NodeCode(m, units)]))

Compiles(funcs) == VisitModule(funcs).ok

\* chimp_compile_ast
Compile(funcs) ==
  LET units == VisitModule(funcs).units
  IN [units |-> [id \in DOMAIN units |-> BytecodeMethod(units[id], units)],
      globals |-> [x \in {funcs[i][1] : i \in DOMAIN funcs} |-> <<"method", x>>]]

=============================================================================
