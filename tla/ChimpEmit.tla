------------------------------- MODULE ChimpEmit -------------------------------
(***************************************************************************)
(* The code generator of src/libchimp/compile.c, one construct at a time:  *)
(* the code of a node of the syntax tree from the code of the nodes below  *)
(* it.  ChimpCompile goes through the trees and says what a node is.       *)
(***************************************************************************)
EXTENDS ChimpCode

Flatten(parts) ==
  LET upto[n \in 0..Len(parts)] == IF n = 0 THEN <<>> ELSE upto[n - 1] \o parts[n]
  IN upto[Len(parts)]

EndLabel == <<"end">>
NextLabel == <<"next">>
BreakLabel == <<"break">>
PopLabel(depth) == <<"pop", depth>>

-----------------------------------------------------------------------------
(* Pattern tests leave the subject on the stack when they succeed, and go  *)
(* to label when they fail.  depth tells the labels of nested tests apart, *)
(* and tests[i] is the test of the i-th item of the pattern.               *)

SubjectIs(class, label) ==
  << <<"DUP">>, <<"GETCLASS">>, class, <<"CMPEQ">>, JumpTo("JUMPIFFALSE", label) >>

SubjectHasSize(n, label) ==
  << <<"DUP">>, <<"GETATTR", "size">>, <<"CALL", 0>>, <<"PUSHCONST", <<"int", n>>>>,
     <<"CMPEQ">>, JumpTo("JUMPIFFALSE", label) >>

\* chimp_compile_ast_stmt_simple_pattern_test
SimpleTest(p, label) ==
  IF p[1] = "nil" THEN SubjectIs(<<"PUSHCONST", <<"class", "nil">>>>, label)
  ELSE << <<"DUP">>, <<"PUSHCONST", p[2]>>, <<"CMPEQ">>, JumpTo("JUMPIFFALSE", label) >>

\* The items of a pattern, and the keys its subject has them at.
Items(p) ==
  CASE p[1] = "array" -> p[2]
    [] p[1] = "hash"  -> [i \in DOMAIN p[2] |-> p[2][i][2]]
    [] OTHER          -> <<>>

Keys(p) ==
  CASE p[1] = "array" -> [i \in DOMAIN p[2] |-> <<"int", i - 1>>]
    [] p[1] = "hash"  -> [i \in DOMAIN p[2] |-> p[2][i][1]]
    [] OTHER          -> <<>>

ItemTest(key, test) ==
  << <<"DUP">>, <<"PUSHCONST", key>>, <<"GETITEM">> >> \o test \o << <<"POP">> >>

\* Whether the subject has the class and the size of the pattern, and then its items.
ItemTests(p, tests, label) ==
  SubjectIs(<<"PUSHNAME", p[1]>>, label)
    \o SubjectHasSize(Len(p[2]), label)
    \o Flatten([i \in DOMAIN tests |-> ItemTest(Keys(p)[i], tests[i])])

\* Mutant: an item that fails stays on the stack.
ArrayTestLeavesItem(p, tests, label, depth) ==
  UseLabel(ItemTests(p, tests, label) \o << <<"JUMP", 2>> >>, PopLabel(depth))
    \o << JumpTo("JUMP", label) >>

\* Mutant: when all items match, the item that is popped for a failure is popped all the same.
ArrayTestFallsThrough(p, tests, label, depth) ==
  UseLabel(ItemTests(p, tests, label), PopLabel(depth)) \o << <<"POP">>, JumpTo("JUMP", label) >>

\* chimp_compile_ast_stmt_array_pattern_test: an item that fails is popped
\* before the test as a whole fails.
ArrayTest(p, tests, label, depth) ==
  UseLabel(ItemTests(p, tests, label) \o << <<"JUMP", 3>> >>, PopLabel(depth))
    \o << <<"POP">>, JumpTo("JUMP", label) >>

\* chimp_compile_ast_stmt_hash_pattern_test: an item that fails fails the
\* whole test at once.
HashTest(p, tests, label) == ItemTests(p, tests, label)

\* Where the test of an item goes when it fails.
ItemLabel(p, label, depth) == IF p[1] = "array" THEN PopLabel(depth) ELSE label

PatternCode(p, tests, label, depth) ==
  CASE p[1] \in {"const", "nil"} -> SimpleTest(p, label)
    [] p[1] \in {"ident", "_"}   -> <<>>
    [] p[1] = "array"            -> ArrayTest(p, tests, label, depth)
    [] p[1] = "hash"             -> HashTest(p, tests, label)

\* A variable of a pattern, with the keys that lead from the subject to its value.
BindVar(var) ==
  << <<"DUP">> >>
    \o Flatten([i \in DOMAIN var[2] |-> << <<"PUSHCONST", var[2][i]>>, <<"GETITEM">> >>])
    \o << <<"STORENAME", var[1]>> >>

\* CHIMP_BIND_VARS_ADD: the variables of a pattern, from those of its items.
PatternVars(p, path, items) == IF p[1] = "ident" THEN << <<p[2], path>> >> ELSE Flatten(items)

-----------------------------------------------------------------------------
(* Expressions.  code[n] is the code of a node directly below this one,    *)
(* units what the symbol table knows of each function.                     *)

CodeOf(nodes, code) == Flatten([i \in DOMAIN nodes |-> code[nodes[i]]])

\* The names of a unit that are declared or free.
Flagged(unit, flag) == { x \in DOMAIN unit.syms : unit.syms[x] = flag }

\* Mutant: the value that decides is not kept.
UnlessTakesValue(op, right) ==
  << <<op, 2>>, <<"JUMP", Len(right) + 2>>, <<"POP">> >> \o right

\* chimp_compile_ast_expr_binop, for the two that may skip their right side.
Unless(op, right) ==
  << <<"DUP">>, <<op, 2>>, <<"JUMP", Len(right) + 2>>, <<"POP">> >> \o right

Binop(op, left, right) ==
  CASE op = "OR"  -> left \o Unless("JUMPIFFALSE", right)
    [] op = "AND" -> left \o Unless("JUMPIFTRUE", right)
    [] OTHER -> left \o right \o << <<op>> >>

\* chimp_compile_ast_expr_fn
Fn(id, units) ==
  << <<"PUSHCONST", <<"method", id>>>> >>
    \o (IF Flagged(units[id], "free") = {} THEN <<>> ELSE << <<"MAKECLOSURE">> >>)

ExprCode(e, units, code) ==
  CASE e[1] = "const"   -> << <<"PUSHCONST", e[2]>> >>
    [] e[1] = "nil"     -> << <<"PUSHNIL">> >>
    [] e[1] = "ident"   -> << <<"PUSHNAME", e[2]>> >>
    [] e[1] = "array"   -> CodeOf(e[2], code) \o << <<"MAKEARRAY", Len(e[2])>> >>
    [] e[1] = "hash"    -> CodeOf(e[2], code) \o << <<"MAKEHASH", Len(e[2]) \div 2>> >>
    [] e[1] = "getitem" -> code[e[2]] \o code[e[3]] \o << <<"GETITEM">> >>
    [] e[1] = "getattr" -> code[e[2]] \o << <<"GETATTR", e[3]>> >>
    [] e[1] = "call"    -> code[e[2]] \o CodeOf(e[3], code) \o << <<"CALL", Len(e[3])>> >>
    [] e[1] = "spawn"   -> code[e[2]] \o << <<"SPAWN">>, <<"DUP">>, <<"GETATTR", "send">> >>
                             \o CodeOf(e[3], code)
                             \o << <<"MAKEARRAY", Len(e[3])>>, <<"CALL", 1>>, <<"POP">> >>
    [] e[1] = "binop"   -> Binop(e[2], code[e[3]], code[e[4]])
    [] e[1] = "not"     -> code[e[2]] \o << <<"NOT">> >>
    [] e[1] = "fn"      -> Fn(e[2], units)

-----------------------------------------------------------------------------
(* Statements.  test[p] and vars[p] are the test and the variables of the  *)
(* pattern p of a clause.                                                  *)

Statements == {"expr", "assign", "var", "if", "while", "match", "ret", "break"}

\* chimp_compile_ast_stmt_match
Clause(test, vars, body) ==
  UseLabel(test \o Flatten([i \in DOMAIN vars |-> BindVar(vars[i])])
             \o << <<"POP">> >> \o body \o << JumpTo("JUMP", EndLabel) >>,
           NextLabel)

Match(subject, clauses) == UseLabel(subject \o Flatten(clauses), EndLabel)

\* Mutant: the label of break is used before the jump back.
WhileBreaksToTop(cond, body) ==
  LET loop == cond \o << JumpTo("JUMPIFFALSE", BreakLabel) >> \o body
  IN Append(UseLabel(loop, BreakLabel), <<"JUMP", -Len(loop)>>)

\* chimp_compile_ast_stmt_while_
While(cond, body) ==
  LET loop == cond \o << JumpTo("JUMPIFFALSE", BreakLabel) >> \o body
  IN UseLabel(Append(loop, <<"JUMP", -Len(loop)>>), BreakLabel)

\* chimp_compile_ast_stmt_if_
If(body) == << <<"JUMPIFFALSE", Len(body) + 1>> >> \o body
IfElse(body, orelse) == If(Append(body, <<"JUMP", Len(orelse) + 1>>)) \o orelse

\* The patterns of the clauses of a statement.
Tried(s) == IF s[1] = "match" THEN { s[3][i][1] : i \in DOMAIN s[3] } ELSE {}

StmtCode(s, code, test, vars) ==
  CASE s[1] = "expr"   -> code[s[2]] \o << <<"POP">> >>
    [] s[1] = "assign" -> code[s[3]] \o << <<"STORENAME", s[2]>> >>
    [] s[1] = "var"    -> IF Len(s) = 2 THEN <<>> ELSE code[s[3]] \o << <<"STORENAME", s[2]>> >>
    [] s[1] = "if"     -> code[s[2]] \o (IF Len(s) = 3 THEN If(CodeOf(s[3], code))
                                         ELSE IfElse(CodeOf(s[3], code), CodeOf(s[4], code)))
    [] s[1] = "while"  -> While(code[s[2]], CodeOf(s[3], code))
    [] s[1] = "match"  -> Match(code[s[2]],
                                [i \in DOMAIN s[3] |-> Clause(test[s[3][i][1]], vars[s[3][i][1]],
                                                              CodeOf(s[3][i][2], code))])
    [] s[1] = "ret"    -> (IF Len(s) = 1 THEN << <<"PUSHNIL">> >> ELSE code[s[2]])
                            \o << <<"RET">> >>
    [] s[1] = "break"  -> << JumpTo("JUMP", BreakLabel) >>

\* chimp_compile_bytecode_method: the arguments are on the stack, the last
\* one on top.
MethodCode(params, body, code) ==
  LET n == Len(params)
  IN [i \in 1..n |-> <<"STORENAME", params[n - i + 1]>>] \o CodeOf(body, code)

-----------------------------------------------------------------------------
(* Syntax, as _parser.y has it: what is directly below a node.             *)

\* The operators of ChimpVM, and the two that may skip their right side.
Operators ==
  {"AND", "OR", "ADD", "SUB", "MUL", "DIV", "CMPEQ", "CMPNEQ", "CMPGT", "CMPGTE", "CMPLT", "CMPLTE"}

Expression(e, exprs) ==
  \/ e[1] \in {"const", "nil", "ident", "fn"}
  \/ e[1] \in {"array", "hash"} /\ e[2] \in Seq(exprs)
  \/ e[1] \in {"getattr", "not"} /\ e[2] \in exprs
  \/ e[1] = "getitem" /\ e[2] \in exprs /\ e[3] \in exprs
  \/ e[1] \in {"call", "spawn"} /\ e[2] \in exprs /\ e[3] \in Seq(exprs)
  \/ e[1] = "binop" /\ e[2] \in Operators /\ e[3] \in exprs /\ e[4] \in exprs

Pattern(p, patterns) ==
  \/ p[1] \in {"const", "nil", "ident", "_"}
  \/ p[1] \in {"array", "hash"} /\ Items(p) \in Seq(patterns)

\* loops: what may stand in the body of a loop.
Statement(s, exprs, patterns, stmts, loops) ==
  \/ s[1] = "expr" /\ s[2] \in exprs
  \/ s[1] = "assign" /\ s[3] \in exprs
  \/ s[1] = "var" /\ (Len(s) = 2 \/ s[3] \in exprs)
  \/ s[1] = "if" /\ s[2] \in exprs /\ s[3] \in Seq(stmts) /\ (Len(s) = 3 \/ s[4] \in Seq(stmts))
  \/ s[1] = "while" /\ s[2] \in exprs /\ s[3] \in Seq(loops)
  \/ s[1] = "match" /\ s[2] \in exprs /\ s[3] \in Seq(patterns \X Seq(stmts))
  \/ s[1] = "ret" /\ (Len(s) = 1 \/ s[2] \in exprs)
  \/ s[1] = "break"

-----------------------------------------------------------------------------
(* A function with all its trees, and what was made of each: f.deep[n] is  *)
(* more than that of all trees in n, and so is f.inner[p] for a pattern,   *)
(* f.whole the statements that hold no break of a loop around them,        *)
(* f.tests the patterns with the labels they were tested for, f.binds      *)
(* those with the keys that lead to them.                                  *)

Lower(deep, nodes, n) == { m \in nodes : deep[m] < deep[n] }

\* f.code is what becomes of every expression and statement.
ExprMade(f, e) ==
  /\ f.deep[e] \in Nat /\ Expression(e, Lower(f.deep, f.exprs, e))
  /\ f.code[e] = ExprCode(e, f.units, f.code)

StmtMade(f, s) ==
  LET exprs == Lower(f.deep, f.exprs, s)
      stmts == Lower(f.deep, f.stmts, s)
  IN /\ f.deep[s] \in Nat /\ Statement(s, exprs, f.patterns, stmts, stmts)
     /\ s \in f.whole => /\ s[1] # "break"
                         /\ Statement(s, exprs, f.patterns, Lower(f.deep, f.whole, s), stmts)
     /\ \A p \in Tried(s) : <<p, NextLabel, 0>> \in f.tests /\ <<p, <<>>>> \in f.binds
     /\ f.code[s] = StmtCode(s, f.code, [p \in Tried(s) |-> f.test[<<p, NextLabel, 0>>]],
                                        [p \in Tried(s) |-> f.bind[<<p, <<>>>>]])

\* f.test is the code that tests a pattern, f.bind the variables in it.
TestMade(f, p, label, depth) ==
  LET Item(i) == <<Items(p)[i], ItemLabel(p, label, depth), depth + 1>>
  IN /\ p \in f.patterns /\ \A i \in DOMAIN Items(p) : Item(i) \in f.tests
     /\ f.test[<<p, label, depth>>]
          = PatternCode(p, [i \in DOMAIN Items(p) |-> f.test[Item(i)]], label, depth)

BindMade(f, p, path) ==
  LET Item(i) == <<Items(p)[i], Append(path, Keys(p)[i])>>
  IN /\ p \in f.patterns /\ \A i \in DOMAIN Items(p) : Item(i) \in f.binds
     /\ f.bind[<<p, path>>] = PatternVars(p, path, [i \in DOMAIN Items(p) |-> f.bind[Item(i)]])

\* The unit of a function that ends with ret, shorter than an address can count.
Compiled(unit, f) ==
  /\ \A e \in f.exprs : ExprMade(f, e)
  /\ \A s \in f.stmts : StmtMade(f, s)
  /\ \A p \in f.patterns : f.inner[p] \in Nat /\ Pattern(p, Lower(f.inner, f.patterns, p))
  /\ \A t \in f.tests : TestMade(f, t[1], t[2], t[3])
  /\ \A b \in f.binds : BindMade(f, b[1], b[2])
  /\ f.whole \subseteq f.stmts
  /\ f.body \in Seq(f.whole) /\ f.body # <<>> /\ f.body[Len(f.body)][1] = "ret"
  /\ f.params \in Seq(STRING)
  /\ LET code == MethodCode(f.params, f.body, f.code)
     IN Len(code) < 2^24 /\ unit.code = Assembled(code).code

\* A program with a main that takes no arguments, and the functions its units are made of.
CompiledFrom(program, funcs) ==
  /\ "main" \in DOMAIN program.units /\ funcs["main"].params = <<>>
  /\ \A u \in DOMAIN program.units : Compiled(program.units[u], funcs[u])

=============================================================================
