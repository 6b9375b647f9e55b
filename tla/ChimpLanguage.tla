----------------------------- MODULE ChimpLanguage -----------------------------
(***************************************************************************)
(* A program from its text to its result: ChimpCompile makes the code,     *)
(* ChimpVM runs it, and ChimpMeaning says what should have come out.  A    *)
(* program carries its meaning along, for the property below to compare.   *)
(***************************************************************************)
EXTENDS ChimpVM, ChimpCompile

M == INSTANCE ChimpMeaning

Program(funcs) == [means |-> M!Meaning(funcs), faulty |-> FALSE] @@ Compile(funcs)

\* A program whose text asks for what no value can do.
Faulty(funcs) == [faulty |-> TRUE] @@ Compile(funcs)

\* The fewest operands at each place, going through the code once: what jumps back finds no fewer.
Heights(unit) ==
  LET Out(pc, n) == n - Pops(InstrOrEnd(unit, pc)) + Pushes(InstrOrEnd(unit, pc))
      Known(h, pc) == IF pc \in DOMAIN h THEN {h[pc]} ELSE {}
      Going(h, pc, places) ==
        [q \in DOMAIN h \union places |->
           IF q \in places THEN Min({Out(pc, h[pc])} \union Known(h, q)) ELSE h[q]]
      upto[pc \in 0..Len(unit.code)] ==
        IF pc = 0 THEN [q \in {1} |-> Arity(unit)]
        ELSE LET h == upto[pc - 1]
             IN IF pc \in DOMAIN h THEN Going(h, pc, NextPlaces(InstrOrEnd(unit, pc), pc)) ELSE h
  IN upto[Len(unit.code)]

(* The code of every function carries its operands: on every way through   *)
(* it an instruction finds at least as many operands of its own frame as   *)
(* it takes (compile.c, on expressions that jump, loops, breaks and        *)
(* patterns that fail half way); and a call passes as many arguments as    *)
(* the code of the callee begins with taking, which CALL does not count    *)
(* (vm.c:255).                                                             *)
CarriesOperands ==
  /\ Depth = 1 /\ Frame.pc = 1 =>
       Balanced(prog, [u \in DOMAIN prog.units |-> Heights(prog.units[u])])
  /\ ArgumentsMatch

(* A program that means something gets there: it is not aborted for a name *)
(* or an operand that its text has and its code lost, and when it is done  *)
(* it has returned the value and passed the messages the text stands for.  *)
(* A faulty one is stopped (compile.c and vm.c together, on jumps,         *)
(* patterns, closures, calls and what is left on the operand stack).       *)
ResultIsMeaning ==
  IF prog.faulty THEN status # "done"
  ELSE /\ status \notin {"bug", "crash"}
       /\ status = "done" => /\ result = prog.means.result
                             /\ sent = prog.means.sent

(* Every program comes to its end: no jump leads a program that ends round *)
(* in its code for ever (chimp_compile_ast_stmt_while_ and the patching of *)
(* labels, code.c:27-72).                                                  *)
Halts == <>(status # "run")

=============================================================================
