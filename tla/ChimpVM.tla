------------------------------- MODULE ChimpVM -------------------------------
(***************************************************************************)
(* The bytecode machine of one task: src/libchimp/vm.c, with the frames,   *)
(* methods and variables it works on (frame.c, method.c, var.c).           *)
(*                                                                         *)
(* The program to run is a constant of the behaviour: the code units the   *)
(* compiler made (ChimpCompile makes them), each a code object with its    *)
(* tables (ChimpCode), with the names of the variables the unit declares   *)
(* and of those it takes from around it.                                   *)
(*                                                                         *)
(* The C stack of chimp_vm_invoke and chimp_vm_eval_frame is the sequence  *)
(* frames; base is the stack size an invocation saved.  The operand stack  *)
(* is an array that never shrinks: size says how much of it is in use, and *)
(* what lies above stays there until it is written over.                   *)
(***************************************************************************)
EXTENDS ChimpCode, FiniteSets

CONSTANT Programs   \* programs: [units |-> [name |-> unit], globals |-> ...]

VARIABLES
  prog,       \* the program this behaviour runs
  stack,      \* vm->stack->items
  size,       \* vm->stack->size
  frames,     \* vm->frames, and with each frame its pc and its saved size
  cells,      \* the values of all ChimpVars made so far
  sent,       \* what the program passed to tasks: <<method, message>>
  status,     \* "run", "done", "bug" (CHIMP_BUG aborts) or "crash"
  result      \* what the outermost method returned

vars == <<prog, stack, size, frames, cells, sent, status, result>>

\* CHIMP_CMP results, and what the six comparisons make of them.
Holds(op, r) ==
  CASE op = "CMPEQ"  -> r = "EQ"
    [] op = "CMPNEQ" -> r # "EQ"
    [] op = "CMPGT"  -> r = "GT"
    [] op = "CMPGTE" -> r \in {"GT", "EQ"}
    [] op = "CMPLT"  -> r = "LT"
    [] op = "CMPLTE" -> r \in {"LT", "EQ"}

Comparisons == {"CMPEQ", "CMPNEQ", "CMPGT", "CMPGTE", "CMPLT", "CMPLTE"}
Arithmetic == {"ADD", "SUB", "MUL", "DIV"}

\* chimp_vm_makehash puts the pairs as they come off the stack, last first.
MakePairs(items) ==
  LET n == Len(items) \div 2
      made[i \in 0..n] ==
        IF i = 0 THEN <<>>
        ELSE HashPut(made[i - 1], items[2 * (n - i) + 1], items[2 * (n - i) + 2])
  IN made[n]

-----------------------------------------------------------------------------
(* The current frame, its instruction and its operands.                    *)

Depth == Len(frames)
Frame == frames[Depth]
Unit == prog.units[Frame.unit]
AtEnd == Frame.pc > Len(Unit.code)
Instr == InstrAt(Unit, Frame.pc)
Op == IF AtEnd THEN "RET" ELSE Instr[1]
Running(ops) == status = "run" /\ Op \in ops

\* The n-th operand from the top; popping an empty stack gives nil.
Operand(n) == IF n <= size THEN stack[size - n + 1] ELSE Nil
Operands(n) == [i \in 1..n |-> Operand(n - i + 1)]
SizeWithout(n) == IF n <= size THEN size - n ELSE 0

\* How many operands an instruction takes off the stack, or looks at.
Pops(instr) ==
  CASE instr[1] \in {"PUSHCONST", "PUSHNAME", "PUSHNIL", "JUMP"} -> 0
    [] instr[1] \in {"GETITEM"} \union Comparisons \union Arithmetic -> 2
    [] instr[1] = "CALL" -> instr[2] + 1
    [] instr[1] = "MAKEARRAY" -> instr[2]
    [] instr[1] = "MAKEHASH" -> 2 * instr[2]
    [] OTHER -> 1

Taken == IF AtEnd THEN 1 ELSE Pops(Instr)

\* Write items from position n + 1 of the stack on.
Write(n, items) ==
  [i \in 1..(IF n + Len(items) > Len(stack) THEN n + Len(items) ELSE Len(stack)) |->
     IF i > n /\ i <= n + Len(items) THEN items[i - n] ELSE stack[i]]

Goto(pc) == frames' = [frames EXCEPT ![Depth].pc = pc]

\* Replace the top n operands by v and go on.
Replace(n, v) ==
  /\ stack' = Write(SizeWithout(n), <<v>>)
  /\ size' = SizeWithout(n) + 1
  /\ Goto(Frame.pc + 1)

\* Take the top n operands off the stack and go to pc.
Drop(n, pc) ==
  /\ size' = SizeWithout(n)
  /\ Goto(pc)
  /\ UNCHANGED stack

\* Where a name leads: a local of the frame, the module, the builtins.
Builtins == [array |-> Class("array"), hash |-> Class("hash")]
NoName == <<"no name">>

Global(x) ==
  IF x \in DOMAIN prog.globals THEN prog.globals[x]
  ELSE IF x \in DOMAIN Builtins THEN Builtins[x]
  ELSE NoName

Lookup(x) == IF x \in DOMAIN Frame.locals THEN Frame.locals[x] ELSE Global(x)

\* A free variable of a closure is looked for in every frame, latest first.
LookupFree(x) ==
  LET holders == { i \in 1..Depth : x \in DOMAIN frames[i].locals }
  IN IF holders = {} THEN Global(x)
     ELSE frames[CHOOSE i \in holders : \A j \in holders : j <= i].locals[x]

ValueOf(binding) == IF binding[1] = "var" THEN cells[binding[2]] ELSE binding

\* chimp_frame_new: a new variable for each declared name, and the bindings
\* of a closure.
Bindings(callee) == IF callee[1] = "closure" THEN callee[3] ELSE <<>>
Locals(callee, n) ==
  LET declared == prog.units[callee[2]].vars
      bound == Bindings(callee)
  IN [x \in {declared[i] : i \in DOMAIN declared} \union DOMAIN bound |->
        IF x \in DOMAIN bound THEN bound[x]
        ELSE <<"var", n + (CHOOSE i \in DOMAIN declared : declared[i] = x)>>]

\* Mutant: the frame has names for variables it did not make.
NewCellsMissing(callee) == <<>>

NewCells(callee) == [i \in DOMAIN prog.units[callee[2]].vars |-> Unset]

NewFrame(callee, base) ==
  [unit |-> callee[2], pc |-> 1, locals |-> Locals(callee, Len(cells)), base |-> base]

-----------------------------------------------------------------------------
(* chimp_task_thread_func invokes the method of a task; here it is main,   *)
(* called without arguments.                                               *)
Init ==
  /\ prog \in Programs
  /\ stack = <<>> /\ size = 0
  /\ cells = [i \in DOMAIN prog.units["main"].vars |-> Unset]
  /\ frames = << [unit |-> "main", pc |-> 1, base |-> 0,
                  locals |-> LET declared == prog.units["main"].vars
                             IN [x \in {declared[i] : i \in DOMAIN declared} |->
                                   <<"var", CHOOSE i \in DOMAIN declared : declared[i] = x>>]] >>
  /\ sent = <<>>
  /\ status = "run"
  /\ result = Nil

\* NULL where a value is needed, a name nobody knows, a value of the wrong
\* kind: the case ends in CHIMP_BUG, here or in the CALL that gets NULL for a
\* result (in the outermost method, in a task that fails).
Broken ==
  LET Bad(n) == Operand(n) = Unset
      target == Operand(Taken)
  IN \/ Op # "CALL" /\ \E n \in 1..Taken : Bad(n)
     \/ Op = "PUSHNAME" /\ Lookup(Instr[2]) = NoName
     \/ Op = "STORENAME" /\ Instr[2] \notin DOMAIN Frame.locals
     \/ Op = "GETATTR" /\ ~HasAttr(Operand(1), Instr[2])
     \/ Op = "GETITEM" /\ ~HasItems(Operand(2), Operand(1))
     \/ Op = "CALL" /\ \/ ~IsMethod(target) /\ target[1] # "native"
                       \/ target[1] = "native" /\ (target[2] = "size") # (Instr[2] = 0)
     \/ Op = "SPAWN" /\ Operand(1)[1] # "method"
     \/ Op = "MAKEHASH" /\ \E n \in 1..Instr[2] : Operand(2 * n) = Nil
     \/ Op = "MAKECLOSURE" /\ \E i \in DOMAIN prog.units[Operand(1)[2]].free :
                                 LookupFree(prog.units[Operand(1)[2]].free[i]) = NoName
     \/ Op \in Arithmetic /\ ~Computes(Op, Operand(2), Operand(1))

\* Also where a comparison casts a value to a class it is not of.
Abort ==
  /\ status = "run"
  /\ \/ Broken
     \/ Op \in Comparisons /\ "BUG" \in Cmp(Operand(2), Operand(1))
  /\ status' = "bug"
  /\ UNCHANGED <<prog, stack, size, frames, cells, sent, result>>

At(ops) == Running(ops) /\ ~Broken
Quiet == UNCHANGED <<prog, cells, sent, status, result>>

PushConst == At({"PUSHCONST"}) /\ Replace(0, Instr[2]) /\ Quiet
PushNil == At({"PUSHNIL"}) /\ Replace(0, Nil) /\ Quiet
PushName == At({"PUSHNAME"}) /\ Replace(0, ValueOf(Lookup(Instr[2]))) /\ Quiet
Dup == At({"DUP"}) /\ Replace(0, Operand(1)) /\ Quiet
Pop == At({"POP"}) /\ Drop(1, Frame.pc + 1) /\ Quiet
Not == At({"NOT"}) /\ Replace(1, Bool(~Truthy(Operand(1)))) /\ Quiet
GetClass == At({"GETCLASS"}) /\ Replace(1, ClassOf(Operand(1))) /\ Quiet
GetAttr == At({"GETATTR"}) /\ Replace(1, <<"native", Instr[2], Operand(1)>>) /\ Quiet
GetItem == At({"GETITEM"}) /\ Replace(2, ItemOf(Operand(2), Operand(1))) /\ Quiet
MakeArray == At({"MAKEARRAY"}) /\ Replace(Taken, <<"array", Operands(Taken)>>) /\ Quiet
MakeHash == At({"MAKEHASH"}) /\ Replace(Taken, <<"hash", MakePairs(Operands(Taken))>>) /\ Quiet
Spawn == At({"SPAWN"}) /\ Replace(1, <<"task", Operand(1)[2]>>) /\ Quiet

StoreName ==
  /\ At({"STORENAME"})
  /\ Frame.locals[Instr[2]][1] = "var"
  /\ cells' = [cells EXCEPT ![Frame.locals[Instr[2]][2]] = Operand(1)]
  /\ Drop(1, Frame.pc + 1)
  /\ UNCHANGED <<prog, sent, status, result>>

MakeClosure ==
  /\ At({"MAKECLOSURE"})
  /\ LET free == prog.units[Operand(1)[2]].free
     IN Replace(1, <<"closure", Operand(1)[2],
                     [x \in {free[i] : i \in DOMAIN free} |-> LookupFree(x)]>>)
  /\ Quiet

Jump == At({"JUMP"}) /\ Goto(Instr[2]) /\ UNCHANGED <<stack, size>> /\ Quiet

JumpIf ==
  /\ At({"JUMPIFTRUE", "JUMPIFFALSE"})
  /\ Drop(1, IF Truthy(Operand(1)) = (Op = "JUMPIFTRUE") THEN Instr[2] ELSE Frame.pc + 1)
  /\ Quiet

Compare ==
  /\ At(Comparisons)
  /\ \E r \in Cmp(Operand(2), Operand(1)) \ {"BUG"} : Replace(2, Bool(Holds(Op, r)))
  /\ Quiet

Arith ==
  /\ At(Arithmetic)
  /\ ~(Op = "DIV" /\ Operand(1) = Number(0))
  /\ Replace(2, Compute(Op, Operand(2), Operand(1)))
  /\ Quiet

\* Undefined: SIGFPE, and a write to what a closure holds of a name that was
\* no variable.
Crash ==
  /\ \/ At({"DIV"}) /\ Operand(1) = Number(0) /\ Operand(2)[1] = "int"
     \/ At({"STORENAME"}) /\ Frame.locals[Instr[2]][1] # "var"
  /\ status' = "crash"
  /\ UNCHANGED <<prog, stack, size, frames, cells, sent, result>>

\* chimp_vm_call of a method with bytecode: chimp_vm_invoke saves the size of
\* the stack and pushes the arguments for the STORENAMEs the code begins with.
Call ==
  /\ At({"CALL"}) /\ IsMethod(Operand(Taken))
  /\ LET base == SizeWithout(Taken)
         callee == Operand(Taken)
     IN /\ stack' = Write(base, Operands(Instr[2]))
        /\ size' = base + Instr[2]
        /\ frames' = Append(frames, NewFrame(callee, base))
        /\ cells' = cells \o NewCells(callee)
  /\ UNCHANGED <<prog, sent, status, result>>

\* chimp_vm_call of the native methods the compiler itself calls.
CallNative ==
  /\ At({"CALL"}) /\ Operand(Taken)[1] = "native"
  /\ LET name == Operand(Taken)[2]
         self == Operand(Taken)[3]
     IN \/ /\ name = "size"
           /\ Replace(Taken, Number(Len(self[2])))
           /\ UNCHANGED sent
        \/ /\ name = "send"
           /\ Replace(Taken, Bool(TRUE))
           /\ sent' = Append(sent, <<self[2], Operand(Instr[2])>>)
  /\ UNCHANGED <<prog, cells, status, result>>

\* RET, or the end of the code: the value on top is the result, and
\* chimp_vm_invoke restores the size of the stack.
Return ==
  /\ At({"RET"}) /\ Depth > 1
  /\ stack' = Write(Frame.base, <<Operand(1)>>)
  /\ size' = Frame.base + 1
  /\ frames' = [SubSeq(frames, 1, Depth - 1) EXCEPT ![Depth - 1].pc = @ + 1]
  /\ Quiet

Finish ==
  /\ At({"RET"}) /\ Depth = 1
  /\ result' = Operand(1)
  /\ size' = Frame.base
  /\ status' = "done"
  /\ UNCHANGED <<prog, stack, frames, cells, sent>>

Next ==
  \/ PushConst \/ PushNil \/ PushName \/ StoreName \/ Dup \/ Pop \/ Not
  \/ GetClass \/ GetAttr \/ GetItem \/ MakeArray \/ MakeHash \/ MakeClosure
  \/ Jump \/ JumpIf \/ Compare \/ Arith \/ Spawn
  \/ Call \/ CallNative \/ Return \/ Finish \/ Abort \/ Crash

Spec == Init /\ [][Next]_vars
FairSpec == Spec /\ WF_vars(Next)

-----------------------------------------------------------------------------
(* Types: the stack covers its size, every frame is in its code, and every *)
(* variable a frame can name exists.                                       *)
TypeOK ==
  /\ size \in 0..Len(stack)
  /\ status \in {"run", "done", "bug", "crash"}
  /\ \A i \in 1..Depth :
       /\ frames[i].unit \in DOMAIN prog.units
       /\ frames[i].pc \in 1..(Len(prog.units[frames[i].unit].code) + 1)
       /\ frames[i].base \in 0..size
       /\ \A x \in DOMAIN frames[i].locals :
            frames[i].locals[x][1] = "var" => frames[i].locals[x][2] \in DOMAIN cells

(* An instruction takes only operands its own invocation pushed: none of   *)
(* the values the caller has on the stack between two of its own           *)
(* instructions is popped, stored or returned by the callee (vm.c:918,     *)
(* which pops a result whether or not the code left one).                  *)
OwnOperands == status = "run" => size - Taken >= Frame.base

(* What that rests on: a number for each place the code of a unit can get  *)
(* to, at most as many operands as it has pushed there, and at least as    *)
(* many as the instruction takes.                                          *)
InstrOrEnd(unit, pc) == IF pc > Len(unit.code) THEN <<"RET">> ELSE InstrAt(unit, pc)

\* What an instruction leaves on the stack, and where it goes.
Pushes(instr) ==
  CASE instr[1] \in {"POP", "STORENAME"} \union Jumps -> 0
    [] instr[1] = "DUP" -> 2
    [] OTHER -> 1

NextPlaces(instr, pc) ==
  CASE instr[1] = "RET" -> {}
    [] instr[1] = "JUMP" -> {instr[2]}
    [] instr[1] \in Jumps \ {"JUMP"} -> {instr[2], pc + 1}
    [] OTHER -> {pc + 1}

\* The arguments of a call are taken off the stack by the STORENAMEs the code begins with.
Arguments(unit) ==
  { n \in 1..Len(unit.code) : \A i \in 1..n : unit.code[i][1] = "STORENAME" }
Arity(unit) == Cardinality(Arguments(unit))

Carries(unit, height) ==
  /\ 1 \in DOMAIN height /\ height[1] = Arity(unit)
  /\ DOMAIN height \subseteq 1..(Len(unit.code) + 1)
  /\ \A pc \in DOMAIN height :
       LET instr == InstrOrEnd(unit, pc)
       IN /\ instr[1] \in Counted => instr[2] \in Nat
          /\ height[pc] \in Nat /\ Pops(instr) <= height[pc]
          /\ \A next \in NextPlaces(instr, pc) :
               next \in DOMAIN height /\ height[next] <= height[pc] - Pops(instr) + Pushes(instr)

\* A task calls main without arguments.
Balanced(program, heights) ==
  /\ "main" \in DOMAIN program.units /\ Arity(program.units["main"]) = 0
  /\ \A u \in DOMAIN program.units : Carries(program.units[u], heights[u])

\* The constants of the code and the globals have no values inside, and no variables.
Scalar(v) == v[1] \notin {"var", "array", "hash", "closure"}

Plain(program) ==
  /\ \A x \in DOMAIN program.globals : Scalar(program.globals[x])
  /\ \A u \in DOMAIN program.units :
       LET unit == program.units[u]
       IN /\ Len(unit.vars) \in Nat /\ DOMAIN unit.vars = 1..Len(unit.vars)
          /\ \A pc \in 1..(Len(unit.code) + 1) :
               InstrOrEnd(unit, pc)[1] = "PUSHCONST" => Scalar(InstrOrEnd(unit, pc)[2])

(* A function gets as many arguments as it takes, and their names are what *)
(* its code begins with: the machine does not count them (CALL in vm.c),   *)
(* the compiler makes the call and the callee apart from each other.       *)
ArgumentsMatch ==
  Running({"CALL"}) /\ IsMethod(Operand(Taken)) =>
    /\ Operand(Taken)[2] \in DOMAIN prog.units
    /\ Arity(prog.units[Operand(Taken)[2]]) = Instr[2]

=============================================================================
