------------------------------- MODULE ChimpCode -------------------------------
(***************************************************************************)
(* A code object: src/libchimp/code.c, which the compiler fills, and the   *)
(* macros of code.h by which the machine reads it.                         *)
(*                                                                         *)
(* An instruction is a word of 32 bits: an opcode, and one byte that is a  *)
(* count or a place in the table of constants or names, or 24 bits that    *)
(* are the address of a jump.  Here it is <<opcode>> or <<opcode, field>>. *)
(* Addresses count from one, places in the tables from zero.  Memory for   *)
(* the code and the tables does not run out.                               *)
(***************************************************************************)
EXTENDS ChimpValues

\* While a unit is compiled, a jump is relative to its own place, and
\* <<op, "label", l>> as long as label l has no place: chimp_code_use_label
\* puts the label at the end of the code so far and patches those jumps.
JumpTo(op, label) == <<op, "label", label>>

UseLabel(code, label) ==
  [i \in DOMAIN code |->
     IF Len(code[i]) = 3 /\ code[i][3] = label
     THEN <<code[i][1], Len(code) + 1 - i>> ELSE code[i]]

Jumps == {"JUMP", "JUMPIFTRUE", "JUMPIFFALSE"}
Naming == {"PUSHNAME", "STORENAME", "GETATTR"}
Counted == {"CALL", "MAKEARRAY", "MAKEHASH"}

-----------------------------------------------------------------------------
(* The words, and the tables their fields point into.                      *)

Byte(n) == n % 2^8          \* CHIMP_MAKE_INSTR1
Address(n) == n % 2^24      \* CHIMP_JUMP_INSTR

\* A table has each value once, in the order of first use: chimp_array_find,
\* and a push of what is not found.  Constants are scalars, so those that
\* compare equal are the same.
Table(values) ==
  LET IsNew(i) == \A j \in 1..(i - 1) : values[j] # values[i]
      new == SelectSeq([i \in DOMAIN values |-> i], IsNew)
  IN [n \in DOMAIN new |-> values[new[n]]]

Place(table, v) == (CHOOSE i \in DOMAIN table : table[i] = v) - 1

ConstWord(v, constants) == <<"PUSHCONST", Byte(Place(constants, v))>>
NameWord(op, x, names) == <<op, Byte(Place(names, x))>>
CountWord(op, n) == <<op, Byte(n)>>
JumpWord(op, pc) == <<op, Address(pc - 1) + 1>>
PlainWord(op) == <<op>>

\* The word of the instruction x at place i.
Emitted(x, i, constants, names) ==
  CASE x[1] = "PUSHCONST" -> ConstWord(x[2], constants)
    [] x[1] \in Naming    -> NameWord(x[1], x[2], names)
    [] x[1] \in Counted   -> CountWord(x[1], x[2])
    [] x[1] \in Jumps     -> JumpWord(x[1], i + x[2])
    [] OTHER              -> PlainWord(x[1])

\* The object after every instruction of a unit has been emitted.
Assembled(code) ==
  LET Fields(ops) == LET uses == SelectSeq(code, LAMBDA c : c[1] \in ops)
                     IN [i \in DOMAIN uses |-> uses[i][2]]
      constants == Table(Fields({"PUSHCONST"}))
      names == Table(Fields(Naming))
      words == [i \in DOMAIN code |-> Emitted(code[i], i, constants, names)]
  IN [code |-> words, constants |-> constants, names |-> names]

-----------------------------------------------------------------------------
(* CHIMP_INSTR_CONST1, CHIMP_INSTR_NAME1, CHIMP_INSTR_ARG1 and _ADDR: the  *)
(* instruction at pc with what its field stands for.                       *)
InstrAt(unit, pc) ==
  LET instr == unit.code[pc]
  IN CASE instr[1] = "PUSHCONST" -> <<instr[1], unit.constants[instr[2] + 1]>>
       [] instr[1] \in Naming    -> <<instr[1], unit.names[instr[2] + 1]>>
       [] OTHER                  -> instr

=============================================================================
