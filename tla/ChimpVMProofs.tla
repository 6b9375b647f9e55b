----------------------------- MODULE ChimpVMProofs -----------------------------
(***************************************************************************)
(* Proofs about ChimpVM, for every program whose code carries a number of  *)
(* operands: as long as functions get as many arguments as they take, an   *)
(* instruction takes only operands its own invocation pushed, and every    *)
(* variable a frame can name exists.                                       *)
(*                                                                         *)
(* The first rests on Stacked: what each invocation has on the stack.  The *)
(* second needs to know of every value what is inside: a closure holds     *)
(* variables, arrays and hashes hold closures.  There is no induction over *)
(* values for it: Values(S) says that S is closed under taking parts and   *)
(* that all the machine can get at is in S, and each instruction makes an  *)
(* S for the next one.                                                     *)
(*                                                                         *)
(* That code carries its operands is proved of all code the compiler       *)
(* makes, as ChimpEmit has it, in the second half: construct by construct, *)
(* and for trees of any depth because there is no least one without.       *)
(***************************************************************************)
EXTENDS ChimpVM, ChimpEmit, SequenceTheorems, FiniteSetTheorems, WellFoundedInduction, TLAPS

\* A sequence, whatever is in it.
IsSeq(s) == \E S : s \in Seq(S)

\* The instruction the machine is at; the end of the code is a RET.
Now == InstrOrEnd(Unit, Frame.pc)

\* A frame of the program p is at a place of its code that can be got to.
InCode(p, h, f) ==
  /\ f = [unit |-> f.unit, pc |-> f.pc, locals |-> f.locals, base |-> f.base]
  /\ f.unit \in DOMAIN p.units /\ f.pc \in DOMAIN h[f.unit] /\ f.base \in Nat

\* When g returns its result, f has as many operands as the place behind its call carries.
Awaits(h, f, g) ==
  /\ f.pc + 1 \in DOMAIN h[f.unit]
  /\ f.base + h[f.unit][f.pc + 1] <= g.base + 1

\* Each frame has at least as many operands above its base as its place carries.
Stacked(h) ==
  /\ IsSeq(frames) /\ Len(frames) \in Nat \ {0} /\ size \in Nat
  /\ \A i \in 1..Len(frames) : InCode(prog, h, frames[i])
  /\ \A i \in 1..Len(frames) : i < Len(frames) => Awaits(h, frames[i], frames[i + 1])
  /\ Frame.base + h[Frame.unit][Frame.pc] <= size

-----------------------------------------------------------------------------
(* Instructions.                                                           *)

\* The instruction, its opcode and what it takes.
LEMMA NowIs ==
  /\ Op = Now[1] /\ Taken = Pops(Now)
  /\ Op # "RET" => Now = Instr
<1>1. CASE AtEnd
  <2>1. Now = <<"RET">>
    BY <1>1 DEF Now, InstrOrEnd, AtEnd
  <2>2. Pops(<<"RET">>) = 1
    BY DEF Pops, Comparisons, Arithmetic
  <2>. QED BY <1>1, <2>1, <2>2 DEF Op, Taken
<1>2. CASE ~AtEnd
  BY <1>2 DEF Now, InstrOrEnd, AtEnd, Op, Taken, Instr
<1>. QED BY <1>1, <1>2

\* How many operands an instruction takes, by its opcode.
LEMMA PopsAre ==
  ASSUME NEW instr, instr[1] \in Counted => instr[2] \in Nat
  PROVE  /\ Pops(instr) \in Nat
         /\ instr[1] \in {"PUSHCONST", "PUSHNAME", "PUSHNIL", "JUMP"} => Pops(instr) = 0
         /\ instr[1] \in {"GETITEM"} \union Comparisons \union Arithmetic => Pops(instr) = 2
         /\ instr[1] = "CALL" => Pops(instr) = instr[2] + 1
         /\ instr[1] \in {"DUP", "POP", "STORENAME", "JUMPIFTRUE", "JUMPIFFALSE", "NOT", "GETCLASS",
                          "GETATTR", "SPAWN", "MAKECLOSURE", "RET"} => Pops(instr) = 1
BY DEF Pops, Counted, Comparisons, Arithmetic

\* What the innermost frame has, and takes.
LEMMA Top ==
  ASSUME NEW h, Balanced(prog, h), Stacked(h)
  PROVE  /\ Frame = frames[Depth] /\ Depth \in 1..Depth /\ InCode(prog, h, Frame)
         /\ Now[1] \in Counted => Now[2] \in Nat
         /\ Taken \in Nat /\ h[Frame.unit][Frame.pc] \in Nat
         /\ Taken <= h[Frame.unit][Frame.pc]
         /\ \A next \in NextPlaces(Now, Frame.pc) :
              /\ next \in DOMAIN h[Frame.unit] /\ h[Frame.unit][next] \in Nat
              /\ h[Frame.unit][next] <= h[Frame.unit][Frame.pc] - Taken + Pushes(Now)
         /\ SizeWithout(Taken) = size - Taken /\ SizeWithout(0) = size /\ SizeWithout(Taken) \in Nat
         /\ Frame.base + h[Frame.unit][Frame.pc] <= size
<1>1. Frame = frames[Depth] /\ Depth \in 1..Depth /\ InCode(prog, h, Frame)
  <2>1. Depth \in 1..Depth
    BY DEF Stacked, Depth
  <2>. QED BY <2>1 DEF Stacked, Depth, Frame
<1>2. Carries(Unit, h[Frame.unit])
  BY <1>1 DEF InCode, Balanced, Unit
<1>3. Frame.pc \in DOMAIN h[Frame.unit] /\ Frame.base \in Nat
  BY <1>1 DEF InCode
<1>4. /\ Now[1] \in Counted => Now[2] \in Nat
      /\ h[Frame.unit][Frame.pc] \in Nat /\ Pops(Now) <= h[Frame.unit][Frame.pc]
      /\ \A next \in NextPlaces(Now, Frame.pc) :
           /\ next \in DOMAIN h[Frame.unit]
           /\ h[Frame.unit][next] <= h[Frame.unit][Frame.pc] - Pops(Now) + Pushes(Now)
  BY <1>2, <1>3 DEF Carries, Now
<1>5. Taken = Pops(Now) /\ Taken \in Nat
  BY <1>4, NowIs, PopsAre
<1>6. \A next \in DOMAIN h[Frame.unit] : h[Frame.unit][next] \in Nat
  BY <1>2 DEF Carries
<1>7. size \in Nat /\ Frame.base + h[Frame.unit][Frame.pc] <= size
  BY DEF Stacked
<1>8. Taken <= size
  BY <1>3, <1>4, <1>5, <1>7
<1>9. SizeWithout(Taken) = size - Taken /\ SizeWithout(0) = size /\ SizeWithout(Taken) \in Nat
  BY <1>5, <1>7, <1>8 DEF SizeWithout
<1>. QED BY <1>1, <1>4, <1>5, <1>6, <1>7, <1>9

\* What has to be known of the frames and of the size after a step.
LEMMA StacksUp ==
  ASSUME NEW h, NEW n \in Nat \ {0}, prog' = prog,
         IsSeq(frames'), Len(frames') = n, size' \in Nat,
         \A i \in 1..n : InCode(prog, h, frames'[i]),
         \A i \in 1..n : i < n => Awaits(h, frames'[i], frames'[i + 1]),
         frames'[n].base + h[frames'[n].unit][frames'[n].pc] <= size'
  PROVE  Stacked(h)'
<1>1. Frame' = frames'[n]
  BY DEF Frame, Depth
<1>2. \A i \in 1..Len(frames') : InCode(prog', h, frames'[i])
  OBVIOUS
<1>3. \A i \in 1..Len(frames') : i < Len(frames') => Awaits(h, frames'[i], frames'[i + 1])
  OBVIOUS
<1>4. Frame'.base + h[Frame'.unit][Frame'.pc] <= size'
  BY <1>1
<1>. QED BY <1>2, <1>3, <1>4 DEF Stacked

\* The innermost frame goes to another place of its code.
LEMMA Moves ==
  ASSUME NEW h, Balanced(prog, h), Stacked(h), prog' = prog,
         NEW next \in NextPlaces(Now, Frame.pc),
         frames' = [frames EXCEPT ![Depth].pc = next],
         size' = size - Taken + Pushes(Now), Pushes(Now) \in Nat
  PROVE  Stacked(h)'
<1>. DEFINE e == [Frame EXCEPT !.pc = next]
<1>1. /\ Frame = frames[Depth] /\ Depth \in 1..Depth /\ InCode(prog, h, Frame)
      /\ next \in DOMAIN h[Frame.unit] /\ h[Frame.unit][next] \in Nat
      /\ h[Frame.unit][next] <= h[Frame.unit][Frame.pc] - Taken + Pushes(Now)
      /\ Taken \in Nat /\ size - Taken \in Nat
      /\ h[Frame.unit][Frame.pc] \in Nat
      /\ Frame.base + h[Frame.unit][Frame.pc] <= size /\ size \in Nat
  BY Top DEF Stacked
<1>2. e = [unit |-> Frame.unit, pc |-> next, locals |-> Frame.locals, base |-> Frame.base]
  BY <1>1 DEF InCode
<1>3. e.unit = Frame.unit /\ e.pc = next /\ e.base = Frame.base /\ e.locals = Frame.locals
  BY <1>2
<1>4. frames' = [frames EXCEPT ![Depth] = e]
  BY <1>1
<1>. HIDE DEF e
<1>5. PICK S : frames \in Seq(S)
  BY DEF Stacked, IsSeq
<1>6. frames \in Seq(S \cup {e}) /\ e \in S \cup {e}
  BY <1>5, SeqMonotonic
<1>7. /\ frames' \in Seq(S \cup {e}) /\ Len(frames') = Depth
      /\ \A i \in 1..Depth : frames'[i] = IF i = Depth THEN e ELSE frames[i]
  <2>1. Depth \in 1..Len(frames) /\ Len(frames) = Depth
    BY <1>1 DEF Depth
  <2>. HIDE DEF Depth
  <2>. QED BY <1>4, <1>6, <2>1, ExceptSeq
<1>8. Frame' = e /\ Depth' = Depth /\ Depth \in Nat \ {0}
  BY <1>1, <1>7 DEF Frame, Depth, Stacked
<1>9. \A i \in 1..Depth : InCode(prog, h, frames'[i])
  <2>1. InCode(prog, h, e)
    BY <1>1, <1>2, <1>3 DEF InCode
  <2>2. \A i \in 1..Depth : InCode(prog, h, frames[i])
    BY DEF Stacked, Depth
  <2>. QED BY <1>7, <2>1, <2>2
<1>10. ASSUME NEW i \in 1..Depth, i < Depth PROVE Awaits(h, frames'[i], frames'[i + 1])
  <2>1. Awaits(h, frames[i], frames[i + 1]) /\ frames'[i] = frames[i]
    BY <1>7, <1>10 DEF Stacked, Depth
  <2>2. frames'[i + 1].base = frames[i + 1].base
    BY <1>1, <1>3, <1>7, <1>8, <1>10
  <2>. QED BY <2>1, <2>2 DEF Awaits
<1>11. Frame'.base + h[Frame'.unit][Frame'.pc] <= size'
  <2>1. Frame.base \in Nat
    BY <1>1 DEF InCode
  <2>. QED BY <1>1, <1>3, <1>8, <2>1
<1>12. size' \in Nat
  BY <1>1
<1>13. IsSeq(frames')
  BY <1>7 DEF IsSeq
<1>14. frames'[Depth].base + h[frames'[Depth].unit][frames'[Depth].pc] <= size'
  BY <1>8, <1>11, <1>1, <1>7
<1>15. Len(frames') = Depth /\ prog' = prog
  BY <1>7
<1>. HIDE DEF Depth
<1>. QED BY <1>8, <1>9, <1>10, <1>12, <1>13, <1>14, <1>15, StacksUp
-----------------------------------------------------------------------------
(* The instructions of one invocation.                                     *)

\* The instructions behind which the code goes on, with what they push.
LEMMA OnwardIs ==
  ASSUME Op # "RET", Op \notin Jumps
  PROVE  /\ Frame.pc + 1 \in NextPlaces(Now, Frame.pc)
         /\ Pushes(Now) = IF Op \in {"POP", "STORENAME"} THEN 0 ELSE IF Op = "DUP" THEN 2 ELSE 1
<1>1. Now[1] = Op
  BY NowIs
<1>. QED BY <1>1 DEF NextPlaces, Pushes, Jumps

\* A value in the place of the operands an instruction takes.
LEMMA Replaces ==
  ASSUME NEW h, Balanced(prog, h), Stacked(h), prog' = prog, Goto(Frame.pc + 1),
         Op # "RET", Op \notin Jumps \union {"POP", "STORENAME"},
         \/ Op # "DUP" /\ size' = SizeWithout(Taken) + 1
         \/ Op = "DUP" /\ size' = SizeWithout(0) + 1
  PROVE  Stacked(h)'
<1>1. /\ Frame.pc + 1 \in NextPlaces(Now, Frame.pc)
      /\ Pushes(Now) = IF Op = "DUP" THEN 2 ELSE 1
  BY OnwardIs
<1>2. /\ SizeWithout(Taken) = size - Taken /\ SizeWithout(0) = size
      /\ size \in Nat /\ Taken \in Nat
  BY Top DEF Stacked
<1>3. Op = "DUP" => Taken = 1
  <2>1. Now[1] \in Counted => Now[2] \in Nat
    BY Top
  <2>. QED BY <2>1, NowIs, PopsAre
<1>4. size' = size - Taken + Pushes(Now) /\ Pushes(Now) \in Nat
  BY <1>1, <1>2, <1>3
<1>5. \A next : next = Frame.pc + 1 => frames' = [frames EXCEPT ![Depth].pc = next]
  BY DEF Goto
<1>6. PICK next : next = Frame.pc + 1
  OBVIOUS
<1>. QED BY <1>1, <1>4, <1>5, <1>6, Moves

\* The operands an instruction takes are gone.
LEMMA Drops ==
  ASSUME NEW h, Balanced(prog, h), Stacked(h), prog' = prog,
         \/ Op \in {"POP", "STORENAME"} /\ Drop(1, Frame.pc + 1)
         \/ Op \in {"JUMPIFTRUE", "JUMPIFFALSE"} /\ (Drop(1, Instr[2]) \/ Drop(1, Frame.pc + 1))
         \/ Op = "JUMP" /\ Goto(Instr[2]) /\ size' = size
  PROVE  Stacked(h)'
<1>1. Op # "RET" /\ Now[1] = Op /\ Now = Instr
  BY NowIs
<1>2. /\ Pushes(Now) = 0
      /\ Op # "JUMP" => Frame.pc + 1 \in NextPlaces(Now, Frame.pc)
      /\ Op \in Jumps => Instr[2] \in NextPlaces(Now, Frame.pc)
  BY <1>1 DEF Pushes, NextPlaces, Jumps
<1>3. Taken = IF Op = "JUMP" THEN 0 ELSE 1
  <2>1. Now[1] \in Counted => Now[2] \in Nat
    BY Top
  <2>. QED BY <1>1, <2>1, NowIs, PopsAre
<1>4. SizeWithout(Taken) = size - Taken /\ size \in Nat
  BY Top DEF Stacked
<1>5. PICK next \in NextPlaces(Now, Frame.pc) : Goto(next) /\ size' = size - Taken
  <2>1. CASE Op \in {"POP", "STORENAME"} \union {"JUMPIFTRUE", "JUMPIFFALSE"} /\ Drop(1, Frame.pc + 1)
    BY <1>2, <1>3, <1>4, <2>1 DEF Drop
  <2>2. CASE Op \in {"JUMPIFTRUE", "JUMPIFFALSE"} /\ Drop(1, Instr[2])
    BY <1>2, <1>3, <1>4, <2>2 DEF Drop, Jumps
  <2>3. CASE Op = "JUMP" /\ Goto(Instr[2]) /\ size' = size
    BY <1>2, <1>3, <1>4, <2>3 DEF Jumps
  <2>. QED BY <2>1, <2>2, <2>3
<1>6. size' = size - Taken + Pushes(Now) /\ Pushes(Now) \in Nat
  BY <1>2, <1>3, <1>4, <1>5
<1>. QED BY <1>5, <1>6, Moves DEF Goto

\* Each instruction that stays in its invocation is one of these.
LEMMA StaysStacked ==
  ASSUME NEW h, Balanced(prog, h), Stacked(h),
         \/ PushConst \/ PushNil \/ PushName \/ StoreName \/ Dup \/ Pop \/ Not
         \/ GetClass \/ GetAttr \/ GetItem \/ MakeArray \/ MakeHash \/ MakeClosure
         \/ Jump \/ JumpIf \/ Compare \/ Arith \/ Spawn \/ CallNative
  PROVE  Stacked(h)'
<1>0. /\ Now[1] \in Counted => Now[2] \in Nat
      /\ Now[1] = Op /\ Taken = Pops(Now)
  BY Top, NowIs
<1>1. CASE PushConst \/ PushNil \/ PushName
  <2>1. /\ Op \in {"PUSHCONST", "PUSHNIL", "PUSHNAME"} /\ prog' = prog
        /\ size' = SizeWithout(0) + 1 /\ Goto(Frame.pc + 1)
    BY <1>1 DEF PushConst, PushNil, PushName, At, Running, Replace, Quiet
  <2>2. Taken = 0
    BY <1>0, <2>1, PopsAre
  <2>. QED BY <2>1, <2>2, Replaces DEF Jumps
<1>2. CASE Dup
  <2>1. Op = "DUP" /\ prog' = prog /\ size' = SizeWithout(0) + 1 /\ Goto(Frame.pc + 1)
    BY <1>2 DEF Dup, At, Running, Replace, Quiet
  <2>. QED BY <2>1, Replaces DEF Jumps
<1>3. CASE Not \/ GetClass \/ GetAttr \/ Spawn \/ MakeClosure
  <2>1. /\ Op \in {"NOT", "GETCLASS", "GETATTR", "SPAWN", "MAKECLOSURE"} /\ prog' = prog
        /\ size' = SizeWithout(1) + 1 /\ Goto(Frame.pc + 1)
    BY <1>3 DEF Not, GetClass, GetAttr, Spawn, MakeClosure, At, Running, Replace, Quiet
  <2>2. Taken = 1
    BY <1>0, <2>1, PopsAre
  <2>. QED BY <2>1, <2>2, Replaces DEF Jumps
<1>4. CASE GetItem \/ Compare \/ Arith
  <2>1. /\ Op \in {"GETITEM"} \union Comparisons \union Arithmetic /\ prog' = prog
        /\ size' = SizeWithout(2) + 1 /\ Goto(Frame.pc + 1)
    BY <1>4 DEF GetItem, Compare, Arith, At, Running, Replace, Quiet
  <2>2. Taken = 2
    BY <1>0, <2>1, PopsAre
  <2>. QED BY <2>1, <2>2, Replaces DEF Jumps, Comparisons, Arithmetic
<1>5. CASE MakeArray \/ MakeHash \/ CallNative
  <2>1. /\ Op \in {"MAKEARRAY", "MAKEHASH", "CALL"} /\ prog' = prog
        /\ size' = SizeWithout(Taken) + 1 /\ Goto(Frame.pc + 1)
    BY <1>5 DEF MakeArray, MakeHash, CallNative, At, Running, Replace, Quiet
  <2>. QED BY <2>1, Replaces DEF Jumps
<1>6. CASE StoreName \/ Pop \/ JumpIf \/ Jump
  BY <1>6, Drops DEF StoreName, Pop, JumpIf, Jump, At, Running, Quiet
<1>. QED BY <1>1, <1>2, <1>3, <1>4, <1>5, <1>6

-----------------------------------------------------------------------------
(* Calls and returns.                                                      *)

\* The caller awaits a result, the callee has its arguments.
LEMMA CallStacked ==
  ASSUME NEW h, Balanced(prog, h), Stacked(h), ArgumentsMatch, Call
  PROVE  Stacked(h)'
<1>. DEFINE u == Operand(Taken)[2]
            base == SizeWithout(Taken)
            g == NewFrame(Operand(Taken), base)
<1>1. /\ Op = "CALL" /\ prog' = prog /\ frames' = Append(frames, g)
      /\ size' = base + Instr[2] /\ Running({"CALL"}) /\ IsMethod(Operand(Taken))
  BY DEF Call, At, Running
<1>2. u \in DOMAIN prog.units /\ Arity(prog.units[u]) = Instr[2]
  BY <1>1 DEF ArgumentsMatch
<1>3. /\ 1 \in DOMAIN h[u] /\ h[u][1] = Instr[2] /\ h[u][1] \in Nat
  <2>1. Carries(prog.units[u], h[u])
    BY <1>2 DEF Balanced
  <2>2. 1 \in DOMAIN h[u] /\ h[u][1] = Arity(prog.units[u])
    BY <2>1 DEF Carries
  <2>3. h[u][1] \in Nat
    BY <2>1, <2>2 DEF Carries
  <2>. QED BY <1>2, <2>2, <2>3
<1>4. g.unit = u /\ g.pc = 1 /\ g.base = base /\ g = [unit |-> u, pc |-> 1, locals |-> g.locals, base |-> base]
  BY DEF NewFrame
<1>5. /\ Frame = frames[Depth] /\ Depth \in 1..Depth /\ InCode(prog, h, Frame)
      /\ base = size - Taken /\ base \in Nat /\ Taken \in Nat
      /\ h[Frame.unit][Frame.pc] \in Nat
      /\ \A next \in NextPlaces(Now, Frame.pc) :
           /\ next \in DOMAIN h[Frame.unit] /\ h[Frame.unit][next] \in Nat
           /\ h[Frame.unit][next] <= h[Frame.unit][Frame.pc] - Taken + Pushes(Now)
      /\ Frame.base + h[Frame.unit][Frame.pc] <= size /\ size \in Nat
  BY Top DEF Stacked
<1>. HIDE DEF u, base, g
<1>6. /\ Frame.pc + 1 \in NextPlaces(Now, Frame.pc) /\ Pushes(Now) = 1
  BY <1>1, OnwardIs DEF Jumps
<1>7. PICK S : frames \in Seq(S)
  BY DEF Stacked, IsSeq
<1>8. frames \in Seq(S \cup {g}) /\ g \in S \cup {g}
  BY <1>7, SeqMonotonic
<1>9. /\ frames' \in Seq(S \cup {g}) /\ Len(frames') = Depth + 1
      /\ frames'[Depth + 1] = g /\ \A i \in 1..Depth : frames'[i] = frames[i]
  BY <1>1, <1>5, <1>8, AppendProperties DEF Depth
<1>10. Depth' = Depth + 1 /\ Frame' = g /\ Depth \in Nat \ {0}
  BY <1>9 DEF Depth, Frame, Stacked
<1>11. InCode(prog, h, g)
  BY <1>2, <1>3, <1>4, <1>5 DEF InCode
<1>12. \A i \in 1..(Depth + 1) : InCode(prog, h, frames'[i])
  <2>1. \A i \in 1..Depth : InCode(prog, h, frames[i])
    BY DEF Stacked, Depth
  <2>. QED BY <1>9, <1>10, <1>11, <2>1
<1>13. Awaits(h, Frame, g)
  <2>1. Frame.base \in Nat
    BY <1>5 DEF InCode
  <2>. QED BY <1>4, <1>5, <1>6, <2>1 DEF Awaits
<1>14. ASSUME NEW i \in 1..(Depth + 1), i < Depth + 1 PROVE Awaits(h, frames'[i], frames'[i + 1])
  <2>1. CASE i = Depth
    BY <1>5, <1>9, <1>13, <2>1
  <2>2. CASE i # Depth
    <3>1. i \in 1..Depth /\ i + 1 \in 1..Depth /\ i < Depth
      BY <1>10, <1>14, <2>2
    <3>2. Awaits(h, frames[i], frames[i + 1])
      BY <3>1 DEF Stacked, Depth
    <3>. QED BY <1>9, <3>1, <3>2
  <2>. QED BY <2>1, <2>2
<1>15. g.base + h[g.unit][g.pc] <= size' /\ size' \in Nat
  BY <1>1, <1>3, <1>4, <1>5
<1>16. IsSeq(frames')
  BY <1>9 DEF IsSeq
<1>17. /\ frames'[Depth + 1].base + h[frames'[Depth + 1].unit][frames'[Depth + 1].pc] <= size'
       /\ Len(frames') = Depth + 1 /\ prog' = prog /\ Depth + 1 \in Nat \ {0} /\ size' \in Nat
  BY <1>1, <1>9, <1>10, <1>15
<1>. QED BY <1>12, <1>14, <1>16, <1>17, StacksUp

\* The frames behind a return.
LEMMA ReturnFrames ==
  ASSUME NEW h, Stacked(h), Return
  PROVE  /\ Depth \in Nat /\ Depth > 1 /\ IsSeq(frames') /\ Len(frames') = Depth - 1
         /\ \A i \in 1..(Depth - 1) :
              frames'[i] = IF i = Depth - 1
                           THEN [unit |-> frames[i].unit, pc |-> frames[i].pc + 1,
                                 locals |-> frames[i].locals, base |-> frames[i].base]
                           ELSE frames[i]
<1>. DEFINE k == Depth - 1
            f == frames[k]
            e == [f EXCEPT !.pc = @ + 1]
            front == SubSeq(frames, 1, k)
<1>1. Depth > 1 /\ frames' = [front EXCEPT ![k].pc = @ + 1]
  BY DEF Return, At, Running
<1>2. Depth \in Nat /\ k \in 1..k /\ k \in Nat \ {0} /\ k < Depth /\ Depth = k + 1 /\ 1..k \subseteq 1..Depth
      /\ Len(frames) = Depth
  BY <1>1 DEF Stacked, Depth
<1>3. InCode(prog, h, f)
  BY <1>2 DEF Stacked, Depth
<1>4. PICK S : frames \in Seq(S)
  BY DEF Stacked, IsSeq
<1>5. front \in Seq(S) /\ Len(front) = k /\ \A i \in 1..k : front[i] = frames[i]
  <2>1. \A i \in 1..k : frames[i] \in S
    BY <1>2, <1>4, ElementOfSeq
  <2>2. 1 \in Int /\ k \in Int /\ 1 <= k /\ k - 1 + 1 = k /\ \A i \in 1..k : 1 + i - 1 = i
    BY <1>2
  <2>. HIDE DEF k
  <2>3. front \in Seq(S) /\ Len(front) = k - 1 + 1
        /\ \A i \in 1..(k - 1 + 1) : front[i] = frames[1 + i - 1]
    BY <2>1, <2>2, SubSeqProperties
  <2>. QED BY <2>2, <2>3
<1>6. e = [unit |-> f.unit, pc |-> f.pc + 1, locals |-> f.locals, base |-> f.base]
  BY <1>3 DEF InCode
<1>7. frames' = [front EXCEPT ![k] = e]
  BY <1>1, <1>2, <1>5
<1>. HIDE DEF front, e, k
<1>8. front \in Seq(S \cup {e}) /\ e \in S \cup {e}
  BY <1>5, SeqMonotonic
<1>9. /\ frames' \in Seq(S \cup {e}) /\ Len(frames') = k
      /\ \A i \in 1..k : frames'[i] = IF i = k THEN e ELSE frames[i]
  BY <1>2, <1>5, <1>7, <1>8, ExceptSeq
<1>10. ASSUME NEW i \in 1..k
       PROVE  frames'[i] = IF i = k THEN [unit |-> frames[i].unit, pc |-> frames[i].pc + 1,
                                          locals |-> frames[i].locals, base |-> frames[i].base]
                           ELSE frames[i]
  BY <1>6, <1>9
<1>11. IsSeq(frames')
  BY <1>9 DEF IsSeq
<1>. QED BY <1>1, <1>2, <1>9, <1>10, <1>11 DEF k

\* The result is what the caller awaits.
LEMMA ReturnStacked ==
  ASSUME NEW h, Balanced(prog, h), Stacked(h), Return
  PROVE  Stacked(h)'
<1>. DEFINE k == Depth - 1
            f == frames[k]
            e == [unit |-> f.unit, pc |-> f.pc + 1, locals |-> f.locals, base |-> f.base]
<1>1. prog' = prog /\ size' = Frame.base + 1
  BY DEF Return, Quiet
<1>2. /\ Depth \in Nat /\ k \in 1..k /\ k \in Nat \ {0} /\ k < Depth /\ Depth = k + 1
      /\ 1..k \subseteq 1..Depth /\ IsSeq(frames') /\ Len(frames') = k
  BY ReturnFrames
<1>3. ASSUME NEW i \in 1..k PROVE frames'[i] = IF i = k THEN e ELSE frames[i]
  BY ReturnFrames
<1>4. \A i \in 1..Depth : InCode(prog, h, frames[i])
  BY DEF Stacked, Depth
<1>5. \A i \in 1..Depth : i < Depth => Awaits(h, frames[i], frames[i + 1])
  BY DEF Stacked, Depth
<1>6. InCode(prog, h, f) /\ InCode(prog, h, Frame) /\ Awaits(h, f, Frame)
  BY <1>2, <1>4, <1>5 DEF Frame
<1>7. e.unit = f.unit /\ e.pc = f.pc + 1 /\ e.locals = f.locals /\ e.base = f.base
  OBVIOUS
<1>8. InCode(prog, h, e)
  BY <1>6 DEF InCode, Awaits
<1>. HIDE DEF e, k
<1>9. \A i \in 1..k : InCode(prog, h, frames'[i])
  BY <1>2, <1>3, <1>4, <1>8
<1>10. ASSUME NEW i \in 1..k, i < k PROVE Awaits(h, frames'[i], frames'[i + 1])
  <2>1. i \in 1..Depth /\ i < Depth /\ i + 1 \in 1..k /\ i # k
    BY <1>2, <1>10
  <2>2. Awaits(h, frames[i], frames[i + 1]) /\ frames'[i] = frames[i]
    BY <1>3, <1>5, <2>1
  <2>3. frames'[i + 1].base = frames[i + 1].base
    BY <1>3, <1>7, <2>1
  <2>. QED BY <2>2, <2>3 DEF Awaits
<1>11. e.base + h[e.unit][e.pc] <= size' /\ size' \in Nat
  BY <1>1, <1>6, <1>7 DEF Awaits, InCode
<1>12. frames'[k].base + h[frames'[k].unit][frames'[k].pc] <= size'
  BY <1>2, <1>3, <1>11
<1>. QED BY <1>1, <1>2, <1>9, <1>10, <1>11, <1>12, StacksUp

-----------------------------------------------------------------------------
(* The machine takes its own operands.                                     *)

\* A task begins with nothing on its stack.
LEMMA InitStacked ==
  ASSUME NEW h, Init, Balanced(prog, h)
  PROVE  Stacked(h)
<1>. DEFINE f == frames[1]
<1>1. "main" \in DOMAIN prog.units /\ h["main"][1] = 0 /\ 1 \in DOMAIN h["main"]
  BY DEF Balanced, Carries
<1>2. frames = <<f>> /\ f = [unit |-> "main", pc |-> 1, base |-> 0, locals |-> f.locals] /\ size = 0
  BY DEF Init
<1>3. f.unit = "main" /\ f.pc = 1 /\ f.base = 0
  BY <1>2
<1>. HIDE DEF f
<1>4. InCode(prog, h, f)
  BY <1>1, <1>2, <1>3 DEF InCode
<1>5. Len(frames) = 1 /\ IsSeq(frames) /\ frames[1] = f
  <2>1. <<f>> \in Seq({f}) /\ Len(<<f>>) = 1 /\ <<f>>[1] = f
    OBVIOUS
  <2>. QED BY <1>2, <2>1 DEF IsSeq
<1>6. Frame = f
  BY <1>5 DEF Frame, Depth
<1>. QED BY <1>1, <1>2, <1>3, <1>4, <1>5, <1>6 DEF Stacked

\* A step changes no program, and only a machine that runs makes one.
LEMMA StepRuns ==
  ASSUME [Next]_vars
  PROVE  /\ prog' = prog
         /\ status' = "run" => status = "run" /\ ~(Finish \/ Abort \/ Crash)
<1>1. prog' = prog
  BY DEF Next, vars, PushConst, PushNil, PushName, StoreName, Dup, Pop, Not, GetClass, GetAttr,
         GetItem, MakeArray, MakeHash, MakeClosure, Jump, JumpIf, Compare, Arith, Spawn, Call,
         CallNative, Return, Finish, Abort, Crash, Quiet
<1>2. ASSUME status' = "run" PROVE status = "run"
  BY <1>2 DEF Next, vars, PushConst, PushNil, PushName, StoreName, Dup, Pop, Not, GetClass,
         GetAttr, GetItem, MakeArray, MakeHash, MakeClosure, Jump, JumpIf, Compare, Arith,
         Spawn, Call, CallNative, Return, Finish, Abort, Crash, At, Running
<1>3. ASSUME status' = "run" PROVE ~(Finish \/ Abort \/ Crash)
  BY <1>3 DEF Finish, Abort, Crash
<1>. QED BY <1>1, <1>2, <1>3

\* A step that goes on leaves each invocation what its code carries.
LEMMA StepStacked ==
  ASSUME NEW h, Balanced(prog, h), Stacked(h), ArgumentsMatch, [Next]_vars, ~(Finish \/ Abort \/ Crash)
  PROVE  Stacked(h)'
<1>1. CASE Call
  BY <1>1, CallStacked
<1>2. CASE Return
  BY <1>2, ReturnStacked
<1>3. CASE UNCHANGED vars
  BY <1>3 DEF vars, Stacked, Frame, Depth
<1>. QED BY <1>1, <1>2, <1>3, StaysStacked DEF Next

\* Whatever the program, its values and the depth of its calls: as long as a function gets as many
\* arguments as it takes, an instruction takes only operands its own invocation pushed.
THEOREM TakesOwnOperands ==
  ASSUME NEW heights, \A p \in Programs : Balanced(p, heights[p])
  PROVE  Spec /\ []ArgumentsMatch => []OwnOperands
<1>. DEFINE IInv == prog \in Programs /\ (status = "run" => Stacked(heights[prog]))
<1>1. ASSUME Init PROVE IInv
  <2>1. prog \in Programs
    BY <1>1 DEF Init
  <2>. QED BY <1>1, <2>1, InitStacked
<1>2. ASSUME IInv, ArgumentsMatch, [Next]_vars PROVE IInv'
  <2>1. prog' = prog /\ (status' = "run" => status = "run" /\ ~(Finish \/ Abort \/ Crash))
    BY <1>2, StepRuns
  <2>2. PICK h : h = heights[prog] /\ h = heights[prog']
    BY <2>1
  <2>3. ASSUME status' = "run" PROVE Stacked(h)'
    <3>1. Balanced(prog, h) /\ Stacked(h)
      BY <1>2, <2>1, <2>2, <2>3
    <3>. QED BY <1>2, <2>1, <2>3, <3>1, StepStacked
  <2>4. Stacked(h)' => Stacked(heights[prog])'
    BY <2>2 DEF Stacked
  <2>. QED BY <1>2, <2>1, <2>3, <2>4
<1>3. ASSUME IInv PROVE OwnOperands
  <2>1. SUFFICES ASSUME status = "run" PROVE size - Taken >= Frame.base
    BY DEF OwnOperands
  <2>2. PICK h : h = heights[prog]
    OBVIOUS
  <2>3. Balanced(prog, h) /\ Stacked(h)
    BY <1>3, <2>1, <2>2
  <2>4. /\ InCode(prog, h, Frame) /\ Taken \in Nat /\ h[Frame.unit][Frame.pc] \in Nat
        /\ Taken <= h[Frame.unit][Frame.pc] /\ Frame.base + h[Frame.unit][Frame.pc] <= size
        /\ size \in Nat
    BY <2>3, Top DEF Stacked
  <2>. QED BY <2>4 DEF InCode
<1>. QED BY <1>1, <1>2, <1>3, PTL DEF Spec

-----------------------------------------------------------------------------
(* Values and what is inside.                                              *)

\* The parts of v are in S, and a variable is one of the first n.
Whole(v, S, n) ==
  /\ v[1] = "var" => v[2] \in 1..n
  /\ v[1] = "array" => v[2] \in Seq(S)
  /\ v[1] = "hash" => v[2] \in Seq(S \X S)
  /\ v[1] = "closure" => \A x \in DOMAIN v[3] : v[3][x] \in S

\* S has whatever the program can get at.
Values(S) ==
  /\ \A v \in S : Whole(v, S, Len(cells))
  /\ Nil \in S /\ \A x : Global(x) \in S
  /\ stack \in Seq(S) /\ cells \in Seq(S) /\ size \in 0..Len(stack)
  /\ \A i \in 1..Len(frames) : \A x \in DOMAIN frames[i].locals : frames[i].locals[x] \in S

\* A call begins no lower than the calls around it.
Based == \A i, j \in 1..Len(frames) : i <= j => frames[i].base <= frames[j].base

Valued == \E S : Values(S)

\* What is known when an instruction is done.
Sound(h, S) ==
  Balanced(prog, h) /\ Plain(prog) /\ Stacked(h) /\ Values(S) /\ Based

\* Lengths of the sequences of values.
LEMMA CellsNat ==
  ASSUME NEW S, Values(S)
  PROVE  /\ Len(cells) \in Nat /\ Len(stack) \in Nat /\ cells \in Seq(S) /\ stack \in Seq(S)
         /\ size \in Nat /\ size <= Len(stack)
<1>1. cells \in Seq(S) /\ stack \in Seq(S) /\ size \in 0..Len(stack)
  BY DEF Values
<1>2. Len(cells) \in Nat /\ Len(stack) \in Nat
  BY <1>1, LenProperties
<1>. QED BY <1>1, <1>2

\* A value there is.
LEMMA WholeIn ==
  ASSUME NEW S, Values(S), NEW v \in S
  PROVE  Whole(v, S, Len(cells))
BY DEF Values

\* What is whole in S stays so when there are more values and more variables.
LEMMA WholeGrows ==
  ASSUME NEW v, NEW S, NEW T, NEW n \in Nat, NEW m \in Nat, Whole(v, S, n), S \subseteq T, n <= m
  PROVE  Whole(v, T, m)
<1>1. v[1] = "var" => v[2] \in 1..m
  BY DEF Whole
<1>2. v[1] = "array" => v[2] \in Seq(T)
  BY SeqMonotonic DEF Whole
<1>3. v[1] = "hash" => v[2] \in Seq(T \X T)
  <2>1. S \X S \subseteq T \X T
    OBVIOUS
  <2>. QED BY <2>1, SeqMonotonic DEF Whole
<1>4. v[1] = "closure" => \A x \in DOMAIN v[3] : v[3][x] \in T
  BY DEF Whole
<1>. QED BY <1>1, <1>2, <1>3, <1>4 DEF Whole

\* A function on 1..n is a sequence.
LEMMA MakesSeq ==
  ASSUME NEW S, NEW n \in Nat, NEW f \in [1..n -> S]
  PROVE  f \in Seq(S) /\ Len(f) = n
OBVIOUS

\* What an operand is, and what is written.
LEMMA OperandIn ==
  ASSUME NEW S, Values(S)
  PROVE  \A n \in Nat \ {0} : Operand(n) \in S
<1>1. SUFFICES ASSUME NEW n \in Nat \ {0} PROVE Operand(n) \in S
  OBVIOUS
<1>2. stack \in Seq(S) /\ Nil \in S /\ size \in 0..Len(stack) /\ Len(stack) \in Nat
  BY LenProperties DEF Values
<1>3. CASE n <= size
  <2>1. size - n + 1 \in 1..Len(stack)
    BY <1>2, <1>3
  <2>2. stack[size - n + 1] \in S
    BY <1>2, <2>1, ElementOfSeq
  <2>. QED BY <1>3, <2>2 DEF Operand
<1>4. CASE ~(n <= size)
  BY <1>2, <1>4 DEF Operand
<1>. QED BY <1>3, <1>4

\* All operands of an instruction are values there are.
LEMMA OperandsIn ==
  ASSUME NEW S, Values(S), NEW n \in Nat
  PROVE  Operands(n) \in Seq(S) /\ Len(Operands(n)) = n
<1>1. \A i \in 1..n : n - i + 1 \in Nat \ {0}
  OBVIOUS
<1>2. \A i \in 1..n : Operand(n - i + 1) \in S
  BY <1>1, OperandIn
<1>3. Operands(n) \in [1..n -> S]
  BY <1>2 DEF Operands
<1>. QED BY <1>3, MakesSeq

\* Writing to the stack keeps it a sequence of values, and makes room.
LEMMA WriteIs ==
  ASSUME NEW S, stack \in Seq(S), NEW n \in Nat, n <= Len(stack), NEW items \in Seq(S)
  PROVE  /\ Write(n, items) \in Seq(S)
         /\ n + Len(items) <= Len(Write(n, items))
<1>. DEFINE m == IF n + Len(items) > Len(stack) THEN n + Len(items) ELSE Len(stack)
<1>1. Len(items) \in Nat /\ Len(stack) \in Nat
  BY LenProperties
<1>2. m \in Nat /\ n + Len(items) <= m /\ Len(stack) <= m
  BY <1>1
<1>3. m = n + Len(items) \/ m = Len(stack)
  OBVIOUS
<1>4. Write(n, items) = [i \in 1..m |-> IF i > n /\ i <= n + Len(items) THEN items[i - n] ELSE stack[i]]
  BY DEF Write
<1>. HIDE DEF m
<1>5. ASSUME NEW i \in 1..m
      PROVE  (IF i > n /\ i <= n + Len(items) THEN items[i - n] ELSE stack[i]) \in S
  <2>1. CASE i > n /\ i <= n + Len(items)
    <3>1. i - n \in 1..Len(items)
      BY <1>1, <2>1
    <3>2. items[i - n] \in S
      BY <3>1, ElementOfSeq
    <3>. QED BY <2>1, <3>2
  <2>2. CASE ~(i > n /\ i <= n + Len(items))
    <3>1. i \in 1..Len(stack)
      BY <1>1, <1>2, <1>3, <2>2
    <3>2. stack[i] \in S
      BY <3>1, ElementOfSeq
    <3>. QED BY <2>2, <3>2
  <2>. QED BY <2>1, <2>2
<1>6. Write(n, items) \in [1..m -> S]
  BY <1>4, <1>5
<1>. QED BY <1>2, <1>6, MakesSeq

\* Numbers have a least one.
LEMMA NatMin ==
  ASSUME NEW T, T \subseteq Nat, T # {}
  PROVE  \E m \in T : \A n \in T : m <= n
<1>. DEFINE R == {p \in Nat \X Nat : p[1] < p[2]}
<1>1. R = OpToRel(<, Nat)
  BY Zenon DEF OpToRel
<1>2. IsWellFoundedOn(R, Nat)
  BY <1>1, NatLessThanWellFounded, Zenon
<1>3. PICK m \in T : \A n \in T : <<n, m>> \notin R
  <2>. HIDE DEF R
  <2>. QED BY <1>2, WFMin
<1>4. \A n \in T : ~(n < m)
  BY <1>3
<1>. QED BY <1>4

\* g begins with x, and each of the f makes the next of the last one.
Builds(g, n, x, f, S) ==
  g \in [0..n -> S] /\ g[0] = x /\ \A k \in 1..n : g[k] = f[k][g[k - 1]]

\* A function defined by recursion over 0..n exists.
LEMMA CanBeBuilt ==
  ASSUME NEW S, NEW n \in Nat, NEW x \in S, NEW f \in [1..n -> [S -> S]]
  PROVE  \E g : Builds(g, n, x, f, S)
<1>. DEFINE Built(k) == \E g \in [0..k -> S] : g[0] = x /\ \A j \in 1..k : g[j] = f[j][g[j - 1]]
            T == { k \in 0..n : ~Built(k) }
<1>1. Built(0)
  <2>1. [i \in 0..0 |-> x] \in [0..0 -> S] /\ [i \in 0..0 |-> x][0] = x /\ 1..0 = {}
    OBVIOUS
  <2>. QED BY <2>1
<1>2. ASSUME NEW k \in 0..n, k # n, Built(k) PROVE Built(k + 1)
  <2>1. PICK g \in [0..k -> S] : g[0] = x /\ \A j \in 1..k : g[j] = f[j][g[j - 1]]
    BY <1>2
  <2>. DEFINE y == f[k + 1][g[k]]
              d == [j \in 0..(k + 1) |-> IF j = k + 1 THEN y ELSE g[j]]
  <2>2. k \in Nat /\ k + 1 \in 1..n /\ k \in 0..k /\ 0 # k + 1
    BY <1>2
  <2>3. y \in S
    <3>1. g[k] \in S /\ f[k + 1] \in [S -> S]
      BY <2>1, <2>2
    <3>. QED BY <3>1
  <2>. HIDE DEF y
  <2>4. \A j \in 0..(k + 1) : j # k + 1 => j \in 0..k
    BY <2>2
  <2>5. d \in [0..(k + 1) -> S]
    BY <2>1, <2>3, <2>4
  <2>6. d[0] = x /\ d[k + 1] = y /\ \A j \in 0..k : d[j] = g[j]
    <3>1. 0 \in 0..(k + 1) /\ k + 1 \in 0..(k + 1) /\ \A j \in 0..k : j \in 0..(k + 1) /\ j # k + 1
      BY <2>2
    <3>. QED BY <2>1, <2>2, <3>1
  <2>. HIDE DEF d
  <2>7. ASSUME NEW j \in 1..(k + 1) PROVE d[j] = f[j][d[j - 1]]
    <3>1. CASE j = k + 1
      <4>1. j - 1 = k /\ d[k] = g[k]
        BY <2>2, <2>6, <3>1
      <4>. QED BY <2>6, <3>1, <4>1 DEF y
    <3>2. CASE j # k + 1
      <4>1. j \in 1..k /\ j \in 0..k /\ j - 1 \in 0..k
        BY <2>2, <3>2
      <4>. QED BY <2>1, <2>6, <4>1
    <3>. QED BY <3>1, <3>2
  <2>. QED BY <2>5, <2>6, <2>7
<1>3. T = {}
  <2>1. SUFFICES ASSUME T # {} PROVE FALSE
    OBVIOUS
  <2>2. T \subseteq Nat
    OBVIOUS
  <2>3. PICK m \in T : \A k \in T : m <= k
    <3>. HIDE DEF T
    <3>. QED BY <2>1, <2>2, NatMin
  <2>4. m \in 0..n /\ ~Built(m)
    BY <2>3
  <2>. HIDE DEF Built
  <2>5. m # 0
    BY <1>1, <2>4
  <2>6. m - 1 \in 0..n /\ m - 1 # n /\ (m - 1) + 1 = m /\ ~(m <= m - 1)
    BY <2>4, <2>5
  <2>7. Built(m - 1)
    BY <2>3, <2>6
  <2>. QED BY <1>2, <2>4, <2>6, <2>7
<1>. HIDE DEF Built
<1>4. n \in 0..n
  OBVIOUS
<1>5. Built(n)
  BY <1>3, <1>4
<1>. QED BY <1>5 DEF Built, Builds

\* A pair put into a hash, of values there are.
LEMMA HashPutIn ==
  ASSUME NEW S, NEW pairs \in Seq(S \X S), NEW k \in S, NEW v \in S
  PROVE  HashPut(pairs, k, v) \in Seq(S \X S)
<1>1. <<k, v>> \in S \X S
  OBVIOUS
<1>2. Len(pairs) \in Nat /\ DOMAIN pairs = 1..Len(pairs)
  BY LenProperties
<1>. DEFINE P == S \X S
            f == [i \in DOMAIN pairs |-> IF pairs[i][1] = k THEN <<k, v>> ELSE pairs[i]]
<1>3. f \in Seq(P)
  <2>1. \A i \in 1..Len(pairs) : pairs[i] \in P
    BY ElementOfSeq
  <2>2. <<k, v>> \in P
    BY <1>1
  <2>. HIDE DEF P
  <2>3. f \in [1..Len(pairs) -> P]
    BY <1>2, <2>1, <2>2
  <2>. HIDE DEF f
  <2>. QED BY <1>2, <2>3, MakesSeq
<1>4. Append(pairs, <<k, v>>) \in Seq(P)
  BY <1>1, AppendProperties
<1>. QED BY <1>3, <1>4 DEF HashPut

\* The pairs MAKEHASH makes are of operands.
LEMMA MakePairsIn ==
  ASSUME NEW S, NEW items \in Seq(S)
  PROVE  MakePairs(items) \in Seq(S \X S)
<1>. DEFINE n == Len(items) \div 2
            A(i) == items[2 * (n - i) + 1]
            B(i) == items[2 * (n - i) + 2]
            P == Seq(S \X S)
            Eq(g) == g = [i \in 0..n |-> IF i = 0 THEN <<>> ELSE HashPut(g[i - 1], A(i), B(i))]
            made == CHOOSE g : Eq(g)
<1>1. Len(items) \in Nat /\ n \in Nat /\ 2 * n <= Len(items)
  <2>1. Len(items) \in Nat
    BY LenProperties
  <2>2. \A m \in Nat : m \div 2 \in Nat /\ 2 * (m \div 2) <= m
    OBVIOUS
  <2>. QED BY <2>1, <2>2
<1>2. MakePairs(items) = made[n]
  BY DEF MakePairs
<1>. HIDE DEF n
<1>3. ASSUME NEW i \in 1..n PROVE A(i) \in S /\ B(i) \in S
  <2>1. 2 * (n - i) + 1 \in 1..Len(items) /\ 2 * (n - i) + 2 \in 1..Len(items)
    BY <1>1
  <2>. QED BY <2>1, ElementOfSeq
<1>. HIDE DEF A, B
<1>4. <<>> \in P
  BY EmptySeq
<1>5. \A p \in P : \A i \in 1..n : HashPut(p, A(i), B(i)) \in P
  BY <1>3, HashPutIn
<1>. HIDE DEF P
<1>6. \E g : Eq(g)
  <2>. DEFINE f == [i \in 1..n |-> [p \in P |-> HashPut(p, A(i), B(i))]]
  <2>1. f \in [1..n -> [P -> P]]
    BY <1>5
  <2>2. \A i \in 1..n : \A p \in P : f[i][p] = HashPut(p, A(i), B(i))
    OBVIOUS
  <2>. HIDE DEF f
  <2>3. PICK g : Builds(g, n, <<>>, f, P)
    BY <1>1, <1>4, <2>1, CanBeBuilt
  <2>4. g \in [0..n -> P] /\ g[0] = <<>> /\ \A k \in 1..n : g[k] = f[k][g[k - 1]]
    BY <2>3 DEF Builds
  <2>5. ASSUME NEW i \in 0..n PROVE g[i] = IF i = 0 THEN <<>> ELSE HashPut(g[i - 1], A(i), B(i))
    <3>1. CASE i = 0
      BY <2>4, <3>1
    <3>2. CASE i # 0
      <4>1. i \in 1..n /\ i - 1 \in 0..n
        BY <1>1, <3>2
      <4>2. g[i - 1] \in P /\ g[i] = f[i][g[i - 1]]
        BY <2>4, <4>1
      <4>. QED BY <2>2, <3>2, <4>1, <4>2
    <3>. QED BY <3>1, <3>2
  <2>6. Eq(g)
    BY <2>4, <2>5
  <2>. QED BY <2>6
<1>7. Eq(made)
  <2>. HIDE DEF Eq
  <2>. QED BY <1>6
<1>8. made = [i \in 0..n |-> IF i = 0 THEN <<>> ELSE HashPut(made[i - 1], A(i), B(i))]
  BY <1>7
<1>. HIDE DEF made
<1>9. made[0] = <<>> /\ \A i \in 1..n : made[i] = HashPut(made[i - 1], A(i), B(i))
  <2>1. 0 \in 0..n /\ \A i \in 1..n : i \in 0..n /\ i # 0
    BY <1>1
  <2>. QED BY <1>8, <2>1
<1>10. \A i \in 0..n : made[i] \in P
  <2>. DEFINE T == { i \in 0..n : made[i] \notin P }
  <2>1. SUFFICES ASSUME T # {} PROVE FALSE
    OBVIOUS
  <2>2. T \subseteq Nat
    OBVIOUS
  <2>3. PICK m \in T : \A k \in T : m <= k
    <3>. HIDE DEF T
    <3>. QED BY <2>1, <2>2, NatMin
  <2>4. m \in 0..n /\ made[m] \notin P
    BY <2>3
  <2>5. m # 0
    BY <1>4, <1>9, <2>4
  <2>6. m \in 1..n /\ m - 1 \in 0..n /\ ~(m <= m - 1)
    BY <1>1, <2>4, <2>5
  <2>7. made[m - 1] \in P
    BY <2>3, <2>6
  <2>. QED BY <1>5, <1>9, <2>4, <2>6, <2>7
<1>11. n \in 0..n
  BY <1>1
<1>. QED BY <1>2, <1>10, <1>11 DEF P

\* A value without parts is whole.
LEMMA ScalarWhole ==
  ASSUME NEW v, Scalar(v), NEW S, NEW n
  PROVE  Whole(v, S, n)
BY DEF Scalar, Whole

\* Bools, numbers and the like have no parts.
LEMMA Scalars ==
  /\ Scalar(Nil) /\ Scalar(Unset) /\ Scalar(NoName)
  /\ \A b : Scalar(Bool(b)) /\ Scalar(Number(b)) /\ Scalar(Class(b)) /\ Scalar(<<"task", b>>)
  /\ \A a, b : Scalar(<<"native", a, b>>)
BY DEF Scalar, Nil, Unset, NoName, Bool, Number, Class

\* A finite set of numbers has a greatest one.
LEMMA MaxOf ==
  ASSUME NEW n \in Nat, NEW T, T \subseteq 1..n, T # {}
  PROVE  (CHOOSE i \in T : \A j \in T : j <= i) \in T
<1>. DEFINE D == { n - i : i \in T }
<1>1. D \subseteq Nat /\ D # {}
  <2>1. \A i \in T : i \in 1..n
    OBVIOUS
  <2>2. \A i \in 1..n : n - i \in Nat
    OBVIOUS
  <2>3. \A d \in D : d \in Nat
    BY <2>1, <2>2
  <2>4. PICK i \in T : TRUE
    OBVIOUS
  <2>5. n - i \in D
    BY <2>4
  <2>. QED BY <2>3, <2>5
<1>2. PICK d \in D : \A e \in D : d <= e
  <2>. HIDE DEF D
  <2>. QED BY <1>1, NatMin
<1>3. PICK i \in T : d = n - i
  BY <1>2
<1>4. ASSUME NEW j \in T PROVE j <= i
  <2>1. n - j \in D /\ j \in 1..n /\ i \in 1..n
    BY <1>4
  <2>2. n - i <= n - j
    BY <1>2, <1>3, <2>1
  <2>. QED BY <2>1, <2>2
<1>. QED BY <1>4

\* What a name stands for.
LEMMA NamesIn ==
  ASSUME NEW h, Stacked(h), NEW S, Values(S)
  PROVE  \A x : Lookup(x) \in S /\ ValueOf(Lookup(x)) \in S /\ LookupFree(x) \in S
<1>. SUFFICES ASSUME NEW x PROVE Lookup(x) \in S /\ ValueOf(Lookup(x)) \in S /\ LookupFree(x) \in S
  OBVIOUS
<1>1. Depth \in 1..Len(frames) /\ Frame = frames[Depth] /\ Depth = Len(frames) /\ Depth \in Nat
  BY DEF Stacked, Depth, Frame
<1>2. Global(x) \in S /\ \A i \in 1..Depth : x \in DOMAIN frames[i].locals => frames[i].locals[x] \in S
  BY <1>1 DEF Values
<1>3. Lookup(x) \in S
  BY <1>1, <1>2 DEF Lookup
<1>4. ValueOf(Lookup(x)) \in S
  <2>1. CASE Lookup(x)[1] = "var"
    <3>1. Whole(Lookup(x), S, Len(cells))
      BY <1>3, WholeIn
    <3>2. Lookup(x)[2] \in 1..Len(cells)
      BY <2>1, <3>1 DEF Whole
    <3>3. cells[Lookup(x)[2]] \in S
      BY <3>2, CellsNat, ElementOfSeq
    <3>. QED BY <2>1, <3>3 DEF ValueOf
  <2>2. CASE Lookup(x)[1] # "var"
    BY <1>3, <2>2 DEF ValueOf
  <2>. QED BY <2>1, <2>2
<1>5. LookupFree(x) \in S
  <2>. DEFINE H == { i \in 1..Depth : x \in DOMAIN frames[i].locals }
              k == CHOOSE i \in H : \A j \in H : j <= i
  <2>1. LookupFree(x) = IF H = {} THEN Global(x) ELSE frames[k].locals[x]
    BY DEF LookupFree
  <2>2. CASE H = {}
    BY <1>2, <2>1, <2>2
  <2>3. CASE H # {}
    <3>1. H \subseteq 1..Depth
      OBVIOUS
    <3>2. k \in H
      <4>. HIDE DEF H, Depth
      <4>. QED BY <1>1, <2>3, <3>1, MaxOf
    <3>3. k \in 1..Depth /\ x \in DOMAIN frames[k].locals
      <4>. HIDE DEF k
      <4>. QED BY <3>2
    <3>. HIDE DEF k
    <3>. QED BY <1>2, <2>1, <2>3, <3>3
  <2>. QED BY <2>2, <2>3
<1>. QED BY <1>3, <1>4, <1>5

\* An item of a value there is.
LEMMA ItemIn ==
  ASSUME NEW S, NEW n, Nil \in S, NEW v, Whole(v, S, n), NEW key, HasItems(v, key)
  PROVE  ItemOf(v, key) \in S
<1>1. CASE v[1] = "array"
  <2>. DEFINE i == IF key[2] < 0 THEN Len(v[2]) + key[2] + 1 ELSE key[2] + 1
  <2>1. ItemOf(v, key) = IF i \in 1..Len(v[2]) THEN v[2][i] ELSE Nil
    BY <1>1 DEF ItemOf
  <2>2. v[2] \in Seq(S)
    BY <1>1 DEF Whole
  <2>. HIDE DEF i
  <2>. QED BY <2>1, <2>2, ElementOfSeq
<1>2. CASE v[1] = "hash"
  <2>. DEFINE i == CHOOSE j \in DOMAIN v[2] : v[2][j][1] = key
  <2>1. ItemOf(v, key) = IF \E j \in DOMAIN v[2] : v[2][j][1] = key THEN v[2][i][2] ELSE Nil
    BY <1>2 DEF ItemOf
  <2>2. v[2] \in Seq(S \X S) /\ DOMAIN v[2] = 1..Len(v[2])
    BY <1>2, LenProperties DEF Whole
  <2>3. CASE \E j \in DOMAIN v[2] : v[2][j][1] = key
    <3>1. i \in DOMAIN v[2]
      BY <2>3
    <3>. HIDE DEF i
    <3>2. v[2][i] \in S \X S
      BY <2>2, <3>1, ElementOfSeq
    <3>3. v[2][i][2] \in S
      BY <3>2
    <3>. QED BY <2>1, <2>3, <3>3
  <2>. QED BY <2>1, <2>3
<1>. QED BY <1>1, <1>2 DEF HasItems

\* What an operator makes of two values.
LEMMA ComputeWhole ==
  ASSUME NEW S, NEW n, NEW l, NEW r, NEW op, Whole(l, S, n), Whole(r, S, n), Computes(op, l, r)
  PROVE  Whole(Compute(op, l, r), S, n)
<1>1. CASE op = "ADD" /\ l[1] = "array"
  <2>1. l[2] \in Seq(S) /\ r[2] \in Seq(S)
    BY <1>1 DEF Whole, Computes
  <2>2. l[2] \o r[2] \in Seq(S)
    BY <2>1, ConcatProperties
  <2>3. PICK w : w = l[2] \o r[2]
    OBVIOUS
  <2>4. Compute(op, l, r) = <<"array", w>>
    BY <1>1, <2>3 DEF Compute
  <2>5. <<"array", w>>[1] = "array" /\ <<"array", w>>[2] = w
    OBVIOUS
  <2>. QED BY <2>2, <2>3, <2>4, <2>5 DEF Whole
<1>2. CASE ~(op = "ADD" /\ l[1] = "array")
  <2>1. Compute(op, l, r) = Unset \/ \E x : Compute(op, l, r) = Number(x)
    BY <1>2 DEF Compute
  <2>. QED BY <2>1, Scalars, ScalarWhole
<1>. QED BY <1>1, <1>2

-----------------------------------------------------------------------------
(* The instructions of one invocation.                                     *)

\* Going on in its code leaves the innermost frame its variables.
LEMMA LocalsStay ==
  ASSUME NEW h, Stacked(h), NEW pc, Goto(pc)
  PROVE  /\ Len(frames') = Len(frames)
         /\ \A i \in 1..Len(frames) : frames'[i].locals = frames[i].locals /\ frames'[i].base = frames[i].base
<1>. DEFINE e == [Frame EXCEPT !.pc = pc]
<1>1. /\ Frame = frames[Depth] /\ Depth \in 1..Len(frames) /\ Len(frames) \in Nat
      /\ InCode(prog, h, Frame)
  <2>1. Depth \in 1..Len(frames) /\ Len(frames) \in Nat
    BY DEF Stacked, Depth
  <2>. QED BY <2>1 DEF Stacked, Depth, Frame
<1>2. e.locals = Frame.locals /\ e.base = Frame.base
  <2>1. Frame = [unit |-> Frame.unit, pc |-> Frame.pc, locals |-> Frame.locals, base |-> Frame.base]
    BY <1>1, Zenon DEF InCode
  <2>2. e = [unit |-> Frame.unit, pc |-> pc, locals |-> Frame.locals, base |-> Frame.base]
    BY <2>1
  <2>. QED BY <2>2
<1>3. frames' = [frames EXCEPT ![Depth] = e]
  BY <1>1 DEF Goto
<1>4. PICK S : frames \in Seq(S)
  BY DEF Stacked, IsSeq
<1>. HIDE DEF e
<1>5. frames \in Seq(S \cup {e}) /\ e \in S \cup {e}
  BY <1>4, SeqMonotonic
<1>6. /\ Len(frames') = Len(frames)
      /\ \A i \in 1..Len(frames) : frames'[i] = IF i = Depth THEN e ELSE frames[i]
  BY <1>1, <1>3, <1>5, ExceptSeq
<1>7. ASSUME NEW i \in 1..Len(frames)
      PROVE  frames'[i].locals = frames[i].locals /\ frames'[i].base = frames[i].base
  BY <1>1, <1>2, <1>6
<1>. QED BY <1>6, <1>7

\* What has to be known after an instruction that stays in its invocation.
LEMMA ValuesStay ==
  ASSUME NEW h, Stacked(h), NEW S, Values(S), Based, NEW pc, Goto(pc), prog' = prog,
         NEW T, S \subseteq T, \A v \in T : Whole(v, T, Len(cells)),
         cells' \in Seq(T), Len(cells') = Len(cells), stack' \in Seq(T), size' \in 0..Len(stack')
  PROVE  Valued' /\ Based'
<1>1. /\ Len(frames') = Len(frames)
      /\ \A i \in 1..Len(frames) : frames'[i].locals = frames[i].locals /\ frames'[i].base = frames[i].base
  BY LocalsStay
<1>2. \A i \in 1..Len(frames') : \A x \in DOMAIN frames'[i].locals : frames'[i].locals[x] \in T
  BY <1>1 DEF Values
<1>3. Nil \in T /\ \A x : Global(x)' \in T
  BY DEF Values, Global
<1>4. Values(T)'
  BY <1>2, <1>3 DEF Values
<1>5. Based'
  BY <1>1 DEF Based
<1>. QED BY <1>4, <1>5 DEF Valued

\* An instruction that makes v of values there are.
LEMMA Makes ==
  ASSUME NEW h, Stacked(h), NEW S, Values(S), Based, prog' = prog, cells' = cells,
         NEW n \in Nat, NEW v, Whole(v, S, Len(cells)), Replace(n, v)
  PROVE  Valued' /\ Based'
<1>. DEFINE T == S \cup {v}
            k == SizeWithout(n)
<1>1. Len(cells) \in Nat /\ Len(stack) \in Nat /\ size \in Nat /\ cells \in Seq(S) /\ stack \in Seq(S)
  BY CellsNat
<1>2. ASSUME NEW w \in T PROVE Whole(w, T, Len(cells))
  <2>1. Whole(w, S, Len(cells))
    BY <1>2 DEF Values
  <2>2. S \subseteq T
    OBVIOUS
  <2>. HIDE DEF T
  <2>. QED BY <1>1, <2>1, <2>2, WholeGrows
<1>3. k \in Nat /\ k <= Len(stack)
  BY <1>1 DEF SizeWithout, Values
<1>4. S \subseteq T /\ v \in T
  OBVIOUS
<1>5. stack' = Write(k, <<v>>) /\ size' = k + 1 /\ Goto(Frame.pc + 1)
  BY DEF Replace
<1>. HIDE DEF T, k
<1>6. stack \in Seq(T) /\ cells \in Seq(T) /\ <<v>> \in Seq(T) /\ Len(<<v>>) = 1
  BY <1>1, <1>4, SeqMonotonic
<1>7. Write(k, <<v>>) \in Seq(T) /\ k + 1 <= Len(Write(k, <<v>>))
  BY <1>3, <1>6, WriteIs
<1>8. stack' \in Seq(T) /\ size' \in 0..Len(stack')
  <2>1. Len(stack') \in Nat
    BY <1>5, <1>7, LenProperties
  <2>. QED BY <1>3, <1>5, <1>7, <2>1
<1>9. PICK pc : pc = Frame.pc + 1 /\ Goto(pc)
  BY <1>5
<1>10. cells' \in Seq(T) /\ Len(cells') = Len(cells)
  BY <1>6
<1>. QED BY <1>2, <1>4, <1>8, <1>9, <1>10, ValuesStay

\* An instruction that takes operands, and leaves the stack as it is above them.
LEMMA Takes ==
  ASSUME NEW h, Stacked(h), NEW S, Values(S), Based, prog' = prog,
         cells' \in Seq(S), Len(cells') = Len(cells), NEW pc, Goto(pc), stack' = stack,
         size' \in Nat, size' <= size
  PROVE  Valued' /\ Based'
<1>1. Len(cells) \in Nat /\ Len(stack) \in Nat /\ size \in Nat /\ cells \in Seq(S) /\ stack \in Seq(S)
  BY CellsNat
<1>2. size' \in 0..Len(stack') /\ stack' \in Seq(S)
  BY <1>1 DEF Values
<1>3. \A v \in S : Whole(v, S, Len(cells))
  BY DEF Values
<1>. QED BY <1>2, <1>3, ValuesStay


\* An instruction that leaves a value where its operands were.
LEMMA MakingInstr ==
  ASSUME NEW h, NEW S, Sound(h, S),
         \/ PushConst \/ PushNil \/ PushName \/ Dup \/ Not \/ GetClass \/ GetAttr \/ GetItem
         \/ MakeArray \/ MakeHash \/ MakeClosure \/ Compare \/ Arith \/ Spawn \/ CallNative
  PROVE  Valued' /\ Based'
<1>1. Balanced(prog, h) /\ Plain(prog) /\ Stacked(h) /\ Values(S) /\ Based
  BY DEF Sound
<1>. USE DEF Quiet
<1>2. Taken \in Nat
  BY <1>1, Top
<1>3. \A n \in Nat : \A v : prog' = prog /\ cells' = cells /\ Replace(n, v) /\ Whole(v, S, Len(cells))
        => Valued' /\ Based'
  BY <1>1, Makes
<1>4. \A v : Scalar(v) => Whole(v, S, Len(cells))
  BY ScalarWhole
<1>5. \A n \in Nat \ {0} : Operand(n) \in S /\ Whole(Operand(n), S, Len(cells))
  BY <1>1, OperandIn, WholeIn
<1>6. CASE PushConst
  <2>1. Op = "PUSHCONST" /\ prog' = prog /\ cells' = cells /\ Replace(0, Instr[2])
    BY <1>6 DEF PushConst, At, Running
  <2>2. Frame.unit \in DOMAIN prog.units /\ Frame.pc \in 1..(Len(Unit.code) + 1)
    BY <1>1, Top DEF InCode, Balanced, Carries, Unit
  <2>3. Now = Instr /\ Now[1] = "PUSHCONST"
    BY <2>1, NowIs
  <2>4. Scalar(Instr[2])
    BY <1>1, <2>2, <2>3 DEF Plain, Unit, Now
  <2>. QED BY <1>3, <1>4, <2>1, <2>4
<1>7. CASE PushNil
  BY <1>3, <1>4, <1>7, Scalars DEF PushNil
<1>8. CASE PushName
  <2>1. ValueOf(Lookup(Instr[2])) \in S
    BY <1>1, NamesIn
  <2>2. Whole(ValueOf(Lookup(Instr[2])), S, Len(cells))
    BY <1>1, <2>1, WholeIn
  <2>. QED BY <1>3, <1>8, <2>2 DEF PushName
<1>9. CASE Dup
  BY <1>3, <1>5, <1>9 DEF Dup
<1>10. CASE Not
  BY <1>3, <1>4, <1>10, Scalars DEF Not
<1>11. CASE GetClass
  <2>1. Scalar(ClassOf(Operand(1)))
    BY Scalars DEF ClassOf
  <2>. QED BY <1>3, <1>4, <1>11, <2>1 DEF GetClass
<1>12. CASE GetAttr
  BY <1>3, <1>4, <1>12, Scalars DEF GetAttr
<1>13. CASE GetItem
  <2>1. HasItems(Operand(2), Operand(1)) /\ prog' = prog /\ cells' = cells
        /\ Replace(2, ItemOf(Operand(2), Operand(1)))
    BY <1>13 DEF GetItem, At, Running, Broken
  <2>2. Nil \in S
    BY <1>1 DEF Values
  <2>3. ItemOf(Operand(2), Operand(1)) \in S
    BY <1>5, <2>1, <2>2, ItemIn
  <2>4. Whole(ItemOf(Operand(2), Operand(1)), S, Len(cells))
    BY <1>1, <2>3, WholeIn
  <2>. QED BY <1>3, <2>1, <2>4
<1>14. CASE MakeArray
  <2>1. prog' = prog /\ cells' = cells /\ Replace(Taken, <<"array", Operands(Taken)>>)
    BY <1>14 DEF MakeArray
  <2>2. Operands(Taken) \in Seq(S)
    BY <1>1, <1>2, OperandsIn
  <2>3. \A w \in Seq(S) : Whole(<<"array", w>>, S, Len(cells))
    BY DEF Whole
  <2>. QED BY <1>2, <1>3, <2>1, <2>2, <2>3
<1>15. CASE MakeHash
  <2>1. prog' = prog /\ cells' = cells /\ Replace(Taken, <<"hash", MakePairs(Operands(Taken))>>)
    BY <1>15 DEF MakeHash
  <2>2. MakePairs(Operands(Taken)) \in Seq(S \X S)
    BY <1>1, <1>2, OperandsIn, MakePairsIn
  <2>3. \A w \in Seq(S \X S) : Whole(<<"hash", w>>, S, Len(cells))
    BY DEF Whole
  <2>. QED BY <1>2, <1>3, <2>1, <2>2, <2>3
<1>16. CASE MakeClosure
  <2>. DEFINE free == prog.units[Operand(1)[2]].free
              names == {free[i] : i \in DOMAIN free}
              f == [x \in names |-> LookupFree(x)]
  <2>1. prog' = prog /\ cells' = cells /\ Replace(1, <<"closure", Operand(1)[2], f>>)
    BY <1>16 DEF MakeClosure
  <2>2. \A x \in DOMAIN f : f[x] \in S
    BY <1>1, NamesIn
  <2>. HIDE DEF f
  <2>3. \A a : Whole(<<"closure", a, f>>, S, Len(cells))
    BY <2>2 DEF Whole
  <2>. QED BY <1>3, <2>1, <2>3
<1>17. CASE Compare
  <2>1. PICK r : prog' = prog /\ cells' = cells /\ Replace(2, Bool(Holds(Op, r)))
    BY <1>17 DEF Compare
  <2>. QED BY <1>3, <1>4, <2>1, Scalars
<1>18. CASE Arith
  <2>1. Computes(Op, Operand(2), Operand(1)) /\ prog' = prog /\ cells' = cells
        /\ Replace(2, Compute(Op, Operand(2), Operand(1)))
    BY <1>18 DEF Arith, At, Running, Broken
  <2>2. Whole(Compute(Op, Operand(2), Operand(1)), S, Len(cells))
    BY <1>5, <2>1, ComputeWhole
  <2>. QED BY <1>3, <2>1, <2>2
<1>19. CASE Spawn
  BY <1>3, <1>4, <1>19, Scalars DEF Spawn
<1>20. CASE CallNative
  <2>1. /\ prog' = prog /\ cells' = cells
        /\ \/ Replace(Taken, Number(Len(Operand(Taken)[3][2])))
           \/ Replace(Taken, Bool(TRUE))
    BY <1>20 DEF CallNative
  <2>. QED BY <1>2, <1>3, <1>4, <2>1, Scalars
<1>. QED BY <1>6, <1>7, <1>8, <1>9, <1>10, <1>11, <1>12, <1>13, <1>14, <1>15, <1>16, <1>17, <1>18, <1>19,
            <1>20

\* An instruction that leaves none.
LEMMA TakingInstr ==
  ASSUME NEW h, NEW S, Sound(h, S), StoreName \/ Pop \/ Jump \/ JumpIf
  PROVE  Valued' /\ Based'
<1>1. Balanced(prog, h) /\ Plain(prog) /\ Stacked(h) /\ Values(S) /\ Based
  BY DEF Sound
<1>2. Len(cells) \in Nat /\ Len(stack) \in Nat /\ size \in Nat /\ cells \in Seq(S) /\ stack \in Seq(S)
  BY <1>1, CellsNat
<1>3. SizeWithout(1) \in Nat /\ SizeWithout(1) <= size
  BY <1>2 DEF SizeWithout
<1>4. \A pc : /\ prog' = prog /\ cells' \in Seq(S) /\ Len(cells') = Len(cells) /\ Goto(pc)
              /\ stack' = stack /\ size' \in Nat /\ size' <= size
              => Valued' /\ Based'
  BY <1>1, Takes
<1>5. CASE StoreName
  <2>. DEFINE x == Instr[2]
              k == Frame.locals[x][2]
  <2>1. /\ prog' = prog /\ stack' = stack /\ size' = SizeWithout(1) /\ Goto(Frame.pc + 1)
        /\ cells' = [cells EXCEPT ![k] = Operand(1)] /\ Frame.locals[x][1] = "var"
        /\ x \in DOMAIN Frame.locals
    BY <1>5 DEF StoreName, Drop, At, Running, Broken
  <2>2. Frame.locals[x] \in S
    BY <1>1, <2>1, Top DEF Values, Depth, Stacked
  <2>3. k \in 1..Len(cells)
    BY <1>1, <2>1, <2>2, WholeIn DEF Whole
  <2>4. Operand(1) \in S
    BY <1>1, OperandIn
  <2>. HIDE DEF k
  <2>5. cells' \in Seq(S) /\ Len(cells') = Len(cells)
    BY <1>2, <2>1, <2>3, <2>4, ExceptSeq
  <2>. QED BY <1>3, <1>4, <2>1, <2>5
<1>6. CASE Pop
  <2>1. prog' = prog /\ cells' = cells /\ stack' = stack /\ size' = SizeWithout(1) /\ Goto(Frame.pc + 1)
    BY <1>6 DEF Pop, Drop, Quiet
  <2>. QED BY <1>2, <1>3, <1>4, <2>1
<1>7. CASE JumpIf
  <2>1. /\ prog' = prog /\ cells' = cells /\ stack' = stack /\ size' = SizeWithout(1)
        /\ \E pc : Goto(pc)
    BY <1>7 DEF JumpIf, Drop, Quiet
  <2>. QED BY <1>2, <1>3, <1>4, <2>1
<1>8. CASE Jump
  <2>1. prog' = prog /\ cells' = cells /\ stack' = stack /\ size' = size /\ Goto(Instr[2])
    BY <1>8 DEF Jump, Quiet
  <2>. QED BY <1>2, <1>4, <2>1
<1>. QED BY <1>5, <1>6, <1>7, <1>8

-----------------------------------------------------------------------------
(* Calls and returns.                                                      *)

\* The result is one of the operands.
LEMMA ReturnValues ==
  ASSUME NEW h, NEW S, Sound(h, S), Return
  PROVE  Valued' /\ Based'
<1>1. Balanced(prog, h) /\ Stacked(h) /\ Values(S) /\ Based
  BY DEF Sound
<1>2. Len(cells) \in Nat /\ Len(stack) \in Nat /\ size \in Nat /\ cells \in Seq(S) /\ stack \in Seq(S)
      /\ size <= Len(stack)
  BY <1>1, CellsNat
<1>3. /\ prog' = prog /\ cells' = cells
      /\ stack' = Write(Frame.base, <<Operand(1)>>) /\ size' = Frame.base + 1
  BY DEF Return, Quiet
<1>4. Frame.base \in Nat /\ Frame.base <= size
  BY <1>1, <1>2, Top DEF InCode
<1>5. Operand(1) \in S
  BY <1>1, OperandIn
<1>6. <<Operand(1)>> \in Seq(S) /\ Len(<<Operand(1)>>) = 1
  BY <1>5
<1>7. stack' \in Seq(S) /\ size' \in 0..Len(stack')
  <2>1. stack' \in Seq(S) /\ Frame.base + 1 <= Len(stack')
    <3>. DEFINE w == <<Operand(1)>>
                b == Frame.base
    <3>1. b \in Nat /\ b <= Len(stack) /\ w \in Seq(S) /\ Len(w) = 1 /\ stack' = Write(b, w)
      BY <1>2, <1>3, <1>4, <1>6
    <3>. HIDE DEF w, b
    <3>2. Write(b, w) \in Seq(S) /\ b + Len(w) <= Len(Write(b, w))
      BY <1>2, <3>1, WriteIs
    <3>. QED BY <3>1, <3>2 DEF b
  <2>2. Len(stack') \in Nat
    BY <2>1, LenProperties
  <2>. QED BY <1>3, <1>4, <2>1, <2>2
<1>8. /\ Depth \in Nat /\ Len(frames) = Depth /\ Len(frames') = Depth - 1
      /\ \A i \in 1..(Depth - 1) : i \in 1..Len(frames)
      /\ \A i \in 1..(Depth - 1) : frames'[i].locals = frames[i].locals /\ frames'[i].base = frames[i].base
  <2>1. /\ Depth \in Nat /\ Len(frames) = Depth /\ Len(frames') = Depth - 1
    BY <1>1, ReturnFrames DEF Depth
  <2>2. ASSUME NEW i \in 1..(Depth - 1)
        PROVE  frames'[i].locals = frames[i].locals /\ frames'[i].base = frames[i].base
    <3>1. frames'[i] = IF i = Depth - 1
                       THEN [unit |-> frames[i].unit, pc |-> frames[i].pc + 1,
                             locals |-> frames[i].locals, base |-> frames[i].base]
                       ELSE frames[i]
      BY <1>1, ReturnFrames
    <3>2. CASE i = Depth - 1
      BY <3>1, <3>2
    <3>3. CASE i # Depth - 1
      BY <3>1, <3>3
    <3>. QED BY <3>2, <3>3
  <2>3. \A i \in 1..(Depth - 1) : i \in 1..Len(frames)
    BY <2>1
  <2>. QED BY <2>1, <2>2, <2>3
<1>9. \A i \in 1..Len(frames') : \A x \in DOMAIN frames'[i].locals : frames'[i].locals[x] \in S
  BY <1>1, <1>8 DEF Values
<1>10. \A x : Global(x)' \in S
  BY <1>1, <1>3 DEF Values, Global
<1>11. Values(S)'
  BY <1>1, <1>2, <1>3, <1>7, <1>9, <1>10 DEF Values
<1>12. Based'
  BY <1>1, <1>8 DEF Based
<1>. QED BY <1>11, <1>12 DEF Valued

\* The variables of a new frame.
LEMMA NewLocals ==
  ASSUME NEW S, Values(S), NEW c \in S, c[2] \in DOMAIN prog.units, Plain(prog), NEW n \in Nat
  PROVE  \A x \in DOMAIN Locals(c, n) :
           \/ Locals(c, n)[x] \in S
           \/ \E k \in 1..(n + Len(prog.units[c[2]].vars)) : Locals(c, n)[x] = <<"var", k>>
<1>. DEFINE declared == prog.units[c[2]].vars
            bound == Bindings(c)
            names == {declared[i] : i \in DOMAIN declared}
            Nth(x) == CHOOSE i \in DOMAIN declared : declared[i] = x
<1>1. Locals(c, n) = [x \in names \union DOMAIN bound |->
                        IF x \in DOMAIN bound THEN bound[x] ELSE <<"var", n + Nth(x)>>]
  BY DEF Locals
<1>2. Len(declared) \in Nat /\ DOMAIN declared = 1..Len(declared)
  BY DEF Plain
<1>3. \A x \in DOMAIN bound : bound[x] \in S
  <2>1. CASE c[1] = "closure"
    BY <2>1, WholeIn DEF Whole, Bindings
  <2>2. CASE c[1] # "closure"
    <3>1. DOMAIN bound = {}
      BY <2>2 DEF Bindings
    <3>. QED BY <3>1
  <2>. QED BY <2>1, <2>2
<1>4. \A x \in names : Nth(x) \in 1..Len(declared)
  BY <1>2
<1>. HIDE DEF declared, bound, names, Nth
<1>5. \A x \in names : n + Nth(x) \in 1..(n + Len(declared))
  BY <1>2, <1>4
<1>6. ASSUME NEW x \in DOMAIN Locals(c, n)
      PROVE  \/ Locals(c, n)[x] \in S
             \/ \E k \in 1..(n + Len(declared)) : Locals(c, n)[x] = <<"var", k>>
  <2>1. x \in names \union DOMAIN bound
    BY <1>1, <1>6
  <2>2. CASE x \in DOMAIN bound
    BY <1>1, <1>3, <2>1, <2>2
  <2>3. CASE x \notin DOMAIN bound
    <3>1. x \in names /\ Locals(c, n)[x] = <<"var", n + Nth(x)>>
      BY <1>1, <2>1, <2>3
    <3>. QED BY <1>5, <3>1
  <2>. QED BY <2>2, <2>3
<1>. QED BY <1>6 DEF declared

\* A new frame has the variables of its unit, and those of the closure called.
LEMMA CallValues ==
  ASSUME NEW h, NEW S, Sound(h, S), ArgumentsMatch, Call
  PROVE  Valued' /\ Based'
<1>. DEFINE c == Operand(Taken)
            n == Len(cells)
            m == Len(prog.units[c[2]].vars)
            new == NewCells(c)
            V == {<<"var", k>> : k \in 1..(n + m)}
            T == S \cup {Unset} \cup V
            base == SizeWithout(Taken)
            g == NewFrame(c, base)
            args == Operands(Instr[2])
<1>1. Balanced(prog, h) /\ Stacked(h) /\ Values(S) /\ Based /\ Plain(prog)
  BY DEF Sound
<1>2. n \in Nat /\ Len(stack) \in Nat /\ size \in Nat /\ cells \in Seq(S) /\ stack \in Seq(S)
      /\ size <= Len(stack)
  BY <1>1, CellsNat
<1>3. /\ Op = "CALL" /\ prog' = prog /\ frames' = Append(frames, g) /\ cells' = cells \o new
      /\ stack' = Write(base, args) /\ size' = base + Instr[2] /\ Running({"CALL"}) /\ IsMethod(c)
  BY DEF Call, At, Running
<1>4. c[2] \in DOMAIN prog.units
  BY <1>3 DEF ArgumentsMatch
<1>5. Instr[2] \in Nat /\ Taken = Instr[2] + 1
  <2>1. Now = Instr /\ Now[1] = "CALL" /\ Taken = Pops(Now)
    BY <1>3, NowIs
  <2>2. Now[1] \in Counted => Now[2] \in Nat
    BY <1>1, Top
  <2>. QED BY <2>1, <2>2, PopsAre DEF Counted
<1>6. c \in S
  BY <1>1, <1>5, OperandIn
<1>7. m \in Nat /\ DOMAIN prog.units[c[2]].vars = 1..m
  BY <1>1, <1>4 DEF Plain
<1>8. new = [i \in 1..m |-> Unset]
  BY <1>7 DEF NewCells
<1>9. base = size - Taken /\ base \in Nat /\ base <= Len(stack) /\ Frame.base <= base /\ Frame.base \in Nat
  <2>1. PICK k \in Nat : k = h[Frame.unit][Frame.pc] /\ Frame.base + k <= size /\ Taken <= k
                         /\ base = size - Taken
    BY <1>1, Top
  <2>2. PICK b \in Nat : b = Frame.base
    BY <1>1, Top DEF InCode
  <2>3. PICK t \in Nat : t = Taken
    BY <1>5
  <2>. HIDE DEF base
  <2>4. b + k <= size /\ t <= k /\ base = size - t
    BY <2>1, <2>2, <2>3
  <2>5. base \in Nat /\ base <= Len(stack) /\ b <= base
    BY <1>2, <2>4
  <2>. QED BY <2>1, <2>2, <2>5
<1>10. args \in Seq(S) /\ Len(args) = Instr[2]
  BY <1>1, <1>5, OperandsIn
<1>11. \A x \in DOMAIN Locals(c, n) : Locals(c, n)[x] \in S \cup V
  <2>1. \A x \in DOMAIN Locals(c, n) :
           \/ Locals(c, n)[x] \in S
           \/ \E k \in 1..(n + m) : Locals(c, n)[x] = <<"var", k>>
    BY <1>1, <1>2, <1>4, <1>6, NewLocals
  <2>. QED BY <2>1
<1>12. g.locals = Locals(c, n) /\ g.base = base
  BY DEF NewFrame
<1>13. S \subseteq T /\ Unset \in T /\ V \subseteq T
  OBVIOUS
<1>. HIDE DEF m, n, c, new, base, g, args
<1>14. ASSUME NEW v \in T PROVE Whole(v, T, n + m)
  <2>1. CASE v \in S
    <3>1. Whole(v, S, n)
      BY <1>1, <2>1, WholeIn DEF n
    <3>2. n + m \in Nat /\ n <= n + m
      BY <1>2, <1>7
    <3>. HIDE DEF T
    <3>. QED BY <1>2, <1>13, <3>1, <3>2, WholeGrows
  <2>2. CASE v = Unset
    BY <2>2, Scalars, ScalarWhole
  <2>3. CASE v \in V
    <3>1. PICK k \in 1..(n + m) : v = <<"var", k>>
      BY <2>3
    <3>. QED BY <3>1 DEF Whole
  <2>. QED BY <1>14, <2>1, <2>2, <2>3
<1>15. \A i \in 1..m : Unset \in T
  BY <1>13
<1>. HIDE DEF T, V
<1>16. new \in Seq(T) /\ Len(new) = m
  <2>1. new \in [1..m -> T]
    BY <1>8, <1>13
  <2>. QED BY <1>7, <2>1, MakesSeq
<1>17. cells \in Seq(T) /\ stack \in Seq(T) /\ args \in Seq(T)
  BY <1>2, <1>10, <1>13, SeqMonotonic
<1>18. cells' \in Seq(T) /\ Len(cells') = n + m
  BY <1>3, <1>16, <1>17, ConcatProperties DEF n
<1>19. stack' \in Seq(T) /\ size' \in 0..Len(stack')
  <2>1. stack' \in Seq(T) /\ base + Instr[2] <= Len(stack')
    BY <1>3, <1>9, <1>10, <1>17, WriteIs
  <2>2. Len(stack') \in Nat
    BY <2>1, LenProperties
  <2>. QED BY <1>3, <1>5, <1>9, <2>1, <2>2
<1>20. /\ Len(frames) \in Nat \ {0} /\ Len(frames') = Len(frames) + 1
       /\ frames'[Len(frames) + 1] = g /\ \A i \in 1..Len(frames) : frames'[i] = frames[i]
  <2>1. PICK X : frames \in Seq(X)
    BY <1>1 DEF Stacked, IsSeq
  <2>2. frames \in Seq(X \cup {g}) /\ g \in X \cup {g}
    BY <2>1, SeqMonotonic
  <2>. QED BY <1>1, <1>3, <2>2, AppendProperties DEF Stacked
<1>21. \A i \in 1..Len(frames') : \A x \in DOMAIN frames'[i].locals : frames'[i].locals[x] \in T
  <2>. SUFFICES ASSUME NEW i \in 1..Len(frames'), NEW x \in DOMAIN frames'[i].locals
                PROVE  frames'[i].locals[x] \in T
    OBVIOUS
  <2>1. CASE i = Len(frames) + 1
    <3>1. frames'[i].locals = Locals(c, n)
      BY <1>12, <1>20, <2>1
    <3>. QED BY <1>11, <1>13, <3>1
  <2>2. CASE i # Len(frames) + 1
    <3>1. i \in 1..Len(frames) /\ frames'[i] = frames[i]
      BY <1>20, <2>2
    <3>. QED BY <1>1, <1>13, <3>1 DEF Values
  <2>. QED BY <2>1, <2>2
<1>22. Nil \in T /\ \A x : Global(x)' \in T
  BY <1>1, <1>3, <1>13 DEF Values, Global
<1>23. \A v \in T : Whole(v, T, Len(cells'))
  BY <1>14, <1>18
<1>24. Valued'
  <2>1. PICK Q : Q = T
    OBVIOUS
  <2>2. Values(Q)'
    BY <1>18, <1>19, <1>21, <1>22, <1>23, <2>1 DEF Values
  <2>. QED BY <2>2 DEF Valued
<1>25. \A i \in 1..Len(frames) : frames[i].base <= base /\ frames[i].base \in Nat
  <2>1. Frame = frames[Len(frames)] /\ Len(frames) \in 1..Len(frames)
    BY <1>20 DEF Frame, Depth
  <2>2. ASSUME NEW i \in 1..Len(frames) PROVE frames[i].base <= base /\ frames[i].base \in Nat
    <3>1. i <= Len(frames) /\ frames[i].base <= Frame.base
      BY <1>1, <1>20, <2>1 DEF Based
    <3>2. frames[i].base \in Nat
      BY <1>1 DEF Stacked, InCode
    <3>. QED BY <1>9, <3>1, <3>2
  <2>. QED BY <2>2
<1>26. Based'
  <2>1. ASSUME NEW i \in 1..Len(frames'), NEW j \in 1..Len(frames'), i <= j
        PROVE  frames'[i].base <= frames'[j].base
    <3>1. CASE j = Len(frames) + 1 /\ i = j
      BY <1>9, <1>12, <1>20, <3>1
    <3>2. CASE j = Len(frames) + 1 /\ i # j
      <4>1. i \in 1..Len(frames)
        BY <1>20, <2>1, <3>2
      <4>. QED BY <1>12, <1>20, <1>25, <3>2, <4>1
    <3>3. CASE j # Len(frames) + 1
      <4>1. i \in 1..Len(frames) /\ j \in 1..Len(frames)
        BY <1>20, <2>1, <3>3
      <4>. QED BY <1>1, <1>20, <2>1, <4>1 DEF Based
    <3>. QED BY <3>1, <3>2, <3>3
  <2>. QED BY <2>1 DEF Based
<1>. QED BY <1>24, <1>26

\* Where the machine runs, its types are right.
LEMMA SoundTypes ==
  ASSUME NEW h, NEW S, Sound(h, S), status = "run"
  PROVE  TypeOK
<1>1. Balanced(prog, h) /\ Stacked(h) /\ Values(S) /\ Based
  BY DEF Sound
<1>2. size \in 0..Len(stack) /\ cells \in Seq(S) /\ DOMAIN cells = 1..Len(cells)
  BY <1>1, LenProperties DEF Values
<1>3. Depth = Len(frames) /\ Depth \in Nat \ {0} /\ Frame = frames[Depth] /\ Depth \in 1..Depth
  BY <1>1 DEF Stacked, Depth, Frame
<1>4. Frame.base \in Nat /\ Frame.base <= size /\ size \in Nat
  BY <1>1, Top DEF InCode, Stacked
<1>5. ASSUME NEW i \in 1..Depth
      PROVE  /\ frames[i].unit \in DOMAIN prog.units
             /\ frames[i].pc \in 1..(Len(prog.units[frames[i].unit].code) + 1)
             /\ frames[i].base \in 0..size
             /\ \A x \in DOMAIN frames[i].locals :
                  frames[i].locals[x][1] = "var" => frames[i].locals[x][2] \in DOMAIN cells
  <2>1. InCode(prog, h, frames[i])
    BY <1>1, <1>3 DEF Stacked
  <2>2. frames[i].unit \in DOMAIN prog.units /\ frames[i].base \in Nat
    BY <2>1 DEF InCode
  <2>3. frames[i].pc \in 1..(Len(prog.units[frames[i].unit].code) + 1)
    BY <1>1, <2>1 DEF InCode, Balanced, Carries
  <2>4. i <= Depth /\ frames[i].base <= Frame.base
    BY <1>1, <1>3 DEF Based
  <2>5. frames[i].base \in 0..size
    BY <1>4, <2>2, <2>4
  <2>6. ASSUME NEW x \in DOMAIN frames[i].locals, frames[i].locals[x][1] = "var"
        PROVE  frames[i].locals[x][2] \in DOMAIN cells
    <3>1. frames[i].locals[x] \in S
      BY <1>1, <1>3, <2>6 DEF Values
    <3>2. Whole(frames[i].locals[x], S, Len(cells))
      BY <1>1, <3>1, WholeIn
    <3>. QED BY <1>2, <2>6, <3>2 DEF Whole
  <2>. QED BY <2>2, <2>3, <2>5, <2>6
<1>. QED BY <1>2, <1>5 DEF TypeOK

-----------------------------------------------------------------------------
(* The machine keeps its types.                                            *)

\* A task begins with the variables of main.
LEMMA InitValues ==
  ASSUME NEW h, Init, Balanced(prog, h), Plain(prog)
  PROVE  Valued /\ Based
<1>. DEFINE declared == prog.units["main"].vars
            m == Len(declared)
            G == {prog.globals[x] : x \in DOMAIN prog.globals}
            V == {<<"var", k>> : k \in 1..m}
            S == {Nil, Unset, NoName, Class("array"), Class("hash")} \cup G \cup V
            names == {declared[i] : i \in DOMAIN declared}
            Nth(x) == CHOOSE i \in DOMAIN declared : declared[i] = x
<1>1. m \in Nat /\ DOMAIN declared = 1..m
  BY DEF Balanced, Plain
<1>2. /\ stack = <<>> /\ size = 0 /\ cells = [i \in 1..m |-> Unset] /\ Len(frames) = 1
      /\ frames[1].locals = [x \in names |-> <<"var", Nth(x)>>]
  BY <1>1 DEF Init
<1>3. \A x \in names : Nth(x) \in 1..m
  BY <1>1
<1>4. \A v \in G : Scalar(v)
  BY DEF Plain
<1>5. Nil \in S /\ Unset \in S /\ V \subseteq S /\ stack \in Seq(S) /\ Len(stack) = 0
  <2>1. Nil \in S /\ Unset \in S /\ V \subseteq S
    OBVIOUS
  <2>. HIDE DEF S
  <2>2. <<>> \in Seq(S) /\ Len(<<>>) = 0
    OBVIOUS
  <2>. QED BY <1>2, <2>1, <2>2
<1>6. \A x : Global(x) \in S
  <2>1. ASSUME NEW x \in DOMAIN prog.globals PROVE Global(x) \in S
    <3>1. Global(x) = prog.globals[x]
      BY DEF Global
    <3>. QED BY <3>1
  <2>2. \A x \in DOMAIN Builtins : Builtins[x] \in S
    BY DEF Builtins
  <2>3. NoName \in S
    OBVIOUS
  <2>. HIDE DEF S
  <2>. QED BY <2>1, <2>2, <2>3 DEF Global
<1>. HIDE DEF declared, m, G, names, Nth
<1>7. \A x \in names : <<"var", Nth(x)>> \in S
  BY <1>3
<1>8. ASSUME NEW v \in S PROVE Whole(v, S, m)
  <2>1. CASE v \in V
    <3>1. PICK k \in 1..m : v = <<"var", k>>
      BY <2>1
    <3>. QED BY <3>1 DEF Whole
  <2>2. CASE v \notin V
    <3>1. Scalar(v)
      BY <1>4, <1>8, <2>2, Scalars
    <3>. QED BY <3>1, ScalarWhole
  <2>. QED BY <2>1, <2>2
<1>. HIDE DEF S, V
<1>9. cells \in Seq(S) /\ Len(cells) = m
  <2>1. cells \in [1..m -> S]
    BY <1>2, <1>5
  <2>. QED BY <1>1, <2>1, MakesSeq
<1>10. \A i \in 1..Len(frames) : \A x \in DOMAIN frames[i].locals : frames[i].locals[x] \in S
  BY <1>2, <1>7
<1>11. size \in 0..Len(stack)
  BY <1>2, <1>5
<1>12. Values(S)
  BY <1>5, <1>6, <1>8, <1>9, <1>10, <1>11 DEF Values
<1>13. Based
  <2>1. frames[1].base = 0
    BY DEF Init
  <2>. QED BY <1>2, <2>1 DEF Based
<1>. QED BY <1>12, <1>13 DEF Valued

\* Every step of a running machine leaves one that is sound.
LEMMA StepValues ==
  ASSUME NEW h, Balanced(prog, h), Plain(prog), Stacked(h), Valued, Based, ArgumentsMatch,
         [Next]_vars, ~(Finish \/ Abort \/ Crash)
  PROVE  Valued' /\ Based'
<1>1. PICK S : Sound(h, S)
  BY DEF Valued, Sound
<1>2. CASE Call
  BY <1>1, <1>2, CallValues
<1>3. CASE Return
  BY <1>1, <1>3, ReturnValues
<1>4. CASE StoreName \/ Pop \/ Jump \/ JumpIf
  BY <1>1, <1>4, TakingInstr
<1>5. CASE \/ PushConst \/ PushNil \/ PushName \/ Dup \/ Not \/ GetClass \/ GetAttr \/ GetItem
           \/ MakeArray \/ MakeHash \/ MakeClosure \/ Compare \/ Arith \/ Spawn \/ CallNative
  BY <1>1, <1>5, MakingInstr
<1>6. CASE UNCHANGED vars
  <2>1. Values(S)'
    BY <1>1, <1>6 DEF Sound, Values, Global, vars
  <2>2. Based'
    BY <1>6 DEF Based, vars
  <2>. QED BY <2>1, <2>2 DEF Valued
<1>. QED BY <1>2, <1>3, <1>4, <1>5, <1>6 DEF Next

\* Where it stops, nothing but the size of the stack is another.
LEMMA StopTypes ==
  ASSUME TypeOK, [Next]_vars, status' # "run"
  PROVE  TypeOK'
<1>1. CASE Finish
  <2>1. /\ status' = "done" /\ size' = Frame.base /\ stack' = stack /\ frames' = frames
        /\ cells' = cells /\ prog' = prog /\ Len(frames) = 1 /\ Frame = frames[1]
    BY <1>1 DEF Finish, Depth, Frame
  <2>2. Frame.base \in 0..size /\ size \in 0..Len(stack)
    BY <2>1 DEF TypeOK, Depth
  <2>3. Frame.base \in 0..Frame.base /\ Frame.base \in 0..Len(stack)
    BY <2>2
  <2>. QED BY <2>1, <2>3 DEF TypeOK, Depth
<1>2. CASE Abort \/ Crash
  BY <1>2 DEF Abort, Crash, TypeOK, Depth
<1>3. CASE UNCHANGED vars
  BY <1>3 DEF vars, TypeOK, Depth
<1>4. CASE Next /\ ~(Finish \/ Abort \/ Crash)
  BY <1>4 DEF Next, PushConst, PushNil, PushName, StoreName, Dup, Pop, Not, GetClass, GetAttr,
         GetItem, MakeArray, MakeHash, MakeClosure, Jump, JumpIf, Compare, Arith, Spawn, Call,
         CallNative, Return, Quiet, At, Running
<1>. QED BY <1>1, <1>2, <1>3, <1>4

\* Whatever the program, its values and the depth of its calls: the stack covers its size, every
\* frame is at a place of its code and begins within the stack, and every variable its names lead
\* to has been made, also those a closure brought along (frame.c, vm.c, var.c).
THEOREM TypeCorrect ==
  ASSUME NEW heights, \A p \in Programs : Balanced(p, heights[p]) /\ Plain(p)
  PROVE  Spec /\ []ArgumentsMatch => []TypeOK
<1>. DEFINE IInv == /\ prog \in Programs
                    /\ status = "run" => Stacked(heights[prog]) /\ Valued /\ Based
            Stopped == status # "run" => TypeOK
            Typed == status = "run" => TypeOK
<1>1. ASSUME Init PROVE IInv
  <2>1. prog \in Programs
    BY <1>1 DEF Init
  <2>. QED BY <1>1, <2>1, InitStacked, InitValues
<1>2. ASSUME IInv, ArgumentsMatch, [Next]_vars PROVE IInv'
  <2>1. prog' = prog /\ (status' = "run" => status = "run" /\ ~(Finish \/ Abort \/ Crash))
    BY <1>2, StepRuns
  <2>2. PICK h : h = heights[prog] /\ h = heights[prog']
    BY <2>1
  <2>3. ASSUME status' = "run" PROVE Stacked(h)' /\ Valued' /\ Based'
    <3>1. Balanced(prog, h) /\ Plain(prog) /\ Stacked(h) /\ Valued /\ Based
      BY <1>2, <2>1, <2>2, <2>3
    <3>. QED BY <1>2, <2>1, <2>3, <3>1, StepStacked, StepValues
  <2>4. Stacked(h)' => Stacked(heights[prog])'
    BY <2>2 DEF Stacked
  <2>. QED BY <1>2, <2>1, <2>3, <2>4
<1>3. ASSUME IInv PROVE Typed
  <2>1. PICK h : h = heights[prog]
    OBVIOUS
  <2>2. ASSUME status = "run" PROVE TypeOK
    <3>1. Balanced(prog, h) /\ Plain(prog) /\ Stacked(h) /\ Valued /\ Based
      BY <1>3, <2>1, <2>2
    <3>2. PICK S : Sound(h, S)
      BY <3>1 DEF Valued, Sound
    <3>. QED BY <2>2, <3>2, SoundTypes
  <2>. QED BY <2>2
<1>4. ASSUME Init PROVE Stopped
  BY <1>4 DEF Init
<1>5. ASSUME Stopped, Typed, [Next]_vars PROVE Stopped'
  <2>1. TypeOK
    BY <1>5
  <2>. QED BY <1>5, <2>1, StopTypes
<1>6. ASSUME Stopped, Typed PROVE TypeOK
  BY <1>6
<1>. QED BY <1>1, <1>2, <1>3, <1>4, <1>5, <1>6, PTL DEF Spec

-----------------------------------------------------------------------------
(* The code the compiler makes carries its operands.  A piece of code is   *)
(* good from a to b if a number of operands can be put at each of its      *)
(* places, a at the first and b behind the last, such that every           *)
(* instruction has what it takes and leaves enough for where it goes.      *)
(* exits says how many operands have to be left for a label that has no    *)
(* place yet.                                                              *)

\* What an instruction leaves when there are n operands.
After(x, n) == n - Pops(x) + Pushes(x)

\* The place q can be gone to with n operands.
Reaches(q, n, h) == q \in DOMAIN h /\ h[q] \in Nat /\ h[q] <= n

\* An instruction at place i.
Goes(x, i, h, exits) ==
  /\ x[1] \in Counted => x[2] \in Nat
  /\ h[i] \in Nat /\ Pops(x) <= h[i]
  /\ Len(x) = 3 => /\ x[1] \in Jumps
                   /\ Reaches(x[3], After(x, h[i]), exits)
  /\ x[1] \in Jumps /\ Len(x) # 3 => x[2] \in Int /\ Reaches(i + x[2], After(x, h[i]), h)
  /\ x[1] \notin {"JUMP", "RET"} => Reaches(i + 1, After(x, h[i]), h)

Numbers(c, a, b, exits, h) ==
  /\ h \in [1..(Len(c) + 1) -> Nat] /\ h[1] = a /\ h[Len(c) + 1] = b
  /\ \A i \in 1..Len(c) : Goes(c[i], i, h, exits)

Good(c, a, b, exits) == IsSeq(c) /\ \E h : Numbers(c, a, b, exits, h)

\* Sequences, whatever is in them.
LEMMA SeqIs ==
  ASSUME NEW c, IsSeq(c)
  PROVE  Len(c) \in Nat /\ DOMAIN c = 1..Len(c)
BY LenProperties DEF IsSeq

\* What one sequence behind another is.
LEMMA Joined ==
  ASSUME NEW c, NEW d, IsSeq(c), IsSeq(d)
  PROVE  /\ IsSeq(c \o d) /\ Len(c) \in Nat /\ Len(d) \in Nat /\ Len(c \o d) = Len(c) + Len(d)
         /\ \A i \in 1..Len(c) : (c \o d)[i] = c[i]
         /\ \A i \in 1..Len(d) : (c \o d)[Len(c) + i] = d[i]
<1>1. PICK S : c \in Seq(S)
  BY DEF IsSeq
<1>2. PICK T : d \in Seq(T)
  BY DEF IsSeq
<1>3. c \in Seq(S \union T) /\ d \in Seq(S \union T)
  BY <1>1, <1>2, SeqMonotonic
<1>4. Len(c) \in Nat /\ Len(d) \in Nat
  BY <1>3, LenProperties
<1>5. /\ c \o d \in Seq(S \union T) /\ Len(c \o d) = Len(c) + Len(d)
      /\ \A i \in 1..Len(c) + Len(d) : (c \o d)[i] = IF i <= Len(c) THEN c[i] ELSE d[i - Len(c)]
  BY <1>3, ConcatProperties
<1>6. ASSUME NEW i \in 1..Len(d) PROVE (c \o d)[Len(c) + i] = d[i]
  <2>1. Len(c) + i \in 1..Len(c) + Len(d) /\ ~(Len(c) + i <= Len(c)) /\ (Len(c) + i) - Len(c) = i
    BY <1>4
  <2>. QED BY <1>5, <2>1
<1>7. ASSUME NEW i \in 1..Len(c) PROVE (c \o d)[i] = c[i]
  <2>1. i \in 1..Len(c) + Len(d) /\ i <= Len(c)
    BY <1>4
  <2>. QED BY <1>5, <2>1
<1>. QED BY <1>4, <1>5, <1>6, <1>7 DEF IsSeq

\* A sequence of one.
LEMMA Single ==
  ASSUME NEW x
  PROVE  IsSeq(<<x>>) /\ Len(<<x>>) = 1 /\ <<x>>[1] = x
<1>1. <<x>> \in Seq({x})
  OBVIOUS
<1>. QED BY <1>1 DEF IsSeq

\* The empty sequence.
LEMMA Nothing == IsSeq(<<>>) /\ Len(<<>>) = 0
<1>1. <<>> \in Seq({})
  OBVIOUS
<1>. QED BY <1>1 DEF IsSeq

\* What an instruction takes is a number.
LEMMA AfterIs ==
  ASSUME NEW x, NEW n \in Nat, x[1] \in Counted => x[2] \in Nat, Pops(x) <= n
  PROVE  Pops(x) \in Nat /\ Pushes(x) \in {0, 1, 2} /\ After(x, n) \in Nat
<1>1. Pops(x) \in Nat
  BY PopsAre
<1>2. Pushes(x) \in {0, 1, 2}
  BY DEF Pushes
<1>. QED BY <1>1, <1>2 DEF After

\* An instruction n places further on.
LEMMA GoesThere ==
  ASSUME NEW x, NEW m \in Nat, NEW i \in 1..m, NEW h \in [1..(m + 1) -> Nat], NEW exits,
         Goes(x, i, h, exits),
         NEW n \in Nat, NEW g, \A q \in 1..(m + 1) : n + q \in DOMAIN g /\ g[n + q] = h[q]
  PROVE  Goes(x, n + i, g, exits)
<1>1. i \in 1..(m + 1) /\ h[i] \in Nat /\ g[n + i] = h[i]
  OBVIOUS
<1>2. /\ x[1] \in Counted => x[2] \in Nat
      /\ Pops(x) <= h[i]
      /\ Len(x) = 3 => x[1] \in Jumps /\ Reaches(x[3], After(x, h[i]), exits)
      /\ x[1] \in Jumps /\ Len(x) # 3 => x[2] \in Int /\ Reaches(i + x[2], After(x, h[i]), h)
      /\ x[1] \notin {"JUMP", "RET"} => Reaches(i + 1, After(x, h[i]), h)
  BY DEF Goes
<1>3. ASSUME NEW d \in Int, Reaches(i + d, After(x, h[i]), h)
      PROVE  Reaches((n + i) + d, After(x, g[n + i]), g)
  <2>1. i + d \in 1..(m + 1) /\ (n + i) + d = n + (i + d)
    BY <1>3 DEF Reaches
  <2>2. n + (i + d) \in DOMAIN g /\ g[n + (i + d)] = h[i + d]
    BY <2>1
  <2>. QED BY <1>1, <1>3, <2>1, <2>2 DEF Reaches
<1>4. x[1] \in Jumps /\ Len(x) # 3 => x[2] \in Int /\ Reaches((n + i) + x[2], After(x, g[n + i]), g)
  BY <1>2, <1>3
<1>5. x[1] \notin {"JUMP", "RET"} => Reaches((n + i) + 1, After(x, g[n + i]), g)
  BY <1>2, <1>3
<1>. QED BY <1>1, <1>2, <1>4, <1>5 DEF Goes

\* A piece c with its numbers h lies in the code w with its numbers g, n places further on.
Lies(c, h, w, g, n) ==
  /\ \A q \in 1..(Len(c) + 1) : n + q \in DOMAIN g /\ g[n + q] = h[q]
  /\ \A i \in 1..Len(c) : w[n + i] = c[i]

\* The instructions from place n + 1 to n + m go where they may.
Runs(w, g, exits, n, m) == \A j \in (n + 1)..(n + m) : Goes(w[j], j, g, exits)

\* A piece goes on the same way wherever it lies.
LEMMA Laid ==
  ASSUME NEW c, IsSeq(c), NEW a, NEW b, NEW exits, NEW h, Numbers(c, a, b, exits, h),
         NEW n \in Nat, NEW g, NEW w, Lies(c, h, w, g, n)
  PROVE  Runs(w, g, exits, n, Len(c))
<1>1. Len(c) \in Nat /\ h \in [1..(Len(c) + 1) -> Nat] /\ \A i \in 1..Len(c) : Goes(c[i], i, h, exits)
  BY SeqIs DEF Numbers
<1>2. ASSUME NEW i \in 1..Len(c) PROVE Goes(w[n + i], n + i, g, exits)
  <2>1. Goes(c[i], i, h, exits) /\ w[n + i] = c[i]
    BY <1>1 DEF Lies
  <2>2. \A q \in 1..(Len(c) + 1) : n + q \in DOMAIN g /\ g[n + q] = h[q]
    BY DEF Lies
  <2>. QED BY <1>1, <2>1, <2>2, GoesThere
<1>3. ASSUME NEW j \in (n + 1)..(n + Len(c)) PROVE Goes(w[j], j, g, exits)
  <2>1. j - n \in 1..Len(c) /\ n + (j - n) = j
    BY <1>1
  <2>. QED BY <1>2, <2>1
<1>. QED BY <1>3 DEF Runs

\* One good piece after another.
LEMMA Glue ==
  ASSUME NEW c, NEW d, NEW a, NEW b, NEW e, NEW exits, Good(c, a, b, exits), Good(d, b, e, exits)
  PROVE  Good(c \o d, a, e, exits)
<1>. DEFINE m == Len(c)
            n == Len(d)
            w == c \o d
<1>1. /\ IsSeq(c) /\ IsSeq(d) /\ IsSeq(w) /\ m \in Nat /\ n \in Nat /\ Len(w) = m + n
      /\ \A i \in 1..m : w[i] = c[i]
      /\ \A i \in 1..n : w[m + i] = d[i]
  BY Joined DEF Good
<1>2. PICK h : Numbers(c, a, b, exits, h)
  BY DEF Good
<1>3. PICK k : Numbers(d, b, e, exits, k)
  BY DEF Good
<1>4. /\ h \in [1..(m + 1) -> Nat] /\ h[1] = a /\ h[m + 1] = b
      /\ k \in [1..(n + 1) -> Nat] /\ k[1] = b /\ k[n + 1] = e
  BY <1>2, <1>3 DEF Numbers
<1>. HIDE DEF w, m, n
<1>. DEFINE g == [q \in 1..((m + n) + 1) |-> IF q <= m THEN h[q] ELSE k[q - m]]
<1>5. ASSUME NEW q \in 1..(m + 1) PROVE 0 + q \in DOMAIN g /\ g[0 + q] = h[q]
  <2>1. 0 + q = q /\ q \in 1..((m + n) + 1) /\ (q <= m \/ (~(q <= m) /\ q = m + 1 /\ q - m = 1))
    BY <1>1
  <2>. QED BY <1>4, <2>1
<1>6. ASSUME NEW q \in 1..(n + 1) PROVE m + q \in DOMAIN g /\ g[m + q] = k[q]
  <2>1. m + q \in 1..((m + n) + 1) /\ ~(m + q <= m) /\ (m + q) - m = q
    BY <1>1
  <2>. QED BY <2>1
<1>7. g \in [1..((m + n) + 1) -> Nat]
  <2>1. ASSUME NEW q \in 1..((m + n) + 1) PROVE g[q] \in Nat
    <3>1. CASE q <= m
      <4>1. q \in 1..(m + 1) /\ g[q] = h[q]
        BY <1>1, <3>1
      <4>. HIDE DEF g
      <4>. QED BY <1>4, <4>1
    <3>2. CASE ~(q <= m)
      <4>1. q - m \in 1..(n + 1) /\ g[q] = k[q - m]
        BY <1>1, <3>2
      <4>. HIDE DEF g
      <4>. QED BY <1>4, <4>1
    <3>. QED BY <3>1, <3>2
  <2>. QED BY <2>1
<1>. HIDE DEF g
<1>8. Runs(w, g, exits, 0, m)
  <2>1. ASSUME NEW i \in 1..m PROVE w[0 + i] = c[i]
    <3>1. 0 + i = i
      BY <1>1
    <3>2. w[i] = c[i]
      BY <1>1
    <3>. QED BY <3>1, <3>2
  <2>2. Lies(c, h, w, g, 0)
    BY <1>5, <2>1 DEF Lies, m
  <2>. QED BY <1>1, <1>2, <2>2, Laid DEF m
<1>9. Runs(w, g, exits, m, n)
  <2>1. Lies(d, k, w, g, m)
    BY <1>1, <1>6 DEF Lies, n
  <2>. QED BY <1>1, <1>3, <2>1, Laid DEF n
<1>10. g[1] = a /\ g[(m + n) + 1] = e
  <2>1. 1 \in 1..(m + 1) /\ 0 + 1 = 1 /\ n + 1 \in 1..(n + 1) /\ m + (n + 1) = (m + n) + 1
    BY <1>1
  <2>. QED BY <1>4, <1>5, <1>6, <2>1
<1>11. ASSUME NEW j \in 1..(m + n) PROVE Goes(w[j], j, g, exits)
  <2>1. j \in (0 + 1)..(0 + m) \/ j \in (m + 1)..(m + n)
    BY <1>1
  <2>. QED BY <1>8, <1>9, <2>1 DEF Runs
<1>12. Numbers(w, a, e, exits, g)
  BY <1>1, <1>7, <1>10, <1>11 DEF Numbers
<1>. QED BY <1>1, <1>12 DEF Good, w

\* Nothing at all.
LEMMA GoodNothing ==
  ASSUME NEW a \in Nat, NEW exits
  PROVE  Good(<<>>, a, a, exits)
<1>. DEFINE h == [q \in 1..(0 + 1) |-> a]
<1>1. h \in [1..(0 + 1) -> Nat] /\ h[1] = a /\ h[0 + 1] = a /\ 1..0 = {}
  OBVIOUS
<1>. HIDE DEF h
<1>2. Numbers(<<>>, a, a, exits, h)
  BY <1>1, Nothing DEF Numbers
<1>. QED BY <1>2, Nothing DEF Good

\* What is allowed with some exits is allowed with others that ask for no more.
Asks(exits, others) ==
  \A l \in DOMAIN exits : exits[l] \in Nat => /\ l \in DOMAIN others
                                             /\ others[l] \in Nat /\ others[l] <= exits[l]

\* A piece that is good with some exits is good with others that ask for no more.
LEMMA Loosen ==
  ASSUME NEW c, NEW a, NEW b, NEW exits, NEW others, Good(c, a, b, exits), Asks(exits, others)
  PROVE  Good(c, a, b, others)
<1>1. PICK h : Numbers(c, a, b, exits, h)
  BY DEF Good
<1>2. ASSUME NEW i \in 1..Len(c) PROVE Goes(c[i], i, h, others)
  <2>. DEFINE x == c[i]
  <2>1. Goes(x, i, h, exits)
    BY <1>1 DEF Numbers
  <2>. HIDE DEF x
  <2>2. Len(x) = 3 => Reaches(x[3], After(x, h[i]), others)
    <3>1. SUFFICES ASSUME Len(x) = 3 PROVE Reaches(x[3], After(x, h[i]), others)
      OBVIOUS
    <3>2. After(x, h[i]) \in Nat
      BY <2>1, AfterIs DEF Goes
    <3>3. Reaches(x[3], After(x, h[i]), exits)
      BY <2>1, <3>1 DEF Goes
    <3>. QED BY <3>2, <3>3 DEF Reaches, Asks
  <2>3. Goes(x, i, h, others)
    BY <2>1, <2>2 DEF Goes
  <2>. QED BY <2>3 DEF x
<1>3. Numbers(c, a, b, others, h)
  BY <1>1, <1>2 DEF Numbers
<1>. QED BY <1>3 DEF Good

\* A single instruction.
LEMMA GoodOne ==
  ASSUME NEW x, NEW a \in Nat, NEW b \in Nat, NEW exits,
         x[1] \in Counted => x[2] \in Nat, Pops(x) <= a,
         Len(x) = 3 => x[1] \in Jumps /\ Reaches(x[3], After(x, a), exits),
         x[1] \in Jumps => Len(x) = 3,
         x[1] \notin {"JUMP", "RET"} => b <= After(x, a)
  PROVE  Good(<<x>>, a, b, exits)
<1>. DEFINE h == [q \in 1..(1 + 1) |-> IF q = 1 THEN a ELSE b]
<1>1. h \in [1..(1 + 1) -> Nat] /\ DOMAIN h = 1..(1 + 1) /\ h[1] = a /\ h[1 + 1] = b
  OBVIOUS
<1>. HIDE DEF h
<1>2. x[1] \notin {"JUMP", "RET"} => Reaches(1 + 1, After(x, h[1]), h)
  BY <1>1 DEF Reaches
<1>3. Goes(x, 1, h, exits)
  BY <1>1, <1>2 DEF Goes
<1>. DEFINE c == <<x>>
<1>4. IsSeq(c) /\ Len(c) = 1 /\ c[1] = x
  BY Single
<1>. HIDE DEF c
<1>5. Numbers(c, a, b, exits, h)
  BY <1>1, <1>3, <1>4 DEF Numbers
<1>. QED BY <1>4, <1>5 DEF Good, c

\* One that is no jump.
LEMMA Straight ==
  ASSUME NEW x, NEW a \in Nat, NEW exits,
         x[1] \in Counted => x[2] \in Nat, Pops(x) <= a, Len(x) # 3, x[1] \notin Jumps
  PROVE  Good(<<x>>, a, After(x, a), exits)
<1>1. After(x, a) \in Nat
  BY AfterIs
<1>2. After(x, a) <= After(x, a)
  BY <1>1
<1>. QED BY <1>1, <1>2, GoodOne

\* What jumps take and leave.
LEMMA JumpEffect ==
  ASSUME NEW x
  PROVE  /\ x[1] = "JUMP" => /\ \A n \in Nat : After(x, n) = n
                             /\ Pops(x) = 0
         /\ x[1] \in {"JUMPIFTRUE", "JUMPIFFALSE"} => /\ \A n \in Nat : After(x, n) = n - 1
                                                      /\ Pops(x) = 1
         /\ x[1] \in Jumps => x[1] \notin Counted /\ x[1] # "RET"
         /\ x[1] \in {"JUMP", "JUMPIFTRUE", "JUMPIFFALSE"} => x[1] \in Jumps
<1>1. x[1] \in Jumps => x[1] \notin Counted /\ x[1] # "RET"
  BY DEF Jumps, Counted
<1>2. x[1] = "JUMP" => Pops(x) = 0 /\ Pushes(x) = 0
  BY <1>1, PopsAre DEF Pushes, Jumps
<1>3. x[1] \in {"JUMPIFTRUE", "JUMPIFFALSE"} => Pops(x) = 1 /\ Pushes(x) = 0
  BY <1>1, PopsAre DEF Pushes, Jumps
<1>4. x[1] \in {"JUMP", "JUMPIFTRUE", "JUMPIFFALSE"} => x[1] \in Jumps
  BY DEF Jumps
<1>. QED BY <1>1, <1>2, <1>3, <1>4 DEF After

\* A jump by d places.
LEMMA JumpGoes ==
  ASSUME NEW op \in Jumps, NEW d \in Int, NEW i, NEW n \in Nat, NEW h, NEW exits,
         h[i] = (IF op = "JUMP" THEN n ELSE n + 1),
         Reaches(i + d, n, h), op # "JUMP" => Reaches(i + 1, n, h)
  PROVE  Goes(<<op, d>>, i, h, exits)
<1>. DEFINE x == <<op, d>>
<1>1. x[1] = op /\ x[2] = d /\ Len(x) # 3
  OBVIOUS
<1>. HIDE DEF x
<1>2. op = "JUMP" \/ op \in {"JUMPIFTRUE", "JUMPIFFALSE"}
  BY DEF Jumps
<1>3. h[i] \in Nat /\ Pops(x) <= h[i] /\ After(x, h[i]) = n
  <2>1. CASE op = "JUMP"
    BY <1>1, <2>1, JumpEffect
  <2>2. CASE op # "JUMP"
    <3>1. h[i] = n + 1 /\ n + 1 \in Nat /\ (n + 1) - 1 = n /\ 1 <= n + 1
      BY <2>2
    <3>2. Pops(x) = 1 /\ After(x, n + 1) = (n + 1) - 1
      BY <1>1, <1>2, <2>2, <3>1, JumpEffect
    <3>. QED BY <3>1, <3>2
  <2>. QED BY <2>1, <2>2
<1>4. x[1] \notin Counted
  BY <1>1, JumpEffect
<1>5. Goes(x, i, h, exits)
  BY <1>1, <1>3, <1>4 DEF Goes
<1>. QED BY <1>5 DEF x

\* An instruction before a piece, and one behind it.
LEMMA Begun ==
  ASSUME NEW x, NEW c, IsSeq(c)
  PROVE  /\ IsSeq(<<x>> \o c) /\ Len(c) \in Nat /\ Len(<<x>> \o c) = 1 + Len(c)
         /\ (<<x>> \o c)[1] = x /\ \A i \in 1..Len(c) : (<<x>> \o c)[1 + i] = c[i]
<1>. DEFINE s == <<x>>
<1>1. IsSeq(s) /\ Len(s) = 1 /\ s[1] = x /\ 1 \in 1..1
  BY Single
<1>. HIDE DEF s
<1>2. IsSeq(s)
  BY <1>1
<1>3. /\ IsSeq(s \o c) /\ Len(c) \in Nat /\ Len(s \o c) = Len(s) + Len(c)
      /\ \A i \in 1..Len(s) : (s \o c)[i] = s[i]
  BY <1>2, Joined
<1>4. \A i \in 1..Len(c) : (s \o c)[Len(s) + i] = c[i]
  BY <1>2, Joined
<1>5. (s \o c)[1] = x
  BY <1>1, <1>3
<1>6. ASSUME NEW i \in 1..Len(c) PROVE (s \o c)[1 + i] = c[i]
  BY <1>1, <1>4
<1>. QED BY <1>1, <1>3, <1>5, <1>6 DEF s

\* An instruction behind a piece.
LEMMA Ended ==
  ASSUME NEW c, IsSeq(c), NEW x
  PROVE  /\ IsSeq(Append(c, x)) /\ Len(c) \in Nat /\ Len(Append(c, x)) = Len(c) + 1
         /\ Append(c, x) = c \o <<x>>
         /\ Append(c, x)[Len(c) + 1] = x /\ \A i \in 1..Len(c) : Append(c, x)[i] = c[i]
<1>1. PICK S : c \in Seq(S)
  BY DEF IsSeq
<1>2. c \in Seq(S \union {x})
  BY <1>1, SeqMonotonic
<1>3. x \in S \union {x}
  OBVIOUS
<1>4. /\ Append(c, x) \in Seq(S \union {x}) /\ Len(Append(c, x)) = Len(c) + 1
      /\ \A i \in 1..Len(c) : Append(c, x)[i] = c[i]
      /\ Append(c, x)[Len(c) + 1] = x
  BY <1>2, <1>3, AppendProperties
<1>5. Append(c, x) = c \o <<x>>
  BY <1>2, <1>3, AppendIsConcat
<1>6. Len(c) \in Nat
  BY <1>1, LenProperties
<1>. QED BY <1>4, <1>5, <1>6 DEF IsSeq

\* A condition and what it may skip.
LEMMA GoodIf ==
  ASSUME NEW c, NEW a \in Nat, NEW exits, Good(c, a, a, exits)
  PROVE  Good(If(c), a + 1, a, exits)
<1>. DEFINE m == Len(c)
            x == <<"JUMPIFFALSE", m + 1>>
            w == <<x>> \o c
<1>1. If(c) = w
  BY DEF If
<1>2. /\ IsSeq(c) /\ IsSeq(w) /\ m \in Nat /\ Len(w) = 1 + m /\ w[1] = x
      /\ \A i \in 1..m : w[1 + i] = c[i]
  <2>1. IsSeq(c)
    BY DEF Good
  <2>. HIDE DEF x
  <2>. QED BY <2>1, Begun
<1>3. PICK h : Numbers(c, a, a, exits, h)
  BY DEF Good
<1>4. h \in [1..(m + 1) -> Nat] /\ h[1] = a /\ h[m + 1] = a
  BY <1>3 DEF Numbers
<1>. HIDE DEF w, m
<1>. DEFINE g == [q \in 1..((1 + m) + 1) |-> IF q = 1 THEN a + 1 ELSE h[q - 1]]
<1>5. ASSUME NEW q \in 1..(m + 1) PROVE 1 + q \in DOMAIN g /\ g[1 + q] = h[q]
  <2>1. 1 + q \in 1..((1 + m) + 1) /\ 1 + q # 1 /\ (1 + q) - 1 = q
    BY <1>2
  <2>. QED BY <2>1
<1>6. g \in [1..((1 + m) + 1) -> Nat] /\ g[1] = a + 1 /\ g[2] = a /\ g[(1 + m) + 1] = a
  <2>1. ASSUME NEW q \in 1..((1 + m) + 1) PROVE g[q] \in Nat
    <3>1. CASE q = 1
      BY <3>1
    <3>2. CASE q # 1
      <4>1. q - 1 \in 1..(m + 1) /\ g[q] = h[q - 1]
        BY <1>2, <3>2
      <4>. HIDE DEF g
      <4>. QED BY <1>4, <4>1
    <3>. QED BY <3>1, <3>2
  <2>2. g[1] = a + 1
    <3>1. 1 \in 1..((1 + m) + 1)
      BY <1>2
    <3>. QED BY <3>1
  <2>3. g[1 + 1] = h[1] /\ g[1 + (m + 1)] = h[m + 1]
    <3>1. 1 \in 1..(m + 1) /\ m + 1 \in 1..(m + 1)
      BY <1>2
    <3>. HIDE DEF g
    <3>. QED BY <1>5, <3>1
  <2>4. 1 + (m + 1) = (1 + m) + 1 /\ 1 + 1 = 2
    BY <1>2
  <2>5. g \in [1..((1 + m) + 1) -> Nat]
    BY <2>1
  <2>. HIDE DEF g
  <2>. QED BY <1>4, <2>2, <2>3, <2>4, <2>5
<1>. HIDE DEF g
<1>7. Runs(w, g, exits, 1, m)
  <2>1. Lies(c, h, w, g, 1)
    BY <1>2, <1>5 DEF Lies, m
  <2>. QED BY <1>2, <1>3, <2>1, Laid DEF m
<1>8. Goes(x, 1, g, exits)
  <2>1. 1 + (m + 1) = (1 + m) + 1 /\ 1 + (m + 1) \in 1..((1 + m) + 1) /\ 1 + 1 = 2
        /\ 2 \in 1..((1 + m) + 1) /\ m + 1 \in Int
    BY <1>2
  <2>2. Reaches(1 + (m + 1), a, g) /\ Reaches(1 + 1, a, g)
    BY <1>6, <2>1 DEF Reaches
  <2>3. "JUMPIFFALSE" \in Jumps
    BY DEF Jumps
  <2>. QED BY <1>6, <2>1, <2>2, <2>3, JumpGoes
<1>9. ASSUME NEW j \in 1..(1 + m) PROVE Goes(w[j], j, g, exits)
  <2>1. j = 1 \/ j \in (1 + 1)..(1 + m)
    BY <1>2
  <2>. QED BY <1>2, <1>7, <1>8, <2>1 DEF Runs
<1>10. Numbers(w, a + 1, a, exits, g)
  BY <1>2, <1>6, <1>9 DEF Numbers
<1>. QED BY <1>1, <1>2, <1>10 DEF Good

\* All exits but l ask for no less than the others.
AsksBut(l, exits, others) ==
  \A m \in DOMAIN exits \ {l} : exits[m] \in Nat => /\ m \in DOMAIN others
                                                   /\ others[m] \in Nat /\ others[m] <= exits[m]

\* The code with a label that has its place.
LEMMA UsedIs ==
  ASSUME NEW c, IsSeq(c), NEW l
  PROVE  /\ IsSeq(UseLabel(c, l)) /\ Len(UseLabel(c, l)) = Len(c)
         /\ \A i \in 1..Len(c) :
              UseLabel(c, l)[i] = IF Len(c[i]) = 3 /\ c[i][3] = l
                                  THEN <<c[i][1], Len(c) + 1 - i>> ELSE c[i]
<1>. DEFINE F(i) == IF Len(c[i]) = 3 /\ c[i][3] = l THEN <<c[i][1], Len(c) + 1 - i>> ELSE c[i]
            u == [i \in 1..Len(c) |-> F(i)]
            S == { F(i) : i \in 1..Len(c) }
<1>1. Len(c) \in Nat /\ DOMAIN c = 1..Len(c)
  BY SeqIs
<1>2. UseLabel(c, l) = u
  BY <1>1 DEF UseLabel
<1>. HIDE DEF F
<1>3. u \in [1..Len(c) -> S]
  OBVIOUS
<1>4. \A i \in 1..Len(c) : u[i] = F(i)
  OBVIOUS
<1>. HIDE DEF u, S
<1>5. u \in Seq(S) /\ Len(u) = Len(c)
  BY <1>1, <1>3, MakesSeq
<1>. QED BY <1>2, <1>4, <1>5 DEF F, IsSeq

\* A jump to a label that gets its place d further on, where no more is asked for.
LEMMA UsedGoes ==
  ASSUME NEW x, NEW i \in Nat, NEW h, NEW exits, NEW others, NEW l, Goes(x, i, h, exits),
         NEW d \in Int, i + d \in DOMAIN h, h[i + d] \in Nat,
         exits[l] \in Nat => h[i + d] <= exits[l], AsksBut(l, exits, others)
  PROVE  Goes(IF Len(x) = 3 /\ x[3] = l THEN <<x[1], d>> ELSE x, i, h, others)
<1>1. /\ x[1] \in Counted => x[2] \in Nat
      /\ h[i] \in Nat /\ Pops(x) <= h[i]
      /\ Len(x) = 3 => x[1] \in Jumps /\ Reaches(x[3], After(x, h[i]), exits)
      /\ x[1] \in Jumps /\ Len(x) # 3 => x[2] \in Int /\ Reaches(i + x[2], After(x, h[i]), h)
      /\ x[1] \notin {"JUMP", "RET"} => Reaches(i + 1, After(x, h[i]), h)
  BY DEF Goes
<1>2. After(x, h[i]) \in Nat
  BY <1>1, AfterIs
<1>3. CASE ~(Len(x) = 3 /\ x[3] = l)
  <2>1. Len(x) = 3 => Reaches(x[3], After(x, h[i]), others)
    BY <1>1, <1>2, <1>3 DEF Reaches, AsksBut
  <2>2. Goes(x, i, h, others)
    BY <1>1, <2>1 DEF Goes
  <2>. QED BY <1>3, <2>2
<1>4. CASE Len(x) = 3 /\ x[3] = l
  <2>. DEFINE n == After(x, h[i])
  <2>1. x[1] \in Jumps /\ l \in DOMAIN exits /\ exits[l] \in Nat /\ exits[l] <= n
    BY <1>1, <1>4 DEF Reaches
  <2>2. h[i] = IF x[1] = "JUMP" THEN n ELSE n + 1
    <3>1. CASE x[1] = "JUMP"
      BY <1>1, <3>1, JumpEffect
    <3>2. CASE x[1] # "JUMP"
      <4>1. x[1] \in {"JUMPIFTRUE", "JUMPIFFALSE"}
        BY <2>1, <3>2 DEF Jumps
      <4>2. n = h[i] - 1
        BY <1>1, <4>1, JumpEffect
      <4>. HIDE DEF n
      <4>. QED BY <1>1, <3>2, <4>2
    <3>. QED BY <3>1, <3>2
  <2>3. x[1] # "JUMP" => Reaches(i + 1, n, h)
    BY <1>1, <2>1, JumpEffect
  <2>4. n \in Nat
    BY <1>2
  <2>. HIDE DEF n
  <2>5. Reaches(i + d, n, h)
    BY <2>1, <2>4 DEF Reaches
  <2>6. Goes(<<x[1], d>>, i, h, others)
    BY <2>1, <2>2, <2>3, <2>4, <2>5, JumpGoes
  <2>. QED BY <1>4, <2>6
<1>. QED BY <1>3, <1>4

\* A label that gets its place at the end of a piece.
LEMMA GoodUse ==
  ASSUME NEW c, NEW a, NEW b \in Nat, NEW exits, NEW others, NEW l,
         Good(c, a, b, exits), exits[l] \in Nat => b <= exits[l], AsksBut(l, exits, others)
  PROVE  Good(UseLabel(c, l), a, b, others)
<1>1. IsSeq(c)
  BY DEF Good
<1>2. PICK h : Numbers(c, a, b, exits, h)
  BY DEF Good
<1>. DEFINE m == Len(c)
            w == UseLabel(c, l)
<1>3. /\ IsSeq(w) /\ Len(w) = m /\ m \in Nat
      /\ \A i \in 1..m : w[i] = IF Len(c[i]) = 3 /\ c[i][3] = l
                                THEN <<c[i][1], m + 1 - i>> ELSE c[i]
  BY <1>1, UsedIs, SeqIs
<1>4. /\ h \in [1..(m + 1) -> Nat] /\ h[1] = a /\ h[m + 1] = b
      /\ \A i \in 1..m : Goes(c[i], i, h, exits)
  BY <1>2 DEF Numbers
<1>. HIDE DEF m, w
<1>5. ASSUME NEW i \in 1..m PROVE Goes(w[i], i, h, others)
  <2>. DEFINE d == m + 1 - i
  <2>1. i \in Nat /\ d \in Int /\ i + d = m + 1 /\ m + 1 \in 1..(m + 1)
    BY <1>3
  <2>2. i + d \in DOMAIN h /\ h[i + d] \in Nat /\ (exits[l] \in Nat => h[i + d] <= exits[l])
    BY <1>4, <2>1
  <2>3. w[i] = IF Len(c[i]) = 3 /\ c[i][3] = l THEN <<c[i][1], d>> ELSE c[i]
    BY <1>3
  <2>. HIDE DEF d
  <2>4. Goes(c[i], i, h, exits)
    BY <1>4
  <2>. DEFINE y == c[i]
  <2>. HIDE DEF y
  <2>5. Goes(y, i, h, exits) /\ w[i] = IF Len(y) = 3 /\ y[3] = l THEN <<y[1], d>> ELSE y
    BY <2>3, <2>4 DEF y
  <2>6. Goes(IF Len(y) = 3 /\ y[3] = l THEN <<y[1], d>> ELSE y, i, h, others)
    BY <2>1, <2>2, <2>5, UsedGoes
  <2>. QED BY <2>5, <2>6
<1>6. Numbers(w, a, b, others, h)
  BY <1>3, <1>4, <1>5 DEF Numbers
<1>. QED BY <1>3, <1>6 DEF Good, w

\* Where fewer operands are asked for, the instruction may go as well.
LEMMA GoesLower ==
  ASSUME NEW x, NEW i, NEW h, NEW g, NEW exits, Goes(x, i, h, exits), g[i] = h[i],
         \A q \in DOMAIN h : q \in DOMAIN g /\ (h[q] \in Nat => g[q] \in Nat /\ g[q] <= h[q])
  PROVE  Goes(x, i, g, exits)
<1>1. /\ x[1] \in Counted => x[2] \in Nat
      /\ h[i] \in Nat /\ Pops(x) <= h[i]
      /\ Len(x) = 3 => x[1] \in Jumps /\ Reaches(x[3], After(x, h[i]), exits)
      /\ x[1] \in Jumps /\ Len(x) # 3 => x[2] \in Int /\ Reaches(i + x[2], After(x, h[i]), h)
      /\ x[1] \notin {"JUMP", "RET"} => Reaches(i + 1, After(x, h[i]), h)
  BY DEF Goes
<1>2. After(x, h[i]) \in Nat
  BY <1>1, AfterIs
<1>3. ASSUME NEW q, Reaches(q, After(x, h[i]), h) PROVE Reaches(q, After(x, g[i]), g)
  <2>. DEFINE n == After(x, h[i])
  <2>1. n \in Nat /\ After(x, g[i]) = n
    BY <1>2
  <2>2. Reaches(q, n, h)
    BY <1>3
  <2>. HIDE DEF n
  <2>. QED BY <2>1, <2>2 DEF Reaches
<1>. QED BY <1>1, <1>3 DEF Goes

\* Fewer operands behind the last instruction.
LEMMA GoodLower ==
  ASSUME NEW c, NEW a, NEW b \in Nat, NEW e \in Nat, NEW exits, Good(c, a, b, exits), a # b, e <= b
  PROVE  Good(c, a, e, exits)
<1>1. PICK h : Numbers(c, a, b, exits, h)
  BY DEF Good
<1>2. IsSeq(c)
  BY DEF Good
<1>. DEFINE m == Len(c)
            g == [h EXCEPT ![m + 1] = e]
<1>3. /\ m \in Nat /\ h \in [1..(m + 1) -> Nat] /\ h[1] = a /\ h[m + 1] = b
      /\ \A i \in 1..m : Goes(c[i], i, h, exits)
  BY <1>1, <1>2, SeqIs DEF Numbers
<1>. HIDE DEF m
<1>4. m # 0
  <2>1. m = 0 => m + 1 = 1
    OBVIOUS
  <2>. QED BY <1>3, <2>1
<1>5. g \in [1..(m + 1) -> Nat] /\ g[m + 1] = e /\ \A q \in 1..m : g[q] = h[q]
  BY <1>3
<1>6. g[1] = a
  BY <1>3, <1>4, <1>5
<1>7. \A q \in DOMAIN h : q \in DOMAIN g /\ (h[q] \in Nat => g[q] \in Nat /\ g[q] <= h[q])
  <2>1. ASSUME NEW q \in 1..(m + 1) PROVE g[q] \in Nat /\ g[q] <= h[q]
    <3>1. CASE q = m + 1
      BY <1>3, <1>5, <3>1
    <3>2. CASE q # m + 1
      <4>1. q \in 1..m
        BY <1>3, <3>2
      <4>2. g[q] = h[q] /\ h[q] \in Nat
        BY <1>3, <1>5, <4>1
      <4>. QED BY <4>2
    <3>. QED BY <3>1, <3>2
  <2>. HIDE DEF g
  <2>. QED BY <1>3, <1>5, <2>1
<1>. HIDE DEF g
<1>8. ASSUME NEW i \in 1..m PROVE Goes(c[i], i, g, exits)
  BY <1>3, <1>5, <1>7, GoesLower
<1>9. Numbers(c, a, e, exits, g)
  BY <1>5, <1>6, <1>8 DEF Numbers, m
<1>. QED BY <1>2, <1>9 DEF Good

\* A jump back to the beginning, and anything behind it.
LEMMA GoodBack ==
  ASSUME NEW c, NEW a \in Nat, NEW b \in Nat, NEW e \in Nat, NEW exits,
         Good(c, a, b, exits), a <= b
  PROVE  Good(Append(c, <<"JUMP", -Len(c)>>), a, e, exits)
<1>1. PICK h : Numbers(c, a, b, exits, h)
  BY DEF Good
<1>2. IsSeq(c)
  BY DEF Good
<1>. DEFINE m == Len(c)
            x == <<"JUMP", -m>>
            w == Append(c, x)
<1>3. /\ m \in Nat /\ h \in [1..(m + 1) -> Nat] /\ h[1] = a /\ h[m + 1] = b
  BY <1>1, <1>2, SeqIs DEF Numbers
<1>4. IsSeq(w) /\ Len(w) = m + 1 /\ w[m + 1] = x /\ \A i \in 1..m : w[i] = c[i]
  <2>. HIDE DEF x
  <2>. QED BY <1>2, Ended
<1>. HIDE DEF m, w
<1>. DEFINE g == [q \in 1..((m + 1) + 1) |-> IF q <= m + 1 THEN h[q] ELSE e]
<1>5. /\ g \in [1..((m + 1) + 1) -> Nat] /\ g[(m + 1) + 1] = e
      /\ \A q \in 1..(m + 1) : q \in 1..((m + 1) + 1) /\ g[q] = h[q]
  <2>1. \A q \in 1..(m + 1) : q \in 1..((m + 1) + 1) /\ q <= m + 1
    BY <1>3
  <2>2. ASSUME NEW q \in 1..((m + 1) + 1) PROVE (IF q <= m + 1 THEN h[q] ELSE e) \in Nat
    <3>1. q <= m + 1 => q \in 1..(m + 1)
      BY <1>3
    <3>. QED BY <1>3, <3>1
  <2>3. (m + 1) + 1 \in 1..((m + 1) + 1) /\ ~((m + 1) + 1 <= m + 1)
    BY <1>3
  <2>. QED BY <2>1, <2>2, <2>3
<1>. HIDE DEF g
<1>6. g[1] = a /\ g[m + 1] = b
  <2>1. 1 \in 1..(m + 1) /\ m + 1 \in 1..(m + 1)
    BY <1>3
  <2>. QED BY <1>3, <1>5, <2>1
<1>7. Runs(w, g, exits, 0, m)
  <2>1. ASSUME NEW i \in 1..m PROVE w[0 + i] = c[i]
    <3>1. 0 + i = i
      BY <1>3
    <3>2. w[i] = c[i]
      BY <1>4
    <3>. QED BY <3>1, <3>2
  <2>2. ASSUME NEW q \in 1..(m + 1) PROVE 0 + q \in DOMAIN g /\ g[0 + q] = h[q]
    <3>1. 0 + q = q
      BY <1>3
    <3>2. q \in 1..((m + 1) + 1) /\ g[q] = h[q]
      BY <1>5
    <3>. QED BY <1>5, <3>1, <3>2
  <2>3. Lies(c, h, w, g, 0)
    BY <2>1, <2>2 DEF Lies, m
  <2>. QED BY <1>1, <1>2, <2>3, Laid DEF m
<1>8. Goes(x, m + 1, g, exits)
  <2>1. -m \in Int /\ (m + 1) + (-m) = 1 /\ 1 \in 1..((m + 1) + 1)
    BY <1>3
  <2>2. Reaches((m + 1) + (-m), b, g)
    BY <1>5, <1>6, <2>1 DEF Reaches
  <2>3. "JUMP" \in Jumps
    BY DEF Jumps
  <2>. QED BY <1>6, <2>1, <2>2, <2>3, JumpGoes
<1>9. ASSUME NEW j \in 1..(m + 1) PROVE Goes(w[j], j, g, exits)
  <2>1. j = m + 1 \/ j \in (0 + 1)..(0 + m)
    BY <1>3
  <2>. QED BY <1>4, <1>7, <1>8, <2>1 DEF Runs
<1>10. Numbers(w, a, e, exits, g)
  BY <1>4, <1>5, <1>6, <1>9 DEF Numbers
<1>. QED BY <1>4, <1>10 DEF Good, w, m

\* Four instructions before a piece.
LEMMA FourBefore ==
  ASSUME NEW x1, NEW x2, NEW x3, NEW x4, NEW c, IsSeq(c)
  PROVE  LET w == << x1, x2, x3, x4 >> \o c
         IN /\ IsSeq(w) /\ Len(c) \in Nat /\ Len(w) = 4 + Len(c)
            /\ w[1] = x1 /\ w[2] = x2 /\ w[3] = x3 /\ w[4] = x4
            /\ \A i \in 1..Len(c) : w[4 + i] = c[i]
<1>. DEFINE s == << x1, x2, x3, x4 >>
<1>1. s \in Seq({x1, x2, x3, x4}) /\ Len(s) = 4
  OBVIOUS
<1>2. s[1] = x1 /\ s[2] = x2 /\ s[3] = x3 /\ s[4] = x4
  OBVIOUS
<1>. HIDE DEF s
<1>3. IsSeq(s)
  BY <1>1 DEF IsSeq
<1>4. /\ IsSeq(s \o c) /\ Len(c) \in Nat /\ Len(s \o c) = Len(s) + Len(c)
      /\ \A i \in 1..Len(s) : (s \o c)[i] = s[i]
  BY <1>3, Joined
<1>5. \A i \in 1..Len(c) : (s \o c)[Len(s) + i] = c[i]
  BY <1>3, Joined
<1>6. 1 \in 1..4 /\ 2 \in 1..4 /\ 3 \in 1..4 /\ 4 \in 1..4
  OBVIOUS
<1>7. (s \o c)[1] = x1 /\ (s \o c)[2] = x2 /\ (s \o c)[3] = x3 /\ (s \o c)[4] = x4
  BY <1>1, <1>2, <1>4, <1>6
<1>8. \A i \in 1..Len(c) : (s \o c)[4 + i] = c[i]
  BY <1>1, <1>5
<1>9. Len(s \o c) = 4 + Len(c)
  BY <1>1, <1>4
<1>. QED BY <1>4, <1>7, <1>8, <1>9 DEF s

\* A right side that may be skipped, in place of the value on the stack.
LEMMA GoodUnless ==
  ASSUME NEW op \in {"JUMPIFTRUE", "JUMPIFFALSE"}, NEW c, NEW a \in Nat, NEW exits,
         Good(c, a, a + 1, exits)
  PROVE  Good(Unless(op, c), a + 1, a + 1, exits)
<1>1. IsSeq(c)
  BY DEF Good
<1>2. PICK h : Numbers(c, a, a + 1, exits, h)
  BY DEF Good
<1>. DEFINE n == Len(c)
            x2 == <<op, 2>>
            x3 == <<"JUMP", n + 2>>
            w == << <<"DUP">>, x2, x3, <<"POP">> >> \o c
<1>3. Unless(op, c) = w
  BY DEF Unless
<1>4. /\ IsSeq(w) /\ n \in Nat /\ Len(w) = 4 + n
      /\ w[1] = <<"DUP">> /\ w[2] = x2 /\ w[3] = x3 /\ w[4] = <<"POP">>
      /\ \A i \in 1..n : w[4 + i] = c[i]
  <2>. HIDE DEF x2, x3
  <2>. QED BY <1>1, FourBefore
<1>5. h \in [1..(n + 1) -> Nat] /\ h[1] = a /\ h[n + 1] = a + 1
  BY <1>2 DEF Numbers
<1>. HIDE DEF w, n
<1>. DEFINE g == [q \in 1..((4 + n) + 1) |->
                    IF q = 2 THEN a + 2 ELSE IF q <= 4 THEN a + 1 ELSE h[q - 4]]
<1>6. ASSUME NEW q \in 1..(n + 1) PROVE 4 + q \in DOMAIN g /\ g[4 + q] = h[q]
  <2>1. 4 + q \in 1..((4 + n) + 1) /\ 4 + q # 2 /\ ~(4 + q <= 4) /\ (4 + q) - 4 = q
    BY <1>4
  <2>. QED BY <2>1
<1>7. /\ DOMAIN g = 1..((4 + n) + 1)
      /\ g[1] = a + 1 /\ g[2] = a + 2 /\ g[3] = a + 1 /\ g[4] = a + 1
  <2>1. /\ 1 \in 1..((4 + n) + 1) /\ 2 \in 1..((4 + n) + 1)
        /\ 3 \in 1..((4 + n) + 1) /\ 4 \in 1..((4 + n) + 1)
    BY <1>4
  <2>. QED BY <2>1
<1>8. g \in [1..((4 + n) + 1) -> Nat]
  <2>1. ASSUME NEW q \in 1..((4 + n) + 1)
        PROVE  (IF q = 2 THEN a + 2 ELSE IF q <= 4 THEN a + 1 ELSE h[q - 4]) \in Nat
    <3>1. ~(q <= 4) => q - 4 \in 1..(n + 1)
      BY <1>4
    <3>. QED BY <1>5, <3>1
  <2>. QED BY <2>1
<1>. HIDE DEF g
<1>9. g[5] = a /\ g[(4 + n) + 1] = a + 1
  <2>1. 1 \in 1..(n + 1) /\ n + 1 \in 1..(n + 1) /\ 4 + 1 = 5 /\ 4 + (n + 1) = (4 + n) + 1
    BY <1>4
  <2>2. g[4 + 1] = h[1] /\ g[4 + (n + 1)] = h[n + 1]
    BY <1>6, <2>1
  <2>. QED BY <1>5, <2>1, <2>2
<1>10. /\ 2 \in DOMAIN g /\ 3 \in DOMAIN g /\ 4 \in DOMAIN g /\ 5 \in DOMAIN g
       /\ (4 + n) + 1 \in DOMAIN g
  BY <1>4, <1>7
<1>11. Goes(w[1], 1, g, exits)
  <2>. DEFINE x == <<"DUP">>
  <2>1. x[1] = "DUP" /\ Len(x) = 1
    OBVIOUS
  <2>. HIDE DEF x
  <2>2. x[1] \notin Counted /\ x[1] \notin Jumps /\ Pushes(x) = 2
    BY <2>1 DEF Counted, Jumps, Pushes
  <2>3. Pops(x) = 1
    BY <2>1, <2>2, PopsAre
  <2>4. After(x, a + 1) = a + 2
    BY <2>2, <2>3 DEF After
  <2>5. Reaches(1 + 1, After(x, g[1]), g)
    BY <1>7, <1>10, <2>4 DEF Reaches
  <2>6. g[1] \in Nat /\ Pops(x) <= g[1]
    BY <1>7, <2>3
  <2>7. Goes(x, 1, g, exits)
    BY <2>1, <2>2, <2>5, <2>6 DEF Goes
  <2>. QED BY <1>4, <2>7 DEF x
<1>12. Goes(w[2], 2, g, exits)
  <2>1. PICK k \in Nat : k = a + 1
    OBVIOUS
  <2>2. Reaches(2 + 2, k, g) /\ Reaches(2 + 1, k, g)
    BY <1>7, <1>10, <2>1 DEF Reaches
  <2>3. op \in Jumps /\ op # "JUMP"
    BY DEF Jumps
  <2>4. g[2] = IF op = "JUMP" THEN k ELSE k + 1
    BY <1>7, <2>1, <2>3
  <2>5. Goes(<<op, 2>>, 2, g, exits)
    BY <2>2, <2>3, <2>4, JumpGoes
  <2>. QED BY <1>4, <2>5
<1>13. Goes(w[3], 3, g, exits)
  <2>1. 3 + (n + 2) = (4 + n) + 1 /\ n + 2 \in Int
    BY <1>4
  <2>2. Reaches(3 + (n + 2), a + 1, g)
    BY <1>9, <1>10, <2>1 DEF Reaches
  <2>3. "JUMP" \in Jumps /\ a + 1 \in Nat
    BY DEF Jumps
  <2>4. Goes(<<"JUMP", n + 2>>, 3, g, exits)
    BY <1>7, <2>1, <2>2, <2>3, JumpGoes
  <2>. QED BY <1>4, <2>4
<1>14. Goes(w[4], 4, g, exits)
  <2>. DEFINE x == <<"POP">>
  <2>1. x[1] = "POP" /\ Len(x) = 1
    OBVIOUS
  <2>. HIDE DEF x
  <2>2. x[1] \notin Counted /\ x[1] \notin Jumps /\ Pushes(x) = 0
    BY <2>1 DEF Counted, Jumps, Pushes
  <2>3. Pops(x) = 1
    BY <2>1, <2>2, PopsAre
  <2>4. After(x, a + 1) = a
    BY <2>2, <2>3 DEF After
  <2>5. Reaches(4 + 1, After(x, g[4]), g)
    BY <1>7, <1>9, <1>10, <2>4 DEF Reaches
  <2>6. g[4] \in Nat /\ Pops(x) <= g[4]
    BY <1>7, <2>3
  <2>7. Goes(x, 4, g, exits)
    BY <2>1, <2>2, <2>5, <2>6 DEF Goes
  <2>. QED BY <1>4, <2>7 DEF x
<1>15. Runs(w, g, exits, 4, n)
  <2>1. Lies(c, h, w, g, 4)
    BY <1>4, <1>6 DEF Lies, n
  <2>. QED BY <1>1, <1>2, <2>1, Laid DEF n
<1>16. ASSUME NEW j \in 1..(4 + n) PROVE Goes(w[j], j, g, exits)
  <2>1. j = 1 \/ j = 2 \/ j = 3 \/ j = 4 \/ j \in (4 + 1)..(4 + n)
    BY <1>4
  <2>. QED BY <1>11, <1>12, <1>13, <1>14, <1>15, <2>1 DEF Runs
<1>17. Numbers(w, a + 1, a + 1, exits, g)
  BY <1>4, <1>7, <1>8, <1>9, <1>16 DEF Numbers
<1>. QED BY <1>3, <1>4, <1>17 DEF Good

\* A condition and its two ways.
LEMMA GoodIfElse ==
  ASSUME NEW c, NEW d, NEW a \in Nat, NEW exits, Good(c, a, a, exits), Good(d, a, a, exits)
  PROVE  Good(IfElse(c, d), a + 1, a, exits)
<1>1. IsSeq(c) /\ IsSeq(d)
  BY DEF Good
<1>2. PICK h : Numbers(c, a, a, exits, h)
  BY DEF Good
<1>3. PICK k : Numbers(d, a, a, exits, k)
  BY DEF Good
<1>. DEFINE m == Len(c)
            n == Len(d)
            y == <<"JUMP", n + 1>>
            b == Append(c, y)
            x == <<"JUMPIFFALSE", Len(b) + 1>>
            v == <<x>> \o b
            w == v \o d
<1>4. IfElse(c, d) = w
  BY DEF IfElse, If
<1>5. /\ m \in Nat /\ h \in [1..(m + 1) -> Nat] /\ h[1] = a /\ h[m + 1] = a
      /\ n \in Nat /\ k \in [1..(n + 1) -> Nat] /\ k[1] = a /\ k[n + 1] = a
  BY <1>1, <1>2, <1>3, SeqIs DEF Numbers
<1>6. IsSeq(b) /\ Len(b) = m + 1 /\ b[m + 1] = y /\ \A i \in 1..m : b[i] = c[i]
  <2>. HIDE DEF y
  <2>. QED BY <1>1, Ended
<1>. HIDE DEF b, m, n
<1>7. PICK r \in Nat : r = m + 2
  BY <1>5
<1>8. x = <<"JUMPIFFALSE", r>> /\ Len(b) = r - 1 /\ r - 1 \in Nat /\ m + 1 = r - 1
  BY <1>5, <1>6, <1>7
<1>9. IsSeq(v) /\ Len(v) = r /\ v[1] = x /\ \A i \in 1..(r - 1) : v[1 + i] = b[i]
  <2>. HIDE DEF x
  <2>1. IsSeq(v) /\ Len(v) = 1 + Len(b) /\ v[1] = x /\ \A i \in 1..Len(b) : v[1 + i] = b[i]
    BY <1>6, Begun
  <2>2. 1 + (r - 1) = r
    OBVIOUS
  <2>. HIDE DEF v
  <2>. QED BY <1>8, <2>1, <2>2
<1>10. v[r] = y /\ \A i \in 1..m : v[1 + i] = c[i]
  <2>1. m + 1 \in 1..(r - 1) /\ 1 + (m + 1) = r /\ \A i \in 1..m : i \in 1..(r - 1)
    BY <1>5, <1>7
  <2>2. v[1 + (m + 1)] = b[m + 1]
    BY <1>9, <2>1
  <2>3. \A i \in 1..m : v[1 + i] = b[i]
    BY <1>9, <2>1
  <2>. HIDE DEF v, y
  <2>. QED BY <1>6, <2>1, <2>2, <2>3
<1>. HIDE DEF v
<1>11. /\ IsSeq(w) /\ Len(w) = r + n
       /\ \A i \in 1..r : w[i] = v[i]
  BY <1>1, <1>9, Joined DEF n
<1>12. \A i \in 1..n : w[r + i] = d[i]
  <2>1. IsSeq(v)
    BY <1>9
  <2>2. \A i \in 1..Len(d) : (v \o d)[Len(v) + i] = d[i]
    BY <1>1, <2>1, Joined
  <2>. QED BY <1>9, <2>2 DEF n
<1>. HIDE DEF w
<1>13. w[1] = x /\ w[r] = y /\ \A i \in 1..m : w[1 + i] = c[i]
  <2>1. 1 \in 1..r /\ r \in 1..r /\ \A i \in 1..m : 1 + i \in 1..r
    BY <1>5, <1>7
  <2>. HIDE DEF x, y
  <2>. QED BY <1>9, <1>10, <1>11, <2>1
<1>. DEFINE g == [q \in 1..((r + n) + 1) |->
                    IF q = 1 THEN a + 1 ELSE IF q <= r THEN h[q - 1] ELSE k[q - r]]
<1>14. ASSUME NEW q \in 1..(m + 1) PROVE 1 + q \in DOMAIN g /\ g[1 + q] = h[q]
  <2>1. 1 + q \in 1..((r + n) + 1) /\ 1 + q # 1 /\ 1 + q <= r /\ (1 + q) - 1 = q
    BY <1>5, <1>7
  <2>. QED BY <2>1
<1>15. ASSUME NEW q \in 1..(n + 1) PROVE r + q \in DOMAIN g /\ g[r + q] = k[q]
  <2>1. r + q \in 1..((r + n) + 1) /\ r + q # 1 /\ ~(r + q <= r) /\ (r + q) - r = q
    BY <1>5, <1>7
  <2>. QED BY <2>1
<1>16. g \in [1..((r + n) + 1) -> Nat] /\ g[1] = a + 1
  <2>1. ASSUME NEW q \in 1..((r + n) + 1)
        PROVE  (IF q = 1 THEN a + 1 ELSE IF q <= r THEN h[q - 1] ELSE k[q - r]) \in Nat
    <3>1. CASE q = 1
      BY <3>1
    <3>2. CASE q # 1 /\ q <= r
      <4>1. q - 1 \in 1..(m + 1)
        BY <1>5, <1>7, <3>2
      <4>. QED BY <1>5, <3>2, <4>1
    <3>3. CASE q # 1 /\ ~(q <= r)
      <4>1. q - r \in 1..(n + 1)
        BY <1>5, <1>7, <3>3
      <4>. QED BY <1>5, <3>3, <4>1
    <3>. QED BY <3>1, <3>2, <3>3
  <2>2. 1 \in 1..((r + n) + 1)
    BY <1>5, <1>7
  <2>. QED BY <2>1, <2>2
<1>. HIDE DEF g
<1>17. /\ g[2] = a /\ g[r] = a /\ g[r + 1] = a /\ g[(r + n) + 1] = a
       /\ 2 \in DOMAIN g /\ r + 1 \in DOMAIN g /\ (r + n) + 1 \in DOMAIN g
  <2>1. /\ 1 \in 1..(m + 1) /\ m + 1 \in 1..(m + 1) /\ 1 \in 1..(n + 1) /\ n + 1 \in 1..(n + 1)
        /\ 1 + 1 = 2 /\ 1 + (m + 1) = r /\ r + (n + 1) = (r + n) + 1
    BY <1>5, <1>7
  <2>2. /\ g[1 + 1] = h[1] /\ g[1 + (m + 1)] = h[m + 1]
        /\ g[r + 1] = k[1] /\ g[r + (n + 1)] = k[n + 1]
        /\ 1 + 1 \in DOMAIN g /\ r + 1 \in DOMAIN g /\ r + (n + 1) \in DOMAIN g
    BY <1>14, <1>15, <2>1
  <2>. QED BY <1>5, <2>1, <2>2
<1>18. Goes(w[1], 1, g, exits)
  <2>1. Reaches(1 + r, a, g) /\ Reaches(1 + 1, a, g)
    <3>1. 1 + r = r + 1 /\ 1 + 1 = 2
      OBVIOUS
    <3>. QED BY <1>17, <3>1 DEF Reaches
  <2>2. "JUMPIFFALSE" \in Jumps /\ r \in Int
    BY DEF Jumps
  <2>3. Goes(<<"JUMPIFFALSE", r>>, 1, g, exits)
    BY <1>16, <2>1, <2>2, JumpGoes
  <2>. QED BY <1>8, <1>13, <2>3
<1>19. Goes(w[r], r, g, exits)
  <2>1. r + (n + 1) = (r + n) + 1 /\ n + 1 \in Int
    BY <1>5
  <2>2. Reaches(r + (n + 1), a, g)
    BY <1>17, <2>1 DEF Reaches
  <2>3. "JUMP" \in Jumps
    BY DEF Jumps
  <2>4. Goes(<<"JUMP", n + 1>>, r, g, exits)
    BY <1>17, <2>1, <2>2, <2>3, JumpGoes
  <2>. QED BY <1>13, <2>4
<1>20. Runs(w, g, exits, 1, m)
  <2>1. Lies(c, h, w, g, 1)
    BY <1>13, <1>14 DEF Lies, m
  <2>. QED BY <1>1, <1>2, <2>1, Laid DEF m
<1>21. Runs(w, g, exits, r, n)
  <2>1. Lies(d, k, w, g, r)
    BY <1>12, <1>15 DEF Lies, n
  <2>. QED BY <1>1, <1>3, <2>1, Laid DEF n
<1>22. ASSUME NEW j \in 1..(r + n) PROVE Goes(w[j], j, g, exits)
  <2>1. j = 1 \/ j \in (1 + 1)..(1 + m) \/ j = r \/ j \in (r + 1)..(r + n)
    BY <1>5, <1>7
  <2>. QED BY <1>18, <1>19, <1>20, <1>21, <2>1 DEF Runs
<1>23. Numbers(w, a + 1, a, exits, g)
  BY <1>11, <1>16, <1>17, <1>22 DEF Numbers
<1>. QED BY <1>4, <1>11, <1>23 DEF Good

\* A POP, when the place behind it takes one operand less.
LEMMA PopGoes ==
  ASSUME NEW i, NEW n \in Nat, NEW h, NEW exits, h[i] = n + 1, Reaches(i + 1, n, h)
  PROVE  Goes(<<"POP">>, i, h, exits)
<1>. DEFINE x == <<"POP">>
<1>1. x[1] = "POP" /\ Len(x) = 1
  OBVIOUS
<1>. HIDE DEF x
<1>2. x[1] \notin Counted /\ x[1] \notin Jumps /\ Pushes(x) = 0
  BY <1>1 DEF Counted, Jumps, Pushes
<1>3. Pops(x) = 1
  BY <1>1, <1>2, PopsAre
<1>4. After(x, h[i]) = n
  BY <1>2, <1>3 DEF After
<1>5. h[i] \in Nat /\ Pops(x) <= h[i]
  BY <1>3
<1>6. Goes(x, i, h, exits)
  BY <1>1, <1>2, <1>4, <1>5 DEF Goes
<1>. QED BY <1>6 DEF x

\* A jump to a label that has no place yet.
LEMMA AwayGoes ==
  ASSUME NEW label, NEW i, NEW h, NEW exits, h[i] \in Nat, Reaches(label, h[i], exits)
  PROVE  Goes(JumpTo("JUMP", label), i, h, exits)
<1>. DEFINE x == <<"JUMP", "label", label>>
<1>1. x[1] = "JUMP" /\ Len(x) = 3 /\ x[3] = label
  OBVIOUS
<1>. HIDE DEF x
<1>2. Pops(x) = 0 /\ After(x, h[i]) = h[i] /\ x[1] \in Jumps /\ x[1] \notin Counted
  BY <1>1, JumpEffect
<1>3. Pops(x) <= h[i]
  BY <1>2
<1>4. Goes(x, i, h, exits)
  BY <1>1, <1>2, <1>3 DEF Goes
<1>. QED BY <1>4 DEF x, JumpTo

\* Tests of items that fail with the item on the stack, which is popped for them.
LEMMA GoodTail ==
  ASSUME NEW c, NEW a \in Nat, NEW exits, NEW others, NEW l, NEW label, Good(c, a, a, exits),
         exits[l] \in Nat => a + 1 <= exits[l], AsksBut(l, exits, others), Reaches(label, a, others)
  PROVE  Good(UseLabel(c \o << <<"JUMP", 3>> >>, l) \o << <<"POP">>, JumpTo("JUMP", label) >>,
              a, a, others)
<1>1. IsSeq(c)
  BY DEF Good
<1>2. PICK h : Numbers(c, a, a, exits, h)
  BY DEF Good
<1>. DEFINE m == Len(c)
            x == <<"JUMP", 3>>
            y == <<"POP">>
            z == JumpTo("JUMP", label)
            s == << y, z >>
            b == c \o << x >>
            u == UseLabel(b, l)
            w == u \o s
<1>3. m \in Nat /\ h \in [1..(m + 1) -> Nat] /\ h[1] = a /\ h[m + 1] = a
      /\ \A i \in 1..m : Goes(c[i], i, h, exits)
  BY <1>1, <1>2, SeqIs DEF Numbers
<1>4. IsSeq(b) /\ Len(b) = m + 1 /\ b[m + 1] = x /\ \A i \in 1..m : b[i] = c[i]
  <2>. HIDE DEF x
  <2>1. /\ IsSeq(Append(c, x)) /\ Len(Append(c, x)) = Len(c) + 1 /\ Append(c, x) = b
        /\ Append(c, x)[Len(c) + 1] = x /\ \A i \in 1..Len(c) : Append(c, x)[i] = c[i]
    BY <1>1, Ended
  <2>. QED BY <2>1
<1>5. Len(x) # 3
  OBVIOUS
<1>. HIDE DEF x, b
<1>6. /\ IsSeq(u) /\ Len(u) = m + 1
      /\ \A i \in 1..(m + 1) : u[i] = IF Len(b[i]) = 3 /\ b[i][3] = l
                                      THEN <<b[i][1], (m + 1) + 1 - i>> ELSE b[i]
  <2>1. IsSeq(b)
    BY <1>4
  <2>. HIDE DEF m, s, y, z
  <2>2. /\ IsSeq(UseLabel(b, l)) /\ Len(UseLabel(b, l)) = Len(b)
        /\ \A i \in 1..Len(b) :
             UseLabel(b, l)[i] = IF Len(b[i]) = 3 /\ b[i][3] = l
                                 THEN <<b[i][1], Len(b) + 1 - i>> ELSE b[i]
    BY <2>1, UsedIs
  <2>3. Len(b) = m + 1
    BY <1>4
  <2>4. UseLabel(b, l) = u
    OBVIOUS
  <2>. HIDE DEF m, u
  <2>. QED BY <2>2, <2>3, <2>4, Zenon
<1>. HIDE DEF u
<1>7. u[m + 1] = x
  <2>1. m + 1 \in 1..(m + 1)
    BY <1>3
  <2>. QED BY <1>4, <1>5, <1>6, <2>1
<1>8. ASSUME NEW i \in 1..m
      PROVE  u[i] = IF Len(c[i]) = 3 /\ c[i][3] = l THEN <<c[i][1], (m + 2) - i>> ELSE c[i]
  <2>1. i \in 1..(m + 1) /\ (m + 1) + 1 - i = (m + 2) - i
    BY <1>3
  <2>2. b[i] = c[i]
    BY <1>4
  <2>. HIDE DEF m
  <2>. QED BY <1>6, <2>1, <2>2, Zenon
<1>9. s \in Seq({y, z}) /\ Len(s) = 2 /\ s[1] = y /\ s[2] = z
  <2>. HIDE DEF y, z
  <2>. QED OBVIOUS
<1>. HIDE DEF s, y, z
<1>10. IsSeq(s)
  BY <1>9 DEF IsSeq
<1>11. IsSeq(u)
  BY <1>6
<1>12. /\ IsSeq(w) /\ Len(w) = Len(u) + Len(s)
       /\ \A i \in 1..Len(u) : w[i] = u[i]
  BY <1>10, <1>11, Joined
<1>13. \A i \in 1..Len(s) : w[Len(u) + i] = s[i]
  BY <1>10, <1>11, Joined
<1>. HIDE DEF w, m
<1>14. /\ Len(w) = m + 3 /\ w[m + 1] = x /\ w[m + 2] = y /\ w[m + 3] = z
       /\ \A i \in 1..m : w[i] = u[i]
  <2>1. /\ (m + 1) + 2 = m + 3 /\ (m + 1) + 1 = m + 2 /\ m + 1 \in 1..(m + 1)
        /\ 1 \in 1..2 /\ 2 \in 1..2 /\ \A i \in 1..m : i \in 1..(m + 1)
    BY <1>3
  <2>2. Len(w) = m + 3
    BY <1>6, <1>9, <1>12, <2>1
  <2>3. w[(m + 1) + 1] = s[1] /\ w[(m + 1) + 2] = s[2]
    BY <1>6, <1>9, <1>13, <2>1
  <2>4. w[m + 1] = u[m + 1] /\ \A i \in 1..m : w[i] = u[i]
    BY <1>6, <1>12, <2>1
  <2>. QED BY <1>7, <1>9, <2>1, <2>2, <2>3, <2>4
<1>. DEFINE g == [q \in 1..((m + 3) + 1) |->
                    IF q <= m + 1 THEN h[q] ELSE IF q = m + 2 THEN a + 1 ELSE a]
<1>15. /\ \A q \in 1..(m + 1) : q \in DOMAIN g /\ g[q] = h[q]
       /\ g[m + 2] = a + 1 /\ g[m + 3] = a /\ g[(m + 3) + 1] = a
       /\ DOMAIN g = 1..((m + 3) + 1)
  <2>1. \A q \in 1..(m + 1) : q \in 1..((m + 3) + 1) /\ q <= m + 1
    BY <1>3
  <2>2. /\ m + 2 \in 1..((m + 3) + 1) /\ ~(m + 2 <= m + 1)
        /\ m + 3 \in 1..((m + 3) + 1) /\ ~(m + 3 <= m + 1) /\ m + 3 # m + 2
        /\ (m + 3) + 1 \in 1..((m + 3) + 1) /\ ~((m + 3) + 1 <= m + 1) /\ (m + 3) + 1 # m + 2
    BY <1>3
  <2>. QED BY <2>1, <2>2
<1>16. g \in [1..((m + 3) + 1) -> Nat]
  <2>1. ASSUME NEW q \in 1..((m + 3) + 1)
        PROVE  (IF q <= m + 1 THEN h[q] ELSE IF q = m + 2 THEN a + 1 ELSE a) \in Nat
    <3>1. q <= m + 1 => q \in 1..(m + 1)
      BY <1>3
    <3>. QED BY <1>3, <3>1
  <2>. QED BY <2>1
<1>. HIDE DEF g
<1>17. g[1] = a /\ g[m + 1] = a
  <2>1. 1 \in 1..(m + 1) /\ m + 1 \in 1..(m + 1)
    BY <1>3
  <2>. QED BY <1>3, <1>15, <2>1
<1>18. ASSUME NEW i \in 1..m PROVE Goes(w[i], i, g, others)
  <2>. DEFINE e == c[i]
              d == (m + 2) - i
  <2>1. Goes(e, i, h, exits)
    BY <1>3
  <2>. HIDE DEF e
  <2>2. \A q \in DOMAIN h : q \in DOMAIN g /\ (h[q] \in Nat => g[q] \in Nat /\ g[q] <= h[q])
    <3>1. ASSUME NEW q \in 1..(m + 1) PROVE q \in DOMAIN g /\ g[q] \in Nat /\ g[q] <= h[q]
      <4>1. q \in DOMAIN g /\ g[q] = h[q] /\ h[q] \in Nat
        BY <1>3, <1>15
      <4>. QED BY <4>1
    <3>. QED BY <1>3, <3>1
  <2>3. g[i] = h[i] /\ i \in Nat
    <3>1. i \in 1..(m + 1)
      BY <1>3
    <3>. QED BY <1>15, <3>1
  <2>4. Goes(e, i, g, exits)
    BY <2>1, <2>2, <2>3, GoesLower
  <2>5. d \in Int /\ i + d = m + 2 /\ m + 2 \in 1..((m + 3) + 1)
    BY <1>3
  <2>. HIDE DEF d
  <2>6. i + d \in DOMAIN g /\ g[i + d] \in Nat /\ (exits[l] \in Nat => g[i + d] <= exits[l])
    BY <1>15, <2>5
  <2>7. Goes(IF Len(e) = 3 /\ e[3] = l THEN <<e[1], d>> ELSE e, i, g, others)
    BY <2>3, <2>4, <2>5, <2>6, UsedGoes
  <2>8. w[i] = IF Len(e) = 3 /\ e[3] = l THEN <<e[1], d>> ELSE e
    BY <1>8, <1>14 DEF e, d
  <2>. QED BY <2>7, <2>8
<1>19. Goes(w[m + 1], m + 1, g, others)
  <2>1. (m + 1) + 3 = (m + 3) + 1 /\ 3 \in Int /\ (m + 3) + 1 \in 1..((m + 3) + 1)
    BY <1>3
  <2>2. Reaches((m + 1) + 3, a, g)
    BY <1>15, <2>1 DEF Reaches
  <2>3. "JUMP" \in Jumps
    BY DEF Jumps
  <2>4. Goes(<<"JUMP", 3>>, m + 1, g, others)
    BY <1>17, <2>1, <2>2, <2>3, JumpGoes
  <2>. QED BY <1>14, <2>4 DEF x
<1>20. Goes(w[m + 2], m + 2, g, others)
  <2>1. (m + 2) + 1 = m + 3 /\ m + 3 \in 1..((m + 3) + 1)
    BY <1>3
  <2>2. Reaches((m + 2) + 1, a, g)
    BY <1>15, <2>1 DEF Reaches
  <2>3. Goes(<<"POP">>, m + 2, g, others)
    BY <1>15, <2>2, PopGoes
  <2>. QED BY <1>14, <2>3 DEF y
<1>21. Goes(w[m + 3], m + 3, g, others)
  <2>1. Goes(JumpTo("JUMP", label), m + 3, g, others)
    BY <1>15, AwayGoes
  <2>. QED BY <1>14, <2>1 DEF z
<1>22. ASSUME NEW j \in 1..(m + 3) PROVE Goes(w[j], j, g, others)
  <2>1. j \in 1..m \/ j = m + 1 \/ j = m + 2 \/ j = m + 3
    BY <1>3
  <2>. QED BY <1>18, <1>19, <1>20, <1>21, <2>1
<1>23. Numbers(w, a, a, others, g)
  BY <1>14, <1>15, <1>16, <1>17, <1>22 DEF Numbers
<1>. QED BY <1>12, <1>23 DEF Good, w, u, b, s, x, y, z

\* The parts of Flatten come one after another.
LEMMA FlattenIs ==
  ASSUME NEW parts, Len(parts) \in Nat, \A i \in 1..Len(parts) : IsSeq(parts[i])
  PROVE  \E upto : /\ upto[0] = <<>> /\ Flatten(parts) = upto[Len(parts)]
                   /\ \A i \in 1..Len(parts) : upto[i] = upto[i - 1] \o parts[i]
<1>. DEFINE n == Len(parts)
            A(i) == parts[i]
            T == UNION { { parts[i][j] : j \in 1..Len(parts[i]) } : i \in 1..n }
            P == Seq(T)
            Eq(g) == g = [i \in 0..n |-> IF i = 0 THEN <<>> ELSE g[i - 1] \o A(i)]
            made == CHOOSE g : Eq(g)
<1>1. Flatten(parts) = made[n]
  BY DEF Flatten
<1>2. ASSUME NEW i \in 1..n PROVE A(i) \in P
  <2>1. PICK S : parts[i] \in Seq(S)
    BY DEF IsSeq
  <2>2. PICK c : c = parts[i]
    OBVIOUS
  <2>3. c \in Seq(S) /\ \A j \in 1..Len(c) : c[j] \in T
    BY <2>1, <2>2
  <2>. HIDE DEF T
  <2>4. Len(c) \in Nat /\ c \in [1..Len(c) -> S]
    BY <2>3, LenProperties
  <2>5. c \in [1..Len(c) -> T]
    BY <2>3, <2>4
  <2>6. c \in Seq(T)
    BY <2>4, <2>5, MakesSeq
  <2>. QED BY <2>2, <2>6
<1>3. n \in Nat
  OBVIOUS
<1>. HIDE DEF n, A, T
<1>4. <<>> \in P
  BY EmptySeq
<1>5. \A p \in P : \A i \in 1..n : p \o A(i) \in P
  BY <1>2, ConcatProperties
<1>. HIDE DEF P
<1>6. \E g : Eq(g)
  <2>. DEFINE f == [i \in 1..n |-> [p \in P |-> p \o A(i)]]
  <2>1. f \in [1..n -> [P -> P]]
    BY <1>5
  <2>2. \A i \in 1..n : \A p \in P : f[i][p] = p \o A(i)
    OBVIOUS
  <2>. HIDE DEF f
  <2>3. PICK g : Builds(g, n, <<>>, f, P)
    BY <1>3, <1>4, <2>1, CanBeBuilt
  <2>4. g \in [0..n -> P] /\ g[0] = <<>> /\ \A k \in 1..n : g[k] = f[k][g[k - 1]]
    BY <2>3 DEF Builds
  <2>5. ASSUME NEW i \in 0..n PROVE g[i] = IF i = 0 THEN <<>> ELSE g[i - 1] \o A(i)
    <3>1. CASE i = 0
      BY <2>4, <3>1
    <3>2. CASE i # 0
      <4>1. i \in 1..n /\ i - 1 \in 0..n
        BY <1>3, <3>2
      <4>2. g[i - 1] \in P /\ g[i] = f[i][g[i - 1]]
        BY <2>4, <4>1
      <4>. QED BY <2>2, <3>2, <4>1, <4>2
    <3>. QED BY <3>1, <3>2
  <2>6. Eq(g)
    BY <2>4, <2>5
  <2>. QED BY <2>6
<1>7. Eq(made)
  <2>. HIDE DEF Eq
  <2>. QED BY <1>6
<1>8. made = [i \in 0..n |-> IF i = 0 THEN <<>> ELSE made[i - 1] \o A(i)]
  BY <1>7
<1>. HIDE DEF made
<1>9. made[0] = <<>> /\ \A i \in 1..n : made[i] = made[i - 1] \o A(i)
  <2>1. 0 \in 0..n /\ \A i \in 1..n : i \in 0..n /\ i # 0
    BY <1>3
  <2>. QED BY <1>8, <2>1
<1>. QED BY <1>1, <1>9 DEF A, n

\* Good parts, each from where the one before it got.
LEMMA GoodFlatten ==
  ASSUME NEW parts, NEW n \in Nat, Len(parts) = n, NEW f \in [0..n -> Nat], NEW exits,
         \A i \in 1..n : Good(parts[i], f[i - 1], f[i], exits)
  PROVE  Good(Flatten(parts), f[0], f[n], exits)
<1>1. \A i \in 1..n : IsSeq(parts[i])
  BY DEF Good
<1>2. PICK upto : /\ upto[0] = <<>> /\ Flatten(parts) = upto[n]
                  /\ \A i \in 1..n : upto[i] = upto[i - 1] \o parts[i]
  BY <1>1, FlattenIs
<1>. DEFINE T == { i \in 0..n : ~Good(upto[i], f[0], f[i], exits) }
<1>3. T = {}
  <2>1. SUFFICES ASSUME T # {} PROVE FALSE
    OBVIOUS
  <2>2. T \subseteq Nat
    OBVIOUS
  <2>3. PICK m \in T : \A k \in T : m <= k
    <3>. HIDE DEF T
    <3>. QED BY <2>1, <2>2, NatMin
  <2>4. m \in 0..n /\ ~Good(upto[m], f[0], f[m], exits)
    BY <2>3
  <2>5. m # 0
    <3>1. 0 \in 0..n /\ f[0] \in Nat
      OBVIOUS
    <3>2. Good(<<>>, f[0], f[0], exits)
      BY <3>1, GoodNothing
    <3>. QED BY <1>2, <2>4, <3>2
  <2>6. m \in 1..n /\ m - 1 \in 0..n /\ ~(m <= m - 1)
    BY <2>4, <2>5
  <2>7. Good(upto[m - 1], f[0], f[m - 1], exits)
    BY <2>3, <2>6
  <2>8. Good(parts[m], f[m - 1], f[m], exits)
    BY <2>6
  <2>9. Good(upto[m - 1] \o parts[m], f[0], f[m], exits)
    BY <2>7, <2>8, Glue
  <2>. QED BY <1>2, <2>4, <2>6, <2>9
<1>4. n \in 0..n
  OBVIOUS
<1>5. Good(upto[n], f[0], f[n], exits)
  BY <1>3, <1>4
<1>. QED BY <1>2, <1>5

\* Good parts that leave as much as they find.
LEMMA GoodAll ==
  ASSUME NEW parts, Len(parts) \in Nat, NEW a \in Nat, NEW exits,
         \A i \in 1..Len(parts) : Good(parts[i], a, a, exits)
  PROVE  Good(Flatten(parts), a, a, exits)
<1>1. PICK n \in Nat : n = Len(parts)
  OBVIOUS
<1>2. PICK f : f = [i \in 0..n |-> a]
  OBVIOUS
<1>3. f \in [0..n -> Nat] /\ f[0] = a /\ f[n] = a
  BY <1>2
<1>4. ASSUME NEW i \in 1..n PROVE Good(parts[i], f[i - 1], f[i], exits)
  <2>1. i \in 0..n /\ i - 1 \in 0..n
    OBVIOUS
  <2>2. f[i] = a /\ f[i - 1] = a
    BY <1>2, <2>1
  <2>. QED BY <1>1, <2>2
<1>5. Good(Flatten(parts), f[0], f[n], exits)
  BY <1>1, <1>3, <1>4, GoodFlatten
<1>. QED BY <1>3, <1>5

\* Good parts that each leave one more.
LEMMA GoodEach ==
  ASSUME NEW parts, Len(parts) \in Nat, NEW a \in Nat, NEW exits,
         \A i \in 1..Len(parts) : \A b \in Nat : Good(parts[i], b, b + 1, exits)
  PROVE  Good(Flatten(parts), a, a + Len(parts), exits)
<1>1. PICK n \in Nat : n = Len(parts)
  OBVIOUS
<1>2. PICK f : f = [i \in 0..n |-> a + i]
  OBVIOUS
<1>3. f \in [0..n -> Nat] /\ f[0] = a /\ f[n] = a + n
  <2>1. 0 \in 0..n /\ n \in 0..n /\ a + 0 = a /\ \A i \in 0..n : a + i \in Nat
    OBVIOUS
  <2>. QED BY <1>2, <2>1
<1>4. ASSUME NEW i \in 1..n PROVE Good(parts[i], f[i - 1], f[i], exits)
  <2>1. i \in 0..n /\ i - 1 \in 0..n
    OBVIOUS
  <2>2. PICK b \in Nat : b = a + (i - 1)
    OBVIOUS
  <2>3. f[i - 1] = b /\ f[i] = b + 1
    BY <1>2, <2>1, <2>2
  <2>. QED BY <1>1, <2>3
<1>5. Good(Flatten(parts), f[0], f[n], exits)
  BY <1>1, <1>3, <1>4, GoodFlatten
<1>. QED BY <1>1, <1>3, <1>5

Pushing == {"PUSHCONST", "PUSHNAME", "PUSHNIL"}
Taking == {"POP", "STORENAME"}
Turning == {"NOT", "GETCLASS", "GETATTR", "SPAWN", "MAKECLOSURE"}
Joining == {"GETITEM"} \union Comparisons \union Arithmetic

\* What the instructions that are no jumps take and leave.
LEMMA Effects ==
  ASSUME NEW x
  PROVE  /\ x[1] \in Pushing => Pops(x) = 0 /\ Pushes(x) = 1
         /\ x[1] \in Taking => Pops(x) = 1 /\ Pushes(x) = 0
         /\ x[1] \in Turning => Pops(x) = 1 /\ Pushes(x) = 1
         /\ x[1] \in Joining => Pops(x) = 2 /\ Pushes(x) = 1
         /\ x[1] = "DUP" => Pops(x) = 1 /\ Pushes(x) = 2
         /\ x[1] \in Pushing \union Taking \union Turning \union Joining \union {"DUP"} =>
              x[1] \notin Counted /\ x[1] \notin Jumps
<1>1. x[1] \in Pushing \union Taking \union Turning \union Joining \union {"DUP"} =>
        x[1] \notin Counted /\ x[1] \notin Jumps
  BY DEF Pushing, Taking, Turning, Joining, Comparisons, Arithmetic, Counted, Jumps
<1>2. x[1] \in Pushing => Pops(x) = 0 /\ Pushes(x) = 1
  BY <1>1, PopsAre DEF Pushing, Pushes, Jumps
<1>3. x[1] \in Taking => Pops(x) = 1 /\ Pushes(x) = 0
  BY <1>1, PopsAre DEF Taking, Pushes
<1>4. x[1] \in Turning => Pops(x) = 1 /\ Pushes(x) = 1
  BY <1>1, PopsAre DEF Turning, Pushes, Jumps
<1>5. x[1] \in Joining => Pops(x) = 2 /\ Pushes(x) = 1
  BY <1>1, PopsAre DEF Joining, Pushes, Jumps, Comparisons, Arithmetic
<1>6. x[1] = "DUP" => Pops(x) = 1 /\ Pushes(x) = 2
  BY <1>1, PopsAre DEF Pushes, Jumps
<1>. QED BY <1>1, <1>2, <1>3, <1>4, <1>5, <1>6

\* An instruction that takes n and leaves k more.
LEMMA GoodStep ==
  ASSUME NEW x, NEW a \in Nat, NEW b \in Nat, NEW exits, NEW n \in Nat, NEW k \in Nat,
         Pops(x) = n, Pushes(x) = k, n <= a, b = (a - n) + k,
         x[1] \in Counted => x[2] \in Nat, Len(x) # 3, x[1] \notin Jumps
  PROVE  Good(<<x>>, a, b, exits)
<1>1. After(x, a) = b
  BY DEF After
<1>. QED BY <1>1, Straight

\* An instruction that leaves one operand more.
LEMMA GoodPush ==
  ASSUME NEW x, NEW a \in Nat, NEW exits, x[1] \in Pushing, Len(x) # 3
  PROVE  Good(<<x>>, a, a + 1, exits)
<1>1. Pops(x) = 0 /\ Pushes(x) = 1 /\ x[1] \notin Counted /\ x[1] \notin Jumps
  BY Effects
<1>2. a + 1 \in Nat /\ 0 <= a /\ a + 1 = (a - 0) + 1
  OBVIOUS
<1>. QED BY <1>1, <1>2, GoodStep

\* An instruction that takes one operand.
LEMMA GoodTake ==
  ASSUME NEW x, NEW a \in Nat, NEW exits, x[1] \in Taking, Len(x) # 3
  PROVE  Good(<<x>>, a + 1, a, exits)
<1>1. Pops(x) = 1 /\ Pushes(x) = 0 /\ x[1] \notin Counted /\ x[1] \notin Jumps
  BY Effects
<1>2. a + 1 \in Nat /\ 1 <= a + 1 /\ a = ((a + 1) - 1) + 0
  OBVIOUS
<1>. QED BY <1>1, <1>2, GoodStep

\* An instruction that replaces an operand.
LEMMA GoodTurn ==
  ASSUME NEW x, NEW a \in Nat, NEW exits, x[1] \in Turning, Len(x) # 3
  PROVE  Good(<<x>>, a + 1, a + 1, exits)
<1>1. Pops(x) = 1 /\ Pushes(x) = 1 /\ x[1] \notin Counted /\ x[1] \notin Jumps
  BY Effects
<1>2. a + 1 \in Nat /\ 1 <= a + 1 /\ a + 1 = ((a + 1) - 1) + 1
  OBVIOUS
<1>. QED BY <1>1, <1>2, GoodStep

\* An instruction that makes one operand of two.
LEMMA GoodJoin ==
  ASSUME NEW x, NEW a \in Nat, NEW exits, x[1] \in Joining, Len(x) # 3
  PROVE  Good(<<x>>, a + 2, a + 1, exits)
<1>1. Pops(x) = 2 /\ Pushes(x) = 1 /\ x[1] \notin Counted /\ x[1] \notin Jumps
  BY Effects
<1>2. a + 1 \in Nat /\ a + 2 \in Nat /\ 2 <= a + 2 /\ a + 1 = ((a + 2) - 2) + 1
  OBVIOUS
<1>. QED BY <1>1, <1>2, GoodStep

\* A DUP.
LEMMA GoodDup ==
  ASSUME NEW a \in Nat, NEW exits
  PROVE  Good(<< <<"DUP">> >>, a + 1, a + 2, exits)
<1>. DEFINE x == <<"DUP">>
<1>1. x[1] = "DUP" /\ Len(x) # 3
  OBVIOUS
<1>. HIDE DEF x
<1>2. Pops(x) = 1 /\ Pushes(x) = 2 /\ x[1] \notin Counted /\ x[1] \notin Jumps
  BY <1>1, Effects
<1>3. a + 1 \in Nat /\ a + 2 \in Nat /\ 1 <= a + 1 /\ a + 2 = ((a + 1) - 1) + 2
  OBVIOUS
<1>4. Good(<<x>>, a + 1, a + 2, exits)
  BY <1>1, <1>2, <1>3, GoodStep
<1>. QED BY <1>4 DEF x

\* A POP.
LEMMA GoodPop ==
  ASSUME NEW a \in Nat, NEW exits
  PROVE  Good(<< <<"POP">> >>, a + 1, a, exits)
<1>1. <<"POP">>[1] \in Taking /\ Len(<<"POP">>) # 3
  BY DEF Taking
<1>. QED BY <1>1, GoodTake

\* A GETITEM.
LEMMA GoodGetItem ==
  ASSUME NEW a \in Nat, NEW exits
  PROVE  Good(<< <<"GETITEM">> >>, a + 2, a + 1, exits)
<1>1. <<"GETITEM">>[1] \in Joining /\ Len(<<"GETITEM">>) # 3
  BY DEF Joining
<1>. QED BY <1>1, GoodJoin

\* A CMPEQ.
LEMMA GoodEqual ==
  ASSUME NEW a \in Nat, NEW exits
  PROVE  Good(<< <<"CMPEQ">> >>, a + 2, a + 1, exits)
<1>1. <<"CMPEQ">>[1] \in Joining /\ Len(<<"CMPEQ">>) # 3
  BY DEF Joining, Comparisons
<1>. QED BY <1>1, GoodJoin

\* A PUSHCONST.
LEMMA GoodConst ==
  ASSUME NEW v, NEW a \in Nat, NEW exits
  PROVE  Good(<< <<"PUSHCONST", v>> >>, a, a + 1, exits)
<1>1. <<"PUSHCONST", v>>[1] \in Pushing /\ Len(<<"PUSHCONST", v>>) # 3
  BY DEF Pushing
<1>. QED BY <1>1, GoodPush

\* A STORENAME.
LEMMA GoodStore ==
  ASSUME NEW v, NEW a \in Nat, NEW exits
  PROVE  Good(<< <<"STORENAME", v>> >>, a + 1, a, exits)
<1>1. <<"STORENAME", v>>[1] \in Taking /\ Len(<<"STORENAME", v>>) # 3
  BY DEF Taking
<1>. QED BY <1>1, GoodTake

\* A call of n arguments, an array of n items, a hash of n pairs.
LEMMA GoodCall ==
  ASSUME NEW n \in Nat, NEW a \in Nat, NEW exits
  PROVE  Good(<< <<"CALL", n>> >>, (a + 1) + n, a + 1, exits)
<1>. DEFINE x == <<"CALL", n>>
<1>1. x[1] = "CALL" /\ x[2] = n /\ Len(x) # 3
  OBVIOUS
<1>. HIDE DEF x
<1>2. Pops(x) = n + 1 /\ Pushes(x) = 1 /\ x[1] \notin Jumps
  BY <1>1 DEF Pops, Pushes, Jumps, Comparisons, Arithmetic
<1>3. /\ a + 1 \in Nat /\ n + 1 \in Nat /\ (a + 1) + n \in Nat /\ n + 1 <= (a + 1) + n
      /\ a + 1 = (((a + 1) + n) - (n + 1)) + 1
  OBVIOUS
<1>4. Good(<<x>>, (a + 1) + n, a + 1, exits)
  BY <1>1, <1>2, <1>3, GoodStep
<1>. QED BY <1>4 DEF x

\* A MAKEARRAY of n items.
LEMMA GoodArray ==
  ASSUME NEW n \in Nat, NEW a \in Nat, NEW exits
  PROVE  Good(<< <<"MAKEARRAY", n>> >>, a + n, a + 1, exits)
<1>. DEFINE x == <<"MAKEARRAY", n>>
<1>1. x[1] = "MAKEARRAY" /\ x[2] = n /\ Len(x) # 3
  OBVIOUS
<1>. HIDE DEF x
<1>2. Pops(x) = n /\ Pushes(x) = 1 /\ x[1] \notin Jumps
  BY <1>1 DEF Pops, Pushes, Jumps, Comparisons, Arithmetic
<1>3. a + 1 \in Nat /\ a + n \in Nat /\ n <= a + n /\ a + 1 = ((a + n) - n) + 1
  OBVIOUS
<1>4. Good(<<x>>, a + n, a + 1, exits)
  BY <1>1, <1>2, <1>3, GoodStep
<1>. QED BY <1>4 DEF x

\* A MAKEHASH of n pairs.
LEMMA GoodHash ==
  ASSUME NEW n \in Nat, NEW k \in Nat, 2 * k <= n, NEW a \in Nat, NEW exits
  PROVE  Good(<< <<"MAKEHASH", k>> >>, a + n, a + 1, exits)
<1>. DEFINE x == <<"MAKEHASH", k>>
<1>1. x[1] = "MAKEHASH" /\ x[2] = k /\ Len(x) # 3
  OBVIOUS
<1>. HIDE DEF x
<1>2. Pops(x) = 2 * k /\ Pushes(x) = 1 /\ x[1] \notin Jumps
  BY <1>1 DEF Pops, Pushes, Jumps, Comparisons, Arithmetic
<1>3. After(x, a + n) = ((a + n) - 2 * k) + 1
  BY <1>2 DEF After
<1>4. a + 1 \in Nat /\ a + n \in Nat /\ 2 * k <= a + n /\ a + 1 <= ((a + n) - 2 * k) + 1
  OBVIOUS
<1>5. Good(<<x>>, a + n, a + 1, exits)
  BY <1>1, <1>2, <1>3, <1>4, GoodOne
<1>. QED BY <1>5 DEF x

\* The end of a function: whatever is taken to be behind it.
LEMMA GoodRet ==
  ASSUME NEW a \in Nat, NEW b \in Nat, NEW exits
  PROVE  Good(<< <<"RET">> >>, a + 1, b, exits)
<1>. DEFINE x == <<"RET">>
<1>1. x[1] = "RET" /\ Len(x) # 3
  OBVIOUS
<1>. HIDE DEF x
<1>2. Pops(x) = 1 /\ x[1] \notin Jumps /\ x[1] \notin Counted
  BY <1>1, PopsAre DEF Jumps, Counted
<1>3. a + 1 \in Nat /\ 1 <= a + 1
  OBVIOUS
<1>4. Good(<<x>>, a + 1, b, exits)
  BY <1>1, <1>2, <1>3, GoodOne
<1>. QED BY <1>4 DEF x

\* A jump to a label that has no place yet.
LEMMA GoodAway ==
  ASSUME NEW label, NEW a \in Nat, NEW b \in Nat, NEW exits, Reaches(label, a, exits)
  PROVE  Good(<< JumpTo("JUMP", label) >>, a, b, exits)
<1>. DEFINE x == <<"JUMP", "label", label>>
<1>1. x[1] = "JUMP" /\ Len(x) = 3 /\ x[3] = label
  OBVIOUS
<1>. HIDE DEF x
<1>2. Pops(x) = 0 /\ After(x, a) = a /\ x[1] \in Jumps /\ x[1] \notin Counted
  BY <1>1, JumpEffect
<1>3. Pops(x) <= a
  BY <1>2
<1>4. Good(<<x>>, a, b, exits)
  BY <1>1, <1>2, <1>3, GoodOne
<1>. QED BY <1>4 DEF x, JumpTo

\* A jump to a label that has no place yet, taken with a condition.
LEMMA GoodUnlessTrue ==
  ASSUME NEW label, NEW a \in Nat, NEW exits, Reaches(label, a, exits)
  PROVE  Good(<< JumpTo("JUMPIFFALSE", label) >>, a + 1, a, exits)
<1>. DEFINE x == <<"JUMPIFFALSE", "label", label>>
<1>1. x[1] = "JUMPIFFALSE" /\ Len(x) = 3 /\ x[3] = label
  OBVIOUS
<1>. HIDE DEF x
<1>2. /\ Pops(x) = 1 /\ x[1] \in Jumps /\ x[1] \notin Counted
      /\ \A n \in Nat : After(x, n) = n - 1
  BY <1>1, JumpEffect
<1>3. a + 1 \in Nat /\ After(x, a + 1) = a /\ Pops(x) <= a + 1 /\ a <= a
  BY <1>2
<1>4. Good(<<x>>, a + 1, a, exits)
  BY <1>1, <1>2, <1>3, GoodOne
<1>. QED BY <1>4 DEF x, JumpTo

\* A sequence with one item more.
LEMMA OneMore ==
  ASSUME NEW c, IsSeq(c), NEW d, IsSeq(d), Len(d) = Len(c) + 1, \A i \in 1..Len(c) : d[i] = c[i]
  PROVE  c \o << d[Len(d)] >> = d
<1>1. PICK S : c \in Seq(S)
  BY DEF IsSeq
<1>2. PICK T : d \in Seq(T)
  BY DEF IsSeq
<1>3. PICK x : x = d[Len(d)]
  OBVIOUS
<1>. DEFINE U == S \union T \union {x}
<1>4. c \in Seq(U) /\ d \in Seq(U) /\ x \in U /\ Len(c) \in Nat
  BY <1>1, <1>2, SeqMonotonic, LenProperties
<1>. HIDE DEF U
<1>5. /\ Append(c, x) \in Seq(U) /\ Len(Append(c, x)) = Len(c) + 1
      /\ \A i \in 1..Len(c) : Append(c, x)[i] = c[i]
      /\ Append(c, x)[Len(c) + 1] = x /\ Append(c, x) = c \o <<x>>
  BY <1>4, AppendProperties, AppendIsConcat
<1>. DEFINE w == Append(c, x)
<1>. HIDE DEF w
<1>6. w \in Seq(U) /\ Len(w) = Len(d)
  BY <1>5 DEF w
<1>7. ASSUME NEW i \in 1..Len(w) PROVE w[i] = d[i]
  <2>1. i \in 1..Len(c) \/ i = Len(c) + 1
    BY <1>4, <1>6
  <2>. QED BY <1>3, <1>5, <2>1 DEF w
<1>8. w = d
  BY <1>4, <1>6, <1>7, SeqEqual
<1>. QED BY <1>3, <1>5, <1>8 DEF w

\* Two instructions in a row.
LEMMA Row2 ==
  ASSUME NEW x1, NEW x2
  PROVE  << x1 >> \o <<x2>> = << x1, x2 >>
<1>. DEFINE c == << x1 >>
            d == << x1, x2 >>
<1>1. c \in Seq({x1}) /\ Len(c) = 1
  OBVIOUS
<1>2. d \in Seq({x1, x2}) /\ Len(d) = 2
  OBVIOUS
<1>3. c[1] = x1
  OBVIOUS
<1>4. d[1] = x1 /\ d[2] = x2
  OBVIOUS
<1>. HIDE DEF c, d
<1>5. Len(d) = Len(c) + 1 /\ \A i \in 1..Len(c) : d[i] = c[i]
  BY <1>1, <1>2, <1>3, <1>4
<1>6. IsSeq(c) /\ IsSeq(d)
  BY <1>1, <1>2 DEF IsSeq
<1>7. c \o << d[Len(d)] >> = d
  BY <1>5, <1>6, OneMore
<1>8. d[Len(d)] = x2
  BY <1>2, <1>4
<1>. QED BY <1>7, <1>8 DEF c, d

\* Three instructions in a row.
LEMMA Row3 ==
  ASSUME NEW x1, NEW x2, NEW x3
  PROVE  << x1, x2 >> \o <<x3>> = << x1, x2, x3 >>
<1>. DEFINE c == << x1, x2 >>
            d == << x1, x2, x3 >>
<1>1. c \in Seq({x1, x2}) /\ Len(c) = 2
  OBVIOUS
<1>2. d \in Seq({x1, x2, x3}) /\ Len(d) = 3
  OBVIOUS
<1>3. c[1] = x1 /\ c[2] = x2
  OBVIOUS
<1>4. d[1] = x1 /\ d[2] = x2 /\ d[3] = x3
  OBVIOUS
<1>. HIDE DEF c, d
<1>5. Len(d) = Len(c) + 1 /\ \A i \in 1..Len(c) : d[i] = c[i]
  BY <1>1, <1>2, <1>3, <1>4
<1>6. IsSeq(c) /\ IsSeq(d)
  BY <1>1, <1>2 DEF IsSeq
<1>7. c \o << d[Len(d)] >> = d
  BY <1>5, <1>6, OneMore
<1>8. d[Len(d)] = x3
  BY <1>2, <1>4
<1>. QED BY <1>7, <1>8 DEF c, d

\* Four instructions in a row.
LEMMA Row4 ==
  ASSUME NEW x1, NEW x2, NEW x3, NEW x4
  PROVE  << x1, x2, x3 >> \o <<x4>> = << x1, x2, x3, x4 >>
<1>. DEFINE c == << x1, x2, x3 >>
            d == << x1, x2, x3, x4 >>
<1>1. c \in Seq({x1, x2, x3}) /\ Len(c) = 3
  OBVIOUS
<1>2. d \in Seq({x1, x2, x3, x4}) /\ Len(d) = 4
  OBVIOUS
<1>3. c[1] = x1 /\ c[2] = x2 /\ c[3] = x3
  OBVIOUS
<1>4. d[1] = x1 /\ d[2] = x2 /\ d[3] = x3 /\ d[4] = x4
  OBVIOUS
<1>. HIDE DEF c, d
<1>5. Len(d) = Len(c) + 1 /\ \A i \in 1..Len(c) : d[i] = c[i]
  BY <1>1, <1>2, <1>3, <1>4
<1>6. IsSeq(c) /\ IsSeq(d)
  BY <1>1, <1>2 DEF IsSeq
<1>7. c \o << d[Len(d)] >> = d
  BY <1>5, <1>6, OneMore
<1>8. d[Len(d)] = x4
  BY <1>2, <1>4
<1>. QED BY <1>7, <1>8 DEF c, d

\* Five instructions in a row.
LEMMA Row5 ==
  ASSUME NEW x1, NEW x2, NEW x3, NEW x4, NEW x5
  PROVE  << x1, x2, x3, x4 >> \o <<x5>> = << x1, x2, x3, x4, x5 >>
<1>. DEFINE c == << x1, x2, x3, x4 >>
            d == << x1, x2, x3, x4, x5 >>
<1>1. c \in Seq({x1, x2, x3, x4}) /\ Len(c) = 4
  OBVIOUS
<1>2. d \in Seq({x1, x2, x3, x4, x5}) /\ Len(d) = 5
  OBVIOUS
<1>3. c[1] = x1 /\ c[2] = x2 /\ c[3] = x3 /\ c[4] = x4
  OBVIOUS
<1>4. d[1] = x1 /\ d[2] = x2 /\ d[3] = x3 /\ d[4] = x4 /\ d[5] = x5
  OBVIOUS
<1>. HIDE DEF c, d
<1>5. Len(d) = Len(c) + 1 /\ \A i \in 1..Len(c) : d[i] = c[i]
  BY <1>1, <1>2, <1>3, <1>4
<1>6. IsSeq(c) /\ IsSeq(d)
  BY <1>1, <1>2 DEF IsSeq
<1>7. c \o << d[Len(d)] >> = d
  BY <1>5, <1>6, OneMore
<1>8. d[Len(d)] = x5
  BY <1>2, <1>4
<1>. QED BY <1>7, <1>8 DEF c, d

\* Six instructions in a row.
LEMMA Row6 ==
  ASSUME NEW x1, NEW x2, NEW x3, NEW x4, NEW x5, NEW x6
  PROVE  << x1, x2, x3, x4, x5 >> \o <<x6>> = << x1, x2, x3, x4, x5, x6 >>
<1>. DEFINE c == << x1, x2, x3, x4, x5 >>
            d == << x1, x2, x3, x4, x5, x6 >>
<1>1. c \in Seq({x1, x2, x3, x4, x5}) /\ Len(c) = 5
  OBVIOUS
<1>2. d \in Seq({x1, x2, x3, x4, x5, x6}) /\ Len(d) = 6
  OBVIOUS
<1>3. c[1] = x1 /\ c[2] = x2 /\ c[3] = x3 /\ c[4] = x4 /\ c[5] = x5
  OBVIOUS
<1>4. d[1] = x1 /\ d[2] = x2 /\ d[3] = x3 /\ d[4] = x4 /\ d[5] = x5 /\ d[6] = x6
  OBVIOUS
<1>. HIDE DEF c, d
<1>5. Len(d) = Len(c) + 1 /\ \A i \in 1..Len(c) : d[i] = c[i]
  BY <1>1, <1>2, <1>3, <1>4
<1>6. IsSeq(c) /\ IsSeq(d)
  BY <1>1, <1>2 DEF IsSeq
<1>7. c \o << d[Len(d)] >> = d
  BY <1>5, <1>6, OneMore
<1>8. d[Len(d)] = x6
  BY <1>2, <1>4
<1>. QED BY <1>7, <1>8 DEF c, d

-----------------------------------------------------------------------------
(* Patterns.                                                               *)

\* The test for the class of the subject leaves the subject.
LEMMA GoodSubjectIs ==
  ASSUME NEW class, class[1] \in Pushing, Len(class) # 3, NEW label, NEW a \in Nat, NEW exits,
         Reaches(label, a + 1, exits)
  PROVE  Good(SubjectIs(class, label), a + 1, a + 1, exits)
<1>. DEFINE x1 == <<"DUP">>
            x2 == <<"GETCLASS">>
            x4 == <<"CMPEQ">>
            x5 == JumpTo("JUMPIFFALSE", label)
<1>1. PICK b \in Nat : b = a + 1
  OBVIOUS
<1>2. a + 2 = b + 1
  BY <1>1
<1>3. Good(<<x1>>, b, b + 1, exits)
  BY <1>1, <1>2, GoodDup
<1>4. Good(<<x2>>, b + 1, b + 1, exits)
  <2>1. x2[1] \in Turning /\ Len(x2) # 3
    BY DEF Turning
  <2>. QED BY <2>1, GoodTurn
<1>5. Good(<<class>>, b + 1, b + 2, exits)
  <2>1. b + 1 \in Nat /\ (b + 1) + 1 = b + 2
    OBVIOUS
  <2>. QED BY <2>1, GoodPush
<1>6. Good(<<x4>>, b + 2, b + 1, exits)
  BY GoodEqual
<1>7. Good(<<x5>>, b + 1, b, exits)
  BY <1>1, GoodUnlessTrue
<1>. HIDE DEF x1, x2, x4, x5
<1>8. Good(<<x1, x2>>, b, b + 1, exits)
  BY <1>3, <1>4, Glue, Row2
<1>9. Good(<<x1, x2, class>>, b, b + 2, exits)
  BY <1>5, <1>8, Glue, Row3
<1>10. Good(<<x1, x2, class, x4>>, b, b + 1, exits)
  BY <1>6, <1>9, Glue, Row4
<1>11. Good(<<x1, x2, class, x4, x5>>, b, b, exits)
  BY <1>7, <1>10, Glue, Row5
<1>. QED BY <1>1, <1>11 DEF SubjectIs, x1, x2, x4, x5

\* The test for the size of the subject leaves the subject.
LEMMA GoodSubjectHasSize ==
  ASSUME NEW n, NEW label, NEW a \in Nat, NEW exits, Reaches(label, a + 1, exits)
  PROVE  Good(SubjectHasSize(n, label), a + 1, a + 1, exits)
<1>. DEFINE x1 == <<"DUP">>
            x2 == <<"GETATTR", "size">>
            x3 == <<"CALL", 0>>
            x4 == <<"PUSHCONST", <<"int", n>>>>
            x5 == <<"CMPEQ">>
            x6 == JumpTo("JUMPIFFALSE", label)
<1>1. PICK b \in Nat : b = a + 1
  OBVIOUS
<1>2. a + 2 = b + 1
  BY <1>1
<1>3. Good(<<x1>>, b, b + 1, exits)
  BY <1>1, <1>2, GoodDup
<1>4. Good(<<x2>>, b + 1, b + 1, exits)
  <2>1. x2[1] \in Turning /\ Len(x2) # 3
    BY DEF Turning
  <2>. QED BY <2>1, GoodTurn
<1>5. Good(<<x3>>, b + 1, b + 1, exits)
  <2>1. 0 \in Nat /\ (b + 1) + 0 = b + 1
    OBVIOUS
  <2>2. Good(<<x3>>, (b + 1) + 0, b + 1, exits)
    BY <2>1, GoodCall
  <2>. QED BY <2>1, <2>2
<1>6. Good(<<x4>>, b + 1, b + 2, exits)
  <2>1. b + 1 \in Nat /\ (b + 1) + 1 = b + 2
    OBVIOUS
  <2>2. Good(<<x4>>, b + 1, (b + 1) + 1, exits)
    BY <2>1, GoodConst
  <2>. QED BY <2>1, <2>2
<1>7. Good(<<x5>>, b + 2, b + 1, exits)
  BY GoodEqual
<1>8. Good(<<x6>>, b + 1, b, exits)
  BY <1>1, GoodUnlessTrue
<1>. HIDE DEF x1, x2, x3, x4, x5, x6
<1>9. Good(<<x1, x2>>, b, b + 1, exits)
  BY <1>3, <1>4, Glue, Row2
<1>10. Good(<<x1, x2, x3>>, b, b + 1, exits)
  BY <1>5, <1>9, Glue, Row3
<1>11. Good(<<x1, x2, x3, x4>>, b, b + 2, exits)
  BY <1>6, <1>10, Glue, Row4
<1>12. Good(<<x1, x2, x3, x4, x5>>, b, b + 1, exits)
  BY <1>7, <1>11, Glue, Row5
<1>13. Good(<<x1, x2, x3, x4, x5, x6>>, b, b, exits)
  BY <1>8, <1>12, Glue, Row6
<1>. QED BY <1>1, <1>13 DEF SubjectHasSize, x1, x2, x3, x4, x5, x6

\* The test for a constant or nil leaves the subject.
LEMMA GoodSimpleTest ==
  ASSUME NEW p, NEW label, NEW a \in Nat, NEW exits, Reaches(label, a + 1, exits)
  PROVE  Good(SimpleTest(p, label), a + 1, a + 1, exits)
<1>1. CASE p[1] = "nil"
  <2>. DEFINE class == <<"PUSHCONST", <<"class", "nil">>>>
  <2>1. class[1] \in Pushing /\ Len(class) # 3
    BY DEF Pushing
  <2>2. SimpleTest(p, label) = SubjectIs(class, label)
    BY <1>1 DEF SimpleTest
  <2>. HIDE DEF class
  <2>. QED BY <2>1, <2>2, GoodSubjectIs
<1>2. CASE p[1] # "nil"
  <2>. DEFINE x1 == <<"DUP">>
              x2 == <<"PUSHCONST", p[2]>>
              x3 == <<"CMPEQ">>
              x4 == JumpTo("JUMPIFFALSE", label)
  <2>1. PICK b \in Nat : b = a + 1
    OBVIOUS
  <2>2. a + 2 = b + 1
    BY <2>1
  <2>3. Good(<<x1>>, b, b + 1, exits)
    BY <2>1, <2>2, GoodDup
  <2>4. Good(<<x2>>, b + 1, b + 2, exits)
    <3>1. b + 1 \in Nat /\ (b + 1) + 1 = b + 2
      OBVIOUS
    <3>2. Good(<<x2>>, b + 1, (b + 1) + 1, exits)
      BY <3>1, GoodConst
    <3>. QED BY <3>1, <3>2
  <2>5. Good(<<x3>>, b + 2, b + 1, exits)
    BY GoodEqual
  <2>6. Good(<<x4>>, b + 1, b, exits)
    BY <2>1, GoodUnlessTrue
  <2>. HIDE DEF x1, x2, x3, x4
  <2>7. Good(<<x1, x2>>, b, b + 2, exits)
    BY <2>3, <2>4, Glue, Row2
  <2>8. Good(<<x1, x2, x3>>, b, b + 1, exits)
    BY <2>5, <2>7, Glue, Row3
  <2>9. Good(<<x1, x2, x3, x4>>, b, b, exits)
    BY <2>6, <2>8, Glue, Row4
  <2>. QED BY <1>2, <2>1, <2>9 DEF SimpleTest, x1, x2, x3, x4
<1>. QED BY <1>1, <1>2

\* An item is on the stack while it is tested, and taken off again.
LEMMA GoodItemTest ==
  ASSUME NEW key, NEW test, NEW a \in Nat, NEW exits, Good(test, a + 2, a + 2, exits)
  PROVE  Good(ItemTest(key, test), a + 1, a + 1, exits)
<1>. DEFINE x1 == <<"DUP">>
            x2 == <<"PUSHCONST", key>>
            x3 == <<"GETITEM">>
            x4 == <<"POP">>
<1>1. PICK b \in Nat : b = a + 1
  OBVIOUS
<1>2. a + 2 = b + 1
  BY <1>1
<1>3. Good(<<x1>>, b, b + 1, exits)
  BY <1>1, <1>2, GoodDup
<1>4. Good(<<x2>>, b + 1, b + 2, exits)
  <2>1. b + 1 \in Nat /\ (b + 1) + 1 = b + 2
    OBVIOUS
  <2>2. Good(<<x2>>, b + 1, (b + 1) + 1, exits)
    BY <2>1, GoodConst
  <2>. QED BY <2>1, <2>2
<1>5. Good(<<x3>>, b + 2, b + 1, exits)
  BY GoodGetItem
<1>6. Good(<<x4>>, b + 1, b, exits)
  BY GoodPop
<1>. HIDE DEF x1, x2, x3, x4
<1>7. Good(<<x1, x2>>, b, b + 2, exits)
  BY <1>3, <1>4, Glue, Row2
<1>8. Good(<<x1, x2, x3>>, b, b + 1, exits)
  BY <1>5, <1>7, Glue, Row3
<1>9. Good(<<x1, x2, x3>> \o test, b, b + 1, exits)
  BY <1>2, <1>8, Glue
<1>10. Good((<<x1, x2, x3>> \o test) \o <<x4>>, b, b, exits)
  BY <1>6, <1>9, Glue
<1>11. ItemTest(key, test) = (<<x1, x2, x3>> \o test) \o <<x4>>
  <2>1. IsSeq(<<x1, x2, x3>>) /\ IsSeq(test) /\ IsSeq(<<x4>>)
    BY <1>6, <1>8 DEF Good
  <2>. QED BY DEF ItemTest, x1, x2, x3, x4
<1>. QED BY <1>1, <1>10, <1>11

\* What follows one from another by an index is as long as its domain.
LEMMA Parts ==
  ASSUME NEW n \in Nat, NEW f, f = [i \in 1..n |-> f[i]]
  PROVE  Len(f) = n /\ IsSeq(f)
<1>. DEFINE S == { f[i] : i \in 1..n }
<1>1. f \in [1..n -> S]
  OBVIOUS
<1>. HIDE DEF S
<1>2. f \in Seq(S) /\ Len(f) = n
  BY <1>1, MakesSeq
<1>. QED BY <1>2 DEF IsSeq

\* exits with one more label, l, where n operands have to be left.
With(exits, l, n) == [m \in DOMAIN exits \union {l} |-> IF m = l THEN n ELSE exits[m]]

\* What exits with one more label ask for.
LEMMA WithIs ==
  ASSUME NEW exits, NEW l, NEW n \in Nat
  PROVE  /\ Reaches(l, n, With(exits, l, n)) /\ With(exits, l, n)[l] = n
         /\ \A m, k : m # l /\ Reaches(m, k, exits) => Reaches(m, k, With(exits, l, n))
         /\ AsksBut(l, With(exits, l, n), exits)
         /\ l \notin DOMAIN exits => Asks(exits, With(exits, l, n))
<1>. DEFINE w == With(exits, l, n)
<1>1. /\ DOMAIN w = DOMAIN exits \union {l} /\ w[l] = n
      /\ \A m \in DOMAIN exits : m # l => w[m] = exits[m]
  BY DEF With
<1>. HIDE DEF w
<1>2. Reaches(l, n, w)
  BY <1>1 DEF Reaches
<1>3. \A m, k : m # l /\ Reaches(m, k, exits) => Reaches(m, k, w)
  BY <1>1 DEF Reaches
<1>4. AsksBut(l, w, exits)
  BY <1>1 DEF AsksBut
<1>5. l \notin DOMAIN exits => Asks(exits, w)
  BY <1>1 DEF Asks
<1>. QED BY <1>1, <1>2, <1>3, <1>4, <1>5 DEF w

\* The test of a pattern has the subject on the stack, and leaves it there for label.
Tests(test, label) ==
  \A a \in Nat : \A exits : Reaches(label, a + 1, exits) => Good(test, a + 1, a + 1, exits)

\* The class, the size and the items of a subject, when the tests of the items are good.
LEMMA GoodItemTests ==
  ASSUME NEW p, NEW n \in Nat, NEW tests, DOMAIN tests = 1..n, NEW label, NEW a \in Nat, NEW exits,
         Reaches(label, a + 1, exits), \A i \in 1..n : Good(tests[i], a + 2, a + 2, exits)
  PROVE  Good(ItemTests(p, tests, label), a + 1, a + 1, exits)
<1>. DEFINE class == <<"PUSHNAME", p[1]>>
            parts == [i \in 1..n |-> ItemTest(Keys(p)[i], tests[i])]
<1>1. Good(SubjectIs(class, label), a + 1, a + 1, exits)
  <2>1. class[1] \in Pushing /\ Len(class) # 3
    BY DEF Pushing
  <2>. HIDE DEF class
  <2>. QED BY <2>1, GoodSubjectIs
<1>2. Good(SubjectHasSize(Len(p[2]), label), a + 1, a + 1, exits)
  BY GoodSubjectHasSize
<1>3. Good(Flatten(parts), a + 1, a + 1, exits)
  <2>1. \A i \in 1..n : parts[i] = ItemTest(Keys(p)[i], tests[i])
    OBVIOUS
  <2>2. parts = [i \in 1..n |-> parts[i]]
    OBVIOUS
  <2>. HIDE DEF parts
  <2>3. Len(parts) = n
    BY <2>2, Parts
  <2>4. \A i \in 1..n : Good(parts[i], a + 1, a + 1, exits)
    BY <2>1, GoodItemTest
  <2>. QED BY <2>3, <2>4, GoodAll
<1>4. ItemTests(p, tests, label)
        = (SubjectIs(class, label) \o SubjectHasSize(Len(p[2]), label)) \o Flatten(parts)
  BY DEF ItemTests
<1>. HIDE DEF class, parts
<1>5. Good(SubjectIs(class, label) \o SubjectHasSize(Len(p[2]), label), a + 1, a + 1, exits)
  BY <1>1, <1>2, Glue
<1>6. Good((SubjectIs(class, label) \o SubjectHasSize(Len(p[2]), label)) \o Flatten(parts),
           a + 1, a + 1, exits)
  BY <1>3, <1>5, Glue
<1>. QED BY <1>4, <1>6

\* The test of an array pattern: an item that fails is popped before the pattern fails.
LEMMA GoodArrayTest ==
  ASSUME NEW p, NEW n \in Nat, NEW tests, DOMAIN tests = 1..n, NEW label, NEW depth \in Nat,
         label # PopLabel(depth), \A i \in 1..n : Tests(tests[i], PopLabel(depth))
  PROVE  Tests(ArrayTest(p, tests, label, depth), label)
<1>1. SUFFICES ASSUME NEW a \in Nat, NEW exits, Reaches(label, a + 1, exits)
               PROVE  Good(ArrayTest(p, tests, label, depth), a + 1, a + 1, exits)
  BY DEF Tests
<1>. DEFINE l == PopLabel(depth)
            inner == With(exits, l, a + 2)
            c == ItemTests(p, tests, label)
<1>2. a + 2 \in Nat /\ a + 1 \in Nat /\ (a + 1) + 1 = a + 2
  OBVIOUS
<1>3. label # l /\ \A i \in 1..n : Tests(tests[i], l)
  OBVIOUS
<1>4. ArrayTest(p, tests, label, depth)
        = UseLabel(c \o << <<"JUMP", 3>> >>, l) \o << <<"POP">>, JumpTo("JUMP", label) >>
  BY DEF ArrayTest
<1>. HIDE DEF l, c
<1>5. /\ Reaches(l, a + 2, inner) /\ inner[l] = a + 2 /\ Reaches(label, a + 1, inner)
      /\ AsksBut(l, inner, exits)
  BY <1>1, <1>2, <1>3, WithIs
<1>. HIDE DEF inner
<1>6. \A i \in 1..n : Good(tests[i], a + 2, a + 2, inner)
  BY <1>2, <1>3, <1>5 DEF Tests
<1>7. Good(c, a + 1, a + 1, inner)
  BY <1>5, <1>6, GoodItemTests DEF c
<1>8. inner[l] \in Nat => (a + 1) + 1 <= inner[l]
  BY <1>2, <1>5
<1>9. Good(UseLabel(c \o << <<"JUMP", 3>> >>, l) \o << <<"POP">>, JumpTo("JUMP", label) >>,
           a + 1, a + 1, exits)
  BY <1>1, <1>2, <1>5, <1>7, <1>8, GoodTail
<1>. QED BY <1>4, <1>9

\* The test of a hash pattern; an item that fails is left on the stack.
LEMMA GoodHashTest ==
  ASSUME NEW p, NEW n \in Nat, NEW tests, DOMAIN tests = 1..n, NEW label,
         \A i \in 1..n : Tests(tests[i], label)
  PROVE  Tests(HashTest(p, tests, label), label)
<1>1. SUFFICES ASSUME NEW a \in Nat, NEW exits, Reaches(label, a + 1, exits)
               PROVE  Good(HashTest(p, tests, label), a + 1, a + 1, exits)
  BY DEF Tests
<1>2. a + 1 \in Nat /\ (a + 1) + 1 = a + 2 /\ Reaches(label, (a + 1) + 1, exits)
  BY <1>1 DEF Reaches
<1>3. \A i \in 1..n : Good(tests[i], a + 2, a + 2, exits)
  BY <1>2 DEF Tests
<1>. QED BY <1>1, <1>3, GoodItemTests DEF HashTest

\* No code is a test that always succeeds.
LEMMA TestsNothing ==
  ASSUME NEW label
  PROVE  Tests(<<>>, label)
<1>1. ASSUME NEW a \in Nat, NEW exits PROVE Good(<<>>, a + 1, a + 1, exits)
  <2>1. a + 1 \in Nat
    OBVIOUS
  <2>. QED BY <2>1, GoodNothing
<1>. QED BY <1>1 DEF Tests

\* The test of a pattern, if those of its items are tests.
AllTest(tests, label) ==
  \E n \in Nat : DOMAIN tests = 1..n /\ \A i \in 1..n : Tests(tests[i], label)

\* The test of a pattern, if those of its items are tests.
LEMMA GoodPattern ==
  ASSUME NEW p, NEW tests, NEW label, NEW depth \in Nat, label # PopLabel(depth),
         p[1] \in {"const", "nil", "ident", "_", "array", "hash"},
         AllTest(tests, ItemLabel(p, label, depth))
  PROVE  Tests(PatternCode(p, tests, label, depth), label)
<1>5. PICK n \in Nat : /\ DOMAIN tests = 1..n
                       /\ \A i \in 1..n : Tests(tests[i], ItemLabel(p, label, depth))
  BY DEF AllTest
<1>. DEFINE c == PatternCode(p, tests, label, depth)
<1>1. CASE p[1] \in {"const", "nil"}
  <2>1. c = SimpleTest(p, label)
    BY <1>1 DEF PatternCode
  <2>. QED BY <2>1, GoodSimpleTest DEF Tests
<1>2. CASE p[1] \in {"ident", "_"}
  <2>1. c = <<>>
    BY <1>2 DEF PatternCode
  <2>. QED BY <2>1, TestsNothing
<1>3. CASE p[1] = "array"
  <2>1. c = ArrayTest(p, tests, label, depth)
    BY <1>3 DEF PatternCode
  <2>2. \A i \in 1..n : Tests(tests[i], PopLabel(depth))
    BY <1>3, <1>5 DEF ItemLabel
  <2>. HIDE DEF c
  <2>3. Tests(ArrayTest(p, tests, label, depth), label)
    BY <1>5, <2>2, GoodArrayTest
  <2>. QED BY <2>1, <2>3 DEF c
<1>4. CASE p[1] = "hash"
  <2>1. c = HashTest(p, tests, label)
    BY <1>4 DEF PatternCode
  <2>2. \A i \in 1..n : Tests(tests[i], label)
    BY <1>4, <1>5 DEF ItemLabel
  <2>. QED BY <1>5, <2>1, <2>2, GoodHashTest
<1>. QED BY <1>1, <1>2, <1>3, <1>4

\* A variable of a pattern is bound with the subject on the stack.
LEMMA GoodBindVar ==
  ASSUME NEW var, IsSeq(var[2]), NEW a \in Nat, NEW exits
  PROVE  Good(BindVar(var), a + 1, a + 1, exits)
<1>1. PICK n \in Nat : n = Len(var[2])
  BY SeqIs
<1>2. DOMAIN var[2] = 1..n
  BY <1>1, SeqIs
<1>. DEFINE parts == [i \in 1..n |-> << <<"PUSHCONST", var[2][i]>>, <<"GETITEM">> >>]
<1>3. PICK b \in Nat : b = a + 1
  OBVIOUS
<1>4. b + 1 = a + 2 /\ b + 1 \in Nat
  BY <1>3
<1>5. ASSUME NEW v PROVE Good(<< <<"PUSHCONST", v>>, <<"GETITEM">> >>, b + 1, b + 1, exits)
  <2>. DEFINE x1 == <<"PUSHCONST", v>>
              x2 == <<"GETITEM">>
  <2>1. Good(<<x1>>, b + 1, (b + 1) + 1, exits)
    BY <1>4, GoodConst
  <2>2. Good(<<x2>>, b + 2, b + 1, exits)
    BY GoodGetItem
  <2>3. (b + 1) + 1 = b + 2
    OBVIOUS
  <2>. HIDE DEF x1, x2
  <2>4. Good(<<x1, x2>>, b + 1, b + 1, exits)
    BY <2>1, <2>2, <2>3, Glue, Row2
  <2>. QED BY <2>4 DEF x1, x2
<1>6. Good(Flatten(parts), b + 1, b + 1, exits)
  <2>1. \A i \in 1..n : parts[i] = << <<"PUSHCONST", var[2][i]>>, <<"GETITEM">> >>
    OBVIOUS
  <2>2. parts = [i \in 1..n |-> parts[i]]
    OBVIOUS
  <2>. HIDE DEF parts
  <2>3. Len(parts) = n
    BY <2>2, Parts
  <2>4. \A i \in 1..n : Good(parts[i], b + 1, b + 1, exits)
    BY <1>5, <2>1
  <2>. QED BY <1>4, <2>3, <2>4, GoodAll
<1>7. Good(<< <<"DUP">> >>, b, b + 1, exits)
  BY <1>3, <1>4, GoodDup
<1>8. Good(<< <<"STORENAME", var[1]>> >>, b + 1, b, exits)
  BY GoodStore
<1>9. BindVar(var) = (<< <<"DUP">> >> \o Flatten(parts)) \o << <<"STORENAME", var[1]>> >>
  BY <1>2 DEF BindVar
<1>. HIDE DEF parts
<1>10. Good(<< <<"DUP">> >> \o Flatten(parts), b, b + 1, exits)
  BY <1>6, <1>7, Glue
<1>11. Good((<< <<"DUP">> >> \o Flatten(parts)) \o << <<"STORENAME", var[1]>> >>, b, b, exits)
  BY <1>8, <1>10, Glue
<1>. QED BY <1>3, <1>9, <1>11

-----------------------------------------------------------------------------
(* Expressions leave a value.                                              *)

Yields(c) == \A a \in Nat : \A exits : Good(c, a, a + 1, exits)

\* An expression and an instruction that turns its value into another.
LEMMA YieldsTurned ==
  ASSUME NEW c, Yields(c), NEW x, x[1] \in Turning, Len(x) # 3
  PROVE  Yields(c \o <<x>>)
<1>1. ASSUME NEW a \in Nat, NEW exits PROVE Good(c \o <<x>>, a, a + 1, exits)
  <2>1. Good(c, a, a + 1, exits) /\ Good(<<x>>, a + 1, a + 1, exits)
    BY GoodTurn DEF Yields
  <2>. QED BY <2>1, Glue
<1>. QED BY <1>1 DEF Yields

\* Two of them, and one that joins their values.
LEMMA YieldsJoined ==
  ASSUME NEW c, Yields(c), NEW d, Yields(d), NEW x, x[1] \in Joining, Len(x) # 3
  PROVE  Yields((c \o d) \o <<x>>)
<1>1. ASSUME NEW a \in Nat, NEW exits PROVE Good((c \o d) \o <<x>>, a, a + 1, exits)
  <2>1. a + 1 \in Nat /\ (a + 1) + 1 = a + 2
    OBVIOUS
  <2>2. Good(d, a + 1, (a + 1) + 1, exits)
    BY <2>1 DEF Yields
  <2>3. Good(c, a, a + 1, exits) /\ Good(d, a + 1, a + 2, exits) /\ Good(<<x>>, a + 2, a + 1, exits)
    BY <2>1, <2>2, GoodJoin DEF Yields
  <2>4. Good(c \o d, a, a + 2, exits)
    BY <2>3, Glue
  <2>. QED BY <2>3, <2>4, Glue
<1>. QED BY <1>1 DEF Yields

\* A single instruction that leaves a value.
LEMMA YieldsOne ==
  ASSUME NEW x, x[1] \in Pushing, Len(x) # 3
  PROVE  Yields(<<x>>)
BY GoodPush DEF Yields

\* Any number of expressions, one after another.
Each(parts, n) == Len(parts) = n /\ \A i \in 1..n : Yields(parts[i])

\* Any number of expressions leave as many values.
LEMMA YieldsEach ==
  ASSUME NEW n \in Nat, NEW parts, Each(parts, n), NEW a \in Nat, NEW exits
  PROVE  Good(Flatten(parts), a, a + n, exits)
<1>1. Len(parts) \in Nat /\ Len(parts) = n /\ \A i \in 1..Len(parts) : Yields(parts[i])
  BY DEF Each
<1>2. \A i \in 1..Len(parts) : \A b \in Nat : Good(parts[i], b, b + 1, exits)
  BY <1>1 DEF Yields
<1>3. Good(Flatten(parts), a, a + Len(parts), exits)
  BY <1>1, <1>2, GoodEach
<1>. QED BY <1>1, <1>3

\* The literal of an array leaves a value.
LEMMA YieldsArray ==
  ASSUME NEW n \in Nat, NEW parts, Each(parts, n)
  PROVE  Yields(Flatten(parts) \o << <<"MAKEARRAY", n>> >>)
<1>1. ASSUME NEW a \in Nat, NEW exits
      PROVE  Good(Flatten(parts) \o << <<"MAKEARRAY", n>> >>, a, a + 1, exits)
  BY YieldsEach, GoodArray, Glue
<1>. QED BY <1>1 DEF Yields

\* The literal of a hash leaves a value.
LEMMA YieldsHash ==
  ASSUME NEW n \in Nat, NEW parts, Each(parts, n)
  PROVE  Yields(Flatten(parts) \o << <<"MAKEHASH", n \div 2>> >>)
<1>1. n \div 2 \in Nat /\ 2 * (n \div 2) <= n
  OBVIOUS
<1>. DEFINE k == n \div 2
<1>. HIDE DEF k
<1>2. k \in Nat /\ 2 * k <= n
  BY <1>1 DEF k
<1>3. ASSUME NEW a \in Nat, NEW exits
      PROVE  Good(Flatten(parts) \o << <<"MAKEHASH", k>> >>, a, a + 1, exits)
  BY <1>2, YieldsEach, GoodHash, Glue
<1>4. Yields(Flatten(parts) \o << <<"MAKEHASH", k>> >>)
  BY <1>3 DEF Yields
<1>. QED BY <1>4 DEF k

\* A call leaves a value.
LEMMA YieldsCall ==
  ASSUME NEW c, Yields(c), NEW n \in Nat, NEW parts, Each(parts, n)
  PROVE  Yields((c \o Flatten(parts)) \o << <<"CALL", n>> >>)
<1>1. ASSUME NEW a \in Nat, NEW exits
      PROVE  Good((c \o Flatten(parts)) \o << <<"CALL", n>> >>, a, a + 1, exits)
  <2>1. a + 1 \in Nat
    OBVIOUS
  <2>2. Good(Flatten(parts), a + 1, (a + 1) + n, exits)
    BY <2>1, YieldsEach
  <2>3. Good(c, a, a + 1, exits)
    BY DEF Yields
  <2>4. Good(c \o Flatten(parts), a, (a + 1) + n, exits)
    BY <2>2, <2>3, Glue
  <2>5. Good(<< <<"CALL", n>> >>, (a + 1) + n, a + 1, exits)
    BY GoodCall
  <2>. QED BY <2>4, <2>5, Glue
<1>. QED BY <1>1 DEF Yields

\* A task, and its message.
LEMMA YieldsSpawn ==
  ASSUME NEW c, Yields(c), NEW n \in Nat, NEW parts, Each(parts, n)
  PROVE  Yields(((c \o << <<"SPAWN">>, <<"DUP">>, <<"GETATTR", "send">> >>) \o Flatten(parts))
                  \o << <<"MAKEARRAY", n>>, <<"CALL", 1>>, <<"POP">> >>)
<1>. DEFINE x1 == <<"SPAWN">>
            x2 == <<"DUP">>
            x3 == <<"GETATTR", "send">>
            y1 == <<"MAKEARRAY", n>>
            y2 == <<"CALL", 1>>
            y3 == <<"POP">>
<1>1. ASSUME NEW a \in Nat, NEW exits
      PROVE  Good(((c \o <<x1, x2, x3>>) \o Flatten(parts)) \o <<y1, y2, y3>>, a, a + 1, exits)
  <2>1. PICK b \in Nat : b = a + 1
    OBVIOUS
  <2>2. b + 1 = a + 2 /\ b + 1 \in Nat /\ (b + 1) + 1 = b + 2 /\ 1 \in Nat
    BY <2>1
  <2>3. Good(<<x1>>, b, b, exits)
    <3>1. x1[1] \in Turning /\ Len(x1) # 3
      BY DEF Turning
    <3>. QED BY <2>1, <3>1, GoodTurn
  <2>4. Good(<<x2>>, b, b + 1, exits)
    BY <2>1, <2>2, GoodDup
  <2>5. Good(<<x3>>, b + 1, b + 1, exits)
    <3>1. x3[1] \in Turning /\ Len(x3) # 3
      BY DEF Turning
    <3>. QED BY <3>1, GoodTurn
  <2>6. Good(<<y1>>, (b + 1) + n, b + 2, exits)
    <3>1. Good(<<y1>>, (b + 1) + n, (b + 1) + 1, exits)
      BY <2>2, GoodArray
    <3>. QED BY <2>2, <3>1
  <2>7. Good(<<y2>>, b + 2, b + 1, exits)
    <3>1. Good(<<y2>>, (b + 1) + 1, b + 1, exits)
      BY <2>2, GoodCall
    <3>. QED BY <2>2, <3>1
  <2>8. Good(<<y3>>, b + 1, b, exits)
    BY GoodPop
  <2>. HIDE DEF x1, x2, x3, y1, y2, y3
  <2>9. Good(<<x1, x2>>, b, b + 1, exits)
    BY <2>3, <2>4, Glue, Row2
  <2>10. Good(<<x1, x2, x3>>, b, b + 1, exits)
    BY <2>5, <2>9, Glue, Row3
  <2>11. Good(<<y1, y2>>, (b + 1) + n, b + 1, exits)
    BY <2>6, <2>7, Glue, Row2
  <2>12. Good(<<y1, y2, y3>>, (b + 1) + n, b, exits)
    BY <2>8, <2>11, Glue, Row3
  <2>13. Good(c, a, b, exits)
    BY <2>1 DEF Yields
  <2>14. Good(c \o <<x1, x2, x3>>, a, b + 1, exits)
    BY <2>10, <2>13, Glue
  <2>15. Good(Flatten(parts), b + 1, (b + 1) + n, exits)
    BY <2>2, YieldsEach
  <2>16. Good((c \o <<x1, x2, x3>>) \o Flatten(parts), a, (b + 1) + n, exits)
    BY <2>14, <2>15, Glue
  <2>17. Good(((c \o <<x1, x2, x3>>) \o Flatten(parts)) \o <<y1, y2, y3>>, a, b, exits)
    BY <2>12, <2>16, Glue
  <2>. QED BY <2>1, <2>17
<1>. HIDE DEF x1, x2, x3, y1, y2, y3
<1>2. Yields(((c \o <<x1, x2, x3>>) \o Flatten(parts)) \o <<y1, y2, y3>>)
  BY <1>1 DEF Yields
<1>. QED BY <1>2 DEF x1, x2, x3, y1, y2, y3

\* A right side that may be skipped leaves a value either way.
LEMMA YieldsUnless ==
  ASSUME NEW op \in {"JUMPIFTRUE", "JUMPIFFALSE"}, NEW c, Yields(c), NEW d, Yields(d)
  PROVE  Yields(c \o Unless(op, d))
<1>1. ASSUME NEW a \in Nat, NEW exits PROVE Good(c \o Unless(op, d), a, a + 1, exits)
  <2>1. Good(c, a, a + 1, exits) /\ Good(d, a, a + 1, exits)
    BY DEF Yields
  <2>2. Good(Unless(op, d), a + 1, a + 1, exits)
    BY <2>1, GoodUnless
  <2>. QED BY <2>1, <2>2, Glue
<1>. QED BY <1>1 DEF Yields

\* An operation leaves a value.
LEMMA YieldsBinop ==
  ASSUME NEW op \in {"AND", "OR"} \union Comparisons \union Arithmetic,
         NEW c, Yields(c), NEW d, Yields(d)
  PROVE  Yields(Binop(op, c, d))
<1>1. CASE op = "OR"
  <2>1. Binop(op, c, d) = c \o Unless("JUMPIFFALSE", d)
    BY <1>1 DEF Binop
  <2>. QED BY <2>1, YieldsUnless
<1>2. CASE op = "AND"
  <2>1. Binop(op, c, d) = c \o Unless("JUMPIFTRUE", d)
    BY <1>2 DEF Binop
  <2>. QED BY <2>1, YieldsUnless
<1>3. CASE op \in Comparisons \union Arithmetic
  <2>1. op # "OR" /\ op # "AND"
    BY <1>3 DEF Comparisons, Arithmetic
  <2>. DEFINE x == <<op>>
  <2>2. x[1] \in Joining /\ Len(x) # 3
    BY <1>3 DEF Joining
  <2>3. Binop(op, c, d) = (c \o d) \o <<x>>
    BY <2>1 DEF Binop
  <2>. HIDE DEF x
  <2>. QED BY <2>2, <2>3, YieldsJoined
<1>. QED BY <1>1, <1>2, <1>3

\* A function as an expression leaves a value.
LEMMA YieldsFn ==
  ASSUME NEW id, NEW units
  PROVE  Yields(Fn(id, units))
<1>. DEFINE x == <<"PUSHCONST", <<"method", id>>>>
            y == <<"MAKECLOSURE">>
<1>1. x[1] \in Pushing /\ Len(x) # 3 /\ y[1] \in Turning /\ Len(y) # 3
  BY DEF Pushing, Turning
<1>2. Fn(id, units) = <<x>> \o <<>> \/ Fn(id, units) = <<x>> \o <<y>>
  BY DEF Fn
<1>. HIDE DEF x, y
<1>3. Yields(<<x>>)
  BY <1>1, YieldsOne
<1>4. Yields(<<x>> \o <<y>>)
  BY <1>1, <1>3, YieldsTurned
<1>5. ASSUME NEW a \in Nat, NEW exits PROVE Good(<<x>> \o <<>>, a, a + 1, exits)
  <2>1. Good(<<x>>, a, a + 1, exits) /\ a + 1 \in Nat
    BY <1>3 DEF Yields
  <2>2. Good(<<>>, a + 1, a + 1, exits)
    BY <2>1, GoodNothing
  <2>. QED BY <2>1, <2>2, Glue
<1>6. Yields(<<x>> \o <<>>)
  BY <1>5 DEF Yields
<1>. QED BY <1>2, <1>4, <1>6

-----------------------------------------------------------------------------
(* Statements.                                                             *)

\* The variables of a pattern, with the keys that lead to their values.
Binds(bound) == IsSeq(bound) /\ \A i \in 1..Len(bound) : IsSeq(bound[i][2])

\* All variables of a pattern are bound with the subject on the stack.
LEMMA GoodBinds ==
  ASSUME NEW bound, Binds(bound), NEW a \in Nat, NEW exits
  PROVE  Good(Flatten([i \in DOMAIN bound |-> BindVar(bound[i])]), a + 1, a + 1, exits)
<1>1. PICK n \in Nat : n = Len(bound)
  BY SeqIs DEF Binds
<1>2. DOMAIN bound = 1..n /\ \A i \in 1..n : IsSeq(bound[i][2])
  BY <1>1, SeqIs DEF Binds
<1>. DEFINE parts == [i \in DOMAIN bound |-> BindVar(bound[i])]
<1>3. \A i \in 1..n : parts[i] = BindVar(bound[i])
  BY <1>2
<1>4. parts = [i \in 1..n |-> parts[i]]
  BY <1>2
<1>. HIDE DEF parts
<1>5. Len(parts) = n
  BY <1>4, Parts
<1>6. \A i \in 1..n : Good(parts[i], a + 1, a + 1, exits)
  BY <1>2, <1>3, GoodBindVar
<1>7. a + 1 \in Nat
  OBVIOUS
<1>8. Good(Flatten(parts), a + 1, a + 1, exits)
  BY <1>5, <1>6, <1>7, GoodAll
<1>. QED BY <1>8 DEF parts

\* No two labels of the compiler are the same.
LEMMA LabelsDiffer ==
  /\ EndLabel # NextLabel /\ EndLabel # BreakLabel /\ NextLabel # BreakLabel
  /\ \A d : EndLabel # PopLabel(d) /\ NextLabel # PopLabel(d)
  /\ \A d, e : PopLabel(d) = PopLabel(e) => d = e
<1>1. /\ EndLabel[1] = "end" /\ NextLabel[1] = "next" /\ BreakLabel[1] = "break"
      /\ \A d : PopLabel(d)[1] = "pop" /\ PopLabel(d)[2] = d
  BY DEF EndLabel, NextLabel, BreakLabel, PopLabel
<1>. QED BY <1>1

\* A clause has the subject on the stack, and leaves it there for the next one.
LEMMA GoodClause ==
  ASSUME NEW test, Tests(test, NextLabel), NEW bound, Binds(bound), NEW a \in Nat, NEW exits,
         NEW body, Good(body, a, a, exits), NextLabel \notin DOMAIN exits, Reaches(EndLabel, a, exits)
  PROVE  Good(Clause(test, bound, body), a + 1, a + 1, exits)
<1>. DEFINE inner == With(exits, NextLabel, a + 1)
            bind == Flatten([i \in DOMAIN bound |-> BindVar(bound[i])])
            x == JumpTo("JUMP", EndLabel)
            c == (((test \o bind) \o << <<"POP">> >>) \o body) \o <<x>>
<1>1. a + 1 \in Nat
  OBVIOUS
<1>2. /\ Reaches(NextLabel, a + 1, inner) /\ inner[NextLabel] = a + 1
      /\ AsksBut(NextLabel, inner, exits) /\ Asks(exits, inner)
  BY <1>1, WithIs
<1>3. Reaches(EndLabel, a, inner)
  BY <1>1, WithIs, LabelsDiffer
<1>4. Clause(test, bound, body) = UseLabel(c, NextLabel)
  BY DEF Clause
<1>5. Good(bind, a + 1, a + 1, inner)
  BY GoodBinds
<1>. HIDE DEF inner, bind
<1>6. Good(test, a + 1, a + 1, inner)
  BY <1>2 DEF Tests
<1>7. Good(<< <<"POP">> >>, a + 1, a, inner)
  BY GoodPop
<1>8. Good(body, a, a, inner)
  BY <1>2, Loosen
<1>9. Good(<<x>>, a, a + 1, inner)
  BY <1>1, <1>3, GoodAway
<1>. HIDE DEF x
<1>10. Good(test \o bind, a + 1, a + 1, inner)
  BY <1>5, <1>6, Glue
<1>11. Good((test \o bind) \o << <<"POP">> >>, a + 1, a, inner)
  BY <1>7, <1>10, Glue
<1>12. Good(((test \o bind) \o << <<"POP">> >>) \o body, a + 1, a, inner)
  BY <1>8, <1>11, Glue
<1>13. Good(c, a + 1, a + 1, inner)
  BY <1>9, <1>12, Glue
<1>. HIDE DEF c
<1>14. inner[NextLabel] \in Nat => a + 1 <= inner[NextLabel]
  BY <1>1, <1>2
<1>15. Good(UseLabel(c, NextLabel), a + 1, a + 1, exits)
  BY <1>1, <1>2, <1>13, <1>14, GoodUse
<1>. QED BY <1>4, <1>15

\* A match leaves the stack as it was.
LEMMA GoodMatch ==
  ASSUME NEW subject, Yields(subject), NEW n \in Nat, NEW parts, Len(parts) = n,
         NEW a \in Nat, NEW exits, EndLabel \notin DOMAIN exits,
         \A i \in 1..n : Good(parts[i], a + 1, a + 1, With(exits, EndLabel, a))
  PROVE  Good(Match(subject, parts), a, a, exits)
<1>. DEFINE inner == With(exits, EndLabel, a)
            c == subject \o Flatten(parts)
<1>1. inner[EndLabel] = a /\ AsksBut(EndLabel, inner, exits)
  BY WithIs
<1>2. \A i \in 1..n : Good(parts[i], a + 1, a + 1, inner)
  OBVIOUS
<1>. HIDE DEF inner
<1>3. a + 1 \in Nat /\ a # a + 1 /\ a <= a + 1 /\ a <= a
  OBVIOUS
<1>4. Good(Flatten(parts), a + 1, a + 1, inner)
  BY <1>2, <1>3, GoodAll
<1>5. Good(subject, a, a + 1, inner)
  BY DEF Yields
<1>6. Good(c, a, a + 1, inner)
  BY <1>4, <1>5, Glue
<1>. HIDE DEF c
<1>7. Good(c, a, a, inner)
  BY <1>3, <1>6, GoodLower
<1>8. inner[EndLabel] \in Nat => a <= inner[EndLabel]
  BY <1>1, <1>3
<1>9. Good(UseLabel(c, EndLabel), a, a, exits)
  BY <1>1, <1>7, <1>8, GoodUse
<1>. QED BY <1>9 DEF Match, c

\* A loop leaves the stack as it was, however it is left.
LEMMA GoodWhile ==
  ASSUME NEW cond, Yields(cond), NEW body, NEW a \in Nat, NEW exits,
         Good(body, a, a, With(exits, BreakLabel, a))
  PROVE  Good(While(cond, body), a, a, exits)
<1>. DEFINE inner == With(exits, BreakLabel, a)
            x == JumpTo("JUMPIFFALSE", BreakLabel)
            loop == (cond \o <<x>>) \o body
            c == Append(loop, <<"JUMP", -Len(loop)>>)
<1>1. /\ inner[BreakLabel] = a /\ AsksBut(BreakLabel, inner, exits)
      /\ Reaches(BreakLabel, a, inner) /\ a <= a
  BY WithIs
<1>2. While(cond, body) = UseLabel(c, BreakLabel)
  BY DEF While
<1>3. Good(body, a, a, inner)
  OBVIOUS
<1>. HIDE DEF inner
<1>4. Good(<<x>>, a + 1, a, inner)
  BY <1>1, GoodUnlessTrue
<1>. HIDE DEF x
<1>5. Good(cond, a, a + 1, inner)
  BY DEF Yields
<1>6. Good(cond \o <<x>>, a, a, inner)
  BY <1>4, <1>5, Glue
<1>7. Good(loop, a, a, inner)
  BY <1>3, <1>6, Glue
<1>. HIDE DEF loop
<1>8. Good(c, a, a, inner)
  BY <1>1, <1>7, GoodBack
<1>. HIDE DEF c
<1>9. inner[BreakLabel] \in Nat => a <= inner[BreakLabel]
  BY <1>1
<1>10. Good(UseLabel(c, BreakLabel), a, a, exits)
  BY <1>1, <1>8, <1>9, GoodUse
<1>. QED BY <1>2, <1>10

\* The code of expressions in a row.
LEMMA CodesYield ==
  ASSUME NEW E, NEW code, \A m \in E : Yields(code[m]), NEW nodes \in Seq(E)
  PROVE  \E parts : CodeOf(nodes, code) = Flatten(parts) /\ Each(parts, Len(nodes)) /\ Len(nodes) \in Nat
<1>1. PICK n \in Nat : n = Len(nodes)
  BY LenProperties
<1>2. DOMAIN nodes = 1..n /\ \A i \in 1..n : nodes[i] \in E
  BY <1>1, LenProperties
<1>. DEFINE parts == [i \in DOMAIN nodes |-> code[nodes[i]]]
<1>3. \A i \in 1..n : parts[i] = code[nodes[i]]
  BY <1>2
<1>4. parts = [i \in 1..n |-> parts[i]]
  BY <1>2
<1>5. CodeOf(nodes, code) = Flatten(parts)
  BY DEF CodeOf
<1>. HIDE DEF parts
<1>6. Len(parts) = n
  BY <1>4, Parts
<1>7. Each(parts, n)
  BY <1>2, <1>3, <1>6 DEF Each
<1>. QED BY <1>1, <1>5, <1>7

\* An expression yields a value if those below it do.
LEMMA ExprYields ==
  ASSUME NEW e, NEW E, Expression(e, E), NEW units, NEW code, \A m \in E : Yields(code[m])
  PROVE  Yields(ExprCode(e, units, code))
<1>. DEFINE c == ExprCode(e, units, code)
<1>1. CASE e[1] \in {"const", "nil", "ident"}
  <2>1. c \in { << <<"PUSHCONST", e[2]>> >>, << <<"PUSHNIL">> >>, << <<"PUSHNAME", e[2]>> >> }
    BY <1>1 DEF ExprCode
  <2>2. ASSUME NEW x \in { <<"PUSHCONST", e[2]>>, <<"PUSHNIL">>, <<"PUSHNAME", e[2]>> }
        PROVE  Yields(<<x>>)
    <3>1. x[1] \in Pushing /\ Len(x) # 3
      BY DEF Pushing
    <3>. QED BY <3>1, YieldsOne
  <2>. HIDE DEF c
  <2>. QED BY <2>1, <2>2 DEF c
<1>2. CASE e[1] = "fn"
  <2>1. c = Fn(e[2], units)
    BY <1>2 DEF ExprCode
  <2>. QED BY <2>1, YieldsFn
<1>3. CASE e[1] = "array"
  <2>1. e[2] \in Seq(E)
    BY <1>3 DEF Expression
  <2>2. c = CodeOf(e[2], code) \o << <<"MAKEARRAY", Len(e[2])>> >>
    BY <1>3 DEF ExprCode
  <2>. HIDE DEF c
  <2>3. PICK parts : /\ CodeOf(e[2], code) = Flatten(parts) /\ Each(parts, Len(e[2]))
                     /\ Len(e[2]) \in Nat
    BY <2>1, CodesYield
  <2>4. Yields(Flatten(parts) \o << <<"MAKEARRAY", Len(e[2])>> >>)
    BY <2>3, YieldsArray
  <2>. QED BY <2>2, <2>3, <2>4 DEF c
<1>4. CASE e[1] = "hash"
  <2>1. e[2] \in Seq(E)
    BY <1>4 DEF Expression
  <2>2. c = CodeOf(e[2], code) \o << <<"MAKEHASH", Len(e[2]) \div 2>> >>
    BY <1>4 DEF ExprCode
  <2>. HIDE DEF c
  <2>3. PICK parts : /\ CodeOf(e[2], code) = Flatten(parts) /\ Each(parts, Len(e[2]))
                     /\ Len(e[2]) \in Nat
    BY <2>1, CodesYield
  <2>4. Yields(Flatten(parts) \o << <<"MAKEHASH", Len(e[2]) \div 2>> >>)
    BY <2>3, YieldsHash
  <2>. QED BY <2>2, <2>3, <2>4 DEF c
<1>5. CASE e[1] = "getattr"
  <2>1. Yields(code[e[2]])
    BY <1>5 DEF Expression
  <2>. DEFINE x == <<"GETATTR", e[3]>>
  <2>2. c = code[e[2]] \o <<x>>
    BY <1>5 DEF ExprCode
  <2>3. x[1] \in Turning /\ Len(x) # 3
    BY DEF Turning
  <2>. HIDE DEF x, c
  <2>4. Yields(c)
    BY <2>1, <2>2, <2>3, YieldsTurned
  <2>. QED BY <2>4 DEF c
<1>6. CASE e[1] = "not"
  <2>1. Yields(code[e[2]])
    BY <1>6 DEF Expression
  <2>. DEFINE x == <<"NOT">>
  <2>2. c = code[e[2]] \o <<x>>
    BY <1>6 DEF ExprCode
  <2>3. x[1] \in Turning /\ Len(x) # 3
    BY DEF Turning
  <2>. HIDE DEF x, c
  <2>4. Yields(c)
    BY <2>1, <2>2, <2>3, YieldsTurned
  <2>. QED BY <2>4 DEF c
<1>7. CASE e[1] = "getitem"
  <2>1. Yields(code[e[2]]) /\ Yields(code[e[3]])
    BY <1>7 DEF Expression
  <2>. DEFINE x == <<"GETITEM">>
  <2>2. c = (code[e[2]] \o code[e[3]]) \o <<x>>
    BY <1>7 DEF ExprCode
  <2>3. x[1] \in Joining /\ Len(x) # 3
    BY DEF Joining
  <2>. HIDE DEF x, c
  <2>4. Yields(c)
    BY <2>1, <2>2, <2>3, YieldsJoined
  <2>. QED BY <2>4 DEF c
<1>8. CASE e[1] = "call"
  <2>1. Yields(code[e[2]]) /\ e[3] \in Seq(E)
    BY <1>8 DEF Expression
  <2>2. c = (code[e[2]] \o CodeOf(e[3], code)) \o << <<"CALL", Len(e[3])>> >>
    BY <1>8 DEF ExprCode
  <2>. HIDE DEF c
  <2>3. PICK parts : /\ CodeOf(e[3], code) = Flatten(parts) /\ Each(parts, Len(e[3]))
                     /\ Len(e[3]) \in Nat
    BY <2>1, CodesYield
  <2>4. Yields((code[e[2]] \o Flatten(parts)) \o << <<"CALL", Len(e[3])>> >>)
    BY <2>1, <2>3, YieldsCall
  <2>. QED BY <2>2, <2>3, <2>4 DEF c
<1>9. CASE e[1] = "spawn"
  <2>1. Yields(code[e[2]]) /\ e[3] \in Seq(E)
    BY <1>9 DEF Expression
  <2>2. c = ((code[e[2]] \o << <<"SPAWN">>, <<"DUP">>, <<"GETATTR", "send">> >>) \o CodeOf(e[3], code))
              \o << <<"MAKEARRAY", Len(e[3])>>, <<"CALL", 1>>, <<"POP">> >>
    BY <1>9 DEF ExprCode
  <2>. HIDE DEF c
  <2>3. PICK parts : /\ CodeOf(e[3], code) = Flatten(parts) /\ Each(parts, Len(e[3]))
                     /\ Len(e[3]) \in Nat
    BY <2>1, CodesYield
  <2>4. Yields(((code[e[2]] \o << <<"SPAWN">>, <<"DUP">>, <<"GETATTR", "send">> >>) \o Flatten(parts))
                 \o << <<"MAKEARRAY", Len(e[3])>>, <<"CALL", 1>>, <<"POP">> >>)
    BY <2>1, <2>3, YieldsSpawn
  <2>. QED BY <2>2, <2>3, <2>4 DEF c
<1>10. CASE e[1] = "binop"
  <2>1. Yields(code[e[3]]) /\ Yields(code[e[4]]) /\ e[2] \in Operators
    BY <1>10 DEF Expression
  <2>2. e[2] \in {"AND", "OR"} \union Comparisons \union Arithmetic
    BY <2>1 DEF Operators, Comparisons, Arithmetic
  <2>3. c = Binop(e[2], code[e[3]], code[e[4]])
    BY <1>10 DEF ExprCode
  <2>. HIDE DEF c
  <2>. QED BY <2>1, <2>2, <2>3, YieldsBinop DEF c
<1>. QED BY <1>1, <1>2, <1>3, <1>4, <1>5, <1>6, <1>7, <1>8, <1>9, <1>10 DEF Expression

\* A statement leaves the stack as it finds it, and at the labels it goes to as well.
Out(labels, a) == [l \in labels |-> a]
Does(c, labels) == \A a \in Nat : Good(c, a, a, Out(labels, a))

\* What is left at the labels a statement goes to.
LEMMA OutIs ==
  ASSUME NEW labels, NEW a
  PROVE  DOMAIN Out(labels, a) = labels /\ \A l \in labels : Out(labels, a)[l] = a
BY DEF Out

\* Statements in a row.
LEMMA CodesDo ==
  ASSUME NEW S, NEW code, NEW labels, \A m \in S : Does(code[m], labels), NEW nodes \in Seq(S)
  PROVE  Does(CodeOf(nodes, code), labels)
<1>1. PICK n \in Nat : n = Len(nodes)
  BY LenProperties
<1>2. DOMAIN nodes = 1..n /\ \A i \in 1..n : nodes[i] \in S
  BY <1>1, LenProperties
<1>. DEFINE parts == [i \in DOMAIN nodes |-> code[nodes[i]]]
<1>3. \A i \in 1..n : parts[i] = code[nodes[i]]
  BY <1>2
<1>4. parts = [i \in 1..n |-> parts[i]]
  BY <1>2
<1>5. CodeOf(nodes, code) = Flatten(parts)
  BY DEF CodeOf
<1>. HIDE DEF parts
<1>6. Len(parts) = n
  BY <1>4, Parts
<1>7. ASSUME NEW a \in Nat PROVE Good(Flatten(parts), a, a, Out(labels, a))
  <2>1. \A i \in 1..n : Good(parts[i], a, a, Out(labels, a))
    BY <1>2, <1>3 DEF Does
  <2>. QED BY <1>6, <2>1, GoodAll
<1>. QED BY <1>5, <1>7 DEF Does

\* An expression and an instruction that takes its value.
LEMMA DoesTaken ==
  ASSUME NEW c, Yields(c), NEW x, x[1] \in Taking, Len(x) # 3, NEW labels
  PROVE  Does(c \o <<x>>, labels)
<1>1. ASSUME NEW a \in Nat PROVE Good(c \o <<x>>, a, a, Out(labels, a))
  <2>1. Good(c, a, a + 1, Out(labels, a)) /\ Good(<<x>>, a + 1, a, Out(labels, a))
    BY GoodTake DEF Yields
  <2>. QED BY <2>1, Glue
<1>. QED BY <1>1 DEF Does

\* An if without an else does its part.
LEMMA DoesIf ==
  ASSUME NEW cond, Yields(cond), NEW labels, NEW c, Does(c, labels)
  PROVE  Does(cond \o If(c), labels)
<1>1. ASSUME NEW a \in Nat PROVE Good(cond \o If(c), a, a, Out(labels, a))
  <2>1. Good(cond, a, a + 1, Out(labels, a)) /\ Good(c, a, a, Out(labels, a))
    BY DEF Yields, Does
  <2>2. Good(If(c), a + 1, a, Out(labels, a))
    BY <2>1, GoodIf
  <2>. QED BY <2>1, <2>2, Glue
<1>. QED BY <1>1 DEF Does

\* An if with an else does its part.
LEMMA DoesIfElse ==
  ASSUME NEW cond, Yields(cond), NEW labels, NEW c, Does(c, labels), NEW d, Does(d, labels)
  PROVE  Does(cond \o IfElse(c, d), labels)
<1>1. ASSUME NEW a \in Nat PROVE Good(cond \o IfElse(c, d), a, a, Out(labels, a))
  <2>1. /\ Good(cond, a, a + 1, Out(labels, a))
        /\ Good(c, a, a, Out(labels, a)) /\ Good(d, a, a, Out(labels, a))
    BY DEF Yields, Does
  <2>2. Good(IfElse(c, d), a + 1, a, Out(labels, a))
    BY <2>1, GoodIfElse
  <2>. QED BY <2>1, <2>2, Glue
<1>. QED BY <1>1 DEF Does

\* A loop does its part, and whoever breaks from its body goes behind it.
LEMMA DoesWhile ==
  ASSUME NEW cond, Yields(cond), NEW body, Does(body, {BreakLabel}), NEW labels
  PROVE  Does(While(cond, body), labels)
<1>1. ASSUME NEW a \in Nat PROVE Good(While(cond, body), a, a, Out(labels, a))
  <2>. DEFINE out == Out({BreakLabel}, a)
              inner == With(Out(labels, a), BreakLabel, a)
  <2>1. Good(body, a, a, out)
    BY DEF Does
  <2>2. Asks(out, inner)
    <3>1. DOMAIN out = {BreakLabel} /\ out[BreakLabel] = a
      BY OutIs
    <3>2. BreakLabel \in DOMAIN inner /\ inner[BreakLabel] = a
      BY DEF With
    <3>. HIDE DEF out, inner
    <3>. QED BY <3>1, <3>2 DEF Asks
  <2>. HIDE DEF out
  <2>3. Good(body, a, a, inner)
    BY <2>1, <2>2, Loosen
  <2>. QED BY <2>3, GoodWhile
<1>. QED BY <1>1 DEF Does

\* The code of the clauses of a match, each with its pattern and its body.
LEMMA DoesMatch ==
  ASSUME NEW subject, Yields(subject), NEW labels \in SUBSET {BreakLabel}, NEW n \in Nat, NEW parts,
         Len(parts) = n, NEW test, NEW bound, NEW body,
         \A i \in 1..n : /\ parts[i] = Clause(test[i], bound[i], body[i])
                         /\ Tests(test[i], NextLabel) /\ Binds(bound[i]) /\ Does(body[i], labels)
  PROVE  Does(Match(subject, parts), labels)
<1>1. ASSUME NEW a \in Nat PROVE Good(Match(subject, parts), a, a, Out(labels, a))
  <2>. DEFINE out == Out(labels, a)
              inner == With(out, EndLabel, a)
  <2>1. DOMAIN out = labels /\ EndLabel \notin DOMAIN out
    BY OutIs, LabelsDiffer
  <2>2. NextLabel \notin DOMAIN inner
    <3>1. DOMAIN inner = labels \union {EndLabel}
      BY <2>1 DEF With
    <3>. QED BY <3>1, LabelsDiffer
  <2>3. Reaches(EndLabel, a, inner) /\ Asks(out, inner)
    BY <2>1, WithIs
  <2>4. ASSUME NEW i \in 1..n PROVE Good(parts[i], a + 1, a + 1, inner)
    <3>1. /\ parts[i] = Clause(test[i], bound[i], body[i])
          /\ Tests(test[i], NextLabel) /\ Binds(bound[i]) /\ Does(body[i], labels)
      OBVIOUS
    <3>2. Good(body[i], a, a, out)
      BY <3>1 DEF Does
    <3>. HIDE DEF out, inner
    <3>3. Good(body[i], a, a, inner)
      BY <2>3, <3>2, Loosen
    <3>4. Good(Clause(test[i], bound[i], body[i]), a + 1, a + 1, inner)
      BY <2>2, <2>3, <3>1, <3>3, GoodClause
    <3>. QED BY <3>1, <3>4
  <2>. HIDE DEF out
  <2>5. Good(Match(subject, parts), a, a, out)
    BY <2>1, <2>4, GoodMatch
  <2>. QED BY <2>5 DEF out
<1>. QED BY <1>1 DEF Does

\* A ret ends the function; whatever is taken to be behind it.
LEMMA GoodReturn ==
  ASSUME NEW s, NEW E, s[1] = "ret", Len(s) = 1 \/ s[2] \in E, NEW code, \A m \in E : Yields(code[m]),
         NEW tests, NEW bound, NEW a \in Nat, NEW b \in Nat, NEW exits
  PROVE  Good(StmtCode(s, code, tests, bound), a, b, exits)
<1>. DEFINE v == IF Len(s) = 1 THEN << <<"PUSHNIL">> >> ELSE code[s[2]]
<1>1. StmtCode(s, code, tests, bound) = v \o << <<"RET">> >>
  BY DEF StmtCode
<1>2. Yields(v)
  <2>1. CASE Len(s) = 1
    <3>. DEFINE x == <<"PUSHNIL">>
    <3>1. x[1] \in Pushing /\ Len(x) # 3
      BY DEF Pushing
    <3>2. v = <<x>>
      BY <2>1
    <3>. HIDE DEF x, v
    <3>. QED BY <3>1, <3>2, YieldsOne
  <2>2. CASE Len(s) # 1
    BY <2>2
  <2>. QED BY <2>1, <2>2
<1>. HIDE DEF v
<1>3. Good(v, a, a + 1, exits) /\ Good(<< <<"RET">> >>, a + 1, b, exits)
  BY <1>2, GoodRet DEF Yields
<1>4. Good(v \o << <<"RET">> >>, a, b, exits)
  BY <1>3, Glue
<1>. QED BY <1>1, <1>4

\* A statement does its part if what is below it does.
LEMMA StmtDoes ==
  ASSUME NEW s, NEW E, NEW P, NEW S, NEW L, Statement(s, E, P, S, L),
         NEW labels \in SUBSET {BreakLabel}, s[1] = "break" => BreakLabel \in labels,
         NEW code, \A m \in E : Yields(code[m]),
         \A m \in S : Does(code[m], labels), \A m \in L : Does(code[m], {BreakLabel}),
         NEW test, NEW bound,
         \A p \in P : p \in Tried(s) => Tests(test[p], NextLabel) /\ Binds(bound[p])
  PROVE  Does(StmtCode(s, code, test, bound), labels)
<1>. DEFINE c == StmtCode(s, code, test, bound)
<1>1. CASE s[1] = "expr"
  <2>1. Yields(code[s[2]])
    BY <1>1 DEF Statement
  <2>. DEFINE x == <<"POP">>
  <2>2. c = code[s[2]] \o <<x>>
    BY <1>1 DEF StmtCode
  <2>3. x[1] \in Taking /\ Len(x) # 3
    BY DEF Taking
  <2>. HIDE DEF x, c
  <2>4. Does(c, labels)
    BY <2>1, <2>2, <2>3, DoesTaken
  <2>. QED BY <2>4 DEF c
<1>2. CASE s[1] \in {"assign", "var"} /\ s[3] \in E /\ (s[1] = "var" => Len(s) # 2)
  <2>1. Yields(code[s[3]])
    BY <1>2
  <2>. DEFINE x == <<"STORENAME", s[2]>>
  <2>2. c = code[s[3]] \o <<x>>
    BY <1>2 DEF StmtCode
  <2>3. x[1] \in Taking /\ Len(x) # 3
    BY DEF Taking
  <2>. HIDE DEF x, c
  <2>4. Does(c, labels)
    BY <2>1, <2>2, <2>3, DoesTaken
  <2>. QED BY <2>4 DEF c
<1>3. CASE s[1] = "var" /\ Len(s) = 2
  <2>1. c = <<>>
    BY <1>3 DEF StmtCode
  <2>. HIDE DEF c
  <2>2. Does(<<>>, labels)
    BY GoodNothing DEF Does
  <2>. QED BY <2>1, <2>2 DEF c
<1>4. CASE s[1] = "if" /\ Len(s) = 3
  <2>1. Yields(code[s[2]]) /\ s[3] \in Seq(S)
    BY <1>4 DEF Statement
  <2>2. c = code[s[2]] \o If(CodeOf(s[3], code))
    BY <1>4 DEF StmtCode
  <2>. HIDE DEF c
  <2>3. Does(CodeOf(s[3], code), labels)
    BY <2>1, CodesDo
  <2>4. Does(c, labels)
    BY <2>1, <2>2, <2>3, DoesIf
  <2>. QED BY <2>4 DEF c
<1>5. CASE s[1] = "if" /\ Len(s) # 3
  <2>1. Yields(code[s[2]]) /\ s[3] \in Seq(S) /\ s[4] \in Seq(S)
    BY <1>5 DEF Statement
  <2>2. c = code[s[2]] \o IfElse(CodeOf(s[3], code), CodeOf(s[4], code))
    BY <1>5 DEF StmtCode
  <2>. HIDE DEF c
  <2>3. Does(CodeOf(s[3], code), labels) /\ Does(CodeOf(s[4], code), labels)
    BY <2>1, CodesDo
  <2>4. Does(c, labels)
    BY <2>1, <2>2, <2>3, DoesIfElse
  <2>. QED BY <2>4 DEF c
<1>6. CASE s[1] = "while"
  <2>1. Yields(code[s[2]]) /\ s[3] \in Seq(L)
    BY <1>6 DEF Statement
  <2>2. c = While(code[s[2]], CodeOf(s[3], code))
    BY <1>6 DEF StmtCode
  <2>. HIDE DEF c
  <2>3. Does(CodeOf(s[3], code), {BreakLabel})
    BY <2>1, CodesDo
  <2>4. Does(c, labels)
    BY <2>1, <2>2, <2>3, DoesWhile
  <2>. QED BY <2>4 DEF c
<1>7. CASE s[1] = "match"
  <2>1. Yields(code[s[2]]) /\ s[3] \in Seq(P \X Seq(S))
    BY <1>7 DEF Statement
  <2>. DEFINE tests == [i \in DOMAIN s[3] |-> test[s[3][i][1]]]
              bounds == [i \in DOMAIN s[3] |-> bound[s[3][i][1]]]
              bodies == [i \in DOMAIN s[3] |-> CodeOf(s[3][i][2], code)]
              parts == [i \in DOMAIN s[3] |-> Clause(test[s[3][i][1]], bound[s[3][i][1]],
                                                     CodeOf(s[3][i][2], code))]
  <2>2. c = Match(code[s[2]], parts)
    BY <1>7 DEF StmtCode
  <2>3. PICK n \in Nat : n = Len(s[3])
    BY <2>1, LenProperties
  <2>4. DOMAIN s[3] = 1..n /\ \A i \in 1..n : s[3][i] \in P \X Seq(S)
    BY <2>1, <2>3, LenProperties
  <2>5. \A i \in 1..n : parts[i] = Clause(tests[i], bounds[i], bodies[i])
    BY <2>4
  <2>6. \A i \in 1..n : /\ tests[i] = test[s[3][i][1]] /\ bounds[i] = bound[s[3][i][1]]
                        /\ bodies[i] = CodeOf(s[3][i][2], code)
    BY <2>4
  <2>7. parts = [i \in 1..n |-> parts[i]]
    BY <2>4
  <2>. HIDE DEF parts, tests, bounds, bodies, c
  <2>8. Len(parts) = n
    BY <2>7, Parts
  <2>9. ASSUME NEW i \in 1..n
        PROVE  Tests(tests[i], NextLabel) /\ Binds(bounds[i]) /\ Does(bodies[i], labels)
    <3>1. s[3][i][1] \in P /\ s[3][i][2] \in Seq(S)
      BY <2>4
    <3>2. s[3][i][1] \in Tried(s)
      BY <1>7, <2>4 DEF Tried
    <3>3. Does(CodeOf(s[3][i][2], code), labels)
      BY <3>1, CodesDo
    <3>. QED BY <2>6, <3>1, <3>2, <3>3
  <2>10. \A i \in 1..n : /\ parts[i] = Clause(tests[i], bounds[i], bodies[i])
                         /\ Tests(tests[i], NextLabel) /\ Binds(bounds[i]) /\ Does(bodies[i], labels)
    BY <2>5, <2>9
  <2>11. Yields(code[s[2]])
    BY <2>1
  <2>12. Does(Match(code[s[2]], parts), labels)
    BY <2>8, <2>10, <2>11, DoesMatch
  <2>. QED BY <2>2, <2>12 DEF c
<1>8. CASE s[1] = "ret"
  <2>1. Len(s) = 1 \/ s[2] \in E
    BY <1>8 DEF Statement
  <2>. QED BY <1>8, <2>1, GoodReturn DEF Does
<1>9. CASE s[1] = "break"
  <2>1. c = << JumpTo("JUMP", BreakLabel) >>
    BY <1>9 DEF StmtCode
  <2>. HIDE DEF c
  <2>2. ASSUME NEW a \in Nat PROVE Good(<< JumpTo("JUMP", BreakLabel) >>, a, a, Out(labels, a))
    <3>1. Reaches(BreakLabel, a, Out(labels, a))
      BY <1>9, OutIs DEF Reaches
    <3>. QED BY <3>1, GoodAway
  <2>3. Does(c, labels)
    BY <2>1, <2>2 DEF Does
  <2>. QED BY <2>3 DEF c
<1>. QED BY <1>1, <1>2, <1>3, <1>4, <1>5, <1>6, <1>7, <1>8, <1>9 DEF Statement

-----------------------------------------------------------------------------
(* A whole function, from the trees that are least deep.                   *)

\* Of some trees one is least deep.
LEMMA Shallowest ==
  ASSUME NEW T, T # {}, NEW d, \A n \in T : d[n] \in Nat
  PROVE  \E n \in T : \A m \in T : d[n] <= d[m]
<1>. DEFINE R == { d[n] : n \in T }
<1>1. R \subseteq Nat /\ R # {}
  OBVIOUS
<1>2. PICK r \in R : \A k \in R : r <= k
  <2>. HIDE DEF R
  <2>. QED BY <1>1, NatMin
<1>. QED BY <1>2

\* Every expression of a function leaves a value.
LEMMA ExprsYield ==
  ASSUME NEW f, \A e \in f.exprs : ExprMade(f, e)
  PROVE  \A e \in f.exprs : Yields(f.code[e])
<1>. DEFINE T == { e \in f.exprs : ~Yields(f.code[e]) }
<1>1. SUFFICES ASSUME T # {} PROVE FALSE
  OBVIOUS
<1>2. \A e \in T : f.deep[e] \in Nat
  BY DEF ExprMade
<1>3. PICK e \in T : \A m \in T : f.deep[e] <= f.deep[m]
  <2>. HIDE DEF T
  <2>. QED BY <1>1, <1>2, Shallowest
<1>. DEFINE E == Lower(f.deep, f.exprs, e)
<1>4. /\ f.deep[e] \in Nat /\ Expression(e, E) /\ f.code[e] = ExprCode(e, f.units, f.code)
      /\ ~Yields(f.code[e])
  BY DEF ExprMade
<1>5. \A m \in E : Yields(f.code[m])
  <2>1. SUFFICES ASSUME NEW m \in E, ~Yields(f.code[m]) PROVE FALSE
    OBVIOUS
  <2>2. m \in T /\ f.deep[m] < f.deep[e]
    BY <2>1 DEF Lower
  <2>. QED BY <1>2, <1>3, <2>2
<1>. HIDE DEF E
<1>. QED BY <1>4, <1>5, ExprYields

\* A test goes to NextLabel when it fails, or pops the item of an array around it.
Marked(label, depth) == label = NextLabel \/ \E j \in 0..(depth - 1) : label = PopLabel(j)

\* The label an array makes for its items is new.
LEMMA MarkedIs ==
  ASSUME NEW depth \in Nat, NEW label, Marked(label, depth)
  PROVE  label # PopLabel(depth) /\ \A p : Marked(ItemLabel(p, label, depth), depth + 1)
<1>1. label # PopLabel(depth)
  BY LabelsDiffer DEF Marked
<1>2. \A j \in 0..(depth - 1) : j \in 0..((depth + 1) - 1)
  OBVIOUS
<1>3. depth \in 0..((depth + 1) - 1)
  OBVIOUS
<1>4. Marked(label, depth + 1) /\ Marked(PopLabel(depth), depth + 1)
  BY <1>2, <1>3 DEF Marked
<1>. QED BY <1>1, <1>4 DEF ItemLabel

\* The items of a pattern.
LEMMA ItemsAre ==
  ASSUME NEW p, NEW P, Pattern(p, P)
  PROVE  /\ p[1] \in {"const", "nil", "ident", "_", "array", "hash"}
         /\ Len(Items(p)) \in Nat /\ DOMAIN Items(p) = 1..Len(Items(p))
         /\ \A i \in 1..Len(Items(p)) : Items(p)[i] \in P
<1>1. p[1] \in {"const", "nil", "ident", "_"} => Items(p) = <<>>
  BY DEF Items
<1>2. <<>> \in Seq(P)
  BY EmptySeq
<1>3. Items(p) \in Seq(P) /\ p[1] \in {"const", "nil", "ident", "_", "array", "hash"}
  BY <1>1, <1>2 DEF Pattern
<1>. QED BY <1>3, LenProperties

\* The test of a pattern is one if the tests of its items are.
LEMMA TestFollows ==
  ASSUME NEW f, NEW p, NEW P, Pattern(p, P), NEW label, NEW depth \in Nat, Marked(label, depth),
         TestMade(f, p, label, depth),
         \A q \in P : \A l : <<q, l, depth + 1>> \in f.tests /\ Marked(l, depth + 1)
                               => Tests(f.test[<<q, l, depth + 1>>], l)
  PROVE  Tests(f.test[<<p, label, depth>>], label)
<1>. DEFINE l == ItemLabel(p, label, depth)
            tests == [i \in DOMAIN Items(p) |-> f.test[<<Items(p)[i], l, depth + 1>>]]
<1>1. PICK n \in Nat : n = Len(Items(p))
  BY ItemsAre
<1>2. /\ p[1] \in {"const", "nil", "ident", "_", "array", "hash"}
      /\ DOMAIN Items(p) = 1..n /\ \A i \in 1..n : Items(p)[i] \in P
  BY <1>1, ItemsAre
<1>3. f.test[<<p, label, depth>>] = PatternCode(p, tests, label, depth)
  BY DEF TestMade
<1>4. \A i \in 1..n : <<Items(p)[i], l, depth + 1>> \in f.tests
  BY <1>2 DEF TestMade
<1>5. label # PopLabel(depth) /\ Marked(l, depth + 1)
  BY MarkedIs
<1>6. DOMAIN tests = 1..n /\ \A i \in 1..n : tests[i] = f.test[<<Items(p)[i], l, depth + 1>>]
  BY <1>2
<1>. HIDE DEF tests, l
<1>7. \A i \in 1..n : Tests(tests[i], l)
  BY <1>2, <1>4, <1>5, <1>6
<1>8. AllTest(tests, ItemLabel(p, label, depth))
  BY <1>6, <1>7 DEF AllTest, l
<1>9. PICK t : t = tests
  OBVIOUS
<1>10. AllTest(t, ItemLabel(p, label, depth)) /\ f.test[<<p, label, depth>>] = PatternCode(p, t, label, depth)
  BY <1>3, <1>8, <1>9
<1>11. p[1] \in {"const", "nil", "ident", "_", "array", "hash"} /\ label # PopLabel(depth)
  BY <1>2, <1>5
<1>12. Tests(PatternCode(p, t, label, depth), label)
  BY <1>10, <1>11, GoodPattern
<1>. QED BY <1>10, <1>12

\* Every test of a function leaves its subject, whether it succeeds or fails.
LEMMA TestsTest ==
  ASSUME NEW f, \A p \in f.patterns : f.inner[p] \in Nat /\ Pattern(p, Lower(f.inner, f.patterns, p)),
         \A t \in f.tests : TestMade(f, t[1], t[2], t[3])
  PROVE  \A p, label : \A depth \in Nat :
           <<p, label, depth>> \in f.tests /\ Marked(label, depth)
             => Tests(f.test[<<p, label, depth>>], label)
<1>. DEFINE Fails(p, label, depth) == /\ <<p, label, depth>> \in f.tests /\ Marked(label, depth)
                                      /\ ~Tests(f.test[<<p, label, depth>>], label)
            T == { p \in f.patterns : \E label : \E depth \in Nat : Fails(p, label, depth) }
<1>1. ASSUME NEW p, NEW label, NEW depth, <<p, label, depth>> \in f.tests
      PROVE  TestMade(f, p, label, depth)
  <2>. DEFINE t == <<p, label, depth>>
  <2>1. t[1] = p /\ t[2] = label /\ t[3] = depth /\ t \in f.tests
    BY <1>1
  <2>. HIDE DEF t
  <2>. QED BY <2>1
<1>2. SUFFICES ASSUME NEW q, NEW l0, NEW d0 \in Nat, Fails(q, l0, d0) PROVE FALSE
  OBVIOUS
<1>3. q \in T
  BY <1>1, <1>2 DEF TestMade
<1>4. \A p \in T : f.inner[p] \in Nat
  OBVIOUS
<1>5. PICK p \in T : \A m \in T : f.inner[p] <= f.inner[m]
  <2>. HIDE DEF T
  <2>. QED BY <1>3, <1>4, Shallowest
<1>6. PICK label : \E depth \in Nat : Fails(p, label, depth)
  OBVIOUS
<1>7. PICK depth \in Nat : Fails(p, label, depth)
  BY <1>6
<1>8. TestMade(f, p, label, depth) /\ Marked(label, depth)
  BY <1>1, <1>7
<1>. DEFINE P == Lower(f.inner, f.patterns, p)
<1>9. Pattern(p, P) /\ f.inner[p] \in Nat
  OBVIOUS
<1>10. ASSUME NEW r \in P, NEW l, <<r, l, depth + 1>> \in f.tests, Marked(l, depth + 1)
       PROVE  Tests(f.test[<<r, l, depth + 1>>], l)
  <2>1. r \in f.patterns /\ f.inner[r] < f.inner[p] /\ f.inner[r] \in Nat /\ depth + 1 \in Nat
    <3>1. r \in f.patterns /\ f.inner[r] < f.inner[p]
      BY DEF Lower
    <3>. QED BY <3>1
  <2>2. r \notin T
    <3>. HIDE DEF T
    <3>. QED BY <1>5, <1>9, <2>1
  <2>3. ~Fails(r, l, depth + 1)
    BY <2>1, <2>2
  <2>. QED BY <1>10, <2>3
<1>. HIDE DEF P
<1>11. Tests(f.test[<<p, label, depth>>], label)
  BY <1>8, <1>9, <1>10, TestFollows
<1>. QED BY <1>7, <1>11

\* The variables of all items.
LEMMA BindsFlat ==
  ASSUME NEW parts, NEW n \in Nat, Len(parts) = n, \A i \in 1..n : Binds(parts[i])
  PROVE  Binds(Flatten(parts))
<1>1. \A i \in 1..n : IsSeq(parts[i])
  BY DEF Binds
<1>2. PICK upto : /\ upto[0] = <<>> /\ Flatten(parts) = upto[n]
                  /\ \A i \in 1..n : upto[i] = upto[i - 1] \o parts[i]
  BY <1>1, FlattenIs
<1>. DEFINE T == { i \in 0..n : ~Binds(upto[i]) }
<1>3. T = {}
  <2>1. SUFFICES ASSUME T # {} PROVE FALSE
    OBVIOUS
  <2>2. T \subseteq Nat
    OBVIOUS
  <2>3. PICK m \in T : \A k \in T : m <= k
    <3>. HIDE DEF T
    <3>. QED BY <2>1, <2>2, NatMin
  <2>4. m \in 0..n /\ ~Binds(upto[m])
    BY <2>3
  <2>5. m # 0
    <3>1. Binds(<<>>)
      <4>1. 1..0 = {}
        OBVIOUS
      <4>. QED BY <4>1, Nothing DEF Binds
    <3>. QED BY <1>2, <2>4, <3>1
  <2>6. m \in 1..n /\ m - 1 \in 0..n /\ ~(m <= m - 1)
    BY <2>4, <2>5
  <2>7. Binds(upto[m - 1]) /\ Binds(parts[m])
    BY <2>3, <2>6
  <2>. DEFINE c == upto[m - 1]
              d == parts[m]
              w == c \o d
  <2>8. /\ IsSeq(c) /\ IsSeq(d) /\ \A i \in 1..Len(c) : IsSeq(c[i][2])
        /\ \A i \in 1..Len(d) : IsSeq(d[i][2])
    BY <2>7 DEF Binds
  <2>9. w = upto[m]
    BY <1>2, <2>6
  <2>. HIDE DEF c, d
  <2>10. /\ IsSeq(w) /\ Len(c) \in Nat /\ Len(d) \in Nat /\ Len(w) = Len(c) + Len(d)
         /\ \A i \in 1..Len(c) : w[i] = c[i]
         /\ \A i \in 1..Len(d) : w[Len(c) + i] = d[i]
    BY <2>8, Joined
  <2>. HIDE DEF w
  <2>11. ASSUME NEW i \in 1..Len(w) PROVE IsSeq(w[i][2])
    <3>1. CASE i <= Len(c)
      <4>1. i \in 1..Len(c)
        BY <2>10, <3>1
      <4>. QED BY <2>8, <2>10, <4>1
    <3>2. CASE ~(i <= Len(c))
      <4>1. i - Len(c) \in 1..Len(d) /\ Len(c) + (i - Len(c)) = i
        BY <2>10, <3>2
      <4>2. w[i] = d[i - Len(c)]
        BY <2>10, <4>1
      <4>. QED BY <2>8, <4>1, <4>2
    <3>. QED BY <3>1, <3>2
  <2>12. Binds(w)
    BY <2>10, <2>11 DEF Binds
  <2>. QED BY <2>4, <2>9, <2>12
<1>4. n \in 0..n
  OBVIOUS
<1>5. Binds(upto[n])
  BY <1>3, <1>4
<1>. QED BY <1>2, <1>5

\* The variables of a pattern, from those of its items.
LEMMA BindFollows ==
  ASSUME NEW f, NEW p, NEW P, Pattern(p, P), NEW path, IsSeq(path), BindMade(f, p, path),
         \A q \in P : \A r : <<q, r>> \in f.binds /\ IsSeq(r) => Binds(f.bind[<<q, r>>])
  PROVE  Binds(f.bind[<<p, path>>])
<1>. DEFINE further(i) == Append(path, Keys(p)[i])
            items == [i \in DOMAIN Items(p) |-> f.bind[<<Items(p)[i], further(i)>>]]
<1>1. PICK n \in Nat : n = Len(Items(p))
  BY ItemsAre
<1>2. DOMAIN Items(p) = 1..n /\ \A i \in 1..n : Items(p)[i] \in P
  BY <1>1, ItemsAre
<1>3. f.bind[<<p, path>>] = PatternVars(p, path, items)
  BY DEF BindMade
<1>4. \A i \in 1..n : <<Items(p)[i], further(i)>> \in f.binds
  BY <1>2 DEF BindMade
<1>5. \A i \in 1..n : IsSeq(further(i))
  BY Ended
<1>6. /\ \A i \in 1..n : items[i] = f.bind[<<Items(p)[i], further(i)>>]
      /\ items = [i \in 1..n |-> items[i]]
  BY <1>2
<1>. HIDE DEF items, further
<1>7. \A i \in 1..n : Binds(items[i])
  BY <1>2, <1>4, <1>5, <1>6
<1>8. Len(items) = n
  BY <1>6, Parts
<1>9. Binds(Flatten(items))
  BY <1>7, <1>8, BindsFlat
<1>10. Binds(<< <<p[2], path>> >>)
  <2>. DEFINE x == <<p[2], path>>
  <2>1. x[2] = path
    OBVIOUS
  <2>. HIDE DEF x
  <2>2. IsSeq(<<x>>) /\ Len(<<x>>) = 1 /\ <<x>>[1] = x
    BY Single
  <2>3. \A i \in 1..Len(<<x>>) : i = 1
    BY <2>2
  <2>4. Binds(<<x>>)
    BY <2>1, <2>2, <2>3 DEF Binds
  <2>. QED BY <2>4 DEF x
<1>. QED BY <1>3, <1>9, <1>10 DEF PatternVars

\* Every variable of a pattern has a sequence of keys that leads to it.
LEMMA BindsBind ==
  ASSUME NEW f, \A p \in f.patterns : f.inner[p] \in Nat /\ Pattern(p, Lower(f.inner, f.patterns, p)),
         \A b \in f.binds : BindMade(f, b[1], b[2])
  PROVE  \A p, path : <<p, path>> \in f.binds /\ IsSeq(path) => Binds(f.bind[<<p, path>>])
<1>. DEFINE Fails(p, path) == <<p, path>> \in f.binds /\ IsSeq(path) /\ ~Binds(f.bind[<<p, path>>])
            T == { p \in f.patterns : \E path : Fails(p, path) }
<1>1. ASSUME NEW p, NEW path, <<p, path>> \in f.binds
      PROVE  BindMade(f, p, path)
  <2>. DEFINE t == <<p, path>>
  <2>1. t[1] = p /\ t[2] = path /\ t \in f.binds
    BY <1>1
  <2>. HIDE DEF t
  <2>. QED BY <2>1
<1>2. SUFFICES ASSUME NEW q, NEW r, Fails(q, r) PROVE FALSE
  OBVIOUS
<1>3. q \in T
  BY <1>1, <1>2 DEF BindMade
<1>4. \A p \in T : f.inner[p] \in Nat
  OBVIOUS
<1>5. PICK p \in T : \A m \in T : f.inner[p] <= f.inner[m]
  <2>. HIDE DEF T
  <2>. QED BY <1>3, <1>4, Shallowest
<1>6. PICK path : Fails(p, path)
  OBVIOUS
<1>7. BindMade(f, p, path) /\ IsSeq(path)
  BY <1>1, <1>6
<1>. DEFINE P == Lower(f.inner, f.patterns, p)
<1>8. Pattern(p, P) /\ f.inner[p] \in Nat
  OBVIOUS
<1>9. ASSUME NEW m \in P, NEW l, <<m, l>> \in f.binds, IsSeq(l)
      PROVE  Binds(f.bind[<<m, l>>])
  <2>1. m \in f.patterns /\ f.inner[m] < f.inner[p] /\ f.inner[m] \in Nat
    <3>1. m \in f.patterns /\ f.inner[m] < f.inner[p]
      BY DEF Lower
    <3>. QED BY <3>1
  <2>2. m \notin T
    <3>. HIDE DEF T
    <3>. QED BY <1>5, <1>8, <2>1
  <2>3. ~Fails(m, l)
    BY <2>1, <2>2
  <2>. QED BY <1>9, <2>3
<1>. HIDE DEF P
<1>10. Binds(f.bind[<<p, path>>])
  BY <1>7, <1>8, <1>9, BindFollows
<1>. QED BY <1>6, <1>10

\* What is known of the expressions and the patterns of a function.
Known(f) ==
  /\ \A e \in f.exprs : Yields(f.code[e])
  /\ \A p : <<p, NextLabel, 0>> \in f.tests => Tests(f.test[<<p, NextLabel, 0>>], NextLabel)
  /\ \A p : <<p, <<>>>> \in f.binds => Binds(f.bind[<<p, <<>>>>])

\* That is known of every function the compiler makes code of.
LEMMA KnownIs ==
  ASSUME NEW unit, NEW f, Compiled(unit, f)
  PROVE  Known(f)
<1>1. \A e \in f.exprs : Yields(f.code[e])
  <2>1. \A e \in f.exprs : ExprMade(f, e)
    BY DEF Compiled
  <2>. QED BY <2>1, ExprsYield
<1>2. \A p \in f.patterns : f.inner[p] \in Nat /\ Pattern(p, Lower(f.inner, f.patterns, p))
  BY DEF Compiled
<1>3. \A p : <<p, NextLabel, 0>> \in f.tests => Tests(f.test[<<p, NextLabel, 0>>], NextLabel)
  <2>1. \A t \in f.tests : TestMade(f, t[1], t[2], t[3])
    BY DEF Compiled
  <2>2. \A p, label : \A depth \in Nat :
           <<p, label, depth>> \in f.tests /\ Marked(label, depth)
             => Tests(f.test[<<p, label, depth>>], label)
    BY <1>2, <2>1, TestsTest
  <2>3. Marked(NextLabel, 0) /\ 0 \in Nat
    BY DEF Marked
  <2>. QED BY <2>2, <2>3
<1>4. \A p : <<p, <<>>>> \in f.binds => Binds(f.bind[<<p, <<>>>>])
  <2>1. \A b \in f.binds : BindMade(f, b[1], b[2])
    BY DEF Compiled
  <2>2. \A p, path : <<p, path>> \in f.binds /\ IsSeq(path) => Binds(f.bind[<<p, path>>])
    BY <1>2, <2>1, BindsBind
  <2>. QED BY <2>2, Nothing
<1>. QED BY <1>1, <1>3, <1>4 DEF Known

\* A statement of a function does its part if those in it do.
LEMMA StmtFollows ==
  ASSUME NEW f, Known(f), NEW s, StmtMade(f, s), NEW S, NEW L,
         Statement(s, Lower(f.deep, f.exprs, s), f.patterns, S, L),
         NEW labels \in SUBSET {BreakLabel}, s[1] = "break" => BreakLabel \in labels,
         \A m \in S : Does(f.code[m], labels), \A m \in L : Does(f.code[m], {BreakLabel})
  PROVE  Does(f.code[s], labels)
<1>. DEFINE test == [p \in Tried(s) |-> f.test[<<p, NextLabel, 0>>]]
            bound == [p \in Tried(s) |-> f.bind[<<p, <<>>>>]]
            E == Lower(f.deep, f.exprs, s)
            code == f.code
<1>1. /\ f.code[s] = StmtCode(s, code, test, bound)
      /\ \A p \in Tried(s) : <<p, NextLabel, 0>> \in f.tests /\ <<p, <<>>>> \in f.binds
  BY DEF StmtMade
<1>2. /\ \A p \in Tried(s) : test[p] = f.test[<<p, NextLabel, 0>>]
      /\ \A p \in Tried(s) : bound[p] = f.bind[<<p, <<>>>>]
  OBVIOUS
<1>3. \A m \in E : Yields(code[m])
  BY DEF Lower, Known
<1>4. Statement(s, E, f.patterns, S, L)
  OBVIOUS
<1>5. /\ \A m \in S : Does(code[m], labels)
      /\ \A m \in L : Does(code[m], {BreakLabel})
  OBVIOUS
<1>. HIDE DEF test, bound, E, code
<1>6. \A p \in f.patterns : p \in Tried(s) => Tests(test[p], NextLabel) /\ Binds(bound[p])
  BY <1>1, <1>2 DEF Known
<1>7. Does(StmtCode(s, code, test, bound), labels)
  BY <1>3, <1>4, <1>5, <1>6, StmtDoes
<1>. QED BY <1>1, <1>7

\* A statement leaves a loop only by its break label.
LEMMA StmtsDo ==
  ASSUME NEW f, Known(f), \A s \in f.stmts : StmtMade(f, s)
  PROVE  \A s \in f.stmts : Does(f.code[s], {BreakLabel})
<1>. DEFINE T == { s \in f.stmts : ~Does(f.code[s], {BreakLabel}) }
<1>1. SUFFICES ASSUME T # {} PROVE FALSE
  OBVIOUS
<1>2. \A s \in T : f.deep[s] \in Nat
  BY DEF StmtMade
<1>3. PICK s \in T : \A m \in T : f.deep[s] <= f.deep[m]
  <2>. HIDE DEF T
  <2>. QED BY <1>1, <1>2, Shallowest
<1>. DEFINE S == Lower(f.deep, f.stmts, s)
<1>4. /\ StmtMade(f, s) /\ f.deep[s] \in Nat
      /\ Statement(s, Lower(f.deep, f.exprs, s), f.patterns, S, S)
      /\ ~Does(f.code[s], {BreakLabel})
  BY DEF StmtMade
<1>5. \A m \in S : Does(f.code[m], {BreakLabel})
  <2>1. SUFFICES ASSUME NEW m \in S, ~Does(f.code[m], {BreakLabel}) PROVE FALSE
    OBVIOUS
  <2>2. m \in T /\ f.deep[m] < f.deep[s]
    BY <2>1 DEF Lower
  <2>. QED BY <1>2, <1>3, <2>2
<1>6. PICK labels \in SUBSET {BreakLabel} : labels = {BreakLabel} /\ BreakLabel \in labels
  OBVIOUS
<1>. HIDE DEF S, T
<1>7. \A m \in S : Does(f.code[m], labels)
  BY <1>5, <1>6
<1>8. Does(f.code[s], labels)
  BY <1>4, <1>5, <1>6, <1>7, StmtFollows
<1>. QED BY <1>4, <1>6, <1>8

\* What holds no break of a loop around it leaves its code only behind it.
LEMMA WholesDo ==
  ASSUME NEW f, Known(f), \A s \in f.stmts : StmtMade(f, s), f.whole \subseteq f.stmts
  PROVE  \A s \in f.whole : Does(f.code[s], {})
<1>. DEFINE T == { s \in f.whole : ~Does(f.code[s], {}) }
<1>1. SUFFICES ASSUME T # {} PROVE FALSE
  OBVIOUS
<1>2. \A s \in T : f.deep[s] \in Nat
  BY DEF StmtMade
<1>3. PICK s \in T : \A m \in T : f.deep[s] <= f.deep[m]
  <2>. HIDE DEF T
  <2>. QED BY <1>1, <1>2, Shallowest
<1>. DEFINE S == Lower(f.deep, f.whole, s)
            L == Lower(f.deep, f.stmts, s)
<1>4. /\ StmtMade(f, s) /\ f.deep[s] \in Nat /\ s[1] # "break"
      /\ Statement(s, Lower(f.deep, f.exprs, s), f.patterns, S, L)
      /\ ~Does(f.code[s], {})
  BY DEF StmtMade
<1>5. \A m \in S : Does(f.code[m], {})
  <2>1. SUFFICES ASSUME NEW m \in S, ~Does(f.code[m], {}) PROVE FALSE
    OBVIOUS
  <2>2. m \in T /\ f.deep[m] < f.deep[s]
    BY <2>1 DEF Lower
  <2>. QED BY <1>2, <1>3, <2>2
<1>6. \A m \in L : Does(f.code[m], {BreakLabel})
  BY StmtsDo DEF Lower
<1>7. PICK labels \in SUBSET {BreakLabel} : labels = {}
  OBVIOUS
<1>. HIDE DEF S, L, T
<1>8. \A m \in S : Does(f.code[m], labels)
  BY <1>5, <1>7
<1>9. Does(f.code[s], labels)
  BY <1>4, <1>6, <1>8, StmtFollows
<1>. QED BY <1>4, <1>7, <1>9

\* What takes the arguments off the stack.
LEMMA GoodParams ==
  ASSUME NEW n \in Nat, NEW c, Len(c) = n, IsSeq(c), \A i \in 1..n : c[i][1] = "STORENAME" /\ Len(c[i]) # 3,
         NEW exits
  PROVE  Good(c, n, 0, exits)
<1>. DEFINE h == [q \in 1..(n + 1) |-> (n + 1) - q]
<1>1. /\ \A q \in 1..(n + 1) : h[q] = (n + 1) - q /\ h[q] \in Nat
      /\ DOMAIN h = 1..(n + 1)
  OBVIOUS
<1>2. h \in [1..(n + 1) -> Nat]
  BY <1>1
<1>. HIDE DEF h
<1>3. h[1] = n /\ h[n + 1] = 0
  <2>1. 1 \in 1..(n + 1) /\ n + 1 \in 1..(n + 1) /\ (n + 1) - 1 = n /\ (n + 1) - (n + 1) = 0
    OBVIOUS
  <2>. QED BY <1>1, <2>1
<1>4. ASSUME NEW i \in 1..n PROVE Goes(c[i], i, h, exits)
  <2>1. PICK x : x = c[i]
    OBVIOUS
  <2>2. x[1] = "STORENAME" /\ Len(x) # 3
    BY <2>1
  <2>3. Pops(x) = 1 /\ Pushes(x) = 0 /\ x[1] \notin Counted /\ x[1] \notin Jumps
    <3>1. x[1] \in Taking
      BY <2>2 DEF Taking
    <3>. QED BY <3>1, Effects
  <2>4. i \in 1..(n + 1) /\ i + 1 \in 1..(n + 1) /\ (n + 1) - i \in Nat /\ 1 <= (n + 1) - i
        /\ ((n + 1) - i) - 1 = (n + 1) - (i + 1)
    OBVIOUS
  <2>5. h[i] = (n + 1) - i /\ h[i + 1] = (n + 1) - (i + 1) /\ h[i] \in Nat /\ h[i + 1] \in Nat
    BY <1>1, <2>4
  <2>6. After(x, h[i]) = h[i + 1]
    BY <2>3, <2>4, <2>5 DEF After
  <2>7. Pops(x) <= h[i]
    BY <2>3, <2>4, <2>5
  <2>8. Reaches(i + 1, After(x, h[i]), h)
    BY <1>1, <2>4, <2>5, <2>6 DEF Reaches
  <2>9. Goes(x, i, h, exits)
    BY <2>2, <2>3, <2>5, <2>7, <2>8 DEF Goes
  <2>. QED BY <2>1, <2>9
<1>5. Numbers(c, n, 0, exits, h)
  BY <1>2, <1>3, <1>4 DEF Numbers
<1>. QED BY <1>5 DEF Good

\* The statements of a function, the last of them a ret.
LEMMA GoodBody ==
  ASSUME NEW f, Known(f), \A s \in f.stmts : StmtMade(f, s), f.whole \subseteq f.stmts,
         NEW nodes \in Seq(f.whole), nodes # <<>>, nodes[Len(nodes)][1] = "ret"
  PROVE  Good(CodeOf(nodes, f.code), 0, 1, Out({}, 0))
<1>. DEFINE exits == Out({}, 0)
            code == f.code
            parts == [i \in DOMAIN nodes |-> code[nodes[i]]]
<1>1. PICK n \in Nat : Len(nodes) = n + 1
  <2>1. Len(nodes) \in Nat \ {0}
    BY LenProperties, EmptySeq
  <2>2. Len(nodes) - 1 \in Nat /\ Len(nodes) = (Len(nodes) - 1) + 1
    BY <2>1
  <2>. QED BY <2>2
<1>2. DOMAIN nodes = 1..(n + 1) /\ \A i \in 1..(n + 1) : nodes[i] \in f.whole
  BY <1>1, LenProperties, ElementOfSeq
<1>. DEFINE s == nodes[n + 1]
<1>3. s \in f.whole /\ s[1] = "ret"
  BY <1>1, <1>2
<1>. HIDE DEF s
<1>4. CodeOf(nodes, code) = Flatten(parts)
  BY DEF CodeOf
<1>5. parts = [i \in 1..(n + 1) |-> parts[i]] /\ \A i \in 1..(n + 1) : parts[i] = code[nodes[i]]
  BY <1>2
<1>. HIDE DEF parts
<1>6. Len(parts) = n + 1
  <2>1. n + 1 \in Nat
    OBVIOUS
  <2>. QED BY <1>5, <2>1, Parts
<1>7. Good(code[s], 0, 1, exits)
  <2>. DEFINE test == [p \in Tried(s) |-> f.test[<<p, NextLabel, 0>>]]
              bound == [p \in Tried(s) |-> f.bind[<<p, <<>>>>]]
              E == Lower(f.deep, f.exprs, s)
  <2>1. /\ code[s] = StmtCode(s, code, test, bound)
        /\ Statement(s, E, f.patterns, Lower(f.deep, f.whole, s), Lower(f.deep, f.stmts, s))
    BY <1>3 DEF StmtMade
  <2>2. Len(s) = 1 \/ s[2] \in E
    BY <1>3, <2>1 DEF Statement
  <2>3. \A m \in E : Yields(code[m])
    BY DEF Lower, Known
  <2>. HIDE DEF test, bound, E, code, exits
  <2>4. 0 \in Nat /\ 1 \in Nat
    OBVIOUS
  <2>5. Good(StmtCode(s, code, test, bound), 0, 1, exits)
    BY <1>3, <2>2, <2>3, <2>4, GoodReturn
  <2>. QED BY <2>1, <2>5
<1>8. \A m \in f.whole : Good(code[m], 0, 0, exits)
  BY WholesDo DEF Does
<1>. DEFINE g == [i \in 0..(n + 1) |-> IF i = n + 1 THEN 1 ELSE 0]
<1>9. g \in [0..(n + 1) -> Nat] /\ g[n + 1] = 1 /\ \A i \in 0..n : g[i] = 0
  OBVIOUS
<1>. HIDE DEF g, exits, code
<1>10. ASSUME NEW i \in 1..(n + 1) PROVE Good(parts[i], g[i - 1], g[i], exits)
  <2>1. i - 1 \in 0..n /\ g[i - 1] = 0
    BY <1>9
  <2>2. CASE i = n + 1
    BY <1>5, <1>7, <1>9, <2>1, <2>2 DEF s
  <2>3. CASE i # n + 1
    <3>1. i \in 1..n /\ i \in 0..n
      BY <2>3
    <3>2. g[i] = 0 /\ parts[i] = code[nodes[i]] /\ nodes[i] \in f.whole
      BY <1>2, <1>5, <1>9, <3>1
    <3>. QED BY <1>8, <2>1, <3>2
  <2>. QED BY <2>2, <2>3
<1>11. Good(Flatten(parts), g[0], g[n + 1], exits)
  <2>1. n + 1 \in Nat
    OBVIOUS
  <2>. QED BY <1>6, <1>9, <1>10, <2>1, GoodFlatten
<1>12. g[0] = 0
  BY <1>9
<1>. QED BY <1>4, <1>9, <1>11, <1>12 DEF code, exits

\* The code of a function, which begins with taking its arguments.
LEMMA GoodMethod ==
  ASSUME NEW unit, NEW f, Compiled(unit, f), NEW c, c = MethodCode(f.params, f.body, f.code)
  PROVE  /\ Len(f.params) \in Nat /\ Good(c, Len(f.params), 1, Out({}, 0))
         /\ Len(f.params) <= Len(c)
         /\ \A i \in 1..Len(f.params) : c[i][1] = "STORENAME"
<1>1. PICK n \in Nat : n = Len(f.params)
  BY LenProperties DEF Compiled
<1>. DEFINE F(i) == <<"STORENAME", f.params[n - i + 1]>>
            taken == [i \in 1..n |-> F(i)]
            rest == CodeOf(f.body, f.code)
<1>2. c = taken \o rest
  BY <1>1 DEF MethodCode
<1>3. \A i \in 1..n : taken[i][1] = "STORENAME" /\ Len(taken[i]) # 3
  <2>1. \A i : F(i)[1] = "STORENAME" /\ Len(F(i)) # 3
    OBVIOUS
  <2>2. \A i \in 1..n : taken[i] = F(i)
    OBVIOUS
  <2>. HIDE DEF F, taken
  <2>. QED BY <2>1, <2>2
<1>4. taken = [i \in 1..n |-> taken[i]]
  OBVIOUS
<1>. HIDE DEF taken
<1>5. Len(taken) = n /\ IsSeq(taken)
  BY <1>4, Parts
<1>6. Good(taken, n, 0, Out({}, 0))
  BY <1>3, <1>5, GoodParams
<1>7. Known(f)
  BY KnownIs
<1>8. /\ \A s \in f.stmts : StmtMade(f, s)
      /\ f.whole \subseteq f.stmts /\ f.body \in Seq(f.whole)
      /\ f.body # <<>> /\ f.body[Len(f.body)][1] = "ret"
  BY DEF Compiled
<1>9. Good(rest, 0, 1, Out({}, 0))
  BY <1>7, <1>8, GoodBody
<1>. HIDE DEF rest
<1>10. Good(taken \o rest, n, 1, Out({}, 0))
  BY <1>6, <1>9, Glue
<1>11. /\ Len(rest) \in Nat /\ Len(taken \o rest) = n + Len(rest)
       /\ \A i \in 1..n : (taken \o rest)[i] = taken[i]
  <2>1. IsSeq(rest)
    BY <1>9 DEF Good
  <2>. QED BY <1>5, <2>1, Joined
<1>12. n <= n + Len(rest)
  BY <1>11
<1>. QED BY <1>1, <1>2, <1>3, <1>10, <1>11, <1>12

-----------------------------------------------------------------------------
(* The words of a code object.                                             *)

\* What a word keeps of an instruction.
Kept(x, y, i) ==
  /\ y[1] = x[1]
  /\ x[1] \in Counted => y[2] = Byte(x[2])
  /\ x[1] \in Jumps => y[2] = Address((i + x[2]) - 1) + 1

\* The word of an instruction keeps its opcode, its count and its target.
LEMMA EmittedKeeps ==
  ASSUME NEW x, NEW i, NEW constants, NEW names
  PROVE  Kept(x, Emitted(x, i, constants, names), i)
<1>. DEFINE w == Emitted(x, i, constants, names)
<1>1. CASE x[1] \in Counted
  <2>0. x[1] # "PUSHCONST" /\ x[1] \notin Naming /\ x[1] \notin Jumps
    BY <1>1 DEF Naming, Counted, Jumps
  <2>1. w = CountWord(x[1], x[2])
    BY <1>1, <2>0 DEF Emitted
  <2>2. w = <<x[1], Byte(x[2])>>
    BY <2>1 DEF CountWord
  <2>. HIDE DEF w
  <2>3. x[1] \notin Jumps
    BY <1>1 DEF Counted, Jumps
  <2>4. Kept(x, w, i)
    BY <2>2, <2>3 DEF Kept
  <2>. QED BY <2>4 DEF w
<1>2. CASE x[1] \in Jumps
  <2>0. x[1] # "PUSHCONST" /\ x[1] \notin Naming /\ x[1] \notin Counted
    BY <1>2 DEF Naming, Counted, Jumps
  <2>1. w = JumpWord(x[1], i + x[2])
    BY <1>2, <2>0 DEF Emitted
  <2>2. w = <<x[1], Address((i + x[2]) - 1) + 1>>
    BY <2>1 DEF JumpWord
  <2>. HIDE DEF w
  <2>3. x[1] \notin Counted
    BY <1>2 DEF Counted, Jumps
  <2>4. Kept(x, w, i)
    BY <2>2, <2>3 DEF Kept
  <2>. QED BY <2>4 DEF w
<1>3. CASE x[1] \notin Counted /\ x[1] \notin Jumps
  <2>1. w \in {ConstWord(x[2], constants), NameWord(x[1], x[2], names), PlainWord(x[1])}
        /\ (w = ConstWord(x[2], constants) => x[1] = "PUSHCONST")
    BY <1>3 DEF Emitted, ConstWord, NameWord, PlainWord
  <2>2. w[1] = x[1]
    BY <2>1 DEF ConstWord, NameWord, PlainWord
  <2>. HIDE DEF w
  <2>3. Kept(x, w, i)
    BY <1>3, <2>2 DEF Kept
  <2>. QED BY <2>3 DEF w
<1>. QED BY <1>1, <1>2, <1>3

\* The words of a unit do so, and so do the instructions read from them.
LEMMA WordsKeep ==
  ASSUME NEW c, NEW m \in Nat, DOMAIN c = 1..m, NEW unit, unit.code = Assembled(c).code
  PROVE  /\ Len(unit.code) = m
         /\ \A i \in 1..m : Kept(c[i], InstrOrEnd(unit, i), i) /\ unit.code[i][1] = c[i][1]
<1>. DEFINE code == unit.code
<1>1. /\ code = [i \in 1..m |-> code[i]]
      /\ \A i \in 1..m : Kept(c[i], code[i], i)
  <2>. DEFINE Fields(ops) == LET uses == SelectSeq(c, LAMBDA d : d[1] \in ops)
                             IN [i \in DOMAIN uses |-> uses[i][2]]
  <2>1. PICK constants : constants = Table(Fields({"PUSHCONST"}))
    OBVIOUS
  <2>2. PICK names : names = Table(Fields(Naming))
    OBVIOUS
  <2>3. code = [i \in 1..m |-> Emitted(c[i], i, constants, names)]
    BY <2>1, <2>2 DEF Assembled
  <2>4. PICK w : w = code
    OBVIOUS
  <2>. HIDE DEF code
  <2>5. \A i \in 1..m : w[i] = Emitted(c[i], i, constants, names)
    BY <2>3, <2>4
  <2>6. w = [i \in 1..m |-> w[i]]
    BY <2>3, <2>4
  <2>7. \A i \in 1..m : Kept(c[i], w[i], i)
    BY <2>5, EmittedKeeps
  <2>. QED BY <2>4, <2>6, <2>7
<1>. HIDE DEF code
<1>2. Len(code) = m
  BY <1>1, Parts
<1>3. ASSUME NEW i \in 1..m PROVE Kept(c[i], InstrOrEnd(unit, i), i) /\ code[i][1] = c[i][1]
  <2>1. InstrOrEnd(unit, i) = InstrAt(unit, i) /\ code[i] = unit.code[i]
    BY <1>2 DEF InstrOrEnd, code
  <2>2. Kept(c[i], code[i], i)
    BY <1>1
  <2>3. /\ InstrAt(unit, i)[1] = code[i][1]
        /\ code[i][1] \in Counted \union Jumps => InstrAt(unit, i) = code[i]
    BY <2>1 DEF InstrAt, Naming, Counted, Jumps
  <2>. QED BY <2>1, <2>2, <2>3 DEF Kept
<1>. QED BY <1>2, <1>3 DEF code

\* It takes no more than the instruction, and leaves as much.
LEMMA KeptTakes ==
  ASSUME NEW x, NEW y, NEW i, Kept(x, y, i), x[1] \in Counted => x[2] \in Nat
  PROVE  /\ y[1] \in Counted => y[2] \in Nat
         /\ Pops(x) \in Nat /\ Pops(y) \in Nat /\ Pops(y) <= Pops(x) /\ Pushes(y) = Pushes(x)
<1>1. y[1] = x[1] /\ Pushes(y) = Pushes(x)
  BY DEF Kept, Pushes
<1>2. CASE x[1] \in Counted
  <2>1. x[2] \in Nat /\ y[2] = Byte(x[2])
    BY <1>2 DEF Kept
  <2>2. y[2] \in Nat /\ y[2] <= x[2]
    BY <2>1 DEF Byte
  <2>3. Pops(x) \in Nat /\ Pops(y) \in Nat
    BY <1>1, <2>1, <2>2, PopsAre
  <2>4. x[1] = "CALL" => Pops(x) = x[2] + 1 /\ Pops(y) = y[2] + 1
    BY <1>1, <2>1, <2>2, PopsAre
  <2>5. x[1] = "MAKEARRAY" => Pops(x) = x[2] /\ Pops(y) = y[2]
    BY <1>1 DEF Pops, Comparisons, Arithmetic
  <2>6. x[1] = "MAKEHASH" => Pops(x) = 2 * x[2] /\ Pops(y) = 2 * y[2]
    BY <1>1 DEF Pops, Comparisons, Arithmetic
  <2>7. x[1] \in {"CALL", "MAKEARRAY", "MAKEHASH"}
    BY <1>2 DEF Counted
  <2>8. Pops(y) <= Pops(x)
    BY <2>1, <2>2, <2>4, <2>5, <2>6, <2>7
  <2>. QED BY <1>1, <2>2, <2>3, <2>8
<1>3. CASE x[1] \notin Counted
  <2>1. Pops(y) = Pops(x)
    BY <1>1, <1>3 DEF Pops, Counted
  <2>2. Pops(x) \in Nat
    BY <1>3, PopsAre
  <2>. QED BY <1>1, <1>3, <2>1, <2>2
<1>. QED BY <1>2, <1>3

\* When arguments are taken first, nothing is left of them.
LEMMA NothingLeft ==
  ASSUME NEW c, NEW n \in Nat, NEW b, NEW exits, NEW h, Numbers(c, n, b, exits, h), Len(c) \in Nat,
         n <= Len(c), \A i \in 1..n : c[i][1] = "STORENAME"
  PROVE  h[n + 1] = 0
<1>1. PICK m \in Nat : m = Len(c)
  OBVIOUS
<1>2. h \in [1..(m + 1) -> Nat] /\ h[1] = n /\ \A i \in 1..m : Goes(c[i], i, h, exits)
  BY <1>1 DEF Numbers
<1>3. ASSUME NEW i \in 1..n PROVE h[i + 1] <= h[i] - 1 /\ h[i] \in Nat /\ h[i + 1] \in Nat
  <2>1. PICK x : x = c[i]
    OBVIOUS
  <2>2. x[1] = "STORENAME" /\ Goes(x, i, h, exits)
    BY <1>1, <1>2, <2>1
  <2>3. Pops(x) = 1 /\ Pushes(x) = 0
    <3>1. x[1] \in Taking
      BY <2>2 DEF Taking
    <3>. QED BY <3>1, Effects
  <2>4. h[i] \in Nat /\ Reaches(i + 1, After(x, h[i]), h)
    BY <2>2 DEF Goes
  <2>. QED BY <2>3, <2>4 DEF Reaches, After
<1>. DEFINE T == { i \in 0..n : ~(h[i + 1] <= n - i) }
<1>4. T = {}
  <2>1. SUFFICES ASSUME T # {} PROVE FALSE
    OBVIOUS
  <2>2. T \subseteq Nat
    OBVIOUS
  <2>3. PICK k \in T : \A j \in T : k <= j
    <3>. HIDE DEF T
    <3>. QED BY <2>1, <2>2, NatMin
  <2>4. k \in 0..n /\ ~(h[k + 1] <= n - k)
    BY <2>3
  <2>5. k # 0
    BY <1>2, <2>4
  <2>6. k \in 1..n /\ k - 1 \in 0..n /\ ~(k <= k - 1) /\ (k - 1) + 1 = k
    BY <2>4, <2>5
  <2>7. h[(k - 1) + 1] <= n - (k - 1)
    BY <2>3, <2>6
  <2>8. h[k + 1] <= h[k] - 1 /\ h[k] \in Nat /\ h[k + 1] \in Nat
    BY <1>3, <2>6
  <2>. QED BY <2>4, <2>6, <2>7, <2>8
<1>5. n \in 0..n /\ n + 1 \in 1..(m + 1)
  BY <1>1
<1>6. h[n + 1] <= n - n
  BY <1>4, <1>5
<1>7. h[n + 1] \in Nat
  BY <1>2, <1>5
<1>. QED BY <1>6, <1>7

\* What is said of a unit in terms of the code it was assembled from.
AsCode(unit, c, m) ==
  /\ Len(unit.code) = m
  /\ \A i \in 1..m : Kept(c[i], InstrOrEnd(unit, i), i) /\ unit.code[i][1] = c[i][1]

\* The places an instruction of a method can go to.
LEMMA GoesOn ==
  ASSUME NEW c, NEW m \in Nat, NEW unit, AsCode(unit, c, m), m < 2^24,
         NEW h \in [1..(m + 1) -> Nat], NEW pc \in 1..m, Goes(c[pc], pc, h, Out({}, 0)),
         NEW y, y = InstrOrEnd(unit, pc)
  PROVE  /\ y[1] \in Counted => y[2] \in Nat
         /\ Pops(y) <= h[pc]
         /\ \A next \in NextPlaces(y, pc) :
              next \in DOMAIN h /\ h[next] <= h[pc] - Pops(y) + Pushes(y)
<1>1. PICK x : x = c[pc]
  OBVIOUS
<1>2. /\ x[1] \in Counted => x[2] \in Nat
      /\ h[pc] \in Nat /\ Pops(x) <= h[pc]
      /\ x[1] \in Jumps /\ Len(x) # 3 => x[2] \in Int /\ Reaches(pc + x[2], After(x, h[pc]), h)
      /\ x[1] \notin {"JUMP", "RET"} => Reaches(pc + 1, After(x, h[pc]), h)
      /\ Len(x) = 3 => Reaches(x[3], After(x, h[pc]), Out({}, 0))
  BY <1>1 DEF Goes
<1>3. Len(x) # 3
  BY <1>2, OutIs DEF Reaches
<1>4. Kept(x, y, pc) /\ y[1] = x[1]
  BY <1>1 DEF AsCode, Kept
<1>5. /\ y[1] \in Counted => y[2] \in Nat
      /\ Pops(x) \in Nat /\ Pops(y) \in Nat /\ Pops(y) <= Pops(x) /\ Pushes(y) = Pushes(x)
  BY <1>2, <1>4, KeptTakes
<1>6. Pops(y) <= h[pc]
  BY <1>2, <1>5
<1>7. ASSUME x[1] \in Jumps PROVE y[2] = pc + x[2] /\ Reaches(y[2], After(x, h[pc]), h)
  <2>1. y[2] = Address((pc + x[2]) - 1) + 1
    BY <1>4, <1>7 DEF Kept
  <2>2. x[2] \in Int /\ Reaches(pc + x[2], After(x, h[pc]), h)
    BY <1>2, <1>3, <1>7
  <2>3. pc + x[2] \in 1..(m + 1)
    BY <2>2 DEF Reaches
  <2>4. PICK b \in 1..(m + 1) : b = pc + x[2]
    BY <2>3
  <2>5. PICK a \in Nat : a = b - 1 /\ a <= m /\ a + 1 = b
    OBVIOUS
  <2>6. Address(a) = a
    BY <2>5 DEF Address
  <2>. QED BY <2>1, <2>2, <2>4, <2>5, <2>6
<1>8. ASSUME NEW q, Reaches(q, After(x, h[pc]), h)
      PROVE  q \in DOMAIN h /\ h[q] <= h[pc] - Pops(y) + Pushes(y)
  <2>1. q \in DOMAIN h /\ h[q] \in Nat /\ h[q] <= h[pc] - Pops(x) + Pushes(x)
    BY <1>8 DEF Reaches, After
  <2>2. Pushes(x) \in {0, 1, 2}
    BY DEF Pushes
  <2>3. h[pc] - Pops(x) + Pushes(x) <= h[pc] - Pops(y) + Pushes(y)
    BY <1>2, <1>5, <2>2
  <2>4. h[pc] - Pops(x) + Pushes(x) \in Int /\ h[pc] - Pops(y) + Pushes(y) \in Int
    BY <1>2, <1>5, <2>2
  <2>. QED BY <2>1, <2>3, <2>4
<1>9. ASSUME NEW next \in NextPlaces(y, pc) PROVE Reaches(next, After(x, h[pc]), h)
  <2>1. CASE x[1] = "RET"
    BY <1>4, <1>9, <2>1 DEF NextPlaces, Jumps
  <2>2. CASE x[1] = "JUMP"
    <3>1. next = y[2]
      BY <1>4, <1>9, <2>2 DEF NextPlaces, Jumps
    <3>. QED BY <1>7, <2>2, <3>1 DEF Jumps
  <2>3. CASE x[1] \in Jumps /\ x[1] # "JUMP"
    <3>1. next = y[2] \/ next = pc + 1
      BY <1>4, <1>9, <2>3 DEF NextPlaces, Jumps
    <3>2. x[1] # "RET"
      BY <2>3 DEF Jumps
    <3>. QED BY <1>2, <1>7, <2>3, <3>1, <3>2
  <2>4. CASE x[1] \notin Jumps /\ x[1] # "RET"
    <3>1. next = pc + 1 /\ x[1] # "JUMP"
      BY <1>4, <1>9, <2>4 DEF NextPlaces, Jumps
    <3>. QED BY <1>2, <2>4, <3>1
  <2>. QED BY <2>1, <2>2, <2>3, <2>4 DEF Jumps
<1>. QED BY <1>5, <1>6, <1>8, <1>9

\* A unit has as many arguments as its code takes off the stack.
LEMMA ArityIs ==
  ASSUME NEW c, NEW m \in Nat, NEW unit, AsCode(unit, c, m), NEW n \in Nat, n <= m,
         \A i \in 1..n : c[i][1] = "STORENAME", n < m => c[n + 1][1] # "STORENAME"
  PROVE  Arity(unit) = n
<1>1. Len(unit.code) = m /\ \A i \in 1..m : unit.code[i][1] = c[i][1]
  BY DEF AsCode
<1>2. 1..n \subseteq Arguments(unit)
  BY <1>1 DEF Arguments
<1>3. ASSUME NEW k \in Arguments(unit) PROVE k \in 1..n
  <2>1. k \in 1..m /\ \A i \in 1..k : unit.code[i][1] = "STORENAME"
    BY <1>1 DEF Arguments
  <2>2. SUFFICES ASSUME ~(k <= n) PROVE FALSE
    BY <2>1
  <2>3. n + 1 \in 1..k /\ n + 1 \in 1..m /\ n < m
    BY <2>1, <2>2
  <2>. QED BY <1>1, <2>1, <2>3
<1>4. Arguments(unit) = 1..n
  BY <1>2, <1>3
<1>5. Cardinality(1..n) = n
  <2>1. 1 \in Int /\ n \in Int
    OBVIOUS
  <2>2. Cardinality(1..n) = IF 1 > n THEN 0 ELSE n - 1 + 1
    BY <2>1, FS_Interval
  <2>. QED BY <2>2
<1>. QED BY <1>4, <1>5 DEF Arity

\* Whatever the function: the compiler makes code of it that carries its operands, and that takes
\* as many arguments off the stack as the function has parameters (compile.c, for expressions that
\* jump, patterns that fail half way, loops and breaks, and a ret anywhere).
THEOREM CompiledCarries ==
  ASSUME NEW unit, NEW f, Compiled(unit, f)
  PROVE  (\E h : Carries(unit, h)) /\ Arity(unit) = Len(f.params)
<1>1. PICK c : c = MethodCode(f.params, f.body, f.code)
  OBVIOUS
<1>2. Len(c) < 2^24 /\ unit.code = Assembled(c).code
  BY <1>1 DEF Compiled
<1>3. PICK n \in Nat : n = Len(f.params)
  BY <1>1, GoodMethod
<1>4. /\ Good(c, n, 1, Out({}, 0)) /\ n <= Len(c)
      /\ \A i \in 1..n : c[i][1] = "STORENAME"
  BY <1>1, <1>3, GoodMethod
<1>5. IsSeq(c)
  BY <1>4 DEF Good
<1>6. PICK m \in Nat : m = Len(c)
  BY <1>5, SeqIs
<1>7. DOMAIN c = 1..m
  BY <1>5, <1>6, SeqIs
<1>8. AsCode(unit, c, m)
  BY <1>2, <1>7, WordsKeep DEF AsCode
<1>9. PICK h : Numbers(c, n, 1, Out({}, 0), h)
  BY <1>4 DEF Good
<1>10. /\ h \in [1..(m + 1) -> Nat] /\ h[1] = n /\ h[m + 1] = 1
       /\ \A i \in 1..m : Goes(c[i], i, h, Out({}, 0))
  BY <1>6, <1>9 DEF Numbers
<1>11. h[n + 1] = 0
  BY <1>4, <1>6, <1>9, NothingLeft
<1>12. ASSUME n < m PROVE c[n + 1][1] # "STORENAME"
  <2>1. n + 1 \in 1..m
    BY <1>12
  <2>2. PICK x : x = c[n + 1]
    OBVIOUS
  <2>3. Goes(x, n + 1, h, Out({}, 0))
    BY <1>10, <2>1, <2>2
  <2>4. Pops(x) <= 0
    BY <1>11, <2>3 DEF Goes
  <2>5. x[1] = "STORENAME" => Pops(x) = 1
    <3>1. x[1] = "STORENAME" => x[1] \in Taking
      BY DEF Taking
    <3>. QED BY <3>1, Effects
  <2>. QED BY <2>2, <2>4, <2>5
<1>13. Arity(unit) = n
  BY <1>4, <1>6, <1>8, <1>12, ArityIs
<1>14. ASSUME NEW pc \in DOMAIN h, NEW y, y = InstrOrEnd(unit, pc)
       PROVE  /\ y[1] \in Counted => y[2] \in Nat
              /\ h[pc] \in Nat /\ Pops(y) <= h[pc]
              /\ \A next \in NextPlaces(y, pc) :
                   next \in DOMAIN h /\ h[next] <= h[pc] - Pops(y) + Pushes(y)
  <2>1. CASE pc = m + 1
    <3>1. y = <<"RET">>
      BY <1>8, <1>14, <2>1 DEF InstrOrEnd, AsCode
    <3>2. y[1] = "RET"
      BY <3>1
    <3>3. y[1] \notin Counted /\ Pops(y) = 1 /\ NextPlaces(y, pc) = {}
      BY <3>2 DEF Counted, Pops, Comparisons, Arithmetic, NextPlaces, Jumps
    <3>. QED BY <1>10, <2>1, <3>3
  <2>2. CASE pc # m + 1
    <3>1. pc \in 1..m
      BY <1>10, <2>2
    <3>2. m < 2^24
      BY <1>2, <1>6
    <3>3. h[pc] \in Nat /\ Goes(c[pc], pc, h, Out({}, 0))
      BY <1>10, <3>1
    <3>. QED BY <1>8, <1>10, <1>14, <3>1, <3>2, <3>3, GoesOn
  <2>. QED BY <2>1, <2>2
<1>15. Carries(unit, h)
  <2>1. 1 \in DOMAIN h /\ h[1] = Arity(unit) /\ DOMAIN h \subseteq 1..(Len(unit.code) + 1)
    <3>1. Len(unit.code) = m
      BY <1>8 DEF AsCode
    <3>. QED BY <1>10, <1>13, <3>1
  <2>. QED BY <1>14, <2>1 DEF Carries
<1>. QED BY <1>3, <1>13, <1>15

\* A program made by the compiler is one whose code carries its operands.
LEMMA CompiledBalanced ==
  ASSUME NEW program, NEW funcs, CompiledFrom(program, funcs)
  PROVE  Balanced(program, [u \in DOMAIN program.units |-> CHOOSE h : Carries(program.units[u], h)])
<1>1. \A u \in DOMAIN program.units : \E h : Carries(program.units[u], h)
  BY CompiledCarries DEF CompiledFrom
<1>2. "main" \in DOMAIN program.units /\ Arity(program.units["main"]) = 0
  <2>1. /\ "main" \in DOMAIN program.units /\ Compiled(program.units["main"], funcs["main"])
        /\ funcs["main"].params = <<>>
    BY DEF CompiledFrom
  <2>2. Arity(program.units["main"]) = Len(funcs["main"].params)
    BY <2>1, CompiledCarries
  <2>. QED BY <2>1, <2>2
<1>. DEFINE heights == [u \in DOMAIN program.units |-> CHOOSE h : Carries(program.units[u], h)]
<1>3. ASSUME NEW u \in DOMAIN program.units PROVE Carries(program.units[u], heights[u])
  <2>1. heights[u] = CHOOSE h : Carries(program.units[u], h)
    OBVIOUS
  <2>. HIDE DEF heights
  <2>. QED BY <1>1, <2>1
<1>. HIDE DEF heights
<1>4. Balanced(program, heights)
  BY <1>2, <1>3 DEF Balanced
<1>. QED BY <1>4 DEF heights

\* The compiler and the machine together, whatever the functions of the program: as long as a
\* function gets as many arguments as it takes, an instruction of compiled code takes only operands
\* its own invocation pushed (compile.c, whose code vm.c runs without a check of the stack).
THEOREM CompiledTakesOwnOperands ==
  ASSUME NEW funcs, \A p \in Programs : CompiledFrom(p, funcs[p])
  PROVE  Spec /\ []ArgumentsMatch => []OwnOperands
<1>. DEFINE heights == [p \in Programs |-> [u \in DOMAIN p.units |-> CHOOSE h : Carries(p.units[u], h)]]
<1>1. ASSUME NEW p \in Programs PROVE Balanced(p, heights[p])
  <2>1. heights[p] = [u \in DOMAIN p.units |-> CHOOSE h : Carries(p.units[u], h)]
    OBVIOUS
  <2>2. CompiledFrom(p, funcs[p])
    OBVIOUS
  <2>. HIDE DEF heights
  <2>. QED BY <2>1, <2>2, CompiledBalanced
<1>. HIDE DEF heights
<1>. QED BY <1>1, TakesOwnOperands

\* Every variable a frame of compiled code can name exists, and no instruction is outside its code.
THEOREM CompiledIsTypeCorrect ==
  ASSUME NEW funcs, \A p \in Programs : CompiledFrom(p, funcs[p]) /\ Plain(p)
  PROVE  Spec /\ []ArgumentsMatch => []TypeOK
<1>. DEFINE heights == [p \in Programs |-> [u \in DOMAIN p.units |-> CHOOSE h : Carries(p.units[u], h)]]
<1>1. ASSUME NEW p \in Programs PROVE Balanced(p, heights[p]) /\ Plain(p)
  <2>1. heights[p] = [u \in DOMAIN p.units |-> CHOOSE h : Carries(p.units[u], h)]
    OBVIOUS
  <2>2. CompiledFrom(p, funcs[p]) /\ Plain(p)
    OBVIOUS
  <2>. HIDE DEF heights
  <2>. QED BY <2>1, <2>2, CompiledBalanced
<1>. HIDE DEF heights
<1>. QED BY <1>1, TypeCorrect

=============================================================================
