# chimp in TLA+

chimp is a small dynamic language whose programs are made of tasks: a
compiler turns each function into bytecode, a stack machine runs it, every
task has a thread, a virtual machine and a garbage collected heap of its own,
and tasks talk through messages that are copied from heap to heap. This
directory holds a model of that runtime (`src/libchimp`), the TLC
configurations that check it on small instances, and theorems about it that
TLAPS proves for instances of any size.

- [The system](#the-system): components, state, operations, what is hard
- [The modules](#the-modules): which module models which code, and how
- [The runs](#the-runs): what each one asks, its bounds, its answer
- [Fairness](#fairness)
- [The proofs](#the-proofs)
- [What the model leaves out](#what-the-model-leaves-out)
- [The plan](#the-plan)

## The system

| Component | Code | State | Operations | Modelled |
|---|---|---|---|---|
| Task runtime | `task.c` | per task: flags READY, INBOX_FULL, DONE; one-slot inbox; reference count; a mutex and one condition variable | create, send, recv, join, ref, unref, the thread function, cleanup | `ChimpTask`, `ChimpSpawn` |
| Messages | `msg.c` | a block of cells | pack (in the sender), unpack (in the receiver) | `ChimpMsg` |
| Collector | `gc.c`, `modules/gc.c` | slabs of slots, live list, free list, roots, `used` | allocate, collect (mark, sweep), grow, make a root, delete | `ChimpGC`, `ChimpHeap` |
| Bytecode machine | `vm.c`, `frame.c`, `method.c`, `var.c` | operand stack, frames, variables | one step per instruction, call, return, abort | `ChimpVM` |
| Compiler | `compile.c`, `symtable.c`, `code.c` | scopes, code units, labels, loop stack, tables of constants and names | visit, emit, patch | `ChimpCompile`, `ChimpEmit`, `ChimpCode` |
| Values | `object.c`, `int.c`, `array.c`, `hash.c`, `core.c` | the values | compare, items, attributes, arithmetic | `ChimpValues` |
| Arrays | `array.c` | a block, its size and its capacity | push, pop, shift, unshift, insert, remove, find, slice, add, loops that call back | `ChimpArray`, `ChimpList` |
| Strings | `str.c`, `array.c`, `hash.c`, `class.c` | a block of bytes | join, trim, substr, split, the text of a value | `ChimpText` |
| Module manager | `module_mgr.c`, `module.c` | a task, its cache of modules | load, compile, exit, each a request and a reply | `ChimpModuleMgr` |
| Start and end | `main.c`, `core.c` | the main task, the class objects | startup, compile the file, run, shutdown | `ChimpModuleMgr` |
| Hash tables | `hash.c`, `lwhash.c` | keys and values | put, get | as operators of `ChimpValues` only |
| Classes | `class.c` | slots of each class | new instance, inherit, override | no |
| The rest | `float.c`, `error.c`, `modules/`, the grammar, the generated syntax tree, the vendored http-parser | | formatting, system calls, parsing | no |

How they interact:

- `spawn f(x)` is compiled into SPAWN, which calls `chimp_task_new`, and a
  call of `send` with the arguments. The new thread makes its machine and
  heap, says READY, and receives its arguments like any other message.
- A message is packed before the lock of the recipient is taken and unpacked
  after it is released. A task inside a message is a counted reference; the
  decoder makes a handle with a count of its own before it gives that up.
- The collector runs inside an allocation, on the thread of its heap. It
  takes every word of the C stack for a possible ref, and also marks what the
  machine says it uses. A dead handle of a task gives up its reference, so a
  collection of one heap may end the life of a structure another thread uses.
- All calls of a task share one operand stack. Which part of it belongs to
  whom is nowhere recorded: the compiler and the machine must agree.
- The compiler runs in the task of `main ()` for its file, and in the task of
  the module manager for every file used or compiled afterwards. A `use` in a
  file is a request to the manager; one in a file the manager itself compiles
  is a recursive call. The answer comes into the inbox that is also for the
  messages of the program.
- A loop of an array (`each`, `any`, `map`, `filter`) calls a method of the
  program, which may call any method on the same array.

What is hard, and the properties each part is held to:

- *Task runtime.* Threads interleave on a mutex that one side of the creation
  handshake ignores, and that both sides may release for one another
  afterwards. Reference counts must cover the references that exist
  (`RefsCover`), flags, references and thread must be at one point of a task's
  life (`Lifecycle`), nobody may touch a freed structure (`NoUseAfterFree`,
  `NoUseAfterFreeIfKept`, `CountsExact`), the heap of an ended task may hold
  no references (`DoneHeapReleased`), a message may not be overwritten by
  another sender (`NoOverwrite`), a child must run with its own arguments
  (`RunsWithItsArguments`), a join must not come before the task has finished
  (`JoinedAfterEnd`), and waiting must end (`RecvGetsMessage`, `JoinReturns`,
  `SenderGetsRoom`, `BroadcastWakes`). `NoUseAfterFree` of the creation and
  `BlockedSendReturns` are what the code says of itself and does not keep.
- *Messages.* A size is computed by one recursion and used by another, and a
  third may come to memory nobody wrote. All must stay in the block
  (`StaysInBlock`), what is read must be what was sent (`RoundTrip`), and a task in a message must outlive its sender's interest in
  it (`CountsExact`).
- *Collector.* A sweep rebuilds both lists while values point at one another
  and the stack scan finds words that mean nothing. What is reachable stays
  (`ReachableIsLive`), garbage goes (`CollectsGarbage`), the counter tells
  the truth (`UsedCountsLive`), no slot is lost (`AllocationLosesNothing`),
  and the program sees nothing but a heap (`KeepsPromise`).
- *Compiler and machine.* Short circuits, patterns, loops and breaks leave the
  stack along several paths. Code must carry the operands it takes
  (`CarriesOperands`), use its own only (`OwnOperands`), end (`Halts`) and compute what the text says
  (`ResultIsMeaning`).
- *Arrays.* Capacity and size are changed together and apart, indices are
  narrowed from 64 bits, and loops go over an array that changes under them.
  An array must stay in its block (`OverrunOnlyFromOne`) and behave like a
  list (`ImplementsList`).
- *Strings.* What the first pass counts the second must write
  (`FillsItsBlock`), and the pieces must be those that were asked for
  (`AnswerIsMeant`).
- *Module manager.* One inbox for answers and other messages, files that use
  each other, and a manager that may stop answering. What a task gets is what
  the manager keeps (`HeldIsCached`), modules are linked to finished modules
  (`Linked`), there is one of a name (`OneOfAName`), the stack is exhausted
  only by circles (`OverflowsOnlyInCircles`), and who asks is answered
  (`Answered`).

The full list of hazards, each at its line, is in `PROJECT.json`.

## The modules

| Module | Models | Remarks |
|---|---|---|
| `ChimpTask` | `task.c` after READY, task cells of `msg.c` | one critical section is one step |
| `ChimpSpawn` | the handshake of `task.c`, to the end of the thread | each access, broadcast, lock and unlock is one step |
| `ChimpMsg` | `msg.c` | one cell is one step |
| `ChimpHeap` | nothing: what a heap promises | abstract specification |
| `ChimpGC` | `gc.c`, `modules/gc.c` | implements `ChimpHeap` |
| `ChimpValues` | comparison, items, arithmetic of the value classes | operators |
| `ChimpCode` | `code.c`, `code.h`: labels, tables, instruction words | operators |
| `ChimpVM` | `vm.c`, `frame.c`, `method.c`, `var.c` | one instruction is one step |
| `ChimpEmit` | `compile.c`, the grammar `_parser.y` | operators, one for each construct: its code from the code of its parts |
| `ChimpCompile` | `symtable.c`, the way through the trees of `compile.c` | operators, from syntax trees to code |
| `ChimpMeaning` | nothing: what a program means | reference definition |
| `ChimpLanguage` | compiler and machine together, against the meaning | composition |
| `ChimpList` | nothing: what an array promises | abstract specification |
| `ChimpArray` | `array.c` | implements `ChimpList` |
| `ChimpText` | the strings made by `array.c`, `hash.c`, `class.c`, and `str.c` | one item is one step |
| `ChimpModuleMgr` | `module_mgr.c`, `module.c`, `main.c`, `core.c`, the use of files in `compile.c` | one request, file or `use` is one step |
| `ChimpTaskProofs`, `ChimpSpawnProofs`, `ChimpGCProofs`, `ChimpArrayProofs`, `ChimpModuleMgrProofs`, `ChimpMsgProofs`, `ChimpTextProofs`, `ChimpVMProofs` | | theorems |
| `MCChimpTask`, `MCTaskSenders`, `MCChimpMsg`, `MCChimpGC`, `MCChimpLanguage`, `MCChimpArray`, `MCChimpText`, `MCChimpModuleMgr` | | instances for TLC |

### ChimpTask

`Tasks` are the `ChimpTaskInternal` structures, each with its thread;
`holds[t][p]` says which task is referenced from place `p` of `t`: a handle
(`Slots`), its own local handle (`"self"`), the extra reference of its thread
(`"thread"`), the message it is packing or unpacking (`"hand"`), and its inbox
(`"inbox"`). `refs` is the counter the code keeps, so that `RefsCover` can
compare the two. `pc[t]` is where the thread stands; `waiting[u]` is the wait
set of the condition variable of `u`; `lock[u]` is only ever set by the one
path of `chimp_task_send` that returns without unlocking.

| Code | Actions |
|---|---|
| `chimp_task_new` and the start of the thread | `Spawn` |
| `chimp_task_send` | `SendPack`, then `SendToDead`, `SendBlock` or `SendDeposit` |
| `chimp_task_recv`, `chimp_msg_unpack` | `Recv`, `RecvBlock`, `RecvTake`, `UnpackHandle`, `UnpackUnref` |
| `chimp_task_join` | `Join`, `JoinBlock`, `JoinReturn` |
| the destructor of a handle, `chimp_task_unref` | `CollectHandle`, `DestroyHandle` |
| `chimp_task_thread_func`, after the method | `Finish`, `ThreadExitLast`, `ThreadExitDone`, or `Fail` |
| `pthread_cond_wait` returning for no reason | `SpuriousWakeup` |

### ChimpSpawn

Two threads, a creator `P` and its child `C`, at the grain of their accesses
to shared memory, because the child does not take the lock: it sets READY,
broadcasts, and counts its two references unlocked, then unlocks a mutex its
creator locked (`task.c:150`). From then on the creator may be in a critical
section without the lock, and its own unlock, at the end of the send
(`task.c:442`) or later, may release a lock the child has taken since, which
lets the creator into the critical section the child is still in. So no step
relies on the mutex: a flag set, a broadcast, an unlock, and the read and the
write of a `refs++` or `refs--` are steps of their own, on both sides, from
`chimp_task_new` to the last unlock of the thread. The history variable
`stolen` says that the creator has released the lock the child took last: the
properties name it where what they say is lost by that. `keeps` says whether
the program keeps the handle until it has joined the child. Memory is
sequentially consistent, the best case.

`ChimpTask` begins where this ends, and takes the lock as respected. What can
happen because it is not, at the first message and the end of a task that is
soon over, is in `ChimpSpawn` only.

### ChimpMsg

`chimp_msg_pack` measures a value (`Measure`), allocates the block (`Allocate`)
and writes cell after cell (`Encode`); `chimp_msg_unpack` reads them back, one
action for each kind of cell (`DecodeScalar`, `DecodeTask`, `DecodeArray`,
`CloseArray`). The recursion over nested arrays is a list of values still to do (`todo`) and, for
reading, the arrays still open. `at` is the offset in the block, `block` what
was written at each offset, so that a cell that is written over, skipped, or
read where none was written shows. A nil is written without an advance and
read with one (`msg.c:94`): `RoundTrip` says that only what follows a nil in an
array suffers. Where nobody wrote, `malloc` has left anything, the cells of an
earlier message for one: the reader takes it for any cell of `Stale`
(`Readable`) and goes on by the size found there, up to `Beyond` behind the
block, or fails, over a type there is none of, a wild pointer or memory that
is not there (`DecodeFails`). `unwritten` has the classes of what was read so:
a size of a string or an array among them is what leads out of the block, and
`StaysInBlock` holds up to there. `RoundTrip` says what suffers with `Left`, what is still to do of a message after
each of its values, which also shows both passes to go through the same values
in the same order. `refs` and `held` follow the counted references while the
sender drops its handles at any moment. `Messages` has, with an array, its
items, because whatever is in an array can be sent by itself.

### ChimpHeap and ChimpGC

`ChimpHeap` promises that what is handed out was not in use, and that an
object goes away only when the program cannot reach it. `ChimpGC` has the
slabs, lists and counters of `gc.c`; a list is the set of its members, the
recursion of the mark a set of refs still to be visited. A stack word that
nobody uses any more is a member of `stale`, chosen when a collection scans
the stack; it may point at a slot that was freed, in which case the mark reads
what lies there (`MarkFreed`). `KeepsPromise` is the specification of
`ChimpHeap` with `objs <- live`.

### The language modules

`ChimpCompile` translates syntax trees of functions to the code units
`chimp_compile_ast` makes: scopes and free variables as `symtable.c` finds
them, then instructions. What is emitted for a construct is in `ChimpEmit`,
given the code of its parts, with labels patched as `chimp_code_use_label`
does; `ChimpCompile` only goes through the trees, with recursive operators no
prover can read. `ChimpEmit` ends with what that amounts to for a function
that is given with all its trees and the code of each (`Compiled`), which a
prover can read. `ChimpCode` puts constants and names in the tables of the unit and their
places into one byte of the instruction. `ChimpVM` runs the units. Its operand
stack is the array with its size next to it, so that a value that was popped
is still there to be found; popping an empty stack gives nil, as the code has
it. NULL results end in `CHIMP_BUG`, which aborts (`status = "bug"`); what C
leaves undefined is `"crash"` or a choice. `ChimpMeaning` evaluates the same
syntax tree without a stack, jumps or code.

Comparisons are the one nondeterministic step: where the code compares the
addresses of objects made at run time, both outcomes are possible. An array
casts what it is compared with, so a comparison with another class stops the
program.

### ChimpArray and ChimpList

`self` is the array a program works on: a block `items` of `capacity` places,
the first `size` in use, the others `Junk`. Every method is an action, made of
the helpers of `array.c`: `Grow` (`chimp_array_grow`, by 1.8), `Inserted` and
`Removed` (the `memmove`s), `Narrow` (an index cut to an `int32_t`). Literals,
sums and slices make arrays with exactly the room they need. A loop is `loop`
with the turn it is at: one step reads the size and the item and calls back,
the next takes the answer, and between them the program may call any method
on the same array. `made`, the capacity an array began with, is kept for
`OverrunOnlyFromOne`: growth by a fraction leaves a capacity of one at one, so
an array that was made for one item is written past its block by the next
push (`array.c:640`), and no other array is.

`ChimpList` has the same operations on a sequence, without blocks. An
operation that cannot be done, or for which there is no room, stops the
program; `ImplementsList` maps both `CHIMP_BUG` and the overrun to that stop, and
says of each method called, from outside or from within a loop, that it is the
list's method of the same name.

### ChimpText

A string is made in two passes (`Measure`, then `Allocate` and `Write`; `One`
is the short cut of `str` for a single argument): the first converts the
items, in an array with a capacity of its own, and counts bytes in unsigned
arithmetic, the second writes them into the block that was allocated. `Trim`,
`Substr` and `Split` (one turn of its loop) are the methods of a string. A text
may have bytes 0 inside: `str` stops at the first, and `split`, which looks for
its separator with `strstr`, sees none behind it up to the next piece. The
properties name the exceptions of the code: the text of a hash of one entry
collects in an array made for one (`hash.c:36`), `join` of no items counts a
separator less than none (`array.c:326`), `split` by an empty separator never
moves on (`str.c:276`), and `substr` does not look whether its indices are in
order and in the string (`str.c:237`).

### ChimpModuleMgr

`pc[t]` is what a task is doing: the task of `main ()` starts the manager,
compiles its file and runs it; the tasks the program spawns ask for files
(`Compile`), send and receive (`Talk`, `Listen`) and end; the manager serves.
Inboxes hold one message, as `ChimpTask` has it. `Serve` takes a request and
`Load` looks for a name in the cache, in the path and among the builtins;
`Open`, `Use` and `Compiled` are the recursive compilation, whose stack is
`nest`; `Reply` sends the module. `cache` is the manager's table, `made` every
module there ever was, `binds` what the `use`s of a file have put into its
locals, and `got` what each task took for an answer.

| Code | Actions |
|---|---|
| `chimp_core_startup`, `chimp_module_mgr_init` | `Start`, `ManagerReady` |
| `real_main` | `MainUses`, `MainCompiled`, `MainMalformed`, `End` |
| `chimp_module_mgr_shutdown`, `chimp_core_shutdown` | `SendExit`, `Return` |
| `_chimp_module_mgr_send_cmd` | `Compile` or `MainUses`, then `SendRequest`, `TakeAnswer` |
| `_chimp_module_mgr_func` | `Prepare`, `Serve`, `Reply`, `Fail` |
| `_chimp_module_mgr_load`, `chimp_compile_file` | `Load`, `Use`, `Compiled`, `FoundMalformed` |
| `chimp_task_thread_func`, for the manager | `Free`, `Done` |

## The runs

| Run | Instance | Properties | Shows |
|---|---|---|---|
| `task_safety` | 3 tasks, 1 handle each, counts to 3, workers symmetric | `TypeOK` `Lifecycle` `RefsCover` `NoUseAfterFree` `DoneHeapReleased` `NoOverwrite` | reference counts, lifetimes and the inbox stay right in any interleaving (0.9 million states) |
| `task_progress` | 4 tasks, 3 handles each, counts to 5; three of them send to the fourth, or join it, while it receives, ends or fails; fair | `RecvGetsMessage` `JoinReturns` `SenderGetsRoom` | receivers and joiners that wait are woken, and of several senders that wait for one inbox each gets its room or loses it to another, but by a lock left behind (`LockLeft`; 61,000 states) |
| `task_send_stuck` | 3 tasks, fair | `BlockedSendReturns`: violated | a sender that waits for room when the recipient ends waits for ever (`task.c:429`) |
| `spawn` | 1 creator, 1 child, fair | `NoUseAfterFreeIfKept` `JoinedAfterEnd` `CountsExact` `RunsWithItsArguments` `BroadcastWakes` | a handle that is kept protects the task up to the last broadcast and unlock of its thread, which come too late only if the creator has released the child's lock; counts and arguments are right, and who sleeps before the broadcast is woken (2,000 states) |
| `spawn_freed_early` | the same | `NoUseAfterFree`: violated | a handle collected early frees the task under its own thread (`task.c:139`) |
| `messages` | 2 tasks; every scalar, arrays of up to 3, nested two deep; cells of 3 places; memory nobody wrote holds a nil, a string, an array or a task, and is read up to 3 places behind the block | `TypeOK` `StaysInBlock` `RoundTrip` `CountsExact` | messages fill their block, arrive as they were sent (but behind a nil), and keep their tasks alive (95,000 states) |
| `gc` | 2 slabs of 2 slots, 2 refs on the stack, 1 root, 1 ref an object, 1 stale word | `TypeOK` `ReachableIsLive` `CollectsGarbage` `UsedCountsLive` `AllocationLosesNothing` `KeepsPromise` | allocation, collection, growth and destruction keep the promise of `ChimpHeap` (0.75 million states) |
| `language` | about 2,100 programs | `TypeOK` `OwnOperands` `CarriesOperands` `ResultIsMeaning` `Halts` | programs do what they say, and code and calls leave the operands of the caller alone (57,000 states) |
| `language_hash_pattern` | matches with hash patterns | `ResultIsMeaning`: violated | after a hash pattern fails on an item the next one is tried on that item (`compile.c:754`) |
| `arrays` | items nil and true, up to 3 of them, a default capacity of 2, an `int32_t` of 8 values, indices from -5 to 3, 7 and 8 | `TypeOK` `OverrunOnlyFromOne` `ImplementsList` | every sequence of methods and loops does to the block what it does to the list (60,000 states) |
| `texts` | about 2,600 calls | `FillsItsBlock` `AnswerIsMeant` | strings fill their blocks and are the ones meant, with the exceptions named |
| `modules` | 2 tasks besides main, one that others send to; 14 files, 7 of them for main | `TypeOK` `HeldIsCached` `Linked` `OneOfAName` `OverflowsOnlyInCircles` `Answered` | who gets which module, how files are linked, and who waits for ever (97,000 states) |

Why the bounds are enough:

- Three tasks are the smallest number with two joiners of one task, or a
  handle that travels through a third. One handle slot and a message of one
  cell suffice for a reference to be in each kind of place at once. Several
  senders that wait for the inbox of yet another task need more: a handle of
  it in each of them, which main has to send them first, and so counts to 5
  and three slots. Every choice of a program is then too much to try, and
  `task_progress` fixes the program up to that point (`Rivals`): main makes the
  recipient and two senders and gives each its handle, and from then on all
  three send and join as they like. Two and three senders wait at once, one
  takes the slot another was woken for, and the recipient ends with senders
  and joiners waiting, with and without room, its lock left behind or not.
  `MaxRefs` bounds the counter because references of
  dropped messages are never given back: without it the state space is
  infinite. Ends and failures may come at any point.
- Two slabs of two slots reach every case of `chimp_gc_new_object`: a free
  slot, a collection that frees something, one that frees nothing followed by
  growth, and no memory. One ref an object makes chains and cycles.
- Messages: the encoder and the decoder treat one value after another, so
  pairs of classes in an array, and arrays as first, middle and last items of
  an array, are every neighbourhood there is. A cell is three places wide so
  that an offset in the middle of one differs from both ends. What is read
  where nobody wrote is a cell of each way to go on: by one cell, by a cell and
  a size, with items to come, and with a count; three places behind the block
  are one cell, after which nothing new can be found.
- Arrays: a default capacity of two makes an empty array grow, fill and grow
  again within three items, and literals of one and two have exactly full
  blocks of their own. With eight values of an `int32_t` the indices 7 and 8 are cut
  to -1 and 0, which an array has, and -5 to 3, which it has not. Indices of -2
  and 4 add no case that their neighbours lack.
- Texts: items that are empty, hold a byte 0, or are quoted, in every order up
  to three; the array of twelve outgrows the ten places its texts collect in.
- Modules: one file is used by several, one is compiled under the name of a
  builtin it uses itself, two use each other, one cannot be opened, one does
  not compile, one name does not exist; main compiles each kind. `Depth` is
  above the number of files in the path, so only a circle can reach it.
- Programs are families rather than single tests: expressions two operators
  deep over leaves that leave a trace of their evaluation; twelve kinds of
  subject against every pair of a pattern and a second one; nested loops with
  breaks, matches inside loops, recursion and calls under operands of the
  caller; closures that share and outlive variables; one unit with the 256
  constants a byte can number; and programs that must be stopped. Programs
  with hash patterns whose items may fail have a run of their own; functions
  without `ret` are left out of `language` (see below). Comparing an array
  with another class stops the machine: the matches leave it out and a faulty
  program has one.

Deadlock is not checked: chimp programs end, may leave all their tasks in
`recv`, and run out of memory.

Divergences that are stated by the properties, or met while modelling, and
that no run reports because no comment or test of the repository says
otherwise, or because the statement has no run of its own:

- a send to a task that is DONE returns with the lock of that task held
  (`task.c:426`; the exception `LockLeft` of `JoinReturns`);
- a creator that tests READY before the child sets it and sleeps after the
  broadcast sleeps for ever (`task.c:135`; what `BroadcastWakes` leaves out);
- where the handle is kept, the structure can still be freed before the last
  broadcast and unlock of its thread: the thread has unlocked the mutex of its
  creator (`task.c:150`), receives what that has put into the inbox (437) and
  sets DONE (191) before the creator gets to its own unlock (442), which
  releases the lock of the thread; a join and a collection get in, and
  `task.c:192` broadcasts in freed memory, though `task.c:396` says "last ref:
  safe to unlock aggressively" (the exception of `NoUseAfterFreeIfKept` and
  `JoinedAfterEnd`, a state the run `spawn` reaches);
- `gc.collect ()` forgets the slots that were free (`gc.c:377`; what
  `AllocationLosesNothing` leaves out);
- a function without `ret` returns whatever is on top of the operand stack,
  an operand of its caller perhaps (`vm.c:918`), though functions without
  `ret` are called for their result in `test/functions_test.chimp:3-8`;
- methods and modules are sent as pointers into the heap of the sender
  (`msg.c:168`), though the README calls tasks "shared nothing";
- a file that cannot be opened ends the thread of the module manager, and
  every later request waits for ever (`module_mgr.c:188`; an exception of
  `Answered`).

## Fairness

- `ChimpTask`: `WF_vars(Step(t))` for every task. A thread that can go on with
  a call it has begun is scheduled. Nothing obliges the program to begin a
  call, a collection to happen or a wait to end without a broadcast.
- `ChimpSpawn`: weak fairness of both threads, and strong fairness of the
  creator's wakeup, which competes for a mutex that is taken and released.
- `ChimpModuleMgr`: weak fairness of the main task, of the manager, and of a
  task that is in a request: they are in code of the runtime that goes on by
  itself. What the program does between requests is not obliged to happen.
- `ChimpVM`: `WF_vars(Next)`. A single thread that nothing blocks.

## The proofs

For any number of tasks, slots, slabs, refs, items, names, files, messages,
texts and programs, from the assumptions of the modules:

- `TaskAssumption`: finitely many tasks and slots, `Main` among the tasks;
- `GCAssumption`: finitely many slots, slabs of one size;
- `ArrayAssumption`: a default capacity above one, arrays smaller than an
  `int32_t`;
- `ModuleAssumption`: the manager is no program task, nobody sends it data, the
  depth exceeds the number of files in the path;
- `SpawnAssumption`: the two threads differ from one another and from none;
- `MsgAssumption`, `StaleAssumption`: a cell has a size, what is in an array
  can be sent by itself; what memory nobody wrote is read as is a cell;
- `TextAssumption`: a block is smaller than half of what a `size_t` counts,
  the items of a hash come in pairs.

Some theorems have a hypothesis besides. `TakesOwnOperands` and the type
correctness of `ChimpVM` are about programs whose code carries its operands
(`Balanced`) and whose calls have as many arguments as the callee takes
(`ArgumentsMatch`). The machine checks neither. For the first it depends on the
compiler, and `CompiledCarries` proves it of the compiler; the run `language`
checks it of every program it compiles (`CarriesOperands`). The second is up to
the program that makes the calls, and remains a hypothesis. Type correctness
needs also that the constants of the code and the globals have no values inside
(`Plain`): a closure or a variable among the constants could lead to a variable
nobody made. The compiler puts strings, numbers and methods there, and
`ProgramsArePlain` has TLC evaluate it for every program of the run.

What the theorems suppose of a compiled function is `Compiled`: its trees are
those the grammar builds, of any depth, and each has the code `ChimpEmit` makes
of it from the code of its parts; no `break` stands outside a loop of its own
function; the function ends in `ret`; and it has fewer than 2^24 instructions,
what an address in a jump can count. `CompiledFrom` says it of every function
of a program, and that `main` takes no arguments. The functions without `ret`
and the `break` in a function in a loop that it leaves out are two of the
defects of the code this document lists: there the statement is false. That
the hypothesis is what the compiler model makes is evaluated by TLC for programs
of every family of the run `language` (`ProgramsAreCompiled`): it takes the trees
of a program, the code `ChimpCompile` made of each and their depths, and finds
`CompiledFrom` true of them.

`StringsFillTheirBlocks` is about calls whose texts fit into memory (`Fits`):
an array of very many references to one long string counts more bytes than a
`size_t` holds. `AnswersAreMeant` needs only that a text that is cut is in a
block with its byte 0, and that there is room for as many pieces as it has
bytes (`Held`). TLC checks both hypotheses of every call of the run `texts`
(`JobsFit`).

| Theorem | States |
|---|---|
| `ChimpTaskProofs!TypeCorrect` | `Spec => []TypeOK` |
| `ChimpTaskProofs!LifecycleHolds` | `Spec => []Lifecycle` |
| `ChimpTaskProofs!RefsAlwaysCover` | `Spec => []RefsCover` |
| `ChimpTaskProofs!NeverUsedAfterFree` | `Spec => []NoUseAfterFree` |
| `ChimpTaskProofs!NeverOverwritten` | `Spec => NoOverwrite` |
| `ChimpTaskProofs!DoneHeapIsReleased` | `Spec => []DoneHeapReleased` |
| `ChimpSpawnProofs!TypeCorrect` | `Spec => []TypeOK` |
| `ChimpSpawnProofs!SafeIfKept` | `Spec => []NoUseAfterFreeIfKept` |
| `ChimpSpawnProofs!CountsAreExact` | `Spec => []CountsExact` |
| `ChimpSpawnProofs!ArgumentsArrive` | `Spec => []RunsWithItsArguments` |
| `ChimpSpawnProofs!JoinIsLate` | `Spec => []JoinedAfterEnd` |
| `ChimpGCProofs!TypeCorrect` | `Spec => []TypeOK` |
| `ChimpGCProofs!ReachableIsNeverFreed` | `Spec => []ReachableIsLive` |
| `ChimpGCProofs!UsedIsLive` | `Spec => []UsedCountsLive` |
| `ChimpGCProofs!GarbageIsCollected` | `Spec => []CollectsGarbage` |
| `ChimpGCProofs!AllocationIsLossless` | `Spec => AllocationLosesNothing` |
| `ChimpGCProofs!GCKeepsPromise` | `Spec => KeepsPromise`, a refinement |
| `ChimpArrayProofs!TypeCorrect` | `Spec => []TypeOK` |
| `ChimpArrayProofs!OnlyOneOverruns` | `Spec => []OverrunOnlyFromOne` |
| `ChimpArrayProofs!ArrayImplementsList` | `Spec => ImplementsList`, a refinement |
| `ChimpModuleMgrProofs!TypeCorrect` | `Spec => []TypeOK` |
| `ChimpModuleMgrProofs!HeldStaysCached` | `Spec => []HeldIsCached` |
| `ChimpModuleMgrProofs!CachedAreLinked` | `Spec => []Linked` |
| `ChimpModuleMgrProofs!OneModuleOfAName` | `Spec => []OneOfAName` |
| `ChimpModuleMgrProofs!CirclesOverflow` | `Spec => []OverflowsOnlyInCircles` |
| `ChimpMsgProofs!TypeCorrect` | `Spec => []TypeOK` |
| `ChimpMsgProofs!NothingOutside` | `Spec => []StaysInBlock` |
| `ChimpMsgProofs!ReceivedIsSent` | `Spec => []RoundTrip` |
| `ChimpMsgProofs!ReferencesExact` | `Spec => []CountsExact` |
| `ChimpVMProofs!TakesOwnOperands` | `Spec /\ []ArgumentsMatch => []OwnOperands`, for `Balanced` programs |
| `ChimpVMProofs!TypeCorrect` | `Spec /\ []ArgumentsMatch => []TypeOK`, for `Balanced` and `Plain` programs |
| `ChimpVMProofs!CompiledCarries` | the code of a `Compiled` function carries its operands, and takes as many arguments as it has parameters |
| `ChimpVMProofs!CompiledTakesOwnOperands` | `Spec /\ []ArgumentsMatch => []OwnOperands`, for programs that are `CompiledFrom` functions |
| `ChimpVMProofs!CompiledIsTypeCorrect` | `Spec /\ []ArgumentsMatch => []TypeOK`, for the same if they are `Plain` |
| `ChimpTextProofs!StringsFillTheirBlocks` | `Spec => []FillsItsBlock`, for jobs that `Fits` |
| `ChimpTextProofs!AnswersAreMeant` | `Spec => []AnswerIsMeant`, for jobs that are `Held` |

*Tasks.* The counter and the references live in different variables, so the
argument is about cardinalities: `Holders(u)` is the set of places that refer
to `u`, and a step may let it shrink (`CoverShrink`), add one place and count
it (`CoverGrow`), move one (`CoverMove`), or drop one and uncount it
(`CoverDrop`). `RefsCover` alone is not inductive. `Lifecycle` is needed to
know that the task a step works on is referenced from somewhere else than the
place the step clears, and that an unborn task is referenced from nowhere;
`IInv` is `TypeOK`, `RefsCover` and `Lifecycle`. `NoUseAfterFree` follows: a
freed task has no holders, and every thread in a call holds a reference to
what it works on. `NoOverwrite` needs one more fact, that a message in an inbox
is always announced by INBOX_FULL (`InboxInv`). `DoneHeapReleased` needs to
know where a thread can be while its task still has handles (`Settled`).

*Creation.* The invariant says, for each pair of points of the two threads,
which counts there are (`Bounded`, and `Counted` where the handle is kept, with
the references in `Owned`), what is in the inbox (`Messages`) and what of the
task is still alive (`Ends`). Of the mutex it uses one fact: a lock the child
has taken is held until the creator has released it (`Holding`, which has
`stolen` for the exception). From that comes the end: a creator finds DONE set
when the thread is dead or its lock was released (`Ended`). All else follows
from the order in which both threads go through the handshake, as no step may
count on the lock.

*Collector.* Reachability is defined by closed sets, not by paths, so that no
induction is needed: what is reachable is in every closed set that has the
stack and the roots. `Keep` names such a set for every point of a collection:
the live list while the program runs and the mark goes on, the marked live
slots in a sweep. `Marking` says why the second is closed when the mark is
done. For garbage the argument goes the other way: `Earned` says that what is
marked is in every closed set that has what the mark began with. `NoneFree`
says that a collection inside an allocation starts with no free slot, which is
why it loses none. The refinement maps every step of `ChimpGC` to one of
`ChimpHeap` or a stutter; that a sweep frees only what is unreachable is the
first theorem.

*Arrays.* A block is typed and its capacity is one only if it was made so
(`Good`): growth never arrives at one. For the refinement the items of a block
that growth and `memmove` have changed are compared with the list place by
place (`InsertedItems`, `RemovedItems`), then each method is a case. `Sized`,
that arrays stay within `MaxSize` and so below `Half`, makes the narrowing of
an index in range the identity.

*Module manager.* `HeldIsCached` is not inductive: an answer is first computed,
then sent, then taken, and meanwhile other files are cached. `IInv` follows it
along that way. `Requested`: who waits has one request, on its way or being
worked at, and an empty inbox until it is answered, if nobody else sends to
it. `Work`: the outermost file being compiled, or the name being loaded, is
the one of the request. `Faithful`: nobody has, or will take, a module of a
name that is being compiled, so the cache entry of a name somebody has is
never replaced. `CachedAreLinked` adds that a file being compiled has all it
has asked for but the last, which the next file or the name being loaded is
about to answer (`Chain`), and that a module is nowhere before it is finished
(`Unfinished`). The other two are about the uses of files. `LeadsTo` is the
least closed set of names rather than a set of paths, so that following one
more `use` is all the induction there is. `Path`: each file being compiled has
a name that all those around it lead to. A file that is already being compiled
is therefore on a circle, and without a circle the files nested are all
different, so no more than there are in the path: a pigeonhole, which is where
the depth is needed. `Present` and `Alone`: a name there is a module of is
cached or being compiled, and two modules of one name meet only on a circle or
under a name given to `compile ()`.

*Messages.* Three passes go through one tree, and the cells of a nil are
written over. `Counted` says what the first pass counts as a sum `p` over the
values `Left` goes through; that it is a sequence given step by step, and not a
function of the tree, keeps induction over values out of it. `Layout` says that
the cells written follow each other without a gap, and how many items are
announced and not yet there at each of them: the reader goes from one to the
next and its open arrays lack just those items (`Stands`), so that what it lacks still fits
into the block. Behind the last cell it reads where nobody wrote, never between
cells and only in a message in which something follows a nil (`Past`,
`Leaving`); what it finds there fits as well, until it takes the size of a
string or an array from it (`Astray`). That gives `StaysInBlock`. `Order` relates each cell
to the number of values done before it, and says they are one apart if nothing
follows a nil (`Tidy`); then what the arrays being read still lack, put into
them, is the value that was sent (`Nest`, `Tracks`), which is `RoundTrip` when
nothing is lacking.

*Machine.* `OwnOperands` needs the frames that are not running. Each is at a
place of its code where a certain number of operands is carried (`InCode`);
the frame above it begins no lower than the operands its caller has left after
the call took its own (`Awaits`); and the stack is as high as the running
frame says (`Stacked`). A return takes the stack back to no less than the
caller awaits with its result on top; popping may leave more than is carried,
never less, so that clauses of a match that leave a subject behind do no harm.

That every variable a frame can name exists depends on what is inside of
values: a frame gets its variables from a closure, the closure was perhaps an
item of an array, the array a value of a hash. Induction over values is out of
reach, and not needed: `Valued` says that there is a set which is closed under
taking parts, whose variables have all been made, and which has the operand
stack, also what lies above its size, the values of the variables and the
names of the frames in it (`Values`). Each instruction leaves the set as it is
or adds what it made, whose parts were in it; a call adds the new variables.
The stack begins for a frame no lower than for those below it (`Based`), so
that a return leaves none of them with operands it does not have.

*Compiler.* Code carries its operands if a number can be given to each place
such that every instruction finds what it takes and leaves, wherever it may go
next, no less than the number there (`Carries`). The proof gives such numbers
to the code of every tree. Places and jumps are relative, and labels not yet
patched lead out of the piece, so the statement about a piece of code says how
many operands it finds and leaves, and how many each label that leads out of
it is taken with (`Good`). Pieces are put together one after another (`Glue`),
and a label is used at an end (`UseLabel`), which removes it from those that
lead out; from these two come all constructs, the test of a nested pattern with
its labels for each depth being the longest. That an expression adds one
operand and a statement none is then shown for all trees at once, by a tree of
least depth of which it would be false, in place of the induction over trees
that the prover does not have. A function begins by taking its arguments off
the stack; nothing is left then (`NothingLeft`), so the next instruction takes
nothing, and the machine's count of the arguments is that of the parameters
(`ArityIs`). Assembling keeps which instruction is where, and an address of 24
bits keeps a jump within the code (`GoesOn`).

*Strings.* For a call with the sums `lengths` of its texts, what is counted
(`CountedTo`) and what is written (`WrittenTo`) are known at every item, and
agree at the end. The array that collects the texts overruns its block only
where it was made for one text and gets two, a hash of one key; an empty `join`
takes the length of a separator off nothing, and wraps.

That the string is also the right one is a separate invariant, which needs no
lengths. The meaning of a join is a function defined by recursion over the
number of items; that it exists and satisfies its equations is proved once
(`CanBeBuilt`, `JoinsIs`), by a least counterexample. Then `UpTo`, what is
meant of the first `k` items, grows by what one turn of the writing loop
appends (`UpToNext`), in a hash one half of an entry at a time, and `Made` says
that the text is that much of it. For `split`, `Splitting` says that the pieces
with the separators between them are what the text begins with, up to the end
of the last separator or to its own end. A piece has no separator in front of
its first byte 0 because that would have been found before the one it ends at
(`NextIs`). The memory cannot run out of pieces, as each turn moves at least by
a separator. `trim` and `substr` are one step each: what lies in front of the
first byte that is not blank, and behind the last, is blank (`TrimmedIs`), and
with indices in order their difference does not wrap (`SubstrMeant`).

Only model-checked: liveness, which the prover cannot do (`RecvGetsMessage`,
`JoinReturns`, `SenderGetsRoom`, `BroadcastWakes`, `Answered`, `Halts`);
`ResultIsMeaning`, which compares a program with the meaning of its trees, a
recursive operator; and, of `CarriesOperands`, that the recursive operators of
`ChimpCompile` make what `Compiled` says, where the theorem about the emitted
code begins: `ProgramsAreCompiled` evaluates that for the programs of the run. The type invariant of `ChimpSpawn` is
proved and not run.

## What the model leaves out

- *Tasks:* the teardown of the main task while others run, running out of
  memory, and the heap a task's method lives in.
- *Messages:* what becomes of a method or a module whose heap is gone.
- *Collector:* refs from one heap to another, which the mark ignores, and the
  order of the lists.
- *Language:* classes, `__file__` and `__line__`, native methods other than
  `size` and `send`, calls from native code into the machine, values that
  change in place, floats, what strings contain, the width of integers, more
  than 256 constants or names in a unit (`code.c:168`), a
  `break` in a function inside a loop, variables more than one function away,
  more than 16 variables in a pattern.
- *Arrays and hashes:* two arrays that are one object, an array changed by
  another task (there is none: heaps are apart); putting into and getting from
  a hash is an operator over finite functions, and `lwhash.c` is left out.
- *Strings:* `index`, `upper`, `lower`, formats and appending, each a loop over
  bytes of its own.
- *Module manager:* what is in a module besides the names it uses, and errors
  of the program that run at the same time.
- *Not at all:* classes and instances (sequential, close to the object
  layout); floats and errors (formatting and a record); files, sockets and
  operating system wrappers of `modules/` (input and output); the grammar, the
  generated syntax tree and http-parser (generated or third-party).

## The plan

Done, in this order because most of what can go wrong in a runtime of tasks
goes wrong between tasks: `ChimpTask`, `ChimpSpawn`, `ChimpHeap` and `ChimpGC`,
the language modules, `ChimpArray` with `ChimpList`, `ChimpMsg`,
`ChimpModuleMgr`, `ChimpText`; with them the proofs of every safety property of
tasks, creation, collector, arrays, messages, module manager and strings, and
of the operand stack and the variables of the machine for the code the compiler
emits.

What would add most next:

1. Two heaps in one model: methods that live in the heap of another task
   (`task.c:210`), methods and modules in messages (`msg.c:168`), and the
   shutdown of the main task with others running. It is `ChimpGC` twice with
   the handles of `ChimpTask` between them.
2. More of the language: closures two levels deep and variables looked up in
   the frames of the caller (`vm.c:136`), captured names used only as keys
   (`symtable.c:415`), `break` in a function in a loop (`compile.c:280`),
   classes.
3. A hash as a container with its growth, and the tables of `lwhash.c`.
4. A proof that programs compute what they mean: `Compiled` code run to its
   end against the equations of `ChimpMeaning`, for trees of any depth.
