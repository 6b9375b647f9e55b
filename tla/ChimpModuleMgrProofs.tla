------------------------- MODULE ChimpModuleMgrProofs -------------------------
(***************************************************************************)
(* Proofs about ChimpModuleMgr, for any number of tasks, names and files:  *)
(* the types; that what a task was given for a name is what the manager    *)
(* has under that name; that a module the manager has cached is linked to  *)
(* a finished module for each name it uses; and that there are two modules *)
(* of one name, and the C stack ends, only where files use each other in a *)
(* circle or a file uses the name it is compiled under.                    *)
(***************************************************************************)
EXTENDS ChimpModuleMgr, FiniteSetTheorems, SequenceTheorems, TLAPS

-----------------------------------------------------------------------------
(* The inductive invariant.                                                *)

\* Tasks nobody but the manager sends to.
Quiet == Programs \ Talkers

Asks == { Ask(t, r) : t \in Programs, r \in Names \X (Files \cup {NoFile}) }
Points == {"start", "new", "ready", "compile", "send", "wait", "run", "exit", "join", "end",
           "args", "serve", "work", "reply", "failed", "free", "freed", "over"}
AllModules == { ModuleOf(i, n, f) : i \in Nat, n \in Names, f \in Files \cup {NoFile} }
UpTo(k) == { ModuleOf(i, n, f) : i \in 1..k, n \in Names, f \in Files }
Frames == [mod : AllModules, used : Nat]

TasksTyped ==
  /\ pc \in [Tasks -> Points]
  /\ inbox \in [Tasks -> {Empty, Data, Ready, Args, Exit} \cup Modules \cup Asks]
  /\ asked \in [Tasks -> (Names \X (Files \cup {NoFile})) \cup {Nothing}]
  /\ \A t \in Programs : pc[t] \in {"send", "wait"} => asked[t] \in Names \X (Files \cup {NoFile})
  /\ got \in [Tasks -> [Names -> {NoModule, Data} \cup Modules]]
  /\ \A t \in Tasks \ Talkers, n \in Names : got[t][n] \in {NoModule} \cup Modules
  /\ source \in Files /\ used \in 0..Len(Uses[source])

ManagerTyped ==
  /\ job \in Asks \cup {Empty}
  /\ seek \in Names \cup {NoName}
  /\ nest \in Seq(Frames) /\ Len(nest) <= Depth
  /\ \A i \in 1..Len(nest) : /\ nest[i].mod \in made /\ nest[i].mod.file \in Files
                             /\ nest[i].used <= Len(Uses[nest[i].mod.file])
  /\ answer \in {NoModule} \cup Modules
  /\ cache \in [Names -> {NoModule} \cup Modules]
  /\ \A k \in DOMAIN binds : k[1] \in made /\ binds[k] \in Modules
  /\ IsFiniteSet(made)
  /\ made \subseteq UpTo(Cardinality(made))

\* Only main is told that the manager is ready, and only talkers are sent data.
Mail ==
  /\ inbox[Mgr] \in {Empty, Args, Exit} \cup Asks
  /\ \A t \in Programs :
       /\ inbox[t] \in {Empty, Ready, Data} \cup Modules
       /\ inbox[t] = Data => t \in Talkers
       /\ inbox[t] = Ready => pc[t] = "ready"
  /\ \A t \in Quiet : pc[t] \notin {"wait", "ready"} => inbox[t] = Empty

\* Until main's file is compiled nobody else has begun.
Early ==
  \/ pc[Main] \in {"start", "ready", "compile"}
  \/ pc[Main] \in {"send", "wait"} /\ asked[Main][2] = NoFile

Booting ==
  /\ pc[Mgr] = "new" <=> pc[Main] = "start"
  /\ pc[Mgr] = "args" => pc[Main] = "ready" /\ inbox[Main] = Empty
  /\ pc[Main] = "start" => inbox[Main] = Empty
  /\ Early => \A t \in Clients : pc[t] = "new"

\* What the manager is at belongs to its request.
Work ==
  /\ pc[Mgr] \notin {"work", "failed"} => nest = <<>>
  /\ pc[Mgr] \in {"work", "reply"} => job \in Asks
  /\ pc[Mgr] = "work" =>
       IF nest = <<>> THEN seek \in {job.name, NoName} ELSE nest[1].mod.name = job.name
  /\ pc[Mgr] = "reply" => answer \in Modules /\ answer = cache[job.name]

Waits(m) == /\ pc[m.from] = "wait" /\ inbox[m.from] = Empty
            /\ asked[m.from] = <<m.name, m.file>>

\* Who waits has one request on its way or being worked at.
Requested ==
  /\ pc[Mgr] \in {"work", "reply"} /\ job.from \in Quiet => Waits(job)
  /\ inbox[Mgr] \in Asks /\ inbox[Mgr].from \in Quiet =>
       /\ Waits(inbox[Mgr])
       /\ pc[Mgr] \in {"work", "reply"} => job.from # inbox[Mgr].from

\* The module a task has, or will take, for a name.
Answer(t, n) == pc[t] = "wait" /\ inbox[t] # Empty /\ asked[t][1] = n

Faithful ==
  \A t \in Quiet, n \in Names :
    /\ Held(t, n) => got[t][n] = cache[n]
    /\ Answer(t, n) => inbox[t] = cache[n]
    /\ Held(t, n) \/ Answer(t, n) => \A i \in 1..Len(nest) : nest[i].mod.name # n

IInv == TasksTyped /\ ManagerTyped /\ Mail /\ Booting /\ Work /\ Requested /\ Faithful

-----------------------------------------------------------------------------
(* Kinds of messages and modules.                                          *)

LEMMA Apart ==
  /\ Mgr \notin Programs /\ Main \in Programs /\ Mgr \in Tasks /\ Programs \subseteq Tasks
  /\ Tasks = Programs \cup {Mgr} /\ Clients \subseteq Programs /\ Programs = Clients \cup {Main}
  /\ Talkers \subseteq Programs /\ Quiet \subseteq Programs
BY ModuleAssumption DEF Tasks, Programs, Quiet

LEMMA AskIs ==
  ASSUME NEW t \in Programs, NEW r \in Names \X (Files \cup {NoFile})
  PROVE  /\ Ask(t, r) \in Asks
         /\ Ask(t, r).kind = "ask" /\ Ask(t, r).from = t
         /\ Ask(t, r).name = r[1] /\ Ask(t, r).file = r[2]
BY DEF Asks, Ask

LEMMA AsksAre ==
  ASSUME NEW m \in Asks
  PROVE  /\ m.kind = "ask" /\ m.from \in Programs /\ m.name \in Names
         /\ m.file \in Files \cup {NoFile}
         /\ m \notin {Empty, Data, Ready, Args, Exit}
<1>1. PICK t \in Programs, r \in Names \X (Files \cup {NoFile}) : m = Ask(t, r)
  BY DEF Asks
<1>2. m.kind = "ask" /\ m.from = t /\ m.name = r[1] /\ m.file = r[2]
  BY <1>1, AskIs
<1>3. m \notin {Empty, Data, Ready, Args, Exit}
  BY <1>2 DEF Empty, Data, Ready, Args, Exit
<1>. QED BY <1>2, <1>3

LEMMA ModuleIs ==
  ASSUME NEW i, NEW n, NEW f
  PROVE  /\ ModuleOf(i, n, f).kind = "module" /\ ModuleOf(i, n, f).id = i
         /\ ModuleOf(i, n, f).name = n /\ ModuleOf(i, n, f).file = f
BY DEF ModuleOf

LEMMA ModulesAre ==
  ASSUME made \subseteq AllModules, NEW m \in Modules
  PROVE  /\ m \in AllModules /\ m.kind = "module"
         /\ m \notin {Empty, Data, Ready, Args, Exit, NoModule}
<1>1. m \in AllModules
  <2>1. \A n \in Builtin : BuiltinModule(n) \in AllModules
    <3>1. 0 \in Nat /\ Builtin \subseteq Names /\ NoFile \in Files \cup {NoFile}
      BY ModuleAssumption
    <3>. QED BY <3>1 DEF BuiltinModule, AllModules
  <2>. QED BY <2>1 DEF Modules
<1>2. m.kind = "module"
  BY <1>1, ModuleIs DEF AllModules
<1>3. m \notin {Empty, Data, Ready, Args, Exit, NoModule}
  BY <1>2 DEF Empty, Data, Ready, Args, Exit, NoModule
<1>. QED BY <1>1, <1>2, <1>3

LEMMA Signals ==
  /\ Empty # Data /\ Empty # Ready /\ Empty # Args /\ Empty # Exit
  /\ Data # Ready /\ Data # Args /\ Data # Exit /\ Ready # Args /\ Ready # Exit /\ Args # Exit
  /\ Exit.kind = "exit" /\ Args.kind = "args" /\ Empty.kind = "empty"
  /\ Data # NoModule
<1>1. /\ Empty.kind = "empty" /\ Data.kind = "data" /\ Ready.kind = "ready"
      /\ Args.kind = "args" /\ Exit.kind = "exit" /\ NoModule.kind = "none"
  BY DEF Empty, Data, Ready, Args, Exit, NoModule
<1>. QED BY <1>1

LEMMA MadeAre ==
  ASSUME ManagerTyped
  PROVE  made \subseteq AllModules /\ made \subseteq Modules
<1>1. IsFiniteSet(made) /\ Cardinality(made) \in Nat
  BY FS_CardinalityType DEF ManagerTyped
<1>2. 1..Cardinality(made) \subseteq Nat
  BY <1>1
<1>. QED BY <1>2 DEF ManagerTyped, AllModules, Modules, UpTo

LEMMA ModulesKept ==
  /\ made' = made => Modules' = Modules
  /\ made \subseteq made' => Modules \subseteq Modules'
BY DEF Modules

-----------------------------------------------------------------------------
(* Steps that leave the manager's work alone.                              *)

LEMMA ManagerTypedKept ==
  ASSUME ManagerTyped, UNCHANGED manager
  PROVE  ManagerTyped' /\ Modules' = Modules
BY DEF ManagerTyped, manager, Modules

LEMMA WorkKept ==
  ASSUME Work, UNCHANGED manager,
         \/ pc'[Mgr] = pc[Mgr]
         \/ pc[Mgr] \notin {"work", "failed"} /\ pc'[Mgr] \notin {"work", "reply"}
         \/ pc'[Mgr] = "failed"
  PROVE  Work'
<1>1. /\ job' = job /\ seek' = seek /\ nest' = nest /\ answer' = answer /\ cache' = cache
      /\ Modules' = Modules
  BY DEF manager, Modules
<1>2. CASE pc'[Mgr] = pc[Mgr]
  BY <1>1, <1>2 DEF Work
<1>3. CASE pc[Mgr] \notin {"work", "failed"} /\ pc'[Mgr] \notin {"work", "reply"}
  BY <1>1, <1>3 DEF Work
<1>4. CASE pc'[Mgr] = "failed"
  BY <1>1, <1>4 DEF Work
<1>. QED BY <1>2, <1>3, <1>4

(* What the inboxes and the requests of quiet tasks say, where one of them *)
(* does something of its own and none of the others is touched.            *)
LEMMA FaithKept ==
  ASSUME Faithful, UNCHANGED <<nest, cache>>,
         \A t \in Quiet : \/ /\ UNCHANGED <<inbox[t], asked[t], got[t]>>
                             /\ pc'[t] = "wait" => pc[t] = "wait"
                          \/ /\ UNCHANGED got[t]
                             /\ pc'[t] # "wait" \/ inbox'[t] = Empty
  PROVE  Faithful'
BY DEF Faithful, Held, Answer

LEMMA RequestedKept ==
  ASSUME Requested, UNCHANGED job,
         pc'[Mgr] \in {"work", "reply"} => pc[Mgr] \in {"work", "reply"},
         inbox'[Mgr] = inbox[Mgr] \/ inbox'[Mgr] \notin Asks,
         \A t \in Quiet :
           pc[t] = "wait" /\ inbox[t] = Empty =>
             pc'[t] = "wait" /\ inbox'[t] = Empty /\ asked'[t] = asked[t]
  PROVE  Requested'
BY DEF Requested, Waits

(* The same where the cache or the files being compiled change, but not    *)
(* for a name a quiet task has.                                            *)
LEMMA FaithMoves ==
  ASSUME Faithful,
         \A t \in Quiet : UNCHANGED <<pc[t], inbox[t], asked[t], got[t]>>,
         \A t \in Quiet, n \in Names :
           Held(t, n) \/ Answer(t, n) =>
             cache'[n] = cache[n] /\ \A i \in 1..Len(nest') : nest'[i].mod.name # n
  PROVE  Faithful'
<1>1. \A t \in Quiet, n \in Names :
        (Held(t, n)' <=> Held(t, n)) /\ (Answer(t, n)' <=> Answer(t, n))
  BY DEF Held, Answer
<1>. QED BY <1>1 DEF Faithful

LEMMA StopKeeps ==
  ASSUME IInv, NEW why, Stop(why)
  PROVE  IInv'
<1>1. /\ pc' = pc /\ inbox' = inbox /\ asked' = asked /\ got' = got /\ source' = source
      /\ used' = used /\ UNCHANGED manager
  BY DEF Stop
<1>2. ManagerTyped' /\ Modules' = Modules
  BY <1>1, ManagerTypedKept DEF IInv
<1>3. TasksTyped' /\ Mail' /\ Booting'
  BY <1>1, <1>2 DEF IInv, TasksTyped, Mail, Booting, Early
<1>4. Work'
  BY <1>1, WorkKept DEF IInv
<1>5. Requested' /\ Faithful'
  BY <1>1 DEF IInv, Requested, Waits, Faithful, Held, Answer, manager
<1>. QED BY <1>2, <1>3, <1>4, <1>5 DEF IInv

-----------------------------------------------------------------------------
(* The main task.                                                          *)

LEMMA StartInv == ASSUME IInv, Start PROVE IInv'
<1>. USE DEF IInv
<1>1. /\ pc' = [pc EXCEPT ![Main] = "ready", ![Mgr] = "args"]
      /\ inbox[Mgr] = Empty /\ inbox' = [inbox EXCEPT ![Mgr] = Args]
      /\ UNCHANGED <<asked, got, source, used>> /\ UNCHANGED manager
      /\ pc[Main] = "start" /\ pc[Mgr] = "new"
  BY DEF Start, Send
<1>2. ManagerTyped' /\ Modules' = Modules
  BY <1>1, ManagerTypedKept
<1>3. TasksTyped'
  BY <1>1, <1>2, Apart DEF TasksTyped, Points
<1>4. Mail'
  BY <1>1, <1>2, Apart DEF Mail, TasksTyped
<1>5. Booting'
  BY <1>1, Apart DEF Booting, Early, TasksTyped
<1>6. Work'
  BY <1>1, WorkKept, Apart DEF TasksTyped
<1>7. Requested' /\ Faithful'
  <2>1. Args \notin Asks
    BY AsksAre
  <2>2. pc'[Mgr] = "args" /\ inbox'[Mgr] = Args /\ job' = job /\ nest' = nest /\ cache' = cache
    BY <1>1, Apart DEF TasksTyped, manager
  <2>3. \A t \in Quiet : inbox'[t] = inbox[t] /\ asked'[t] = asked[t] /\ got'[t] = got[t]
                         /\ (t # Main => pc'[t] = pc[t])
    BY <1>1, Apart DEF TasksTyped
  <2>4. pc'[Main] = "ready"
    BY <1>1, Apart DEF TasksTyped
  <2>. QED BY <1>1, <2>1, <2>2, <2>3, <2>4, RequestedKept, FaithKept
<1>. QED BY <1>2, <1>3, <1>4, <1>5, <1>6, <1>7

(* A step of a program task t that changes no other task's state and no    *)
(* inbox but its own, and asks nobody.                                     *)
LEMMA OwnStep ==
  ASSUME IInv, NEW t \in Programs, NEW l \in Points, NEW m \in {inbox[t], Empty},
         pc' = [pc EXCEPT ![t] = l], inbox' = [inbox EXCEPT ![t] = m],
         UNCHANGED got, UNCHANGED manager,
         \A u \in Programs \ {t} : asked'[u] = asked[u],
         l # "wait", pc[t] # "wait", l = "ready" => pc[t] = "ready",
         pc[t] = "ready" => m = Empty
  PROVE  ManagerTyped' /\ Modules' = Modules /\ Mail' /\ Work' /\ Requested' /\ Faithful'
<1>. USE DEF IInv
<1>1. ManagerTyped' /\ Modules' = Modules
  BY ManagerTypedKept
<1>2. /\ pc'[Mgr] = pc[Mgr] /\ inbox'[Mgr] = inbox[Mgr] /\ pc'[t] = l /\ inbox'[t] = m
      /\ job' = job /\ nest' = nest /\ cache' = cache
      /\ \A u \in Programs \ {t} : pc'[u] = pc[u] /\ inbox'[u] = inbox[u]
  BY Apart DEF TasksTyped, manager
<1>3. Mail'
  <2>1. ASSUME NEW u \in Programs
        PROVE  /\ inbox'[u] \in {Empty, Ready, Data} \cup Modules
               /\ inbox'[u] = Data => u \in Talkers
               /\ inbox'[u] = Ready => pc'[u] = "ready"
    BY <1>2, Signals DEF Mail
  <2>2. ASSUME NEW u \in Quiet, pc'[u] \notin {"wait", "ready"} PROVE inbox'[u] = Empty
    BY <1>2, <2>2, Apart DEF Mail
  <2>. QED BY <1>1, <1>2, <2>1, <2>2 DEF Mail
<1>4. Work'
  BY <1>2, WorkKept
<1>5. Requested'
  BY <1>2, Apart, RequestedKept
<1>6. Faithful'
  BY <1>2, Apart, FaithKept
<1>. QED BY <1>1, <1>3, <1>4, <1>5, <1>6

LEMMA MainInv ==
  ASSUME IInv, ManagerReady \/ MainUses \/ MainMalformed \/ Return
  PROVE  IInv'
<1>. USE DEF IInv
<1>1. CASE ManagerReady
  <2>1. /\ pc' = [pc EXCEPT ![Main] = "compile"] /\ inbox' = [inbox EXCEPT ![Main] = Empty]
        /\ UNCHANGED <<asked, got, source, used>> /\ UNCHANGED manager
        /\ pc[Main] = "ready" /\ inbox[Main] # Empty
    BY <1>1 DEF ManagerReady, Goto
  <2>2. ManagerTyped' /\ Modules' = Modules /\ Mail' /\ Work' /\ Requested' /\ Faithful'
    BY <2>1, OwnStep, Apart DEF Points
  <2>3. TasksTyped'
    BY <2>1, <2>2, Apart DEF TasksTyped, Points
  <2>4. Booting'
    BY <2>1, Apart DEF Booting, Early, TasksTyped
  <2>. QED BY <2>2, <2>3, <2>4
<1>2. CASE MainUses
  <2>. DEFINE r == <<Uses[source][used + 1], NoFile>>
  <2>1. /\ pc' = [pc EXCEPT ![Main] = "send"] /\ inbox' = inbox
        /\ asked' = [asked EXCEPT ![Main] = r]
        /\ UNCHANGED <<got, source>> /\ used' = used + 1 /\ UNCHANGED manager
        /\ pc[Main] = "compile" /\ used < Len(Uses[source])
    BY <1>2 DEF MainUses, Goto
  <2>2. /\ r \in Names \X (Files \cup {NoFile}) /\ r[2] = NoFile
        /\ used + 1 \in 0..Len(Uses[source])
    <3>1. Uses[source] \in Seq(Names) /\ used \in Nat
      BY ModuleAssumption DEF TasksTyped
    <3>2. used + 1 \in 1..Len(Uses[source])
      BY <2>1, <3>1
    <3>. QED BY <3>1, <3>2, ElementOfSeq
  <2>. HIDE DEF r
  <2>3. inbox' = [inbox EXCEPT ![Main] = inbox[Main]]
    BY <2>1, Apart DEF TasksTyped
  <2>4. \A u \in Programs \ {Main} : asked'[u] = asked[u]
    BY <2>1, Apart DEF TasksTyped
  <2>5. ManagerTyped' /\ Modules' = Modules /\ Mail' /\ Work' /\ Requested' /\ Faithful'
    BY <2>1, <2>3, <2>4, OwnStep, Apart DEF Points
  <2>6. TasksTyped'
    BY <2>1, <2>2, <2>5, Apart DEF TasksTyped, Points
  <2>7. Booting'
    BY <2>1, <2>2, Apart DEF Booting, Early, TasksTyped
  <2>. QED BY <2>5, <2>6, <2>7
<1>3. CASE MainMalformed \/ Return
  BY <1>3, StopKeeps DEF MainMalformed, Return
<1>. QED BY <1>1, <1>2, <1>3

LEMMA MainCompiledInv == ASSUME IInv, MainCompiled PROVE IInv'
<1>. USE DEF IInv
<1>1. /\ pc[Main] = "compile"
      /\ UNCHANGED <<inbox, asked, got, source, used>> /\ UNCHANGED manager
  BY DEF MainCompiled
<1>2. CASE pc' = [t \in Tasks |-> IF t \in Programs THEN "run" ELSE pc[t]]
  <2>1. \A t \in Programs : pc[t] # "wait" /\ pc[t] # "ready"
    BY <1>1, Apart DEF Booting, Early
  <2>2. pc'[Mgr] = pc[Mgr] /\ \A t \in Programs : pc'[t] = "run"
    BY <1>2, Apart
  <2>3. ManagerTyped' /\ Modules' = Modules /\ job' = job /\ nest' = nest /\ cache' = cache
    BY <1>1, ManagerTypedKept DEF manager
  <2>4. TasksTyped'
    BY <1>1, <1>2, <2>2, <2>3, Apart DEF TasksTyped, Points
  <2>5. Mail'
    BY <1>1, <2>1, <2>2, <2>3, Apart DEF Mail
  <2>6. Booting'
    BY <1>1, <2>2, Apart DEF Booting, Early
  <2>7. Work'
    BY <1>1, <2>2, WorkKept
  <2>8. Requested'
    BY <1>1, <2>1, <2>2, <2>3, Apart, RequestedKept
  <2>9. Faithful'
    BY <1>1, <2>2, <2>3, Apart, FaithKept
  <2>. QED BY <2>3, <2>4, <2>5, <2>6, <2>7, <2>8, <2>9
<1>3. CASE Goto(Main, "exit")
  <2>1. pc' = [pc EXCEPT ![Main] = "exit"] /\ inbox' = [inbox EXCEPT ![Main] = inbox[Main]]
    BY <1>1, <1>3, Apart DEF Goto, TasksTyped
  <2>2. ManagerTyped' /\ Modules' = Modules /\ Mail' /\ Work' /\ Requested' /\ Faithful'
    BY <1>1, <2>1, OwnStep, Apart DEF Points
  <2>3. TasksTyped'
    BY <1>1, <2>1, <2>2, Apart DEF TasksTyped, Points
  <2>4. Booting'
    BY <1>1, <2>1, Apart DEF Booting, Early, TasksTyped
  <2>. QED BY <2>2, <2>3, <2>4
<1>. QED BY <1>2, <1>3 DEF MainCompiled

LEMMA SendExitInv == ASSUME IInv, SendExit PROVE IInv'
<1>. USE DEF IInv
<1>1. /\ pc' = [pc EXCEPT ![Main] = "join"] /\ pc[Main] = "exit"
      /\ inbox' = [inbox EXCEPT ![Mgr] = Exit]
      /\ UNCHANGED <<asked, got, source, used>> /\ UNCHANGED manager
  BY DEF SendExit, Send, Goto
<1>2. ManagerTyped' /\ Modules' = Modules /\ job' = job /\ nest' = nest /\ cache' = cache
  BY <1>1, ManagerTypedKept DEF manager
<1>3. /\ pc'[Mgr] = pc[Mgr] /\ inbox'[Mgr] = Exit /\ pc'[Main] = "join"
      /\ \A t \in Programs : inbox'[t] = inbox[t] /\ (t # Main => pc'[t] = pc[t])
  BY <1>1, Apart DEF TasksTyped
<1>4. TasksTyped'
  BY <1>1, <1>2, Apart DEF TasksTyped, Points
<1>5. Mail'
  <2>1. \A t \in Programs : inbox'[t] = Ready => pc'[t] = "ready"
    BY <1>1, <1>3 DEF Mail
  <2>2. \A t \in Quiet : pc'[t] \notin {"wait", "ready"} => inbox'[t] = Empty
    BY <1>1, <1>3, Apart DEF Mail
  <2>. QED BY <1>2, <1>3, <2>1, <2>2 DEF Mail
<1>6. Booting'
  BY <1>1, <1>3, Apart DEF Booting, Early
<1>7. Work'
  BY <1>1, <1>3, WorkKept
<1>8. Requested'
  <2>1. Exit \notin Asks
    BY AsksAre
  <2>. QED BY <1>1, <1>2, <1>3, <2>1, Apart, RequestedKept
<1>9. Faithful'
  BY <1>1, <1>2, <1>3, Apart, FaithKept
<1>. QED BY <1>2, <1>4, <1>5, <1>6, <1>7, <1>8, <1>9

-----------------------------------------------------------------------------
(* A task that runs the program.                                           *)

LEMMA ProgramInv ==
  ASSUME IInv, NEW t \in Programs, Compile(t) \/ Listen(t) \/ End(t)
  PROVE  IInv'
<1>. USE DEF IInv
<1>0. ~Early
  <2>1. pc[t] = "run"
    BY DEF Compile, Listen, End
  <2>. QED BY <2>1, Apart DEF Booting, Early
<1>1. CASE Compile(t)
  <2>1. PICK r \in Requests : asked' = [asked EXCEPT ![t] = r]
    BY <1>1 DEF Compile
  <2>2. /\ pc' = [pc EXCEPT ![t] = "send"] /\ inbox' = [inbox EXCEPT ![t] = inbox[t]]
        /\ UNCHANGED <<inbox, got, source, used>> /\ UNCHANGED manager /\ pc[t] = "run"
    BY <1>1, Apart DEF Compile, Goto, TasksTyped
  <2>3. /\ r \in Names \X (Files \cup {NoFile}) /\ r[2] # NoFile
        /\ \A u \in Programs \ {t} : asked'[u] = asked[u]
    BY <2>1, Apart, ModuleAssumption DEF TasksTyped
  <2>4. ManagerTyped' /\ Modules' = Modules /\ Mail' /\ Work' /\ Requested' /\ Faithful'
    BY <2>2, <2>3, OwnStep DEF Points
  <2>5. TasksTyped'
    BY <2>1, <2>2, <2>3, <2>4, Apart DEF TasksTyped, Points
  <2>6. Booting'
    BY <1>0, <2>1, <2>2, <2>3, Apart DEF Booting, Early, TasksTyped
  <2>. QED BY <2>4, <2>5, <2>6
<1>2. CASE Listen(t)
  <2>1. /\ inbox' = [inbox EXCEPT ![t] = Empty] /\ pc' = [pc EXCEPT ![t] = pc[t]]
        /\ UNCHANGED <<pc, asked, got, source, used>> /\ UNCHANGED manager /\ pc[t] = "run"
    BY <1>2, Apart DEF Listen, TasksTyped
  <2>2. pc[t] \in Points
    BY Apart DEF TasksTyped
  <2>3. ManagerTyped' /\ Modules' = Modules /\ Mail' /\ Work' /\ Requested' /\ Faithful'
    BY <2>1, <2>2, OwnStep
  <2>4. TasksTyped'
    BY <2>1, <2>3, Apart DEF TasksTyped
  <2>5. Booting'
    BY <1>0, <2>1, Apart DEF Booting, Early, TasksTyped
  <2>. QED BY <2>3, <2>4, <2>5
<1>3. CASE End(t)
  <2>. DEFINE l == IF t = Main THEN "exit" ELSE "end"
  <2>1. /\ pc' = [pc EXCEPT ![t] = l] /\ inbox' = [inbox EXCEPT ![t] = inbox[t]]
        /\ UNCHANGED <<inbox, asked, got, source, used>> /\ UNCHANGED manager /\ pc[t] = "run"
    BY <1>3, Apart DEF End, Goto, TasksTyped
  <2>2. l \in {"exit", "end"}
    OBVIOUS
  <2>. HIDE DEF l
  <2>3. ManagerTyped' /\ Modules' = Modules /\ Mail' /\ Work' /\ Requested' /\ Faithful'
    BY <2>1, <2>2, OwnStep DEF Points
  <2>4. TasksTyped'
    BY <2>1, <2>2, <2>3, Apart DEF TasksTyped, Points
  <2>5. Booting'
    BY <1>0, <2>1, <2>2, Apart DEF Booting, Early, TasksTyped
  <2>. QED BY <2>3, <2>4, <2>5
<1>. QED BY <1>1, <1>2, <1>3

LEMMA TalkInv == ASSUME IInv, NEW t \in Programs, Talk(t) PROVE IInv'
<1>. USE DEF IInv
<1>1. PICK u \in Talkers \ {t} : inbox[u] = Empty /\ inbox' = [inbox EXCEPT ![u] = Data]
  BY DEF Talk, Send
<1>2. UNCHANGED <<pc, asked, got, source, used>> /\ UNCHANGED manager /\ pc[t] = "run"
  BY DEF Talk
<1>3. ManagerTyped' /\ Modules' = Modules /\ job' = job /\ nest' = nest /\ cache' = cache
  BY <1>2, ManagerTypedKept DEF manager
<1>4. /\ inbox'[Mgr] = inbox[Mgr] /\ u \in Programs /\ inbox'[u] = Data
      /\ \A x \in Programs \ {u} : inbox'[x] = inbox[x]
      /\ \A x \in Quiet : inbox'[x] = inbox[x]
  BY <1>1, Apart DEF TasksTyped, Quiet
<1>5. TasksTyped'
  BY <1>1, <1>2, <1>3, Apart DEF TasksTyped
<1>6. Mail'
  BY <1>1, <1>2, <1>3, <1>4, Signals DEF Mail
<1>7. Booting'
  <2>1. ~Early
    BY <1>2, Apart DEF Booting, Early
  <2>2. ~Early'
    BY <1>2, <2>1 DEF Early
  <2>3. pc[Main] \notin {"start", "ready"}
    BY <2>1 DEF Early
  <2>. QED BY <1>2, <2>2, <2>3 DEF Booting
<1>8. Work'
  BY <1>2, WorkKept
<1>9. Requested' /\ Faithful'
  BY <1>2, <1>3, <1>4, RequestedKept, FaithKept
<1>. QED BY <1>3, <1>5, <1>6, <1>7, <1>8, <1>9

LEMMA SendRequestInv == ASSUME IInv, NEW t \in Programs, SendRequest(t) PROVE IInv'
<1>. USE DEF IInv
<1>1. CASE pc[Mgr] = "over"
  BY <1>1, StopKeeps DEF SendRequest
<1>2. CASE pc[Mgr] # "over"
  <2>. DEFINE m == Ask(t, asked[t])
  <2>1. /\ inbox[Mgr] = Empty /\ inbox' = [inbox EXCEPT ![Mgr] = m]
        /\ pc' = [pc EXCEPT ![t] = "wait"] /\ pc[t] = "send"
        /\ UNCHANGED <<asked, got, source, used>> /\ UNCHANGED manager
    BY <1>2 DEF SendRequest, Send, Goto
  <2>2. /\ asked[t] \in Names \X (Files \cup {NoFile})
        /\ m \in Asks /\ m.from = t /\ m.name = asked[t][1] /\ m.file = asked[t][2]
    <3>1. asked[t] \in Names \X (Files \cup {NoFile})
      BY <2>1 DEF TasksTyped
    <3>. QED BY <3>1, AskIs
  <2>. HIDE DEF m
  <2>3. ManagerTyped' /\ Modules' = Modules /\ job' = job /\ nest' = nest /\ cache' = cache
    BY <2>1, ManagerTypedKept DEF manager
  <2>4. /\ inbox'[Mgr] = m /\ pc'[Mgr] = pc[Mgr] /\ pc'[t] = "wait"
        /\ \A x \in Programs : inbox'[x] = inbox[x] /\ (x # t => pc'[x] = pc[x])
    BY <2>1, Apart DEF TasksTyped
  <2>5. TasksTyped'
    <3>1. pc' \in [Tasks -> Points]
      BY <2>1 DEF TasksTyped, Points
    <3>2. inbox' \in [Tasks -> {Empty, Data, Ready, Args, Exit} \cup Modules' \cup Asks]
      BY <2>1, <2>2, <2>3 DEF TasksTyped
    <3>3. \A x \in Programs :
            pc'[x] \in {"send", "wait"} => asked'[x] \in Names \X (Files \cup {NoFile})
      BY <2>1, <2>2, <2>4 DEF TasksTyped
    <3>. QED BY <2>1, <2>3, <3>1, <3>2, <3>3 DEF TasksTyped
  <2>6. Mail'
    <3>1. \A x \in Programs : inbox'[x] = Ready => pc'[x] = "ready"
      BY <2>1, <2>4 DEF Mail
    <3>2. \A x \in Quiet : pc'[x] \notin {"wait", "ready"} => inbox'[x] = Empty
      BY <2>1, <2>4, Apart DEF Mail
    <3>. QED BY <2>2, <2>3, <2>4, <3>1, <3>2 DEF Mail
  <2>7. Booting'
    BY <2>1, <2>4, Apart DEF Booting, Early
  <2>8. Work'
    BY <2>1, <2>4, WorkKept
  <2>9. Requested'
    <3>1. ASSUME pc[Mgr] \in {"work", "reply"}, job.from \in Quiet
          PROVE  Waits(job)' /\ job.from # t
      <4>1. Waits(job) /\ job.from # t /\ job.from \in Programs
        BY <2>1, <3>1, Apart DEF Requested, Waits
      <4>. QED BY <2>1, <2>3, <2>4, <4>1 DEF Waits
    <3>2. ASSUME t \in Quiet
          PROVE  pc'[t] = "wait" /\ inbox'[t] = Empty /\ asked'[t] = <<m.name, m.file>>
      <4>1. inbox[t] = Empty
        BY <2>1, <3>2 DEF Mail
      <4>. QED BY <2>1, <2>2, <2>4, <4>1
    <3>. QED BY <2>2, <2>3, <2>4, <3>1, <3>2 DEF Requested, Waits
  <2>10. Faithful'
    <3>1. t \in Quiet => inbox[t] = Empty
      BY <2>1 DEF Mail
    <3>2. \A x \in Quiet : \/ /\ UNCHANGED <<inbox[x], asked[x], got[x]>>
                              /\ pc'[x] = "wait" => pc[x] = "wait"
                           \/ /\ UNCHANGED got[x]
                              /\ pc'[x] # "wait" \/ inbox'[x] = Empty
      BY <2>1, <2>4, <3>1, Apart DEF TasksTyped
    <3>3. Faithful /\ UNCHANGED <<nest, cache>>
      BY <2>3
    <3>. QED BY <3>2, <3>3 DEF Faithful, Held, Answer
  <2>. QED BY <2>3, <2>5, <2>6, <2>7, <2>8, <2>9, <2>10
<1>. QED BY <1>1, <1>2

(* The next message is taken: for a quiet task it is the manager's answer. *)
LEMMA TakeAnswerInv == ASSUME IInv, NEW t \in Programs, TakeAnswer(t) PROVE IInv'
<1>. USE DEF IInv
<1>. DEFINE n == asked[t][1]
            l == IF asked[t][2] = NoFile THEN "compile" ELSE "run"
<1>1. /\ pc[t] = "wait" /\ inbox[t] # Empty
      /\ got' = [got EXCEPT ![t][n] = inbox[t]]
      /\ inbox' = [inbox EXCEPT ![t] = Empty] /\ asked' = [asked EXCEPT ![t] = Nothing]
      /\ pc' = [pc EXCEPT ![t] = l]
      /\ UNCHANGED <<source, used>> /\ UNCHANGED manager
  BY DEF TakeAnswer, Goto
<1>2. n \in Names /\ asked[t] \in Names \X (Files \cup {NoFile})
  BY <1>1 DEF TasksTyped
<1>3. inbox[t] \in Modules \cup {Data} /\ (t \in Quiet => inbox[t] \in Modules)
  BY <1>1 DEF Mail, Quiet
<1>4. l \in {"compile", "run"} /\ (l = "compile" <=> asked[t][2] = NoFile)
  OBVIOUS
<1>. HIDE DEF n, l
<1>5. ManagerTyped' /\ Modules' = Modules /\ job' = job /\ nest' = nest /\ cache' = cache
  BY <1>1, ManagerTypedKept DEF manager
<1>6. /\ inbox'[Mgr] = inbox[Mgr] /\ pc'[Mgr] = pc[Mgr] /\ pc'[t] = l /\ inbox'[t] = Empty
      /\ \A x \in Programs \ {t} : /\ inbox'[x] = inbox[x] /\ pc'[x] = pc[x]
                                   /\ asked'[x] = asked[x] /\ got'[x] = got[x]
  BY <1>1, Apart DEF TasksTyped
<1>7. \A k \in Names : got'[t][k] = IF k = n THEN inbox[t] ELSE got[t][k]
  BY <1>1, <1>2, Apart DEF TasksTyped
<1>8. TasksTyped'
  <2>1. pc' \in [Tasks -> Points]
    BY <1>1, <1>4 DEF TasksTyped, Points
  <2>2. inbox' \in [Tasks -> {Empty, Data, Ready, Args, Exit} \cup Modules' \cup Asks]
    BY <1>1, <1>5 DEF TasksTyped
  <2>3. asked' \in [Tasks -> (Names \X (Files \cup {NoFile})) \cup {Nothing}]
    BY <1>1 DEF TasksTyped
  <2>4. \A x \in Programs :
          pc'[x] \in {"send", "wait"} => asked'[x] \in Names \X (Files \cup {NoFile})
    BY <1>4, <1>6 DEF TasksTyped
  <2>5. got' \in [Tasks -> [Names -> {NoModule, Data} \cup Modules']]
    BY <1>1, <1>2, <1>3, <1>5 DEF TasksTyped
  <2>6. \A x \in Tasks \ Talkers, k \in Names : got'[x][k] \in {NoModule} \cup Modules'
    <3>1. ASSUME NEW x \in Tasks \ Talkers, NEW k \in Names
          PROVE  got'[x][k] \in {NoModule} \cup Modules
      <4>1. CASE x = t
        BY <1>3, <1>7, <4>1 DEF TasksTyped, Quiet
      <4>2. CASE x # t
        BY <1>1, <4>2 DEF TasksTyped
      <4>. QED BY <4>1, <4>2
    <3>. QED BY <1>5, <3>1
  <2>. QED BY <1>1, <2>1, <2>2, <2>3, <2>4, <2>5, <2>6 DEF TasksTyped
<1>9. Mail'
  <2>1. \A x \in Programs : inbox'[x] \in {Empty, Ready, Data} \cup Modules
    BY <1>6 DEF Mail
  <2>2. \A x \in Programs : inbox'[x] = Data => x \in Talkers
    BY <1>6, Signals DEF Mail
  <2>3. \A x \in Programs : inbox'[x] = Ready => pc'[x] = "ready"
    BY <1>6, Signals DEF Mail
  <2>4. \A x \in Quiet : pc'[x] \notin {"wait", "ready"} => inbox'[x] = Empty
    BY <1>6, Apart DEF Mail
  <2>. QED BY <1>5, <1>6, <2>1, <2>2, <2>3, <2>4 DEF Mail
<1>10. Booting'
  <2>1. CASE t = Main
    BY <1>1, <1>4, <1>6, <2>1, Apart DEF Booting, Early
  <2>2. CASE t # Main
    <3>1. ~Early
      BY <1>1, <2>2, Apart DEF Booting
    <3>2. ~Early'
      BY <1>6, <2>2, <3>1, Apart DEF Early
    <3>. QED BY <1>6, <2>2, <3>2, Apart DEF Booting
  <2>. QED BY <2>1, <2>2
<1>11. Work'
  BY <1>1, <1>6, WorkKept
<1>12. Requested'
  BY <1>1, <1>5, <1>6, Apart, RequestedKept
<1>13. Faithful'
  <2>1. ASSUME NEW x \in Quiet, NEW k \in Names
        PROVE  /\ Held(x, k)' => got'[x][k] = cache[k]
               /\ ~Answer(x, k)' \/ inbox'[x] = cache[k]
               /\ Held(x, k)' \/ Answer(x, k)' => \A i \in 1..Len(nest) : nest[i].mod.name # k
    <3>1. CASE x = t
      <4>1. Answer(t, n)
        BY <1>1 DEF Answer, n
      <4>2. ~Answer(x, k)'
        BY <1>6, <3>1 DEF Answer
      <4>3. CASE k = n
        BY <1>2, <1>7, <3>1, <4>1, <4>2, <4>3 DEF Faithful
      <4>4. CASE k # n
        BY <1>7, <3>1, <4>2, <4>4 DEF Faithful, Held
      <4>. QED BY <4>3, <4>4
    <3>2. CASE x # t
      <4>1. (Held(x, k)' <=> Held(x, k)) /\ (Answer(x, k)' <=> Answer(x, k))
        BY <1>6, <3>2, Apart DEF Held, Answer
      <4>. QED BY <1>6, <3>2, <4>1, Apart DEF Faithful
    <3>. QED BY <3>1, <3>2
  <2>. QED BY <1>5, <2>1 DEF Faithful
<1>. QED BY <1>5, <1>8, <1>9, <1>10, <1>11, <1>12, <1>13

-----------------------------------------------------------------------------
(* The manager.                                                            *)

(* A step of the manager in its own loop that writes to no other inbox.    *)
LEMMA ManagerOwn ==
  ASSUME IInv, NEW l \in Points, NEW m \in {inbox[Mgr], Empty},
         pc' = [pc EXCEPT ![Mgr] = l], inbox' = [inbox EXCEPT ![Mgr] = m],
         UNCHANGED <<asked, got, source, used>>, made \subseteq made',
         pc[Mgr] # "new", l \notin {"new", "args"}
  PROVE  /\ TasksTyped' /\ Mail' /\ Booting'
         /\ pc'[Mgr] = l /\ inbox'[Mgr] = m
         /\ \A t \in Programs : pc'[t] = pc[t] /\ inbox'[t] = inbox[t]
<1>. USE DEF IInv
<1>1. pc'[Mgr] = l /\ inbox'[Mgr] = m /\ \A t \in Programs : pc'[t] = pc[t] /\ inbox'[t] = inbox[t]
  BY Apart DEF TasksTyped
<1>2. Modules \subseteq Modules'
  BY ModulesKept
<1>3. TasksTyped'
  <2>1. pc' \in [Tasks -> Points]
    BY DEF TasksTyped
  <2>2. inbox' \in [Tasks -> {Empty, Data, Ready, Args, Exit} \cup Modules' \cup Asks]
    <3>1. inbox \in [Tasks -> {Empty, Data, Ready, Args, Exit} \cup Modules' \cup Asks]
      BY <1>2 DEF TasksTyped
    <3>2. m \in {Empty, Data, Ready, Args, Exit} \cup Modules' \cup Asks
      BY <3>1, Apart
    <3>. QED BY <3>1, <3>2
  <2>3. got' \in [Tasks -> [Names -> {NoModule, Data} \cup Modules']]
    BY <1>2 DEF TasksTyped
  <2>4. \A t \in Tasks \ Talkers, n \in Names : got'[t][n] \in {NoModule} \cup Modules'
    BY <1>2 DEF TasksTyped
  <2>5. \A t \in Programs : pc'[t] \in {"send", "wait"} => asked'[t] \in Names \X (Files \cup {NoFile})
    BY <1>1 DEF TasksTyped
  <2>. QED BY <2>1, <2>2, <2>3, <2>4, <2>5 DEF TasksTyped
<1>4. Mail'
  <2>1. \A t \in Programs : inbox'[t] \in {Empty, Ready, Data} \cup Modules'
    BY <1>1, <1>2 DEF Mail
  <2>2. \A t \in Programs : /\ inbox'[t] = Data => t \in Talkers
                            /\ inbox'[t] = Ready => pc'[t] = "ready"
    BY <1>1 DEF Mail
  <2>3. \A t \in Quiet : pc'[t] \notin {"wait", "ready"} => inbox'[t] = Empty
    BY <1>1, Apart DEF Mail
  <2>. QED BY <1>1, <2>1, <2>2, <2>3 DEF Mail
<1>5. Booting'
  BY <1>1, Apart DEF Booting, Early
<1>. QED BY <1>1, <1>3, <1>4, <1>5

LEMMA PrepareInv == ASSUME IInv, Prepare PROVE IInv'
<1>. USE DEF IInv
<1>1. /\ pc' = [pc EXCEPT ![Mgr] = "serve"] /\ pc[Mgr] = "args"
      /\ inbox' = [inbox EXCEPT ![Mgr] = Empty, ![Main] = Ready]
      /\ UNCHANGED <<asked, got, source, used>> /\ UNCHANGED manager
  BY DEF Prepare, Goto
<1>2. ManagerTyped' /\ Modules' = Modules /\ job' = job /\ nest' = nest /\ cache' = cache
  BY <1>1, ManagerTypedKept DEF manager
<1>3. /\ pc'[Mgr] = "serve" /\ inbox'[Mgr] = Empty /\ inbox'[Main] = Ready
      /\ \A t \in Programs : pc'[t] = pc[t] /\ (t # Main => inbox'[t] = inbox[t])
  BY <1>1, Apart DEF TasksTyped
<1>4. pc[Main] = "ready"
  BY <1>1 DEF Booting
<1>5. TasksTyped'
  BY <1>1, <1>2, Apart DEF TasksTyped, Points
<1>6. Mail'
  <2>1. \A t \in Programs : inbox'[t] \in {Empty, Ready, Data} \cup Modules
    BY <1>3 DEF Mail
  <2>2. \A t \in Programs : inbox'[t] = Data => t \in Talkers
    BY <1>3, Signals DEF Mail
  <2>3. \A t \in Programs : inbox'[t] = Ready => pc'[t] = "ready"
    BY <1>3, <1>4 DEF Mail
  <2>4. \A t \in Quiet : pc'[t] \notin {"wait", "ready"} => inbox'[t] = Empty
    BY <1>3, <1>4, Apart DEF Mail
  <2>. QED BY <1>2, <1>3, <2>1, <2>2, <2>3, <2>4 DEF Mail
<1>7. Booting'
  BY <1>1, <1>3, <1>4, Apart DEF Booting, Early
<1>8. Work'
  BY <1>1, <1>3, WorkKept
<1>9. Requested'
  <2>1. Empty \notin Asks
    BY AsksAre
  <2>. QED BY <1>1, <1>2, <1>3, <1>4, <2>1, Apart, RequestedKept
<1>10. Faithful'
  <2>1. \A t \in Quiet : \/ /\ UNCHANGED <<inbox[t], asked[t], got[t]>>
                            /\ pc'[t] = "wait" => pc[t] = "wait"
                         \/ /\ UNCHANGED got[t]
                            /\ pc'[t] # "wait" \/ inbox'[t] = Empty
    BY <1>1, <1>3, <1>4, Apart
  <2>2. Faithful /\ UNCHANGED <<nest, cache>>
    BY <1>2
  <2>. HIDE DEF IInv
  <2>. QED BY <2>1, <2>2, FaithKept
<1>. QED BY <1>2, <1>5, <1>6, <1>7, <1>8, <1>9, <1>10

(* A file is opened: its module is new, and the innermost one.             *)
LEMMA Opens ==
  ASSUME ManagerTyped, NEW n \in Names, NEW f \in Files, Len(nest) < Depth,
         Open(n, f), made' = made \cup {nest'[Len(nest) + 1].mod}
  PROVE  /\ nest' \in Seq(Frames) /\ Len(nest') = Len(nest) + 1 /\ Len(nest') <= Depth
         /\ nest'[Len(nest) + 1].mod.name = n
         /\ \A i \in 1..Len(nest) : nest'[i] = nest[i]
         /\ \A i \in 1..Len(nest') : /\ nest'[i].mod \in made' /\ nest'[i].mod.file \in Files
                                     /\ nest'[i].used <= Len(Uses[nest'[i].mod.file])
         /\ IsFiniteSet(made') /\ made \subseteq made'
         /\ made' \subseteq UpTo(Cardinality(made'))
<1>. DEFINE c == Cardinality(made)
            m == ModuleOf(c + 1, n, f)
            e == [mod |-> m, used |-> 0]
<1>1. IsFiniteSet(made) /\ c \in Nat
  BY FS_CardinalityType DEF ManagerTyped
<1>2. m.id = c + 1 /\ m.name = n /\ m.file = f
  BY ModuleIs
<1>3. e.mod = m /\ e.used = 0
  OBVIOUS
<1>4. m \in AllModules
  <2>1. c + 1 \in Nat /\ f \in Files \cup {NoFile}
    BY <1>1
  <2>. QED BY <2>1 DEF AllModules
<1>5. e \in Frames
  BY <1>4 DEF Frames
<1>6. nest' = Append(nest, e)
  BY DEF Open
<1>7. m \notin made
  <2>1. ASSUME NEW x \in made PROVE x.id \in 1..c
    <3>1. PICK i \in 1..c, y \in Names, g \in Files : x = ModuleOf(i, y, g)
      BY DEF ManagerTyped, UpTo
    <3>. QED BY <3>1, ModuleIs
  <2>. QED BY <1>1, <1>2, <2>1
<1>. HIDE DEF m, e
<1>8. /\ nest' \in Seq(Frames) /\ Len(nest') = Len(nest) + 1
      /\ nest'[Len(nest) + 1] = e /\ \A i \in 1..Len(nest) : nest'[i] = nest[i]
  BY <1>5, <1>6, AppendProperties DEF ManagerTyped
<1>9. made' = made \cup {m}
  BY <1>3, <1>8
<1>10. IsFiniteSet(made') /\ Cardinality(made') = c + 1
  <2>1. IsFiniteSet(made \cup {m}) /\ Cardinality(made \cup {m}) = c + 1
    BY <1>1, <1>7, FS_AddElement
  <2>. QED BY <1>9, <2>1
<1>11. \A i \in 1..Len(nest') : /\ nest'[i].mod \in made' /\ nest'[i].mod.file \in Files
                                /\ nest'[i].used <= Len(Uses[nest'[i].mod.file])
  <2>1. Len(nest) \in Nat /\ Uses[f] \in Seq(Names)
    BY ModuleAssumption DEF ManagerTyped
  <2>2. ASSUME NEW i \in 1..Len(nest)
        PROVE  /\ nest'[i].mod \in made' /\ nest'[i].mod.file \in Files
               /\ nest'[i].used <= Len(Uses[nest'[i].mod.file])
    BY <1>8, <1>9 DEF ManagerTyped
  <2>3. LET i == Len(nest) + 1 IN
          /\ nest'[i].mod \in made' /\ nest'[i].mod.file \in Files
          /\ nest'[i].used <= Len(Uses[nest'[i].mod.file])
    BY <1>2, <1>3, <1>8, <1>9, <2>1
  <2>. QED BY <1>8, <2>1, <2>2, <2>3
<1>12. made' \subseteq UpTo(Cardinality(made'))
  <2>1. 1..c \subseteq 1..(c + 1) /\ c + 1 \in 1..(c + 1)
    BY <1>1
  <2>2. made \subseteq UpTo(c + 1)
    BY <2>1 DEF ManagerTyped, UpTo
  <2>3. m \in UpTo(c + 1)
    BY <2>1 DEF m, UpTo
  <2>. QED BY <1>9, <1>10, <2>2, <2>3
<1>13. Len(nest') <= Depth
  BY <1>8, ModuleAssumption DEF ManagerTyped
<1>. QED BY <1>2, <1>3, <1>8, <1>9, <1>10, <1>11, <1>12, <1>13

(* What is not cached no quiet task has.                                   *)
LEMMA NotCachedNotHeld ==
  ASSUME IInv, NEW n \in Names, ~Cached(n), NEW t \in Quiet
  PROVE  ~Held(t, n) /\ ~Answer(t, n)
<1>. USE DEF IInv
<1>1. cache[n] = NoModule
  BY DEF Cached
<1>2. ~Held(t, n)
  BY <1>1 DEF Faithful, Held
<1>3. ~Answer(t, n)
  <2>1. SUFFICES ASSUME Answer(t, n) PROVE FALSE
    OBVIOUS
  <2>2. inbox[t] = NoModule
    BY <1>1, <2>1 DEF Faithful
  <2>3. inbox[t] \in {Empty, Ready, Data} \cup Modules
    BY Apart DEF Mail
  <2>4. NoModule \notin Modules
    BY MadeAre, ModulesAre
  <2>5. NoModule.kind = "none" /\ Empty.kind = "empty" /\ Ready.kind = "ready" /\ Data.kind = "data"
    BY DEF NoModule, Empty, Ready, Data
  <2>. QED BY <2>2, <2>3, <2>4, <2>5
<1>. QED BY <1>2, <1>3

(* The manager compiles one more file.                                     *)
LEMMA OpensTyped ==
  ASSUME ManagerTyped, NEW n \in Names, NEW f \in Files, Len(nest) < Depth,
         Open(n, f), made' = made \cup {nest'[Len(nest) + 1].mod},
         job' \in Asks \cup {Empty}, seek' \in Names \cup {NoName},
         UNCHANGED <<answer, cache, binds>>
  PROVE  ManagerTyped'
<1>1. /\ nest' \in Seq(Frames) /\ Len(nest') <= Depth
      /\ \A i \in 1..Len(nest') : /\ nest'[i].mod \in made' /\ nest'[i].mod.file \in Files
                                  /\ nest'[i].used <= Len(Uses[nest'[i].mod.file])
      /\ IsFiniteSet(made') /\ made \subseteq made'
      /\ made' \subseteq UpTo(Cardinality(made'))
  BY Opens
<1>2. Modules \subseteq Modules'
  BY <1>1, ModulesKept
<1>3. answer' \in {NoModule} \cup Modules' /\ cache' \in [Names -> {NoModule} \cup Modules']
  BY <1>2 DEF ManagerTyped
<1>4. \A k \in DOMAIN binds' : k[1] \in made' /\ binds'[k] \in Modules'
  BY <1>1, <1>2 DEF ManagerTyped
<1>. QED BY <1>1, <1>3, <1>4 DEF ManagerTyped

LEMMA ServeInv == ASSUME IInv, Serve PROVE IInv'
<1>. USE DEF IInv
<1>. DEFINE m == inbox[Mgr]
<1>1. pc[Mgr] = "serve" /\ nest = <<>> /\ UNCHANGED <<asked, got, source, used>> /\ Empty \notin Asks
  BY AsksAre DEF Serve, Work, Stop
<1>2. CASE m.kind = "exit" /\ inbox' = [inbox EXCEPT ![Mgr] = Empty] /\ Goto(Mgr, "free") /\ UNCHANGED manager
  <2>1. ManagerTyped' /\ job' = job /\ nest' = nest /\ cache' = cache /\ made' = made
    BY <1>2, ManagerTypedKept DEF manager
  <2>2. pc' = [pc EXCEPT ![Mgr] = "free"]
    BY <1>2 DEF Goto
  <2>3. /\ TasksTyped' /\ Mail' /\ Booting' /\ pc'[Mgr] = "free" /\ inbox'[Mgr] = Empty
        /\ \A t \in Programs : pc'[t] = pc[t] /\ inbox'[t] = inbox[t]
    BY <1>1, <1>2, <2>1, <2>2, ManagerOwn DEF Points
  <2>4. Work'
    BY <1>1, <1>2, <2>3, WorkKept
  <2>5. Requested'
    BY <1>1, <2>1, <2>3, Apart, RequestedKept
  <2>6. Faithful'
    BY <1>1, <2>1, <2>3, Apart, FaithMoves DEF Faithful
  <2>. QED BY <2>1, <2>3, <2>4, <2>5, <2>6
<1>3. CASE Stop("bound twice")
  BY <1>3, StopKeeps
<1>4. CASE /\ m.kind = "ask" /\ (m.file # NoFile => ~AlreadyBound(m.name))
           /\ job' = m /\ inbox' = [inbox EXCEPT ![Mgr] = Empty] /\ Goto(Mgr, "work")
           /\ IF m.file = NoFile
              THEN seek' = m.name /\ UNCHANGED <<nest, made>>
              ELSE Open(m.name, m.file) /\ made' = made \cup {nest'[1].mod} /\ UNCHANGED seek
           /\ UNCHANGED <<answer, cache, binds>>
  <2>1. m \in Asks
    <3>1. m \in {Empty, Args, Exit} \cup Asks
      BY DEF Mail
    <3>. QED BY <1>4, <3>1, Signals
  <2>2. m.from \in Programs /\ m.name \in Names /\ m.file \in Files \cup {NoFile}
    BY <2>1, AsksAre
  <2>3. pc' = [pc EXCEPT ![Mgr] = "work"] /\ UNCHANGED <<answer, cache, binds>>
    BY <1>4 DEF Goto
  <2>4. CASE m.file = NoFile
    <3>1. seek' = m.name /\ UNCHANGED <<nest, made>>
      BY <1>4, <2>4
    <3>2. made \subseteq made' /\ Modules' = Modules
      BY <3>1, ModulesKept
    <3>3. ManagerTyped'
      BY <1>4, <2>1, <2>2, <2>3, <3>1, <3>2 DEF ManagerTyped
    <3>4. /\ TasksTyped' /\ Mail' /\ Booting' /\ pc'[Mgr] = "work" /\ inbox'[Mgr] = Empty
          /\ \A t \in Programs : pc'[t] = pc[t] /\ inbox'[t] = inbox[t]
      BY <1>1, <1>4, <2>3, <3>2, ManagerOwn DEF Points
    <3>5. Work'
      BY <1>1, <1>4, <2>1, <3>1, <3>4 DEF Work
    <3>6. Requested'
      BY <1>1, <1>4, <2>1, <2>2, <3>4 DEF Requested, Waits
    <3>7. Faithful'
      BY <1>1, <2>3, <3>1, <3>4, Apart, FaithMoves DEF Faithful
    <3>. QED BY <3>3, <3>4, <3>5, <3>6, <3>7
  <2>5. CASE m.file # NoFile
    <3>1. /\ m.file \in Files /\ ~Cached(m.name) /\ Len(nest) = 0 /\ Len(nest) < Depth
          /\ Open(m.name, m.file) /\ made' = made \cup {nest'[Len(nest) + 1].mod}
          /\ UNCHANGED seek
      <4>1. IsFiniteSet(InPath) /\ Depth \in Nat /\ Depth > Cardinality(InPath) + 1
        BY ModuleAssumption
      <4>2. Cardinality(InPath) \in Nat
        BY <4>1, FS_CardinalityType
      <4>3. Len(nest) = 0
        BY <1>1
      <4>. QED BY <1>4, <2>2, <2>5, <4>1, <4>2, <4>3 DEF AlreadyBound
    <3>2. /\ nest' \in Seq(Frames) /\ Len(nest') = 1 /\ nest'[1].mod.name = m.name
          /\ made \subseteq made'
      BY <2>2, <3>1, Opens
    <3>3. ManagerTyped'
      BY <1>4, <2>1, <2>2, <2>3, <3>1, OpensTyped DEF ManagerTyped
    <3>4. /\ TasksTyped' /\ Mail' /\ Booting' /\ pc'[Mgr] = "work" /\ inbox'[Mgr] = Empty
          /\ \A t \in Programs : pc'[t] = pc[t] /\ inbox'[t] = inbox[t]
      BY <1>1, <1>4, <2>3, <3>2, ManagerOwn DEF Points
    <3>5. Work'
      <4>1. nest' # <<>>
        BY <3>2
      <4>. QED BY <1>4, <2>1, <3>2, <3>4, <4>1 DEF Work
    <3>6. Requested'
      BY <1>1, <1>4, <2>1, <2>2, <3>4 DEF Requested, Waits
    <3>7. Faithful'
      <4>1. \A t \in Quiet : ~Held(t, m.name) /\ ~Answer(t, m.name)
        BY <2>2, <3>1, NotCachedNotHeld
      <4>2. \A t \in Quiet, n \in Names :
              Held(t, n) \/ Answer(t, n) =>
                cache'[n] = cache[n] /\ \A i \in 1..Len(nest') : nest'[i].mod.name # n
        BY <2>3, <3>2, <4>1
      <4>. QED BY <1>1, <3>4, <4>2, Apart, FaithMoves
    <3>. QED BY <3>3, <3>4, <3>5, <3>6, <3>7
  <2>. QED BY <2>4, <2>5
<1>. QED BY <1>2, <1>3, <1>4 DEF Serve

(* A module is put into the locals of the innermost file.                  *)
LEMMA BindTyped ==
  ASSUME \A k \in DOMAIN binds : k[1] \in made /\ binds[k] \in Modules,
         NEW m \in made, NEW n \in Names, NEW x \in Modules
  PROVE  \A k \in DOMAIN Bind(binds, m, n, x) :
           k[1] \in made /\ Bind(binds, m, n, x)[k] \in Modules
BY DEF Bind

(* A module is given to the innermost file, or to who asked.               *)
LEMMA Gives ==
  ASSUME IInv, pc[Mgr] = "work", seek # NoName, NEW x \in Modules,
         seek' = NoName,
         IF nest = <<>>
         THEN answer' = x /\ Goto(Mgr, "reply") /\ UNCHANGED binds
         ELSE /\ binds' = Bind(binds, Innermost.mod, seek, x)
              /\ UNCHANGED <<pc, answer>>,
         UNCHANGED <<inbox, asked, got, source, used, job, nest, made>>,
         cache' = [cache EXCEPT ![seek] = x], cache[seek] \in {NoModule, x}
  PROVE  IInv'
<1>. USE DEF IInv
<1>. DEFINE l == IF nest = <<>> THEN "reply" ELSE "work"
<1>1. l \in {"work", "reply"} /\ pc' = [pc EXCEPT ![Mgr] = l]
  BY Apart DEF Goto, TasksTyped
<1>2. made \subseteq made' /\ Modules' = Modules /\ inbox' = [inbox EXCEPT ![Mgr] = inbox[Mgr]]
  BY ModulesKept, Apart DEF TasksTyped
<1>3. /\ TasksTyped' /\ Mail' /\ Booting' /\ pc'[Mgr] = l /\ inbox'[Mgr] = inbox[Mgr]
      /\ \A t \in Programs : pc'[t] = pc[t] /\ inbox'[t] = inbox[t]
  <2>1. l \in Points /\ l \notin {"new", "args"} /\ pc[Mgr] # "new"
    BY <1>1 DEF Points
  <2>. QED BY <1>1, <1>2, <2>1, ManagerOwn
<1>4. seek \in Names /\ cache'[seek] = x /\ \A k \in Names \ {seek} : cache'[k] = cache[k]
  BY DEF ManagerTyped
<1>5. ManagerTyped'
  <2>1. answer' \in {NoModule} \cup Modules' /\ cache' \in [Names -> {NoModule} \cup Modules']
    BY <1>2, <1>4 DEF ManagerTyped
  <2>2. \A k \in DOMAIN binds' : k[1] \in made' /\ binds'[k] \in Modules'
    <3>1. CASE nest = <<>>
      BY <1>2, <3>1 DEF ManagerTyped
    <3>2. CASE nest # <<>>
      <4>1. Innermost.mod \in made
        BY <3>2, EmptySeq DEF ManagerTyped, Innermost
      <4>. QED BY <1>2, <1>4, <3>2, <4>1, BindTyped DEF ManagerTyped
    <3>. QED BY <3>1, <3>2
  <2>. QED BY <1>2, <2>1, <2>2 DEF ManagerTyped
<1>6. Work'
  <2>1. job' \in Asks
    BY DEF Work
  <2>2. CASE nest = <<>>
    <3>1. seek = job.name /\ answer' = x /\ pc'[Mgr] = "reply" /\ nest' = <<>>
      BY <1>3, <2>2 DEF Work
    <3>. QED BY <1>2, <1>4, <2>1, <3>1 DEF Work
  <2>3. CASE nest # <<>>
    BY <1>3, <2>1, <2>3 DEF Work
  <2>. QED BY <2>2, <2>3
<1>7. Requested'
  BY <1>3, Apart, RequestedKept
<1>8. Faithful'
  <2>1. ASSUME NEW t \in Quiet, NEW k \in Names, Held(t, k) \/ Answer(t, k)
        PROVE  cache'[k] = cache[k] /\ \A i \in 1..Len(nest') : nest'[i].mod.name # k
    <3>1. \A i \in 1..Len(nest') : nest'[i].mod.name # k
      BY <2>1 DEF Faithful
    <3>2. CASE k # seek
      BY <1>4, <3>1, <3>2
    <3>3. CASE k = seek
      <4>1. Cached(seek)
        BY <2>1, <3>3, NotCachedNotHeld
      <4>. QED BY <1>4, <3>1, <3>3, <4>1 DEF Cached
    <3>. QED BY <3>2, <3>3
  <2>2. \A t \in Quiet : UNCHANGED <<pc[t], inbox[t], asked[t], got[t]>>
    BY <1>3, Apart
  <2>. QED BY <2>1, <2>2, FaithMoves
<1>. QED BY <1>3, <1>5, <1>6, <1>7, <1>8

LEMMA LoadInv == ASSUME IInv, Load PROVE IInv'
<1>. USE DEF IInv
<1>1. pc[Mgr] = "work" /\ seek # NoName /\ seek \in Names
  BY DEF Load, ManagerTyped
<1>2. CASE Cached(seek)
  <2>. DEFINE x == cache[seek]
  <2>1. x \in Modules
    BY <1>1, <1>2 DEF Cached, ManagerTyped
  <2>2. cache' = [cache EXCEPT ![seek] = x]
    BY <1>2 DEF Load, ManagerTyped
  <2>3. /\ seek' = NoName
        /\ IF nest = <<>>
           THEN answer' = x /\ Goto(Mgr, "reply") /\ UNCHANGED binds
           ELSE /\ binds' = Bind(binds, Innermost.mod, seek, x)
                /\ UNCHANGED <<pc, answer>>
        /\ UNCHANGED <<inbox, asked, got, source, used, job, nest, made>>
    BY <1>2 DEF Load
  <2>. HIDE DEF x
  <2>4. cache[seek] \in {NoModule, x}
    BY DEF x
  <2>. QED BY <1>1, <2>1, <2>2, <2>3, <2>4, Gives
<1>3. CASE ~Cached(seek) /\ seek \in InPath
  <2>1. CASE Stop("stack overflow")
    BY <2>1, StopKeeps
  <2>2. CASE /\ Len(nest) # Depth /\ Open(seek, seek)
             /\ made' = made \cup {nest'[Len(nest) + 1].mod} /\ seek' = NoName
             /\ UNCHANGED <<pc, inbox, asked, got, source, used, job, answer, cache, binds>>
    <3>1. seek \in Files
      BY <1>3, ModuleAssumption
    <3>2. Len(nest) < Depth
      BY <2>2, ModuleAssumption DEF ManagerTyped
    <3>3. ManagerTyped'
      BY <1>1, <2>2, <3>1, <3>2, OpensTyped DEF ManagerTyped
    <3>4. /\ Len(nest') = Len(nest) + 1 /\ nest'[Len(nest) + 1].mod.name = seek
          /\ \A i \in 1..Len(nest) : nest'[i] = nest[i]
          /\ made \subseteq made' /\ Len(nest) \in Nat
      BY <1>1, <2>2, <3>1, <3>2, Opens DEF ManagerTyped
    <3>5. /\ pc' = [pc EXCEPT ![Mgr] = "work"] /\ inbox' = [inbox EXCEPT ![Mgr] = inbox[Mgr]]
      BY <1>1, <2>2, Apart DEF TasksTyped
    <3>6. /\ TasksTyped' /\ Mail' /\ Booting' /\ pc'[Mgr] = "work" /\ inbox'[Mgr] = inbox[Mgr]
          /\ \A t \in Programs : pc'[t] = pc[t] /\ inbox'[t] = inbox[t]
      BY <1>1, <2>2, <3>4, <3>5, ManagerOwn DEF Points
    <3>7. Work'
      <4>1. nest' # <<>>
        BY <3>4
      <4>2. nest'[1].mod.name = job.name
        <5>1. CASE nest = <<>>
          BY <1>1, <3>4, <5>1 DEF Work
        <5>2. CASE nest # <<>>
          <6>1. 1 \in 1..Len(nest)
            BY <3>4, <5>2, EmptySeq DEF ManagerTyped
          <6>. QED BY <1>1, <3>4, <5>2, <6>1 DEF Work
        <5>. QED BY <5>1, <5>2
      <4>. QED BY <1>1, <2>2, <3>6, <4>1, <4>2 DEF Work
    <3>8. Requested'
      BY <1>1, <2>2, <3>6, Apart, RequestedKept
    <3>9. Faithful'
      <4>1. ASSUME NEW t \in Quiet, NEW k \in Names, Held(t, k) \/ Answer(t, k)
            PROVE  cache'[k] = cache[k] /\ \A i \in 1..Len(nest') : nest'[i].mod.name # k
        <5>1. k # seek
          BY <1>3, <4>1, NotCachedNotHeld
        <5>2. \A i \in 1..Len(nest) : nest[i].mod.name # k
          BY <4>1 DEF Faithful
        <5>. QED BY <2>2, <3>4, <5>1, <5>2
      <4>2. \A t \in Quiet : UNCHANGED <<pc[t], inbox[t], asked[t], got[t]>>
        BY <2>2
      <4>. QED BY <4>1, <4>2, FaithMoves
    <3>. QED BY <3>3, <3>6, <3>7, <3>8, <3>9
  <2>. QED BY <1>3, <2>1, <2>2 DEF Load
<1>4. CASE ~Cached(seek) /\ seek \in Builtin \ InPath
  <2>. DEFINE x == BuiltinModule(seek)
  <2>1. x \in Modules /\ cache[seek] = NoModule
    BY <1>4 DEF Modules, Cached
  <2>2. /\ cache' = [cache EXCEPT ![seek] = x] /\ seek' = NoName
        /\ IF nest = <<>>
           THEN answer' = x /\ Goto(Mgr, "reply") /\ UNCHANGED binds
           ELSE /\ binds' = Bind(binds, Innermost.mod, seek, x)
                /\ UNCHANGED <<pc, answer>>
        /\ UNCHANGED <<inbox, asked, got, source, used, job, nest, made>>
    BY <1>4 DEF Load
  <2>. HIDE DEF x
  <2>. QED BY <1>1, <2>1, <2>2, Gives
<1>5. CASE ~Cached(seek) /\ seek \notin Builtin \cup InPath
  BY <1>5, StopKeeps DEF Load
<1>. QED BY <1>2, <1>3, <1>4, <1>5

LEMMA UseInv == ASSUME IInv, Use PROVE IInv'
<1>. USE DEF IInv
<1>. DEFINE k == Len(nest)
            e == [nest[k] EXCEPT !.used = @ + 1]
<1>1. /\ pc[Mgr] = "work" /\ seek = NoName /\ nest # <<>>
      /\ nest[k].used < Len(Uses[nest[k].mod.file])
      /\ seek' = Uses[nest[k].mod.file][nest[k].used + 1] /\ nest' = [nest EXCEPT ![k] = e]
      /\ UNCHANGED <<pc, inbox, asked, got, source, used, job, answer, cache, made, binds>>
  BY DEF Use, Innermost, Wanted
<1>2. k \in 1..Len(nest) /\ nest[k] \in Frames /\ nest[k].mod.file \in Files
  <2>1. k \in Nat \ {0}
    BY <1>1, EmptySeq DEF ManagerTyped
  <2>2. k \in 1..Len(nest)
    BY <2>1
  <2>. QED BY <2>2, ElementOfSeq DEF ManagerTyped
<1>3. Uses[nest[k].mod.file] \in Seq(Names) /\ nest[k].used \in Nat
  BY <1>2, ModuleAssumption DEF Frames
<1>4. seek' \in Names
  <2>1. nest[k].used + 1 \in 1..Len(Uses[nest[k].mod.file])
    BY <1>1, <1>3
  <2>. QED BY <1>1, <1>3, <2>1, ElementOfSeq
<1>5. e \in Frames /\ e.mod = nest[k].mod /\ e.used = nest[k].used + 1
  BY <1>2 DEF Frames
<1>. HIDE DEF e
<1>6. /\ nest' \in Seq(Frames) /\ Len(nest') = Len(nest)
      /\ \A i \in 1..Len(nest) : nest'[i] = IF i = k THEN e ELSE nest[i]
  BY <1>1, <1>2, <1>5, ExceptSeq DEF ManagerTyped
<1>7. \A i \in 1..Len(nest) : nest'[i].mod = nest[i].mod
  BY <1>5, <1>6
<1>8. Modules' = Modules
  BY <1>1, ModulesKept
<1>9. ManagerTyped'
  <2>1. \A i \in 1..Len(nest') : /\ nest'[i].mod \in made' /\ nest'[i].mod.file \in Files
                                 /\ nest'[i].used <= Len(Uses[nest'[i].mod.file])
    <3>1. ASSUME NEW i \in 1..Len(nest)
          PROVE  /\ nest'[i].mod \in made' /\ nest'[i].mod.file \in Files
                 /\ nest'[i].used <= Len(Uses[nest'[i].mod.file])
      <4>1. CASE i = k
        BY <1>1, <1>2, <1>3, <1>5, <1>6, <4>1 DEF ManagerTyped
      <4>2. CASE i # k
        <5>1. nest'[i] = nest[i] /\ made' = made
          BY <1>1, <1>6, <4>2
        <5>. QED BY <5>1 DEF ManagerTyped
      <4>. QED BY <4>1, <4>2
    <3>. QED BY <1>6, <3>1
  <2>. QED BY <1>1, <1>4, <1>6, <1>8, <2>1 DEF ManagerTyped
<1>10. TasksTyped' /\ Mail' /\ Booting'
  BY <1>1, <1>8 DEF TasksTyped, Mail, Booting, Early
<1>11. Work'
  <2>1. nest' # <<>> /\ 1 \in 1..Len(nest)
    BY <1>2, <1>6
  <2>. QED BY <1>1, <1>7, <2>1 DEF Work
<1>12. Requested'
  BY <1>1, RequestedKept
<1>13. Faithful'
  <2>1. ASSUME NEW t \in Quiet, NEW n \in Names, Held(t, n) \/ Answer(t, n)
        PROVE  cache'[n] = cache[n] /\ \A i \in 1..Len(nest') : nest'[i].mod.name # n
    <3>1. \A i \in 1..Len(nest) : nest[i].mod.name # n
      BY <2>1 DEF Faithful
    <3>2. Len(nest') = Len(nest) /\ cache' = cache
      BY <1>1, <1>6
    <3>. QED BY <1>7, <3>1, <3>2
  <2>. QED BY <1>1, <2>1, FaithMoves
<1>. QED BY <1>9, <1>10, <1>11, <1>12, <1>13

LEMMA CompiledInv == ASSUME IInv, Compiled PROVE IInv'
<1>. USE DEF IInv
<1>. DEFINE k == Len(nest)
            m == nest[k].mod
            outer == SubSeq(nest, 1, k - 1)
            l == IF outer = <<>> THEN "reply" ELSE "work"
<1>1. /\ pc[Mgr] = "work" /\ seek = NoName /\ nest # <<>>
      /\ cache' = [cache EXCEPT ![m.name] = m] /\ nest' = outer
      /\ IF outer = <<>>
         THEN answer' = m /\ Goto(Mgr, "reply") /\ UNCHANGED binds
         ELSE binds' = Bind(binds, outer[Len(outer)].mod, m.name, m) /\ UNCHANGED <<pc, answer>>
      /\ UNCHANGED <<inbox, asked, got, source, used, job, seek, made>>
  BY DEF Compiled, Innermost, Keep
<1>2. k \in 1..Len(nest) /\ k \in Nat \ {0} /\ m \in made
  <2>1. k \in Nat \ {0}
    BY <1>1, EmptySeq DEF ManagerTyped
  <2>2. k \in 1..Len(nest)
    BY <2>1
  <2>. QED BY <2>1, <2>2 DEF ManagerTyped
<1>3. m \in Modules /\ m.name \in Names
  <2>1. m \in AllModules /\ m \in Modules
    BY <1>2, MadeAre
  <2>. QED BY <2>1, ModuleIs DEF AllModules
<1>4. /\ outer \in Seq(Frames) /\ Len(outer) = k - 1
      /\ \A i \in 1..(k - 1) : outer[i] = nest[i]
  <2>1. \A i \in 1..(k - 1) : nest[i] \in Frames
    BY <1>2, ElementOfSeq DEF ManagerTyped
  <2>2. outer \in Seq(Frames)
    BY <1>2, <2>1, SubSeqProperties
  <2>3. Len(outer) = k - 1
    <3>1. k - 1 \in Int /\ 1 \in Int /\ (1 <= k - 1 \/ k = 1)
      <4>1. ASSUME NEW h \in Nat \ {0} PROVE h - 1 \in Int /\ 1 \in Int /\ (1 <= h - 1 \/ h = 1)
        OBVIOUS
      <4>. QED BY <1>2, <4>1
    <3>2. Len(SubSeq(nest, 1, k - 1)) = IF 1 <= k - 1 THEN (k - 1) - 1 + 1 ELSE 0
      BY <2>1, <3>1, SubSeqProperties
    <3>. QED BY <1>2, <3>1, <3>2
  <2>4. \A i \in 1..(k - 1) : outer[i] = nest[i]
    BY <1>2, <2>1, SubSeqProperties
  <2>. QED BY <2>2, <2>3, <2>4
<1>. HIDE DEF outer
<1>5. outer = <<>> <=> k = 1
  BY <1>2, <1>4, EmptySeq
<1>6. l \in {"work", "reply"} /\ pc' = [pc EXCEPT ![Mgr] = l]
  BY <1>1, Apart DEF Goto, TasksTyped
<1>7. made \subseteq made' /\ Modules' = Modules /\ inbox' = [inbox EXCEPT ![Mgr] = inbox[Mgr]]
  BY <1>1, ModulesKept, Apart DEF TasksTyped
<1>8. /\ TasksTyped' /\ Mail' /\ Booting' /\ pc'[Mgr] = l /\ inbox'[Mgr] = inbox[Mgr]
      /\ \A t \in Programs : pc'[t] = pc[t] /\ inbox'[t] = inbox[t]
  <2>1. l \in Points /\ l \notin {"new", "args"} /\ pc[Mgr] # "new"
    BY <1>1, <1>6 DEF Points
  <2>. QED BY <1>1, <1>6, <1>7, <2>1, ManagerOwn
<1>9. cache'[m.name] = m /\ \A n \in Names \ {m.name} : cache'[n] = cache[n]
  BY <1>1, <1>3 DEF ManagerTyped
<1>10. ManagerTyped'
  <2>1. cache' \in [Names -> {NoModule} \cup Modules']
    BY <1>1, <1>3, <1>7 DEF ManagerTyped
  <2>2. answer' \in {NoModule} \cup Modules'
    BY <1>1, <1>3, <1>7 DEF ManagerTyped
  <2>3. \A b \in DOMAIN binds' : b[1] \in made' /\ binds'[b] \in Modules'
    <3>1. CASE outer = <<>>
      BY <1>1, <1>7, <3>1 DEF ManagerTyped
    <3>2. CASE outer # <<>>
      <4>1. Len(outer) \in 1..(k - 1)
        BY <1>2, <1>4, <1>5, <3>2
      <4>2. outer[Len(outer)].mod \in made
        BY <1>2, <1>4, <4>1 DEF ManagerTyped
      <4>. QED BY <1>1, <1>3, <1>7, <3>2, <4>2, BindTyped DEF ManagerTyped
    <3>. QED BY <3>1, <3>2
  <2>4. \A i \in 1..Len(nest') : /\ nest'[i].mod \in made' /\ nest'[i].mod.file \in Files
                                 /\ nest'[i].used <= Len(Uses[nest'[i].mod.file])
    BY <1>1, <1>2, <1>4 DEF ManagerTyped
  <2>5. nest' \in Seq(Frames) /\ Len(nest') <= Depth
    BY <1>1, <1>2, <1>4, ModuleAssumption DEF ManagerTyped
  <2>. QED BY <1>1, <2>1, <2>2, <2>3, <2>4, <2>5 DEF ManagerTyped
<1>11. Work'
  <2>1. job' \in Asks /\ nest[1].mod.name = job.name
    BY <1>1 DEF Work
  <2>2. CASE outer = <<>>
    <3>1. answer' = m /\ m.name = job.name /\ pc'[Mgr] = "reply" /\ nest' = <<>>
      BY <1>1, <1>5, <1>8, <2>1, <2>2
    <3>. QED BY <1>1, <1>3, <1>7, <1>9, <2>1, <3>1 DEF Work
  <2>3. CASE outer # <<>>
    <3>1. nest'[1] = nest[1]
      BY <1>1, <1>2, <1>4, <1>5, <2>3
    <3>. QED BY <1>1, <1>8, <2>1, <2>3, <3>1 DEF Work
  <2>. QED BY <2>2, <2>3
<1>12. Requested'
  BY <1>1, <1>8, Apart, RequestedKept
<1>13. Faithful'
  <2>1. ASSUME NEW t \in Quiet, NEW n \in Names, Held(t, n) \/ Answer(t, n)
        PROVE  cache'[n] = cache[n] /\ \A i \in 1..Len(nest') : nest'[i].mod.name # n
    <3>1. \A i \in 1..Len(nest) : nest[i].mod.name # n
      BY <2>1 DEF Faithful
    <3>2. n # m.name
      BY <1>2, <3>1
    <3>. QED BY <1>1, <1>2, <1>4, <1>9, <3>1, <3>2
  <2>2. \A t \in Quiet : UNCHANGED <<pc[t], inbox[t], asked[t], got[t]>>
    BY <1>1, <1>8, Apart
  <2>. QED BY <2>1, <2>2, FaithMoves
<1>. QED BY <1>8, <1>10, <1>11, <1>12, <1>13

(* The manager goes on to another point and changes nothing else.          *)
LEMMA MovesInv ==
  ASSUME IInv, Fail \/ Free \/ Done \/ FoundMalformed
  PROVE  IInv'
<1>. USE DEF IInv
<1>1. ASSUME NEW l \in {"failed", "freed", "over"}, Goto(Mgr, l),
             pc[Mgr] \in {"work", "free", "freed"}, l = "failed" \/ pc[Mgr] # "work",
             UNCHANGED <<inbox, asked, got, source, used>>, UNCHANGED manager
      PROVE  IInv'
  <2>1. ManagerTyped' /\ job' = job /\ nest' = nest /\ cache' = cache /\ made' = made
    BY <1>1, ManagerTypedKept DEF manager
  <2>2. pc' = [pc EXCEPT ![Mgr] = l] /\ inbox' = [inbox EXCEPT ![Mgr] = inbox[Mgr]]
    BY <1>1, Apart DEF Goto, TasksTyped
  <2>3. l \in Points /\ l \notin {"new", "args"} /\ pc[Mgr] # "new"
    BY <1>1 DEF Points
  <2>4. /\ TasksTyped' /\ Mail' /\ Booting' /\ pc'[Mgr] = l /\ inbox'[Mgr] = inbox[Mgr]
        /\ \A t \in Programs : pc'[t] = pc[t] /\ inbox'[t] = inbox[t]
    BY <1>1, <2>1, <2>2, <2>3, ManagerOwn
  <2>5. Work'
    BY <1>1, <2>4, WorkKept
  <2>6. Requested'
    BY <1>1, <2>1, <2>4, Apart, RequestedKept
  <2>7. \A t \in Quiet : UNCHANGED <<pc[t], inbox[t], asked[t], got[t]>>
    BY <1>1, <2>4, Apart
  <2>8. \A t \in Quiet, n \in Names :
          Held(t, n) \/ Answer(t, n) =>
            cache'[n] = cache[n] /\ \A i \in 1..Len(nest') : nest'[i].mod.name # n
    BY <2>1 DEF Faithful
  <2>9. Faithful'
    BY <2>7, <2>8, FaithMoves
  <2>. QED BY <2>1, <2>4, <2>5, <2>6, <2>9
<1>2. CASE Fail
  BY <1>1, <1>2 DEF Fail
<1>3. CASE Free
  BY <1>1, <1>3 DEF Free
<1>4. CASE Done
  BY <1>1, <1>4 DEF Done
<1>5. CASE FoundMalformed
  BY <1>5, StopKeeps DEF FoundMalformed
<1>. QED BY <1>2, <1>3, <1>4, <1>5

(* The answer reaches a quiet task that waits for it with its inbox empty: *)
(* it is what the manager has cached under the name.                       *)
LEMMA ReplyInv == ASSUME IInv, Reply PROVE IInv'
<1>. USE DEF IInv
<1>. DEFINE u == job.from
<1>1. /\ pc[Mgr] = "reply" /\ nest = <<>> /\ job' = Empty /\ answer' = NoModule
      /\ UNCHANGED <<asked, got, source, used, seek, nest, cache, made, binds>>
  BY DEF Reply, Work
<1>2. /\ u \in Programs /\ job.name \in Names /\ Empty \notin Asks
      /\ answer \in Modules /\ answer = cache[job.name]
  BY <1>1, AsksAre DEF Work
<1>3. Modules' = Modules /\ made \subseteq made'
  BY <1>1, ModulesKept
<1>4. ManagerTyped'
  BY <1>1, <1>3 DEF ManagerTyped
<1>5. answer # Data /\ answer # Ready /\ answer # Empty
  BY <1>2, MadeAre, ModulesAre
<1>6. CASE Send(u, answer) /\ Goto(Mgr, "serve")
  <2>1. /\ inbox[u] = Empty /\ inbox' = [inbox EXCEPT ![u] = answer]
        /\ pc' = [pc EXCEPT ![Mgr] = "serve"]
    BY <1>6 DEF Send, Goto
  <2>2. /\ pc'[Mgr] = "serve" /\ inbox'[Mgr] = inbox[Mgr] /\ inbox'[u] = answer
        /\ \A t \in Programs : pc'[t] = pc[t] /\ (t # u => inbox'[t] = inbox[t])
    BY <1>2, <2>1, Apart DEF TasksTyped
  <2>3. u \in Quiet => Waits(job)
    BY <1>1 DEF Requested
  <2>4. TasksTyped'
    <3>1. pc' \in [Tasks -> Points]
      BY <2>1 DEF TasksTyped, Points
    <3>2. inbox' \in [Tasks -> {Empty, Data, Ready, Args, Exit} \cup Modules' \cup Asks]
      BY <1>2, <1>3, <2>1 DEF TasksTyped
    <3>3. \A t \in Programs :
            pc'[t] \in {"send", "wait"} => asked'[t] \in Names \X (Files \cup {NoFile})
      BY <1>1, <2>2 DEF TasksTyped
    <3>. QED BY <1>1, <1>3, <3>1, <3>2, <3>3 DEF TasksTyped
  <2>5. Mail'
    <3>1. inbox'[Mgr] \in {Empty, Args, Exit} \cup Asks
      BY <2>2 DEF Mail
    <3>2. \A t \in Programs : inbox'[t] \in {Empty, Ready, Data} \cup Modules
      BY <1>2, <2>2 DEF Mail
    <3>3. \A t \in Programs : /\ inbox'[t] = Data => t \in Talkers
                              /\ inbox'[t] = Ready => pc'[t] = "ready"
      BY <1>5, <2>2 DEF Mail
    <3>4. \A t \in Quiet : pc'[t] \notin {"wait", "ready"} => inbox'[t] = Empty
      BY <2>2, <2>3, Apart DEF Mail, Waits
    <3>. QED BY <1>3, <3>1, <3>2, <3>3, <3>4 DEF Mail
  <2>6. Booting'
    <3>1. pc[Main] # "start"
      BY <1>1 DEF Booting
    <3>. QED BY <1>1, <2>2, <3>1, Apart DEF Booting, Early
  <2>7. Work'
    BY <1>1, <2>2 DEF Work
  <2>8. Requested'
    <3>1. ASSUME inbox[Mgr] \in Asks, inbox[Mgr].from \in Quiet
          PROVE  Waits(inbox[Mgr])'
      <4>1. Waits(inbox[Mgr]) /\ inbox[Mgr].from # u
        BY <1>1, <3>1 DEF Requested
      <4>. QED BY <1>1, <2>2, <3>1, <4>1, Apart DEF Waits
    <3>. QED BY <2>2, <3>1 DEF Requested, Waits
  <2>9. Faithful'
    <3>1. ASSUME NEW t \in Quiet, NEW n \in Names
          PROVE  /\ Held(t, n)' => got'[t][n] = cache'[n]
                 /\ Answer(t, n)' => inbox'[t] = cache'[n]
      <4>1. Held(t, n)' => got'[t][n] = cache'[n]
        BY <1>1 DEF Held, Faithful
      <4>2. CASE t = u
        <5>1. asked[t][1] = job.name
          BY <2>3, <4>2 DEF Waits
        <5>. QED BY <1>1, <1>2, <2>2, <4>1, <4>2, <5>1 DEF Answer
      <4>3. CASE t # u
        <5>1. Answer(t, n)' <=> Answer(t, n)
          BY <1>1, <2>2, <4>3, Apart DEF Answer
        <5>. QED BY <1>1, <2>2, <4>1, <4>3, <5>1, Apart DEF Faithful
      <4>. QED BY <4>2, <4>3
    <3>2. 1..Len(nest') = {}
      BY <1>1
    <3>. QED BY <3>1, <3>2 DEF Faithful
  <2>. QED BY <1>4, <2>4, <2>5, <2>6, <2>7, <2>8, <2>9
<1>7. CASE pc[u] = "end" /\ Goto(Mgr, "failed") /\ UNCHANGED inbox
  <2>1. /\ pc' = [pc EXCEPT ![Mgr] = "failed"] /\ inbox' = [inbox EXCEPT ![Mgr] = inbox[Mgr]]
        /\ "failed" \in Points
    BY <1>7, Apart DEF Goto, TasksTyped, Points
  <2>2. /\ TasksTyped' /\ Mail' /\ Booting' /\ pc'[Mgr] = "failed" /\ inbox'[Mgr] = inbox[Mgr]
        /\ \A t \in Programs : pc'[t] = pc[t] /\ inbox'[t] = inbox[t]
    BY <1>1, <1>3, <2>1, ManagerOwn
  <2>3. Work'
    BY <2>2 DEF Work
  <2>4. Requested'
    <3>1. ASSUME inbox[Mgr] \in Asks, inbox[Mgr].from \in Quiet
          PROVE  Waits(inbox[Mgr])'
      <4>1. Waits(inbox[Mgr])
        BY <3>1 DEF Requested
      <4>. QED BY <1>1, <2>2, <3>1, <4>1, Apart DEF Waits
    <3>. QED BY <2>2, <3>1 DEF Requested, Waits
  <2>5. \A t \in Quiet : UNCHANGED <<pc[t], inbox[t], asked[t], got[t]>>
    BY <1>1, <2>2, Apart
  <2>6. \A t \in Quiet, n \in Names :
          Held(t, n) \/ Answer(t, n) =>
            cache'[n] = cache[n] /\ \A i \in 1..Len(nest') : nest'[i].mod.name # n
    BY <1>1 DEF Faithful
  <2>7. Faithful'
    BY <2>5, <2>6, FaithMoves
  <2>. QED BY <1>4, <2>2, <2>3, <2>4, <2>7
<1>. QED BY <1>6, <1>7 DEF Reply

-----------------------------------------------------------------------------
LEMMA InitInv == ASSUME Init PROVE IInv
<1>. USE DEF Init
<1>1. \A t \in Tasks : inbox[t] = Empty /\ pc[t] \in {"start", "new"}
  OBVIOUS
<1>2. \A t \in Tasks, n \in Names : got[t][n] = NoModule
  OBVIOUS
<1>3. TasksTyped
  <2>1. source \in Files /\ Len(Uses[source]) \in Nat
    BY ModuleAssumption, LenProperties
  <2>. QED BY <1>1, <1>2, <2>1, Apart DEF TasksTyped, Points
<1>4. ManagerTyped
  <2>1. IsFiniteSet(made) /\ Cardinality(made) = 0
    BY FS_EmptySet
  <2>2. Depth \in Nat /\ nest \in Seq(Frames) /\ Len(nest) = 0 /\ DOMAIN binds = {}
    BY ModuleAssumption, EmptySeq
  <2>. QED BY <2>1, <2>2 DEF ManagerTyped
<1>5. Mail
  BY <1>1, Signals, Apart DEF Mail, Quiet
<1>6. pc[Mgr] = "new" /\ pc[Main] = "start" /\ \A t \in Clients : pc[t] = "new"
  BY Apart, ModuleAssumption
<1>7. Booting
  BY <1>1, <1>6, Apart DEF Booting, Early
<1>8. Work
  BY <1>6 DEF Work
<1>9. Requested
  <2>1. inbox[Mgr] \notin Asks
    BY <1>1, AsksAre, Apart
  <2>. QED BY <1>6, <2>1 DEF Requested
<1>10. Faithful
  BY <1>1, <1>2, Apart DEF Faithful, Held, Answer
<1>. QED BY <1>3, <1>4, <1>5, <1>7, <1>8, <1>9, <1>10 DEF IInv

LEMMA NextInv == ASSUME IInv, [Next]_vars PROVE IInv'
<1>1. CASE MainStep
  BY <1>1, StartInv, MainInv, MainCompiledInv, SendExitInv DEF MainStep
<1>2. CASE ManagerStep
  BY <1>2, PrepareInv, ServeInv, LoadInv, UseInv, CompiledInv, MovesInv, ReplyInv DEF ManagerStep
<1>3. ASSUME NEW t \in Programs, ClientStep(t) \/ ProgramStep(t) PROVE IInv'
  BY <1>3, SendRequestInv, TakeAnswerInv, ProgramInv, TalkInv DEF ClientStep, ProgramStep
<1>4. CASE UNCHANGED vars
  <2>1. /\ pc' = pc /\ inbox' = inbox /\ asked' = asked /\ got' = got /\ source' = source
        /\ used' = used /\ UNCHANGED manager
    BY <1>4 DEF vars
  <2>2. ManagerTyped' /\ Modules' = Modules
    BY <2>1, ManagerTypedKept DEF IInv
  <2>3. TasksTyped' /\ Mail' /\ Booting'
    BY <2>1, <2>2 DEF IInv, TasksTyped, Mail, Booting, Early
  <2>4. Work'
    BY <2>1, WorkKept DEF IInv
  <2>5. Requested' /\ Faithful'
    BY <2>1 DEF IInv, Requested, Waits, Faithful, Held, Answer, manager
  <2>. QED BY <2>2, <2>3, <2>4, <2>5 DEF IInv
<1>. QED BY <1>1, <1>2, <1>3, <1>4 DEF Next

\* The inductive invariant holds in every state the manager and the tasks reach.
THEOREM Invariance == Spec => []IInv
<1>1. Init => IInv
  BY InitInv
<1>2. IInv /\ [Next]_vars => IInv'
  BY NextInv
<1>. QED BY <1>1, <1>2, PTL DEF Spec

\* Whatever the files use and however many tasks ask, everything is what it should be: no
\* message is of a kind its receiver does not expect, the files being compiled stay within the
\* depth, and only a task others send to takes data for a module.
THEOREM TypeCorrect == Spec => []TypeOK
<1>1. ASSUME IInv PROVE TypeOK
  <2>. USE DEF IInv
  <2>1. pc \in [Tasks -> {"start", "new", "ready", "compile", "send", "wait", "run", "exit", "join",
                          "end", "args", "serve", "work", "reply", "failed", "free", "freed", "over"}]
    BY <1>1 DEF TasksTyped, Points
  <2>2. \A t \in Tasks : inbox[t] \in {Empty, Data, Ready, Args, Exit} \cup Modules
                           \cup { Ask(u, r) : u \in Programs, r \in Names \X (Files \cup {NoFile}) }
    BY <1>1 DEF TasksTyped, Asks
  <2>3. \A t \in Tasks, n \in Names :
          got[t][n] \in {NoModule} \cup Modules \cup (IF t \in Talkers THEN {Data} ELSE {})
    BY <1>1 DEF TasksTyped
  <2>4. \A i \in DOMAIN nest : nest[i].mod \in made /\ nest[i].used <= Len(Uses[nest[i].mod.file])
    <3>1. DOMAIN nest = 1..Len(nest)
      BY <1>1, LenProperties DEF ManagerTyped
    <3>. QED BY <1>1, <3>1 DEF ManagerTyped
  <2>5. made \subseteq { ModuleOf(i, n, f) : i \in 1..Cardinality(made), n \in Names, f \in Files }
    BY <1>1 DEF ManagerTyped, UpTo
  <2>6. /\ cache \in [Names -> {NoModule} \cup Modules] /\ seek \in Names \cup {NoName}
        /\ Len(nest) <= Depth /\ \A k \in DOMAIN binds : k[1] \in made /\ binds[k] \in Modules
    BY <1>1 DEF ManagerTyped
  <2>. QED BY <2>1, <2>2, <2>3, <2>4, <2>5, <2>6 DEF TypeOK
<1>. QED BY <1>1, Invariance, PTL

\* What a task nobody else sends to was given for a name is what the manager has cached under
\* that name, whatever was compiled since and whoever else asked.
THEOREM HeldStaysCached == Spec => []HeldIsCached
<1>1. ASSUME IInv PROVE HeldIsCached
  BY <1>1 DEF IInv, Faithful, HeldIsCached, Quiet
<1>. QED BY <1>1, Invariance, PTL

-----------------------------------------------------------------------------
(* The links between modules.                                              *)

\* In the bindings b the module m has a module of the name u in its locals.
Bound(b, m, u) == <<m, u>> \in DOMAIN b /\ b[<<m, u>>].name = u

\* Frame i has been answered its use j.
HasUse(i, j) == i < Len(nest) \/ seek # NoName => j < nest[i].used

\* The files being compiled have what they have asked for, but for the last use of each, which
\* the next file, or the name being loaded, will answer.
Chain ==
  /\ pc[Mgr] # "work" => seek = NoName
  /\ \A i \in 1..Len(nest) : \A j \in 1..nest[i].used :
       HasUse(i, j) => Bound(binds, nest[i].mod, Uses[nest[i].mod.file][j])
  /\ \A i \in 1..Len(nest) :
       i < Len(nest) => /\ nest[i].used > 0
                        /\ nest[i + 1].mod.name = Uses[nest[i].mod.file][nest[i].used]
  /\ \A i \in 1..Len(nest) :
       i = Len(nest) /\ seek # NoName => /\ nest[i].used > 0
                                         /\ seek = Uses[nest[i].mod.file][nest[i].used]

\* A module is nowhere before it is compiled.
Unfinished ==
  \A i \in 1..Len(nest) :
    /\ \A k \in 1..Len(nest) : nest[i].mod = nest[k].mod => i = k
    /\ \A n \in Names : cache[n] # nest[i].mod
    /\ \A k \in DOMAIN binds : binds[k] # nest[i].mod

Finished ==
  \A n \in Names :
    /\ cache[n] # NoModule => cache[n].name = n
    /\ cache[n] \in made =>
         \A j \in 1..Len(Uses[cache[n].file]) : Bound(binds, cache[n], Uses[cache[n].file][j])

Links == Chain /\ Unfinished /\ Finished

LInv == IInv /\ Links

-----------------------------------------------------------------------------
\* A step that leaves the manager's work alone.
LEMMA LinksKept ==
  ASSUME Links, UNCHANGED manager, pc'[Mgr] # "work" => pc[Mgr] # "work" \/ seek = NoName
  PROVE  Links'
<1>1. /\ job' = job /\ seek' = seek /\ nest' = nest /\ cache' = cache /\ made' = made
      /\ binds' = binds
  BY DEF manager
<1>2. Chain' /\ Unfinished' /\ Finished'
  BY <1>1 DEF Links, Chain, Unfinished, Finished, Bound, HasUse
<1>. QED BY <1>2 DEF Links

\* The steps of the other tasks.
LEMMA OthersKeepLinks ==
  ASSUME LInv, MainStep \/ \E t \in Programs : ClientStep(t) \/ ProgramStep(t)
  PROVE  Links'
<1>. USE DEF LInv, IInv
<1>1. pc \in [Tasks -> Points]
  BY DEF TasksTyped
<1>2. CASE MainStep
  <2>1. UNCHANGED manager
    BY <1>2 DEF MainStep, Start, ManagerReady, MainUses, MainCompiled, MainMalformed, SendExit,
                Return, Stop
  <2>2. CASE Start
    <3>1. pc[Mgr] # "work"
      BY <2>2 DEF Start
    <3>. QED BY <2>1, <3>1, LinksKept
  <2>3. CASE MainStep /\ ~Start
    <3>1. pc'[Mgr] = pc[Mgr]
      BY <1>1, <2>3, Apart DEF MainStep, ManagerReady, MainUses, MainCompiled, MainMalformed,
                               SendExit, Return, Stop, Goto
    <3>. QED BY <2>1, <3>1, LinksKept
  <2>. QED BY <1>2, <2>2, <2>3
<1>3. ASSUME NEW t \in Programs, ClientStep(t) \/ ProgramStep(t) PROVE Links'
  <2>1. UNCHANGED manager /\ pc'[Mgr] = pc[Mgr]
    BY <1>1, <1>3, Apart DEF ClientStep, ProgramStep, SendRequest, TakeAnswer, Compile, Talk,
                             Listen, End, Stop, Goto
  <2>. QED BY <2>1, LinksKept
<1>. QED BY <1>2, <1>3

\* A module that is opened is none of those there are.
LEMMA NewIsNew ==
  ASSUME ManagerTyped, NEW n, NEW f, NEW x \in {NoModule} \cup Modules
  PROVE  x # ModuleOf(Cardinality(made) + 1, n, f)
<1>. DEFINE m == ModuleOf(Cardinality(made) + 1, n, f)
<1>1. m.id = Cardinality(made) + 1 /\ m.kind = "module" /\ Cardinality(made) \in Nat
  BY ModuleIs, FS_CardinalityType DEF ManagerTyped
<1>. HIDE DEF m
<1>2. CASE x = NoModule
  <2>1. NoModule.kind = "none"
    BY DEF NoModule
  <2>. QED BY <1>1, <1>2, <2>1 DEF m
<1>3. CASE x \in made
  <2>1. PICK i \in 1..Cardinality(made), y \in Names, g \in Files : x = ModuleOf(i, y, g)
    BY <1>3 DEF ManagerTyped, UpTo
  <2>2. x.id = i
    BY <2>1, ModuleIs
  <2>. QED BY <1>1, <2>2 DEF m
<1>4. CASE \E b \in Builtin : x = BuiltinModule(b)
  <2>1. x.id = 0
    BY <1>4, ModuleIs DEF BuiltinModule
  <2>. QED BY <1>1, <2>1 DEF m
<1>. QED BY <1>2, <1>3, <1>4 DEF Modules, m

\* What was bound stays bound, under a module of its name.
LEMMA BindBinds ==
  ASSUME NEW m, NEW n, NEW x, x.name = n, binds' = Bind(binds, m, n, x)
  PROVE  /\ Bound(binds', m, n)
         /\ \A a, u : Bound(binds, a, u) => Bound(binds', a, u)
         /\ \A k \in DOMAIN binds' : \/ binds'[k] = x
                                     \/ k \in DOMAIN binds /\ binds'[k] = binds[k]
BY DEF Bind, Bound

-----------------------------------------------------------------------------
\* A file is opened inside the ones that wait for it.
LEMMA OpenLinks ==
  ASSUME LInv, NEW n \in Names, NEW f \in Files, Len(nest) < Depth,
         Open(n, f), made' = made \cup {nest'[Len(nest) + 1].mod},
         \A i \in 1..Len(nest) : i = Len(nest) => seek = n /\ seek # NoName,
         seek' = NoName, UNCHANGED <<cache, binds>>
  PROVE  Links'
<1>. USE DEF LInv, IInv, Links
<1>. DEFINE c == Len(nest)
            m == ModuleOf(Cardinality(made) + 1, n, f)
<1>1. /\ nest' \in Seq(Frames) /\ Len(nest') = c + 1
      /\ \A i \in 1..c : nest'[i] = nest[i]
      /\ nest'[c + 1].mod.name = n
  BY Opens
<1>2. c \in Nat /\ nest'[c + 1] = [mod |-> m, used |-> 0]
  BY DEF ManagerTyped, Open
<1>3. nest'[c + 1].mod = m /\ nest'[c + 1].used = 0
  BY <1>2
<1>. HIDE DEF m
<1>4. \A x \in {NoModule} \cup Modules : x # m
  BY NewIsNew DEF m
<1>5. \A i \in 1..c : nest[i].mod # m
  BY <1>4, MadeAre DEF ManagerTyped
<1>6. m \notin made
  BY <1>4, MadeAre
<1>7. \A a, u : Bound(binds', a, u) <=> Bound(binds, a, u)
  BY DEF Bound
<1>8. Chain'
  <2>1. ASSUME NEW i \in 1..Len(nest'), NEW j \in 1..nest'[i].used, HasUse(i, j)'
        PROVE  Bound(binds', nest'[i].mod, Uses[nest'[i].mod.file][j])
    <3>1. i \in 1..c
      BY <1>1, <1>2, <1>3
    <3>2. j < nest[i].used /\ nest'[i] = nest[i]
      BY <1>1, <1>2, <2>1, <3>1 DEF HasUse
    <3>3. HasUse(i, j) /\ j \in 1..nest[i].used
      BY <3>2 DEF HasUse
    <3>4. Bound(binds, nest[i].mod, Uses[nest[i].mod.file][j])
      BY <3>1, <3>3 DEF Chain
    <3>. QED BY <1>7, <3>2, <3>4
  <2>2. ASSUME NEW i \in 1..Len(nest'), i < Len(nest')
        PROVE  /\ nest'[i].used > 0
               /\ nest'[i + 1].mod.name = Uses[nest'[i].mod.file][nest'[i].used]
    <3>1. i \in 1..c /\ nest'[i] = nest[i]
      BY <1>1, <1>2, <2>2
    <3>2. CASE i < c
      <4>1. nest'[i + 1] = nest[i + 1]
        BY <1>1, <1>2, <3>2
      <4>. QED BY <3>1, <3>2, <4>1 DEF Chain
    <3>3. CASE i = c
      <4>1. seek = n /\ seek # NoName
        BY <3>1, <3>3
      <4>2. nest[i].used > 0 /\ seek = Uses[nest[i].mod.file][nest[i].used]
        BY <3>1, <3>3, <4>1 DEF Chain
      <4>. QED BY <1>1, <3>1, <3>3, <4>1, <4>2
    <3>. QED BY <1>2, <3>1, <3>2, <3>3
  <2>. QED BY <2>1, <2>2 DEF Chain
<1>9. Unfinished'
  <2>1. ASSUME NEW i \in 1..Len(nest'), NEW k \in 1..Len(nest'), nest'[i].mod = nest'[k].mod
        PROVE  i = k
    <3>1. CASE i \in 1..c /\ k \in 1..c
      BY <1>1, <2>1, <3>1 DEF Unfinished
    <3>2. CASE i = c + 1 \/ k = c + 1
      BY <1>1, <1>2, <1>3, <1>5, <2>1, <3>2
    <3>. QED BY <1>1, <1>2, <3>1, <3>2
  <2>2. ASSUME NEW i \in 1..Len(nest')
        PROVE  /\ \A y \in Names : cache'[y] # nest'[i].mod
               /\ \A k \in DOMAIN binds' : binds'[k] # nest'[i].mod
    <3>1. CASE i \in 1..c
      BY <1>1, <3>1 DEF Unfinished
    <3>2. CASE i = c + 1
      BY <1>3, <1>4, <3>2 DEF ManagerTyped
    <3>. QED BY <1>1, <1>2, <3>1, <3>2
  <2>. QED BY <2>1, <2>2 DEF Unfinished
<1>10. Finished'
  <2>1. made' = made \cup {m}
    BY <1>3
  <2>2. \A y \in Names : cache'[y] = cache[y] /\ cache[y] # m
    BY <1>4 DEF ManagerTyped
  <2>. QED BY <1>7, <2>1, <2>2 DEF Finished
<1>. QED BY <1>8, <1>9, <1>10

\* A finished module is given to the innermost file, or to who asked.
LEMMA GiveLinks ==
  ASSUME LInv, pc[Mgr] = "work", seek # NoName, NEW x \in Modules, x.name = seek,
         seek' = NoName,
         \/ nest = <<>> /\ UNCHANGED binds
         \/ nest # <<>> /\ binds' = Bind(binds, Innermost.mod, seek, x),
         UNCHANGED <<nest, made>>,
         cache' = [cache EXCEPT ![seek] = x], x \in made => cache[seek] = x,
         \A i \in 1..Len(nest) : nest[i].mod # x
  PROVE  Links'
<1>. USE DEF LInv, IInv, Links
<1>1. seek \in Names /\ cache'[seek] = x /\ \A y \in Names \ {seek} : cache'[y] = cache[y]
  BY DEF ManagerTyped
<1>2. /\ \A a, u : Bound(binds, a, u) => Bound(binds', a, u)
      /\ \A k \in DOMAIN binds' : \/ binds'[k] = x
                                  \/ k \in DOMAIN binds /\ binds'[k] = binds[k]
      /\ nest # <<>> => Bound(binds', Innermost.mod, seek)
  <2>1. CASE UNCHANGED binds /\ nest = <<>>
    BY <2>1 DEF Bound
  <2>2. CASE nest # <<>> /\ binds' = Bind(binds, Innermost.mod, seek, x)
    <3>. DEFINE m == Innermost.mod
    <3>1. binds' = Bind(binds, m, seek, x)
      BY <2>2
    <3>. HIDE DEF m
    <3>2. /\ Bound(binds', m, seek)
          /\ \A a, u : Bound(binds, a, u) => Bound(binds', a, u)
          /\ \A k \in DOMAIN binds' : \/ binds'[k] = x
                                      \/ k \in DOMAIN binds /\ binds'[k] = binds[k]
      <4>1. x.name = seek
        OBVIOUS
      <4>. HIDE DEF LInv, IInv, Links
      <4>2. binds' = [b \in DOMAIN binds \cup {<<m, seek>>} |-> IF b = <<m, seek>> THEN x ELSE binds[b]]
        BY <3>1 DEF Bind
      <4>3. Bound(binds', m, seek)
        BY <4>1, <4>2 DEF Bound
      <4>4. ASSUME NEW a, NEW u, Bound(binds, a, u) PROVE Bound(binds', a, u)
        BY <4>1, <4>2, <4>4 DEF Bound
      <4>5. \A b \in DOMAIN binds' : binds'[b] = x \/ (b \in DOMAIN binds /\ binds'[b] = binds[b])
        BY <4>2
      <4>. QED BY <4>3, <4>4, <4>5
    <3>. QED BY <3>2 DEF m
  <2>. QED BY <2>1, <2>2
<1>3. Len(nest) \in Nat /\ nest' = nest
  BY DEF ManagerTyped
<1>4. Chain'
  <2>1. ASSUME NEW i \in 1..Len(nest), NEW j \in 1..nest[i].used, HasUse(i, j)'
        PROVE  Bound(binds', nest[i].mod, Uses[nest[i].mod.file][j])
    <3>1. CASE HasUse(i, j)
      BY <1>2, <3>1 DEF Chain
    <3>2. CASE ~HasUse(i, j)
      <4>1. i = Len(nest) /\ nest # <<>> /\ j = nest[i].used
        <5>1. ~(i < Len(nest)) /\ ~(j < nest[i].used)
          BY <1>3, <2>1, <3>2 DEF HasUse
        <5>2. nest[i].used \in Nat
          <6>1. nest[i] \in Frames
            BY ElementOfSeq DEF ManagerTyped
          <6>. QED BY <6>1 DEF Frames
        <5>. QED BY <1>3, <5>1, <5>2, EmptySeq DEF ManagerTyped
      <4>2. seek = Uses[nest[i].mod.file][j] /\ nest[i].mod = Innermost.mod
        BY <4>1 DEF Chain, Innermost
      <4>. QED BY <1>2, <4>1, <4>2
    <3>. QED BY <3>1, <3>2
  <2>. QED BY <1>3, <2>1 DEF Chain
<1>5. Unfinished'
  BY <1>1, <1>2, <1>3 DEF Unfinished
<1>6. Finished'
  <2>1. ASSUME NEW y \in Names
        PROVE  /\ cache'[y] # NoModule => cache'[y].name = y
               /\ cache'[y] \in made =>
                    \A j \in 1..Len(Uses[cache'[y].file]) :
                      Bound(binds', cache'[y], Uses[cache'[y].file][j])
    <3>1. CASE cache'[y] = cache[y]
      BY <1>2, <3>1 DEF Finished
    <3>2. CASE cache'[y] # cache[y]
      <4>1. y = seek /\ cache'[y] = x /\ x \notin made
        BY <1>1, <3>2
      <4>. QED BY <4>1
    <3>. QED BY <3>1, <3>2
  <2>. QED BY <2>1 DEF Finished
<1>. QED BY <1>4, <1>5, <1>6

\* The name is cached, a file of the path, or a builtin.
LEMMA LoadLinks == ASSUME LInv, Load PROVE Links'
<1>. USE DEF LInv, IInv, Links
<1>1. pc[Mgr] = "work" /\ seek # NoName /\ seek \in Names
  BY DEF Load, ManagerTyped
<1>2. CASE Stop("stack overflow") \/ Stop("not found")
  BY <1>2, LinksKept DEF Stop
<1>3. CASE Cached(seek)
  <2>. DEFINE x == cache[seek]
  <2>1. x \in Modules /\ x.name = seek
    BY <1>1, <1>3 DEF Cached, ManagerTyped, Finished
  <2>2. cache' = [cache EXCEPT ![seek] = x]
    BY <1>3 DEF Load, ManagerTyped
  <2>3. \A i \in 1..Len(nest) : nest[i].mod # x
    BY <1>1 DEF Unfinished
  <2>4. /\ seek' = NoName /\ UNCHANGED <<nest, made>>
        /\ \/ nest = <<>> /\ UNCHANGED binds
           \/ nest # <<>> /\ binds' = Bind(binds, Innermost.mod, seek, x)
    BY <1>3 DEF Load
  <2>5. x \in made => cache[seek] = x
    OBVIOUS
  <2>. HIDE DEF x
  <2>. QED BY <1>1, <2>1, <2>2, <2>3, <2>4, <2>5, GiveLinks
<1>4. CASE ~Cached(seek) /\ seek \in Builtin \ InPath
  <2>. DEFINE x == BuiltinModule(seek)
  <2>1. x \in Modules /\ x.name = seek /\ x \notin made
    <3>1. x.id = 0 /\ x.name = seek
      BY ModuleIs DEF BuiltinModule
    <3>2. ASSUME NEW m \in made PROVE m.id # 0
      <4>1. PICK i \in 1..Cardinality(made), y \in Names, g \in Files : m = ModuleOf(i, y, g)
        BY DEF ManagerTyped, UpTo
      <4>. QED BY <4>1, ModuleIs
    <3>. QED BY <1>4, <3>1, <3>2 DEF Modules
  <2>2. /\ cache' = [cache EXCEPT ![seek] = x] /\ seek' = NoName /\ UNCHANGED <<nest, made>>
        /\ \/ nest = <<>> /\ UNCHANGED binds
           \/ nest # <<>> /\ binds' = Bind(binds, Innermost.mod, seek, x)
    BY <1>4 DEF Load
  <2>. HIDE DEF x
  <2>3. \A i \in 1..Len(nest) : nest[i].mod # x
    BY <2>1 DEF ManagerTyped
  <2>. QED BY <1>1, <2>1, <2>2, <2>3, GiveLinks
<1>5. CASE /\ ~Cached(seek) /\ seek \in InPath /\ Len(nest) # Depth /\ Open(seek, seek)
           /\ made' = made \cup {nest'[Len(nest) + 1].mod} /\ seek' = NoName
           /\ UNCHANGED <<cache, binds>>
  <2>1. seek \in Files /\ Len(nest) < Depth
    BY <1>5, ModuleAssumption DEF ManagerTyped
  <2>2. \A i \in 1..Len(nest) : i = Len(nest) => seek = seek /\ seek # NoName
    BY <1>1
  <2>. QED BY <1>1, <1>5, <2>1, <2>2, OpenLinks
<1>. QED BY <1>2, <1>3, <1>4, <1>5 DEF Load

\* A request begins with no file open.
LEMMA ServeLinks == ASSUME LInv, Serve PROVE Links'
<1>. USE DEF LInv, IInv, Links
<1>. DEFINE r == inbox[Mgr]
<1>1. pc[Mgr] = "serve" /\ nest = <<>> /\ seek = NoName /\ pc \in [Tasks -> Points]
  BY DEF Serve, Work, Chain, Stop, TasksTyped
<1>2. CASE Stop("bound twice")
  BY <1>2, LinksKept DEF Stop
<1>3. CASE UNCHANGED manager
  BY <1>1, <1>3, LinksKept
<1>4. CASE r.kind = "ask" /\ r.file = NoFile /\ Goto(Mgr, "work") /\ UNCHANGED <<nest, made, cache, binds>>
  <2>1. pc'[Mgr] = "work" /\ nest' = <<>> /\ Len(nest') = 0
    BY <1>1, <1>4, Apart DEF Goto
  <2>2. Chain' /\ Unfinished'
    BY <2>1 DEF Chain, Unfinished
  <2>3. Finished'
    BY <1>4 DEF Finished
  <2>. QED BY <2>2, <2>3
<1>5. CASE /\ r.kind = "ask" /\ r.file # NoFile /\ Open(r.name, r.file)
           /\ made' = made \cup {nest'[1].mod} /\ UNCHANGED <<seek, cache, binds>>
  <2>1. r \in Asks
    <3>1. r \in {Empty, Args, Exit} \cup Asks
      BY DEF Mail
    <3>. QED BY <1>5, <3>1, Signals
  <2>2. r.name \in Names /\ r.file \in Files
    BY <1>5, <2>1, AsksAre
  <2>3. Len(nest) = 0 /\ Len(nest) < Depth
    <3>1. IsFiniteSet(InPath) /\ Depth \in Nat /\ Depth > Cardinality(InPath) + 1
      BY ModuleAssumption
    <3>2. Cardinality(InPath) \in Nat
      BY <3>1, FS_CardinalityType
    <3>. QED BY <1>1, <3>1, <3>2
  <2>4. made' = made \cup {nest'[Len(nest) + 1].mod} /\ seek' = NoName
    BY <1>1, <1>5, <2>3
  <2>5. \A i \in 1..Len(nest) : i = Len(nest) => seek = r.name /\ seek # NoName
    BY <2>3
  <2>. QED BY <1>5, <2>2, <2>3, <2>4, <2>5, OpenLinks
<1>. QED BY <1>2, <1>3, <1>4, <1>5 DEF Serve

\* The innermost file asks for its next use: it has all those before.
LEMMA UseLinks == ASSUME LInv, Use PROVE Links'
<1>. USE DEF LInv, IInv, Links
<1>. DEFINE k == Len(nest)
            e == [nest[k] EXCEPT !.used = @ + 1]
<1>1. /\ pc[Mgr] = "work" /\ seek = NoName /\ nest # <<>>
      /\ seek' = Uses[nest[k].mod.file][nest[k].used + 1] /\ nest' = [nest EXCEPT ![k] = e]
      /\ UNCHANGED <<pc, cache, made, binds>>
  BY DEF Use, Innermost, Wanted
<1>2. k \in 1..k /\ nest[k] \in Frames
  <2>1. k \in Nat \ {0}
    BY <1>1, EmptySeq DEF ManagerTyped
  <2>2. k \in 1..k
    BY <2>1
  <2>. QED BY <2>2, ElementOfSeq DEF ManagerTyped
<1>3. e \in Frames /\ e.mod = nest[k].mod /\ e.used = nest[k].used + 1 /\ nest[k].used \in Nat
  BY <1>2 DEF Frames
<1>. HIDE DEF e
<1>4. /\ Len(nest') = k
      /\ \A i \in 1..k : nest'[i] = IF i = k THEN e ELSE nest[i]
  BY <1>1, <1>2, <1>3, ExceptSeq DEF ManagerTyped
<1>5. \A i \in 1..k : nest'[i].mod = nest[i].mod
  BY <1>3, <1>4
<1>6. seek' \in Names /\ seek' # NoName
  <2>1. nest[k].mod.file \in Files
    BY <1>2 DEF ManagerTyped
  <2>2. Uses[nest[k].mod.file] \in Seq(Names) /\ NoName \notin Names
    BY <2>1, ModuleAssumption
  <2>3. nest[k].used + 1 \in 1..Len(Uses[nest[k].mod.file])
    BY <1>3, <2>2 DEF Use, Innermost
  <2>. QED BY <1>1, <2>2, <2>3, ElementOfSeq
<1>7. Chain'
  <2>1. ASSUME NEW i \in 1..k, NEW j \in 1..nest'[i].used, HasUse(i, j)'
        PROVE  Bound(binds', nest'[i].mod, Uses[nest'[i].mod.file][j])
    <3>1. j \in 1..nest[i].used /\ HasUse(i, j)
      <4>1. CASE i = k
        <5>1. seek' # NoName => j < nest[k].used + 1
          BY <1>3, <1>4, <2>1, <4>1 DEF HasUse
        <5>2. seek' # NoName
          BY <1>1, <1>6
        <5>. QED BY <1>1, <1>2, <1>3, <4>1, <5>1, <5>2 DEF HasUse
      <4>2. CASE i # k
        <5>1. nest'[i] = nest[i] /\ i < k
          BY <1>2, <1>4, <4>2
        <5>. QED BY <1>4, <2>1, <5>1 DEF HasUse
      <4>. QED BY <4>1, <4>2
    <3>2. Bound(binds, nest[i].mod, Uses[nest[i].mod.file][j])
      BY <3>1 DEF Chain
    <3>. QED BY <1>1, <1>5, <3>2
  <2>2. ASSUME NEW i \in 1..k, i < k
        PROVE  /\ nest'[i].used > 0
               /\ nest'[i + 1].mod.name = Uses[nest'[i].mod.file][nest'[i].used]
    <3>1. i + 1 \in 1..k /\ nest'[i] = nest[i]
      BY <1>2, <1>4, <2>2
    <3>. QED BY <1>5, <2>2, <3>1 DEF Chain
  <2>3. nest'[k].used > 0 /\ seek' = Uses[nest'[k].mod.file][nest'[k].used]
    BY <1>1, <1>2, <1>3, <1>4
  <2>4. pc'[Mgr] = "work"
    BY <1>1
  <2>. QED BY <1>4, <2>1, <2>2, <2>3, <2>4 DEF Chain
<1>8. Unfinished'
  <2>1. Len(nest') = Len(nest) /\ cache' = cache /\ binds' = binds
    BY <1>1, <1>4
  <2>2. ASSUME NEW i \in 1..Len(nest)
        PROVE  /\ \A j \in 1..Len(nest) : nest'[i].mod = nest'[j].mod => i = j
               /\ \A y \in Names : cache[y] # nest'[i].mod
               /\ \A b \in DOMAIN binds : binds[b] # nest'[i].mod
    BY <1>5 DEF Unfinished
  <2>. QED BY <2>1, <2>2 DEF Unfinished
<1>9. Finished'
  BY <1>1 DEF Finished
<1>. QED BY <1>7, <1>8, <1>9

\* A sequence without its last item.
LEMMA Pops ==
  ASSUME NEW S, NEW s \in Seq(S), Len(s) \in Nat \ {0}
  PROVE  LET outer == SubSeq(s, 1, Len(s) - 1) IN
         /\ Len(outer) = Len(s) - 1 /\ (outer = <<>> <=> Len(s) = 1)
         /\ \A i \in 1..(Len(s) - 1) : outer[i] = s[i]
<1>. DEFINE h == Len(s) - 1
            outer == SubSeq(s, 1, h)
<1>1. h \in Nat /\ \A i \in 1..h : s[i] \in S
  BY ElementOfSeq
<1>2. (h = 0 <=> Len(s) = 1) /\ h - 1 + 1 = h
  BY <1>1
<1>. HIDE DEF h
<1>3. outer \in Seq(S) /\ Len(outer) = IF 1 <= h THEN h - 1 + 1 ELSE 0
  BY <1>1, SubSeqProperties
<1>4. \A i \in 1..h : outer[i] = s[i]
  <2>1. \A i \in 1..(h - 1 + 1) : outer[i] = s[1 + i - 1]
    BY <1>1, SubSeqProperties
  <2>. QED BY <1>1, <1>2, <2>1
<1>5. Len(outer) = h
  BY <1>1, <1>2, <1>3
<1>6. outer = <<>> <=> Len(s) = 1
  BY <1>1, <1>2, <1>3, <1>5, EmptySeq
<1>. QED BY <1>4, <1>5, <1>6 DEF h

\* A finished file has all it uses; its module is cached, and bound where it was wanted.
LEMMA CompiledLinks == ASSUME LInv, Compiled PROVE Links'
<1>. USE DEF LInv, IInv, Links
<1>. DEFINE k == Len(nest)
            m == nest[k].mod
            outer == SubSeq(nest, 1, k - 1)
<1>1. /\ pc[Mgr] = "work" /\ seek = NoName /\ nest # <<>> /\ nest[k].used = Len(Uses[m.file])
      /\ cache' = [cache EXCEPT ![m.name] = m] /\ nest' = outer
      /\ IF outer = <<>> THEN UNCHANGED binds
         ELSE binds' = Bind(binds, outer[Len(outer)].mod, m.name, m)
      /\ UNCHANGED <<seek, made>>
  BY DEF Compiled, Innermost, Keep
<1>2. k \in 1..k /\ k \in Nat \ {0} /\ m \in made /\ m.name \in Names
  <2>1. k \in Nat \ {0}
    BY <1>1, EmptySeq DEF ManagerTyped
  <2>2. k \in 1..k
    BY <2>1
  <2>3. m \in AllModules /\ m \in made
    BY <2>2, MadeAre DEF ManagerTyped
  <2>. QED BY <2>1, <2>2, <2>3, ModuleIs DEF AllModules
<1>3. /\ Len(outer) = k - 1 /\ (outer = <<>> <=> k = 1)
      /\ \A i \in 1..(k - 1) : outer[i] = nest[i]
  BY <1>2, Pops DEF ManagerTyped
<1>4. cache'[m.name] = m /\ \A y \in Names \ {m.name} : cache'[y] = cache[y]
  BY <1>1, <1>2 DEF ManagerTyped
<1>. HIDE DEF outer
<1>5. \A j \in 1..Len(Uses[m.file]) : Bound(binds, m, Uses[m.file][j])
  BY <1>1, <1>2 DEF Chain, HasUse
<1>6. /\ \A a, u : Bound(binds, a, u) => Bound(binds', a, u)
      /\ \A b \in DOMAIN binds' : \/ binds'[b] = m
                                  \/ b \in DOMAIN binds /\ binds'[b] = binds[b]
      /\ outer # <<>> => Bound(binds', nest[k - 1].mod, m.name)
  <2>1. CASE outer = <<>>
    BY <1>1, <2>1
  <2>2. CASE outer # <<>>
    <3>. DEFINE w == outer[Len(outer)].mod
    <3>1. w = nest[k - 1].mod
      BY <1>2, <1>3, <2>2
    <3>2. binds' = Bind(binds, w, m.name, m)
      BY <1>1, <2>2
    <3>. HIDE DEF w
    <3>3. /\ Bound(binds', w, m.name)
          /\ \A a, u : Bound(binds, a, u) => Bound(binds', a, u)
          /\ \A b \in DOMAIN binds' : \/ binds'[b] = m
                                      \/ b \in DOMAIN binds /\ binds'[b] = binds[b]
      BY <3>2, BindBinds
    <3>. QED BY <3>1, <3>3
  <2>. QED BY <2>1, <2>2
<1>7. Chain'
  <2>1. ASSUME NEW i \in 1..(k - 1), NEW j \in 1..nest[i].used, i < k - 1 => j < nest[i].used
        PROVE  Bound(binds', nest[i].mod, Uses[nest[i].mod.file][j])
    <3>1. i \in 1..k /\ i < k /\ nest[i] \in Frames
      BY <1>2, ElementOfSeq DEF ManagerTyped
    <3>2. nest[i].used \in Nat
      BY <3>1 DEF Frames
    <3>3. CASE j < nest[i].used
      BY <1>6, <3>1, <3>3 DEF Chain, HasUse
    <3>4. CASE j = nest[i].used
      <4>1. i = k - 1
        BY <1>2, <2>1, <3>4
      <4>2. m.name = Uses[nest[i].mod.file][j]
        BY <1>2, <3>1, <3>4, <4>1 DEF Chain
      <4>3. outer # <<>>
        BY <1>2, <1>3, <3>1, <4>1
      <4>. QED BY <1>6, <4>1, <4>2, <4>3
    <3>. QED BY <3>2, <3>3, <3>4
  <2>2. ASSUME NEW i \in 1..(k - 1), i < k - 1
        PROVE  nest[i].used > 0 /\ nest[i + 1].mod.name = Uses[nest[i].mod.file][nest[i].used]
    BY <1>2, <2>2 DEF Chain
  <2>3. /\ Len(nest') = k - 1 /\ \A i \in 1..(k - 1) : nest'[i] = nest[i]
        /\ \A i \in 1..(k - 1) : i < k - 1 => nest'[i + 1] = nest[i + 1]
    BY <1>1, <1>2, <1>3
  <2>4. seek' = NoName
    BY <1>1
  <2>. QED BY <2>1, <2>2, <2>3, <2>4 DEF Chain, HasUse
<1>8. Unfinished'
  <2>1. ASSUME NEW i \in 1..(k - 1)
        PROVE  /\ \A j \in 1..(k - 1) : nest[i].mod = nest[j].mod => i = j
               /\ \A y \in Names : cache[y] # nest[i].mod
               /\ \A b \in DOMAIN binds : binds[b] # nest[i].mod
               /\ m # nest[i].mod
    <3>1. i \in 1..k /\ i # k /\ 1..(k - 1) \subseteq 1..k
      BY <1>2
    <3>. QED BY <1>2, <3>1 DEF Unfinished
  <2>2. Len(nest') = k - 1 /\ \A i \in 1..(k - 1) : nest'[i] = nest[i]
    BY <1>1, <1>3
  <2>3. \A y \in Names : cache'[y] \in {m, cache[y]}
    BY <1>4
  <2>. QED BY <1>6, <2>1, <2>2, <2>3 DEF Unfinished
<1>9. Finished'
  <2>1. ASSUME NEW y \in Names
        PROVE  /\ cache'[y] # NoModule => cache'[y].name = y
               /\ cache'[y] \in made =>
                    \A j \in 1..Len(Uses[cache'[y].file]) :
                      Bound(binds', cache'[y], Uses[cache'[y].file][j])
    <3>1. CASE y = m.name
      BY <1>4, <1>5, <1>6, <3>1
    <3>2. CASE y # m.name
      BY <1>4, <1>6, <3>2 DEF Finished
    <3>. QED BY <3>1, <3>2
  <2>. QED BY <1>1, <2>1 DEF Finished
<1>. QED BY <1>7, <1>8, <1>9

\* The other steps of the manager change neither the files nor the cache.
LEMMA RestLinks ==
  ASSUME LInv, Prepare \/ Fail \/ FoundMalformed \/ Reply \/ Free \/ Done
  PROVE  Links'
<1>. USE DEF LInv, IInv
<1>1. pc \in [Tasks -> Points]
  BY DEF TasksTyped
<1>2. CASE Reply
  <2>1. pc[Mgr] # "work" /\ UNCHANGED <<seek, nest, cache, made, binds>>
    BY <1>2 DEF Reply
  <2>2. Chain' /\ Unfinished' /\ Finished'
    BY <2>1 DEF Links, Chain, Unfinished, Finished, HasUse
  <2>. QED BY <2>2 DEF Links
<1>3. CASE Prepare \/ Fail \/ FoundMalformed \/ Free \/ Done
  <2>1. UNCHANGED manager /\ (pc[Mgr] # "work" \/ seek = NoName)
    BY <1>3 DEF Prepare, Fail, FoundMalformed, Free, Done, Stop
  <2>. QED BY <2>1, LinksKept
<1>. QED BY <1>2, <1>3

-----------------------------------------------------------------------------
LEMMA LInvInit == ASSUME Init PROVE LInv
<1>1. Links
  BY EmptySeq, Apart DEF Init, Links, Chain, Unfinished, Finished
<1>. QED BY <1>1, InitInv DEF LInv

LEMMA LInvNext == ASSUME LInv, [Next]_vars PROVE LInv'
<1>1. SUFFICES Links'
  BY NextInv DEF LInv
<1>2. CASE ManagerStep
  BY <1>2, ServeLinks, LoadLinks, UseLinks, CompiledLinks, RestLinks DEF ManagerStep
<1>3. CASE MainStep \/ \E t \in Programs : ClientStep(t) \/ ProgramStep(t)
  BY <1>3, OthersKeepLinks
<1>4. CASE UNCHANGED vars
  BY <1>4, LinksKept DEF LInv, Links, Chain, vars
<1>. QED BY <1>2, <1>3, <1>4 DEF Next

\* Whatever the files use, a module in the cache has for each name it uses a module of that name
\* in its locals, and never one that is still being compiled.
THEOREM CachedAreLinked == Spec => []Linked
<1>1. Init => LInv
  BY LInvInit
<1>2. LInv /\ [Next]_vars => LInv'
  BY LInvNext
<1>3. ASSUME LInv PROVE Linked
  <2>. USE <1>3 DEF LInv, IInv, Links
  <2>1. SUFFICES ASSUME NEW n \in Names, cache[n] \in made
        PROVE  /\ cache[n].name = n
               /\ \A i \in DOMAIN Uses[cache[n].file] :
                    LET u == Uses[cache[n].file][i] IN
                    /\ <<cache[n], u>> \in DOMAIN binds
                    /\ binds[<<cache[n], u>>].name = u
                    /\ \A j \in DOMAIN nest : nest[j].mod # binds[<<cache[n], u>>]
    BY DEF Linked
  <2>2. cache[n] # NoModule /\ cache[n].file \in Files
    <3>1. PICK i \in 1..Cardinality(made), y \in Names, g \in Files : cache[n] = ModuleOf(i, y, g)
      BY <2>1 DEF ManagerTyped, UpTo
    <3>2. cache[n] \in Modules
      BY <2>1 DEF Modules
    <3>. QED BY <3>1, <3>2, ModuleIs, MadeAre, ModulesAre
  <2>3. DOMAIN Uses[cache[n].file] = 1..Len(Uses[cache[n].file]) /\ DOMAIN nest = 1..Len(nest)
    BY <2>2, ModuleAssumption, LenProperties DEF ManagerTyped
  <2>4. ASSUME NEW i \in DOMAIN Uses[cache[n].file]
        PROVE  Bound(binds, cache[n], Uses[cache[n].file][i])
    BY <2>1, <2>3, <2>4 DEF Finished
  <2>. QED BY <2>1, <2>2, <2>3, <2>4 DEF Bound, Finished, Unfinished
<1>. QED BY <1>1, <1>2, <1>3, PTL DEF Spec
-----------------------------------------------------------------------------
(* Names and circles.                                                      *)

\* A file the program names is one its compile () names.
Named(n, f) == f # NoFile => <<n, f>> \in Requests

Calls ==
  /\ \A t \in Programs : Named(asked[t][1], asked[t][2])
  /\ inbox[Mgr] \in Asks => Named(inbox[Mgr].name, inbox[Mgr].file)
  /\ job \in Asks => Named(job.name, job.file)

\* A module of the path is its own file.
OfPath(m) == m.file = m.name /\ m.name \in InPath

\* The outermost file is that of the request; the others are of the path, and each has a name
\* all those around it lead to.
Path ==
  /\ pc[Mgr] = "work" /\ nest = <<>> => job.file = NoFile
  /\ nest # <<>> => job \in Asks /\ nest[1].mod.name = job.name
  /\ \A i \in 1..Len(nest) :
       IF i = 1 /\ job.file # NoFile THEN nest[i].mod.file = job.file ELSE OfPath(nest[i].mod)
  /\ \A i, j \in 1..Len(nest) : i < j => nest[j].mod.name \in LeadsTo[nest[i].mod.file]

\* A name with which a module meets another of its own.
Meets(n) == n \in Circular \/ \E r \in Requests : r[1] = n /\ n \in LeadsTo[r[2]]

\* The modules there are.
Bindings == { binds[k] : k \in DOMAIN binds }
There == made \cup Bindings \cup { cache[n] : n \in Names }

\* A name there is a module of is cached or being compiled.
Known(n) == Cached(n) \/ \E i \in 1..Len(nest) : nest[i].mod.name = n
Present == \A x \in There : x # NoModule => Known(x.name)

Alone == \A m, x \in There : m # x /\ NoModule \notin {m, x} /\ m.name = x.name => Meets(m.name)

Origin == Calls /\ Path /\ Present /\ Alone /\ OverflowsOnlyInCircles

OInv == LInv /\ Origin
\* What a file uses it leads to, and with a file of the path what that one uses.
LEMMA Leads ==
  ASSUME NEW f \in Files
  PROVE  /\ \A i \in 1..Len(Uses[f]) : Uses[f][i] \in LeadsTo[f]
         /\ \A n \in LeadsTo[f] \cap InPath : \A i \in 1..Len(Uses[n]) : Uses[n][i] \in LeadsTo[f]
<1>1. \A g \in Files : Uses[g] \in Seq(Names) /\ DOMAIN Uses[g] = 1..Len(Uses[g])
  BY ModuleAssumption, LenProperties
<1>2. \A g \in Files : \A i \in 1..Len(Uses[g]) : Uses[g][i] \in Names
  BY <1>1, ElementOfSeq
<1>3. InPath \subseteq Files
  BY ModuleAssumption
<1>4. \A n \in Names : n \in LeadsTo[f] <=>
        \A S \in SUBSET Names : UsedBy({f}) \subseteq S /\ UsedBy(S \cap InPath) \subseteq S => n \in S
  BY DEF LeadsTo
<1>5. LeadsTo[f] \subseteq Names
  BY DEF LeadsTo
<1>6. ASSUME NEW F, NEW g \in F \cap Files, NEW i \in 1..Len(Uses[g]) PROVE Uses[g][i] \in UsedBy(F)
  BY <1>1 DEF UsedBy
<1>7. ASSUME NEW i \in 1..Len(Uses[f]) PROVE Uses[f][i] \in LeadsTo[f]
  <2>1. Uses[f][i] \in UsedBy({f})
    BY <1>6
  <2>. QED BY <1>2, <1>4, <2>1
<1>8. ASSUME NEW n \in LeadsTo[f] \cap InPath, NEW i \in 1..Len(Uses[n]) PROVE Uses[n][i] \in LeadsTo[f]
  <2>1. ASSUME NEW S \in SUBSET Names, UsedBy({f}) \subseteq S, UsedBy(S \cap InPath) \subseteq S
        PROVE  Uses[n][i] \in S
    <3>1. n \in S
      BY <1>4, <1>5, <2>1
    <3>2. n \in (S \cap InPath) \cap Files
      BY <1>3, <3>1
    <3>3. Uses[n][i] \in UsedBy(S \cap InPath)
      BY <1>6, <3>2
    <3>. QED BY <2>1, <3>3
  <2>2. Uses[n][i] \in Names
    BY <1>2, <1>3
  <2>. QED BY <1>4, <2>1, <2>2
<1>. QED BY <1>7, <1>8

\* Every file being compiled leads to the name that is being loaded.
LEMMA AllLead ==
  ASSUME OInv, seek # NoName, NEW i \in 1..Len(nest)
  PROVE  seek \in LeadsTo[nest[i].mod.file]
<1>. USE DEF OInv, LInv, IInv, Links, Origin
<1>. DEFINE c == Len(nest)
            f == nest[c].mod.file
            u == nest[c].used
<1>1. c \in Nat /\ c \in 1..c /\ nest[c] \in Frames
  <2>1. c \in Nat
    BY DEF ManagerTyped
  <2>2. c \in 1..c
    BY <2>1
  <2>. QED BY <2>1, <2>2, ElementOfSeq DEF ManagerTyped
<1>2. f \in Files /\ nest[i].mod.file \in Files
  BY <1>1 DEF ManagerTyped
<1>3. u > 0 /\ seek = Uses[f][u]
  BY <1>1 DEF Chain
<1>4. u \in 1..Len(Uses[f])
  <2>1. u \in Nat /\ u <= Len(Uses[f])
    BY <1>1 DEF Frames, ManagerTyped
  <2>2. Len(Uses[f]) \in Nat
    BY <1>2, ModuleAssumption, LenProperties
  <2>. QED BY <1>3, <2>1, <2>2
<1>5. CASE i = c
  BY <1>2, <1>3, <1>4, <1>5, Leads
<1>6. CASE i # c
  <2>1. i < c /\ ~(c = 1)
    BY <1>1, <1>6
  <2>2. nest[c].mod.name \in LeadsTo[nest[i].mod.file]
    BY <1>1, <2>1 DEF Path
  <2>3. f = nest[c].mod.name /\ f \in InPath
    BY <1>1, <2>1 DEF Path, OfPath
  <2>4. f \in LeadsTo[nest[i].mod.file] \cap InPath
    BY <2>2, <2>3
  <2>. HIDE DEF f, u
  <2>. QED BY <1>2, <1>3, <1>4, <2>4, Leads
<1>. QED BY <1>5, <1>6

\* A name that is loaded while it is compiled meets a module of its own.
LEMMA Again ==
  ASSUME OInv, seek # NoName, NEW i \in 1..Len(nest), nest[i].mod.name = seek
  PROVE  Meets(seek) /\ (i > 1 \/ job.file = NoFile => seek \in Circular)
<1>. USE DEF OInv, LInv, IInv, Links, Origin
<1>. DEFINE m == nest[i].mod
<1>1. seek \in LeadsTo[m.file] /\ i \in Nat
  BY AllLead
<1>2. CASE i = 1 /\ job.file # NoFile
  <2>1. job \in Asks /\ m.name = job.name /\ m.file = job.file
    BY <1>2, EmptySeq DEF Path, ManagerTyped
  <2>2. <<job.name, job.file>> \in Requests
    BY <1>2, <2>1 DEF Calls, Named
  <2>3. seek = <<job.name, job.file>>[1] /\ seek \in LeadsTo[<<job.name, job.file>>[2]]
    BY <1>1, <2>1
  <2>4. Meets(seek)
    BY <2>2, <2>3 DEF Meets
  <2>. QED BY <1>2, <2>4
<1>3. CASE ~(i = 1 /\ job.file # NoFile)
  <2>1. m.file = seek /\ seek \in InPath
    BY <1>3 DEF Path, OfPath
  <2>2. seek \in LeadsTo[seek]
    BY <1>1, <2>1
  <2>3. seek \in Circular
    BY <2>1, <2>2 DEF Circular
  <2>. QED BY <2>3 DEF Meets
<1>. QED BY <1>2, <1>3

\* The files inside each other are more than those of the path: two of them are one file.
LEMMA FullNest ==
  ASSUME OInv, seek # NoName, seek \in InPath, Len(nest) = Depth
  PROVE  IF job.file = NoFile THEN job.name \in InPath /\ LeadsTo[job.name] \cap Circular # {}
         ELSE LeadsTo[job.file] \cap Circular # {}
<1>. USE DEF OInv, LInv, IInv, Links, Origin
<1>1. IsFiniteSet(InPath) /\ Cardinality(InPath) \in Nat /\ Depth \in Nat /\ Depth > Cardinality(InPath) + 1
  BY ModuleAssumption, FS_CardinalityType
<1>2. IsFiniteSet(2..Depth) /\ Cardinality(2..Depth) > Cardinality(InPath)
  <2>1. IsFiniteSet(2..Depth) /\ Cardinality(2..Depth) = IF 2 > Depth THEN 0 ELSE Depth - 2 + 1
    BY <1>1, FS_Interval
  <2>. QED BY <1>1, <2>1
<1>3. \A i \in 2..Depth : i \in 1..Len(nest) /\ OfPath(nest[i].mod) /\ i > 1
  <2>1. ASSUME NEW i \in 2..Depth PROVE i \in 1..Len(nest) /\ i # 1 /\ i > 1
    BY <1>1
  <2>. QED BY <2>1 DEF Path
<1>. DEFINE name == [i \in 2..Depth |-> nest[i].mod.name]
<1>4. name \in [2..Depth -> InPath]
  BY <1>3 DEF OfPath
<1>5. PICK i, j \in 2..Depth : i # j /\ name[i] = name[j]
  <2>. HIDE DEF name
  <2>. QED BY <1>1, <1>2, <1>4, FS_PigeonHole
<1>6. PICK a, b \in 2..Depth : a < b /\ nest[a].mod.name = nest[b].mod.name
  <2>1. CASE i < j
    BY <1>5, <2>1
  <2>2. CASE j < i
    BY <1>5, <2>2
  <2>. QED BY <1>1, <1>5, <2>1, <2>2
<1>. DEFINE n == nest[b].mod.name
<1>7. n \in Circular
  <2>1. n \in LeadsTo[nest[a].mod.file]
    BY <1>3, <1>6 DEF Path
  <2>2. nest[a].mod.file = n /\ n \in InPath
    BY <1>3, <1>6 DEF OfPath
  <2>. QED BY <2>1, <2>2 DEF Circular
<1>8. n \in LeadsTo[nest[1].mod.file]
  <2>1. 1 \in 1..Len(nest) /\ b \in 1..Len(nest) /\ 1 < b
    BY <1>1, <1>3
  <2>. QED BY <2>1 DEF Path
<1>9. nest # <<>> /\ 1 \in 1..Len(nest)
  BY <1>1, EmptySeq DEF ManagerTyped
<1>10. nest[1].mod.name = job.name
  BY <1>9 DEF Path
<1>11. CASE job.file = NoFile
  <2>1. nest[1].mod.file = job.name /\ job.name \in InPath
    BY <1>9, <1>10, <1>11 DEF Path, OfPath
  <2>. QED BY <1>7, <1>8, <1>11, <2>1
<1>12. CASE job.file # NoFile
  <2>1. nest[1].mod.file = job.file
    BY <1>9, <1>12 DEF Path
  <2>. QED BY <1>7, <1>8, <1>12, <2>1
<1>. QED BY <1>11, <1>12
-----------------------------------------------------------------------------
(* What a step does to the modules there are.                              *)

LEMMA CallsKept ==
  ASSUME Calls, UNCHANGED asked, inbox'[Mgr] = inbox[Mgr] \/ inbox'[Mgr] \notin Asks,
         job' = job \/ job' \notin Asks
  PROVE  Calls'
BY DEF Calls, Named

\* A step that leaves the manager's work alone.
LEMMA OriginKept ==
  ASSUME OInv, UNCHANGED manager, pc'[Mgr] = "work" => pc[Mgr] = "work", Calls',
         stopped' = stopped \/ stopped' # "stack overflow"
  PROVE  Origin'
<1>1. /\ job' = job /\ seek' = seek /\ nest' = nest /\ cache' = cache /\ made' = made
      /\ binds' = binds
  BY DEF manager
<1>2. Path'
  BY <1>1 DEF OInv, Origin, Path, OfPath
<1>3. There' = There /\ \A n : Known(n)' <=> Known(n)
  BY <1>1 DEF There, Bindings, Known, Cached
<1>4. Present' /\ Alone'
  BY <1>3 DEF OInv, Origin, Present, Alone, Meets
<1>5. OverflowsOnlyInCircles'
  BY <1>1 DEF OInv, Origin, OverflowsOnlyInCircles
<1>. QED BY <1>2, <1>4, <1>5 DEF Origin

\* One module is added to those there are, and what was known stays known: it meets another of
\* its name only where that is being compiled around it.
LEMMA OneMore ==
  ASSUME OInv, NEW x, NEW n, x.name = n, There' \subseteq There \cup {x},
         \A z : Known(z) => Known(z)', Known(n)',
         x \in There \/ (Known(n) => Meets(n))
  PROVE  Present' /\ Alone'
<1>1. Present'
  <2>1. ASSUME NEW y \in There', y # NoModule PROVE Known(y.name)'
    <3>1. CASE y = x
      BY <3>1
    <3>2. CASE y \in There
      BY <2>1, <3>2 DEF OInv, Origin, Present
    <3>. QED BY <3>1, <3>2
  <2>. QED BY <2>1 DEF Present
<1>2. ASSUME NEW y \in There, y # NoModule, y.name = n, x \notin There PROVE Meets(n)
  <2>1. Known(n)
    BY <1>2 DEF OInv, Origin, Present
  <2>. QED BY <1>2, <2>1
<1>3. \A z : Meets(z)' <=> Meets(z)
  BY DEF Meets
<1>4. ASSUME NEW y \in There', NEW z \in There', y # z, NoModule \notin {y, z}, y.name = z.name
      PROVE  Meets(y.name)
  <2>1. CASE y \in There /\ z \in There
    BY <1>4, <2>1 DEF OInv, Origin, Alone
  <2>2. CASE y \notin There
    <3>1. y = x /\ z \in There
      BY <1>4, <2>2
    <3>. QED BY <1>2, <1>4, <2>2, <3>1
  <2>3. CASE z \notin There
    <3>1. z = x /\ y \in There
      BY <1>4, <2>3
    <3>. QED BY <1>2, <1>4, <2>3, <3>1
  <2>. QED BY <2>1, <2>2, <2>3
<1>5. Alone'
  BY <1>3, <1>4 DEF Alone
<1>. QED BY <1>1, <1>5

\* A file is opened for a request, or for a use of the innermost file.
LEMMA OpenOrigin ==
  ASSUME OInv, NEW n \in Names, NEW f \in Files, Len(nest) < Depth, ~Cached(n),
         Open(n, f), made' = made \cup {nest'[Len(nest) + 1].mod},
         UNCHANGED <<cache, binds>>, Calls', stopped' = "no", job' \in Asks,
         \/ /\ nest = <<>> /\ job'.name = n
            /\ IF job'.file = NoFile THEN f = n /\ n \in InPath ELSE f = job'.file
         \/ nest # <<>> /\ job' = job /\ seek = n /\ n # NoName /\ f = n /\ n \in InPath
  PROVE  Origin'
<1>. USE DEF OInv, LInv, IInv, Origin
<1>. DEFINE c == Len(nest)
            m == ModuleOf(Cardinality(made) + 1, n, f)
<1>1. /\ nest' \in Seq(Frames) /\ Len(nest') = c + 1
      /\ \A i \in 1..c : nest'[i] = nest[i]
  BY Opens
<1>2. c \in Nat /\ nest'[c + 1] = [mod |-> m, used |-> 0] /\ (nest = <<>> <=> c = 0)
  BY EmptySeq DEF ManagerTyped, Open
<1>3. nest'[c + 1].mod = m
  BY <1>2
<1>4. m.name = n /\ m.file = f
  BY ModuleIs
<1>. HIDE DEF m
<1>5. nest' # <<>>
  BY <1>1, <1>2, EmptySeq
<1>6. Path'
  <2>1. nest'[1].mod.name = job'.name
    <3>1. CASE nest = <<>>
      BY <1>2, <1>3, <1>4, <3>1
    <3>2. CASE nest # <<>>
      BY <1>1, <1>2, <3>2 DEF Path
    <3>. QED BY <3>1, <3>2
  <2>2. ASSUME NEW i \in 1..(c + 1)
        PROVE  IF i = 1 /\ job'.file # NoFile THEN nest'[i].mod.file = job'.file
               ELSE OfPath(nest'[i].mod)
    <3>1. CASE i \in 1..c
      <4>1. job' = job /\ nest'[i] = nest[i]
        BY <1>1, <1>2, <3>1
      <4>. QED BY <3>1, <4>1 DEF Path, OfPath
    <3>2. CASE i = c + 1
      BY <1>2, <1>3, <1>4, <3>2 DEF OfPath
    <3>. QED BY <1>2, <3>1, <3>2
  <2>3. ASSUME NEW i \in 1..(c + 1), NEW j \in 1..(c + 1), i < j
        PROVE  nest'[j].mod.name \in LeadsTo[nest'[i].mod.file]
    <3>1. i \in 1..c /\ nest'[i] = nest[i] /\ nest # <<>>
      BY <1>1, <1>2, <2>3
    <3>2. CASE j \in 1..c
      BY <1>1, <2>3, <3>1, <3>2 DEF Path
    <3>3. CASE j = c + 1
      <4>1. seek = n /\ seek # NoName
        BY <3>1
      <4>2. seek \in LeadsTo[nest[i].mod.file]
        BY <3>1, <4>1, AllLead
      <4>. QED BY <1>3, <1>4, <3>1, <3>3, <4>1, <4>2
    <3>. QED BY <1>2, <3>2, <3>3
  <2>. QED BY <1>1, <1>5, <2>1, <2>2, <2>3 DEF Path, OfPath
<1>7. There' \subseteq There \cup {m}
  BY <1>3 DEF There, Bindings
<1>8. \A z : Known(z) => Known(z)'
  BY <1>1, <1>2 DEF Known, Cached
<1>9. Known(n)'
  <2>1. c + 1 \in 1..Len(nest') /\ nest'[c + 1].mod.name = n
    BY <1>1, <1>2, <1>3, <1>4
  <2>. QED BY <2>1 DEF Known
<1>10. ASSUME Known(n) PROVE Meets(n)
  <2>1. PICK i \in 1..c : nest[i].mod.name = n
    BY <1>10 DEF Known
  <2>2. seek = n /\ seek # NoName
    BY <1>2, <2>1
  <2>. QED BY <2>1, <2>2, Again
<1>11. Present' /\ Alone'
  BY <1>4, <1>7, <1>8, <1>9, <1>10, OneMore
<1>12. OverflowsOnlyInCircles'
  BY DEF OverflowsOnlyInCircles
<1>. QED BY <1>6, <1>11, <1>12

\* A finished module is given to the innermost file, or to who asked.
LEMMA GiveOrigin ==
  ASSUME OInv, pc[Mgr] = "work", seek # NoName, NEW x, x # NoModule, x.name = seek,
         \/ UNCHANGED binds
         \/ binds' = Bind(binds, Innermost.mod, seek, x),
         UNCHANGED <<nest, made, job>>, cache' = [cache EXCEPT ![seek] = x],
         x \in There \/ ~Cached(seek),
         pc'[Mgr] = "work" => pc[Mgr] = "work", Calls', stopped' = "no"
  PROVE  Origin'
<1>. USE DEF OInv, LInv, IInv, Origin
<1>1. seek \in Names /\ cache'[seek] = x /\ \A y \in Names \ {seek} : cache'[y] = cache[y]
  BY DEF ManagerTyped
<1>2. Path'
  BY DEF Path, OfPath
<1>3. \A k \in DOMAIN binds' : binds'[k] = x \/ (k \in DOMAIN binds /\ binds'[k] = binds[k])
  <2>1. CASE UNCHANGED binds
    BY <2>1
  <2>2. CASE binds' = Bind(binds, Innermost.mod, seek, x)
    BY <2>2 DEF Bind
  <2>. QED BY <2>1, <2>2
<1>4. There' \subseteq There \cup {x}
  <2>1. Bindings' \subseteq Bindings \cup {x}
    BY <1>3 DEF Bindings
  <2>2. \A y \in Names : cache'[y] \in There \cup {x}
    BY <1>1 DEF There
  <2>. QED BY <2>1, <2>2 DEF There
<1>5. \A z : Known(z) => Known(z)'
  <2>1. ASSUME NEW z, Cached(z) PROVE Cached(z)'
    <3>1. CASE z = seek
      BY <1>1, <3>1 DEF Cached
    <3>2. CASE z # seek
      <4>1. cache'[z] = cache[z]
        BY <3>2 DEF ManagerTyped
      <4>. QED BY <2>1, <4>1 DEF Cached
    <3>. QED BY <3>1, <3>2
  <2>. QED BY <2>1 DEF Known
<1>6. \A n : n = seek => Known(n)'
  BY <1>1 DEF Known, Cached
<1>7. ASSUME Known(seek), ~Cached(seek) PROVE Meets(seek)
  BY <1>7, Again DEF Known
<1>8. Present' /\ Alone'
  <2>1. x \in There \/ (Known(seek) => Meets(seek))
    BY <1>7
  <2>2. PICK n : n = seek
    OBVIOUS
  <2>3. Known(n)' /\ x.name = n /\ (x \in There \/ (Known(n) => Meets(n)))
    BY <1>6, <2>1, <2>2
  <2>. QED BY <1>4, <1>5, <2>3, OneMore
<1>9. OverflowsOnlyInCircles'
  BY DEF OverflowsOnlyInCircles
<1>. QED BY <1>2, <1>8, <1>9
\* The name is cached, a file of the path, or a builtin; or the C stack has ended.
LEMMA LoadOrigin == ASSUME OInv, Load PROVE Origin'
<1>. USE DEF OInv, LInv, IInv, Links, Origin
<1>1. /\ pc[Mgr] = "work" /\ seek # NoName /\ seek \in Names /\ stopped = "no" /\ job \in Asks
      /\ pc \in [Tasks -> Points] /\ pc'[Mgr] \in {"work", "reply"}
  BY Apart DEF Load, ManagerTyped, Running, Work, TasksTyped, Goto, Stop
<1>2. Calls'
  <2>1. UNCHANGED <<asked, inbox, job>>
    BY DEF Load, Stop, manager
  <2>. QED BY <2>1, CallsKept
<1>3. CASE Stop("not found")
  BY <1>1, <1>2, <1>3, OriginKept DEF Stop
<1>4. CASE seek \in InPath /\ Len(nest) = Depth /\ Stop("stack overflow")
  <2>1. Path' /\ Present' /\ Alone' /\ job' = job
    <3>1. /\ job' = job /\ nest' = nest /\ cache' = cache /\ made' = made /\ binds' = binds
          /\ pc' = pc
      BY <1>4 DEF Stop, manager
    <3>2. Path'
      BY <3>1 DEF Path, OfPath
    <3>3. There' = There /\ \A n : Known(n)' <=> Known(n)
      BY <3>1 DEF There, Bindings, Known, Cached
    <3>. QED BY <3>1, <3>2, <3>3 DEF Present, Alone, Meets
  <2>2. IF job.file = NoFile THEN job.name \in InPath /\ LeadsTo[job.name] \cap Circular # {}
        ELSE LeadsTo[job.file] \cap Circular # {}
    BY <1>1, <1>4, FullNest
  <2>3. OverflowsOnlyInCircles'
    BY <2>1, <2>2 DEF OverflowsOnlyInCircles
  <2>. QED BY <1>2, <2>1, <2>3
<1>5. CASE Cached(seek)
  <2>. DEFINE x == cache[seek]
  <2>1. x # NoModule /\ x.name = seek /\ x \in There
    BY <1>1, <1>5 DEF Cached, Finished, There
  <2>2. cache' = [cache EXCEPT ![seek] = x]
    BY <1>5 DEF Load, ManagerTyped
  <2>3. /\ UNCHANGED <<nest, made, job, stopped>>
        /\ UNCHANGED binds \/ binds' = Bind(binds, Innermost.mod, seek, x)
    BY <1>5 DEF Load
  <2>. HIDE DEF x
  <2>. QED BY <1>1, <1>2, <2>1, <2>2, <2>3, GiveOrigin
<1>6. CASE ~Cached(seek) /\ seek \in Builtin \ InPath
  <2>. DEFINE x == BuiltinModule(seek)
  <2>1. x.name = seek /\ x # NoModule
    BY ModuleIs DEF BuiltinModule, NoModule
  <2>2. /\ cache' = [cache EXCEPT ![seek] = x] /\ UNCHANGED <<nest, made, job, stopped>>
        /\ UNCHANGED binds \/ binds' = Bind(binds, Innermost.mod, seek, x)
    BY <1>6 DEF Load
  <2>. HIDE DEF x
  <2>. QED BY <1>1, <1>2, <1>6, <2>1, <2>2, GiveOrigin
<1>7. CASE /\ ~Cached(seek) /\ seek \in InPath /\ Len(nest) # Depth /\ Open(seek, seek)
           /\ made' = made \cup {nest'[Len(nest) + 1].mod}
           /\ UNCHANGED <<job, cache, binds, stopped>>
  <2>1. seek \in Files /\ Len(nest) < Depth
    BY <1>7, ModuleAssumption DEF ManagerTyped
  <2>2. nest = <<>> => job'.name = seek /\ job'.file = NoFile
    BY <1>1, <1>7 DEF Path, Work
  <2>3. \A n : n = seek => n \in Names /\ n \in Files /\ ~Cached(n) /\ Open(n, n)
    BY <1>1, <1>7, <2>1
  <2>4. PICK n : n = seek
    OBVIOUS
  <2>. QED BY <1>1, <1>2, <1>7, <2>1, <2>2, <2>3, <2>4, OpenOrigin
<1>. QED BY <1>3, <1>4, <1>5, <1>6, <1>7 DEF Load

\* A request begins with no file open.
LEMMA ServeOrigin == ASSUME OInv, Serve PROVE Origin'
<1>. USE DEF OInv, LInv, IInv, Links, Origin
<1>. DEFINE r == inbox[Mgr]
<1>1. /\ pc[Mgr] = "serve" /\ nest = <<>> /\ pc \in [Tasks -> Points] /\ stopped = "no"
      /\ inbox \in [Tasks -> {Empty, Data, Ready, Args, Exit} \cup Modules \cup Asks]
      /\ asked' = asked
  BY DEF Serve, Work, Stop, TasksTyped, Running
<1>2. Empty \notin Asks
  BY AsksAre
<1>3. CASE Stop("bound twice")
  <2>1. Calls'
    BY <1>3, CallsKept DEF Stop, manager
  <2>. QED BY <1>3, <2>1, OriginKept DEF Stop
<1>4. CASE inbox' = [inbox EXCEPT ![Mgr] = Empty] /\ Goto(Mgr, "free") /\ UNCHANGED manager /\ UNCHANGED stopped
  <2>1. inbox'[Mgr] = Empty /\ pc'[Mgr] = "free" /\ job' = job
    BY <1>1, <1>4, Apart DEF Goto, manager
  <2>2. Calls'
    BY <1>1, <1>2, <2>1, CallsKept
  <2>. QED BY <1>4, <2>1, <2>2, OriginKept
<1>5. CASE /\ r.kind = "ask"
           /\ r.file # NoFile => ~Cached(r.name)
           /\ job' = r /\ inbox' = [inbox EXCEPT ![Mgr] = Empty] /\ Goto(Mgr, "work")
           /\ IF r.file = NoFile THEN UNCHANGED <<nest, made>>
              ELSE Open(r.name, r.file) /\ made' = made \cup {nest'[1].mod}
           /\ UNCHANGED <<cache, binds, stopped>>
  <2>1. r \in Asks
    <3>1. r \in {Empty, Args, Exit} \cup Asks
      BY DEF Mail
    <3>. QED BY <1>5, <3>1, Signals
  <2>2. r.name \in Names /\ r.file \in Files \cup {NoFile}
    BY <2>1, AsksAre
  <2>3. inbox'[Mgr] = Empty /\ job' = r
    BY <1>1, <1>5, Apart
  <2>4. Calls'
    <3>1. Named(r.name, r.file)
      BY <2>1 DEF Calls
    <3>2. Named(job'.name, job'.file)
      BY <2>3, <3>1
    <3>. QED BY <1>1, <1>2, <2>3, <3>2 DEF Calls, Named
  <2>5. CASE r.file = NoFile
    <3>1. nest' = <<>> /\ Len(nest') = 0 /\ made' = made /\ cache' = cache /\ binds' = binds
      BY <1>1, <1>5, <2>5
    <3>2. Path'
      BY <2>3, <2>5, <3>1 DEF Path
    <3>3. There' = There /\ \A n : Known(n)' <=> Known(n)
      BY <1>1, <3>1 DEF There, Bindings, Known, Cached
    <3>4. Present' /\ Alone'
      BY <3>3 DEF Present, Alone, Meets
    <3>5. OverflowsOnlyInCircles'
      BY <1>1, <1>5 DEF OverflowsOnlyInCircles
    <3>. QED BY <2>4, <3>2, <3>4, <3>5
  <2>6. CASE r.file # NoFile
    <3>1. Len(nest) = 0 /\ Len(nest) < Depth /\ Len(nest) + 1 = 1
      <4>1. IsFiniteSet(InPath) /\ Depth \in Nat /\ Depth > Cardinality(InPath) + 1
        BY ModuleAssumption
      <4>2. Cardinality(InPath) \in Nat
        BY <4>1, FS_CardinalityType
      <4>. QED BY <1>1, <4>1, <4>2
    <3>2. PICK n, f : n = r.name /\ f = r.file
      OBVIOUS
    <3>3. /\ n \in Names /\ f \in Files /\ ~Cached(n) /\ Open(n, f)
          /\ made' = made \cup {nest'[Len(nest) + 1].mod}
      <4>1. n \in Names /\ f \in Files /\ ~Cached(n)
        BY <1>5, <2>2, <2>6, <3>2 DEF Cached
      <4>2. Open(n, f)
        BY <1>5, <2>6, <3>2 DEF Open
      <4>3. made' = made \cup {nest'[Len(nest) + 1].mod}
        BY <1>5, <2>6, <3>1
      <4>. QED BY <4>1, <4>2, <4>3
    <3>4. job' \in Asks /\ job'.name = n /\ job'.file = f /\ f # NoFile
      BY <2>1, <2>3, <2>6, <3>2
    <3>. QED BY <1>1, <1>5, <2>4, <3>1, <3>3, <3>4, OpenOrigin
  <2>. QED BY <2>5, <2>6
<1>. QED BY <1>3, <1>4, <1>5 DEF Serve, AlreadyBound

\* The next use of the innermost file.
LEMMA UseOrigin == ASSUME OInv, Use PROVE Origin'
<1>. USE DEF OInv, LInv, IInv, Origin
<1>. DEFINE k == Len(nest)
            e == [nest[k] EXCEPT !.used = @ + 1]
<1>1. /\ nest # <<>> /\ nest' = [nest EXCEPT ![k] = e] /\ stopped' = "no"
      /\ UNCHANGED <<pc, inbox, asked, job, cache, made, binds>>
  BY DEF Use, Running
<1>2. k \in 1..k /\ nest[k] \in Frames
  <2>1. k \in Nat \ {0}
    BY <1>1, EmptySeq DEF ManagerTyped
  <2>2. k \in 1..k
    BY <2>1
  <2>. QED BY <2>2, ElementOfSeq DEF ManagerTyped
<1>3. e \in Frames /\ e.mod = nest[k].mod
  BY <1>2 DEF Frames
<1>. HIDE DEF e
<1>4. Len(nest') = k /\ \A i \in 1..k : nest'[i].mod = nest[i].mod
  BY <1>1, <1>2, <1>3, ExceptSeq DEF ManagerTyped
<1>5. 1 \in 1..k
  BY <1>2
<1>6. Path'
  <2>1. nest'[1].mod = nest[1].mod
    BY <1>4, <1>5
  <2>2. \A i \in 1..k :
          IF i = 1 /\ job'.file # NoFile THEN nest'[i].mod.file = job'.file ELSE OfPath(nest'[i].mod)
    BY <1>1, <1>4 DEF Path, OfPath
  <2>3. \A i, j \in 1..k : i < j => nest'[j].mod.name \in LeadsTo[nest'[i].mod.file]
    BY <1>1, <1>4 DEF Path
  <2>4. pc' = pc /\ job' = job /\ nest # <<>>
    BY <1>1
  <2>5. nest' # <<>>
    <3>1. Len(nest') # 0 /\ Len(<<>>) = 0
      BY <1>2, <1>4, EmptySeq
    <3>. QED BY <3>1
  <2>. QED BY <1>4, <2>1, <2>2, <2>3, <2>4, <2>5 DEF Path, OfPath
<1>7. There' = There /\ \A n : Known(n)' <=> Known(n)
  BY <1>1, <1>4 DEF There, Bindings, Known, Cached
<1>8. Present' /\ Alone'
  BY <1>7 DEF Present, Alone, Meets
<1>9. Calls'
  BY <1>1, CallsKept
<1>10. OverflowsOnlyInCircles'
  BY <1>1 DEF OverflowsOnlyInCircles
<1>. QED BY <1>6, <1>8, <1>9, <1>10

\* A finished module is cached under its name.
LEMMA CompiledOrigin == ASSUME OInv, Compiled PROVE Origin'
<1>. USE DEF OInv, LInv, IInv, Links, Origin
<1>. DEFINE k == Len(nest)
            m == nest[k].mod
            outer == SubSeq(nest, 1, k - 1)
<1>1. /\ nest # <<>> /\ stopped' = "no" /\ cache' = [cache EXCEPT ![m.name] = m] /\ nest' = outer
      /\ IF outer = <<>> THEN Goto(Mgr, "reply") /\ UNCHANGED binds
         ELSE binds' = Bind(binds, outer[Len(outer)].mod, m.name, m)
      /\ UNCHANGED <<inbox, asked, job, made>>
  BY DEF Compiled, Innermost, Keep, Running
<1>2. k \in 1..k /\ k \in Nat \ {0} /\ m \in made /\ m \in Modules /\ m.name \in Names
  <2>1. k \in Nat \ {0}
    BY <1>1, EmptySeq DEF ManagerTyped
  <2>2. k \in 1..k
    BY <2>1
  <2>3. m \in AllModules /\ m \in made /\ m \in Modules
    BY <2>2, MadeAre DEF ManagerTyped
  <2>. QED BY <2>1, <2>2, <2>3, ModuleIs DEF AllModules
<1>3. /\ Len(outer) = k - 1 /\ (outer = <<>> <=> k = 1)
      /\ \A i \in 1..(k - 1) : outer[i] = nest[i]
  BY <1>2, Pops DEF ManagerTyped
<1>4. cache'[m.name] = m /\ \A y \in Names \ {m.name} : cache'[y] = cache[y]
  BY <1>1, <1>2 DEF ManagerTyped
<1>5. m # NoModule
  BY <1>2, MadeAre, ModulesAre
<1>. HIDE DEF outer
<1>6. Path'
  <2>1. nest' = <<>> => pc'[Mgr] # "work"
    BY <1>1, Apart DEF Goto, TasksTyped
  <2>2. nest' # <<>> => job' \in Asks /\ nest'[1].mod.name = job'.name
    <3>1. k # 1 => 1 \in 1..(k - 1)
      <4>1. \A j \in Nat \ {0} : j # 1 => 1 \in 1..(j - 1)
        OBVIOUS
      <4>. QED BY <1>2, <4>1
    <3>2. nest' # <<>> => nest'[1] = nest[1]
      BY <1>1, <1>3, <3>1
    <3>3. job' = job /\ job \in Asks /\ nest[1].mod.name = job.name
      BY <1>1 DEF Path
    <3>. QED BY <3>2, <3>3
  <2>3. \A i \in 1..(k - 1) : i \in 1..k /\ nest'[i] = nest[i]
    BY <1>1, <1>2, <1>3
  <2>4. \A i \in 1..(k - 1) :
          IF i = 1 /\ job'.file # NoFile THEN nest'[i].mod.file = job'.file ELSE OfPath(nest'[i].mod)
    BY <1>1, <2>3 DEF Path, OfPath
  <2>5. \A i, j \in 1..(k - 1) : i < j => nest'[j].mod.name \in LeadsTo[nest'[i].mod.file]
    BY <2>3 DEF Path
  <2>6. Len(nest') = k - 1
    BY <1>1, <1>3
  <2>. QED BY <2>1, <2>2, <2>4, <2>5, <2>6 DEF Path, OfPath
<1>7. There' \subseteq There
  <2>1. \A b \in DOMAIN binds' : binds'[b] = m \/ (b \in DOMAIN binds /\ binds'[b] = binds[b])
    <3>1. CASE outer = <<>>
      BY <1>1, <3>1
    <3>2. CASE outer # <<>>
      BY <1>1, <3>2 DEF Bind
    <3>. QED BY <3>1, <3>2
  <2>2. Bindings' \subseteq There
    BY <1>2, <2>1 DEF Bindings, There
  <2>3. \A y \in Names : cache'[y] \in There
    BY <1>2, <1>4 DEF There
  <2>. QED BY <1>1, <2>2, <2>3 DEF There
<1>8. ASSUME NEW z, Known(z) PROVE Known(z)'
  <2>1. CASE z = m.name
    BY <1>4, <1>5, <2>1 DEF Known, Cached
  <2>2. CASE z # m.name /\ Cached(z)
    <3>1. cache'[z] = cache[z]
      BY <1>1, <2>2 DEF ManagerTyped
    <3>. QED BY <2>2, <3>1 DEF Known, Cached
  <2>3. CASE z # m.name /\ \E i \in 1..k : nest[i].mod.name = z
    <3>1. PICK i \in 1..k : nest[i].mod.name = z
      BY <2>3
    <3>2. i \in 1..(k - 1)
      BY <1>2, <2>3, <3>1
    <3>. QED BY <1>1, <1>3, <3>1, <3>2 DEF Known
  <2>. QED BY <1>8, <2>1, <2>2, <2>3 DEF Known
<1>9. Present' /\ Alone'
  BY <1>7, <1>8 DEF Present, Alone, Meets
<1>10. Calls'
  BY <1>1, CallsKept
<1>11. OverflowsOnlyInCircles'
  BY <1>1 DEF OverflowsOnlyInCircles
<1>. QED BY <1>6, <1>9, <1>10, <1>11

\* The other steps of the manager open nothing and keep nothing.
LEMMA RestOrigin ==
  ASSUME OInv, Prepare \/ Fail \/ FoundMalformed \/ Reply \/ Free \/ Done
  PROVE  Origin'
<1>. USE DEF OInv, LInv, IInv, Origin
<1>1. /\ pc \in [Tasks -> Points] /\ Empty \notin Asks
      /\ inbox \in [Tasks -> {Empty, Data, Ready, Args, Exit} \cup Modules \cup Asks]
  BY AsksAre DEF TasksTyped
<1>2. CASE Reply
  <2>1. /\ nest = <<>> /\ nest' = <<>> /\ Len(nest') = 0 /\ job' = Empty /\ stopped' = "no"
        /\ UNCHANGED <<asked, cache, made, binds>>
    BY <1>2 DEF Reply, Work, Running
  <2>2. pc'[Mgr] \in {"serve", "failed"}
    BY <1>1, <1>2, Apart DEF Reply, Goto
  <2>3. inbox'[Mgr] = inbox[Mgr]
    <3>1. job.from # Mgr
      BY <1>2, AsksAre, Apart DEF Reply, Work
    <3>. QED BY <1>1, <1>2, <3>1, Apart DEF Reply, Send
  <2>4. Calls'
    BY <1>1, <2>1, <2>3, CallsKept
  <2>5. Path'
    BY <2>1, <2>2 DEF Path
  <2>6. There' = There /\ \A n : Known(n)' <=> Known(n)
    BY <2>1 DEF There, Bindings, Known, Cached
  <2>7. Present' /\ Alone'
    BY <2>6 DEF Present, Alone, Meets
  <2>8. OverflowsOnlyInCircles'
    BY <2>1 DEF OverflowsOnlyInCircles
  <2>. QED BY <2>4, <2>5, <2>7, <2>8
<1>3. CASE Prepare \/ Fail \/ FoundMalformed \/ Free \/ Done
  <2>1. /\ UNCHANGED manager /\ UNCHANGED asked
        /\ stopped' = stopped \/ stopped' # "stack overflow"
    BY <1>3 DEF Prepare, Fail, FoundMalformed, Free, Done, Stop
  <2>2. pc'[Mgr] = "work" => pc[Mgr] = "work"
    BY <1>1, <1>3, Apart DEF Prepare, Fail, FoundMalformed, Free, Done, Stop, Goto
  <2>3. inbox'[Mgr] = inbox[Mgr] \/ inbox'[Mgr] = Empty
    BY <1>1, <1>3, Apart DEF Prepare, Fail, FoundMalformed, Free, Done, Stop
  <2>4. Calls'
    BY <1>1, <2>1, <2>3, CallsKept DEF manager
  <2>. QED BY <2>1, <2>2, <2>4, OriginKept
<1>. QED BY <1>2, <1>3
\* The steps of the other tasks: what they ask is a call of the program or a use of main's file.
LEMMA OthersOrigin ==
  ASSUME OInv, MainStep \/ \E t \in Programs : ClientStep(t) \/ ProgramStep(t)
  PROVE  Origin'
<1>. USE DEF OInv, LInv, IInv, Origin
<1>1. /\ pc \in [Tasks -> Points]
      /\ inbox \in [Tasks -> {Empty, Data, Ready, Args, Exit} \cup Modules \cup Asks]
      /\ asked \in [Tasks -> (Names \X (Files \cup {NoFile})) \cup {Nothing}]
      /\ Args \notin Asks /\ Exit \notin Asks /\ Empty \notin Asks
  BY AsksAre DEF TasksTyped
<1>2. CASE MainStep
  <2>1. /\ UNCHANGED manager
        /\ stopped' = stopped \/ stopped' # "stack overflow"
    BY <1>2 DEF MainStep, Start, ManagerReady, MainUses, MainCompiled, MainMalformed, SendExit,
                Return, Stop
  <2>2. pc'[Mgr] = "work" => pc[Mgr] = "work"
    BY <1>1, <1>2, Apart DEF MainStep, Start, ManagerReady, MainUses, MainCompiled, MainMalformed,
                             SendExit, Return, Stop, Goto
  <2>3. inbox'[Mgr] = inbox[Mgr] \/ inbox'[Mgr] \notin Asks
    BY <1>1, <1>2, Apart DEF MainStep, Start, ManagerReady, MainUses, MainCompiled, MainMalformed,
                             SendExit, Return, Stop, Send
  <2>4. \A t \in Programs : asked'[t] = asked[t] \/ asked'[t][2] = NoFile
    BY <1>1, <1>2, Apart DEF MainStep, Start, ManagerReady, MainUses, MainCompiled, MainMalformed,
                             SendExit, Return, Stop
  <2>5. Calls'
    BY <2>1, <2>3, <2>4 DEF Calls, Named, manager
  <2>. QED BY <2>1, <2>2, <2>5, OriginKept
<1>3. ASSUME NEW t \in Programs, ClientStep(t) \/ ProgramStep(t) PROVE Origin'
  <2>1. /\ UNCHANGED manager /\ pc'[Mgr] = pc[Mgr]
        /\ stopped' = stopped \/ stopped' # "stack overflow"
    <3>1. pc \in [Tasks -> Points]
      BY <1>1
    <3>2. CASE SendRequest(t)
      BY <3>1, <3>2, Apart DEF SendRequest, Stop, Goto
    <3>3. CASE TakeAnswer(t) \/ ProgramStep(t)
      BY <3>1, <3>3, Apart DEF ProgramStep, TakeAnswer, Compile, Talk, Listen, End, Goto
    <3>. QED BY <1>3, <3>2, <3>3 DEF ClientStep
  <2>2. CASE SendRequest(t)
    <3>1. CASE Stop("no manager")
      <4>1. Calls'
        BY <3>1, CallsKept DEF Stop, manager
      <4>. QED BY <2>1, <4>1, OriginKept
    <3>2. CASE Send(Mgr, Ask(t, asked[t])) /\ UNCHANGED asked
      <4>1. pc[t] = "send" /\ asked[t] \in Names \X (Files \cup {NoFile})
        BY <2>2, Apart DEF SendRequest, TasksTyped
      <4>2. inbox'[Mgr] = Ask(t, asked[t])
        BY <1>1, <3>2, Apart DEF Send
      <4>3. inbox'[Mgr].name = asked[t][1] /\ inbox'[Mgr].file = asked[t][2]
        BY <4>1, <4>2, AskIs
      <4>4. Calls'
        BY <2>1, <3>2, <4>3 DEF Calls, Named, manager
      <4>. QED BY <2>1, <4>4, OriginKept
    <3>. QED BY <2>2, <3>1, <3>2 DEF SendRequest
  <2>3. CASE ~SendRequest(t)
    <3>1. inbox'[Mgr] = inbox[Mgr]
      BY <1>1, <1>3, <2>3, Apart DEF ClientStep, ProgramStep, TakeAnswer, Compile, Talk, Listen, End, Send
    <3>2. \A u \in Programs : \/ asked'[u] = asked[u] \/ asked'[u][2] = NoFile
                              \/ asked'[u] \in Requests
      BY <1>1, <1>3, <2>3, Apart DEF ClientStep, ProgramStep, TakeAnswer, Compile, Talk, Listen, End,
                                     Nothing
    <3>3. \A r \in Requests : r = <<r[1], r[2]>>
      BY ModuleAssumption
    <3>4. Calls'
      BY <2>1, <3>1, <3>2, <3>3 DEF Calls, Named, manager
    <3>. QED BY <2>1, <3>4, OriginKept
  <2>. QED BY <2>2, <2>3
<1>. QED BY <1>2, <1>3

\* The inductive invariant.
LEMMA OriginInvariant == Spec => []OInv
<1>1. Init => OInv
  <2>1. SUFFICES ASSUME Init PROVE OInv
    OBVIOUS
  <2>2. LInv
    BY <2>1, LInvInit
  <2>3. Empty \notin Asks
    BY AsksAre
  <2>4. Calls
    BY <2>1, <2>3, Apart DEF Init, Calls, Named, Nothing
  <2>5. Path
    BY <2>1, Apart, EmptySeq DEF Init, Path
  <2>6. There \subseteq {NoModule}
    BY <2>1 DEF Init, There, Bindings
  <2>7. Present /\ Alone
    BY <2>6 DEF Present, Alone
  <2>8. OverflowsOnlyInCircles
    BY <2>1 DEF Init, OverflowsOnlyInCircles
  <2>. QED BY <2>2, <2>4, <2>5, <2>7, <2>8 DEF OInv, Origin
<1>2. OInv /\ [Next]_vars => OInv'
  <2>1. SUFFICES ASSUME OInv, [Next]_vars PROVE OInv'
    OBVIOUS
  <2>2. LInv'
    BY <2>1, LInvNext DEF OInv
  <2>3. CASE ManagerStep
    BY <2>1, <2>2, <2>3, ServeOrigin, LoadOrigin, UseOrigin, CompiledOrigin, RestOrigin
    DEF ManagerStep, OInv
  <2>4. CASE MainStep \/ \E t \in Programs : ClientStep(t) \/ ProgramStep(t)
    BY <2>1, <2>2, <2>4, OthersOrigin DEF OInv
  <2>5. CASE UNCHANGED vars
    <3>1. Calls'
      BY <2>1, <2>5, CallsKept DEF OInv, Origin, vars, manager
    <3>2. UNCHANGED manager /\ pc' = pc /\ stopped' = stopped
      BY <2>5 DEF vars
    <3>. QED BY <2>1, <2>2, <3>1, <3>2, OriginKept DEF OInv
  <2>. QED BY <2>1, <2>3, <2>4, <2>5 DEF Next
<1>. QED BY <1>1, <1>2, PTL DEF Spec

\* However the files use each other and whatever the program compiles, there are two modules of
\* one name only where a file is compiled under a name it uses itself, or files use each other in
\* a circle: a module is looked for before it is compiled, never after.
THEOREM OneModuleOfAName == Spec => []OneOfAName
<1>1. OInv => OneOfAName
  BY DEF OInv, Origin, Alone, OneOfAName, Meets, There, Bindings
<1>. QED BY <1>1, OriginInvariant, PTL

\* With room on the C stack for every file of the path inside another, and some more, only files
\* that use each other in a circle end it: two of those being compiled are one file.
THEOREM CirclesOverflow == Spec => []OverflowsOnlyInCircles
<1>1. OInv => OverflowsOnlyInCircles
  BY DEF OInv, Origin
<1>. QED BY <1>1, OriginInvariant, PTL
=============================================================================
