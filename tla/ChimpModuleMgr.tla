---------------------------- MODULE ChimpModuleMgr ----------------------------
(***************************************************************************)
(* The module manager of libchimp/module_mgr.c and the life of a process   *)
(* around it (src/main.c, core.c): the manager is a task that compiles     *)
(* source files and keeps the modules, and every other task asks it by a   *)
(* message and takes the next message of its own inbox for the answer.     *)
(*                                                                         *)
(* An inbox holds one message (ChimpTask has the protocol of its lock and  *)
(* condition).  What the program of a task does between requests is left   *)
(* open: it may send data to the tasks of Talkers, receive what is sent to *)
(* it, ask for a file to be compiled, and end.                             *)
(*                                                                         *)
(* A module is identified by [id, name, file]; a file by what it uses and  *)
(* whether it can be opened and compiled.                                  *)
(***************************************************************************)
EXTENDS Integers, Sequences, FiniteSets

CONSTANTS
  Main, Mgr,   \* the task of main () and the manager
  Clients,     \* the tasks the program spawns
  Talkers,     \* the tasks other tasks send data to
  Names,       \* names of modules
  Builtin,     \* those of _chimp_module_mgr_add_builtin
  InPath,      \* those with a file NAME.chimp in chimp_module_path
  Files,       \* what can be compiled; the file of a name in the path is the name
  Uses,        \* file -> the names it uses, in order
  Unreadable,  \* files fopen does not open
  Malformed,   \* files that end the process: a syntax error (exit of yyerror), CHIMP_BUG of the compiler
  MainFiles,   \* what argv[1] can be
  Requests,    \* <<name, file>>: the calls of compile () in the program
  Depth        \* how many files can be compiled inside each other before the C stack ends

Programs == Clients \cup {Main}
Tasks == Programs \cup {Mgr}

NoFile == "no file"
NoName == "no name"

ASSUME ModuleAssumption ==
  /\ Main # Mgr /\ {Main, Mgr} \cap Clients = {}
  /\ Talkers \subseteq Tasks \ {Mgr}
  /\ Builtin \subseteq Names
  /\ InPath \subseteq Names \cap Files
  /\ NoFile \notin Files /\ NoName \notin Names
  /\ Uses \in [Files -> Seq(Names)]
  /\ MainFiles \subseteq Files
  /\ Requests \subseteq Names \X Files
  /\ IsFiniteSet(InPath) /\ Depth \in Nat /\ Depth > Cardinality(InPath) + 1

VARIABLES
  pc,        \* what each task is doing
  inbox,     \* the message in each inbox
  asked,     \* task -> <<name, file>>: its request
  got,       \* task -> name -> what it took for the module of that name
  source,    \* argv[1]
  used,      \* how many of its uses main has had answered
  job,       \* [from, name, file]: the request the manager is at
  seek,      \* the name _chimp_module_mgr_load is called with
  nest,      \* [mod, used]: the files being compiled, innermost last
  answer,    \* the module to send
  cache,     \* the manager's cache: name -> module
  made,      \* the modules that were compiled
  binds,     \* <<module, name>> -> module: the names a module's uses have put into its locals
  stopped    \* why the process has ended

manager == <<job, seek, nest, answer, cache, made, binds>>
vars == <<pc, inbox, asked, got, source, used, manager, stopped>>

Empty == [kind |-> "empty"]
Data == [kind |-> "data"]
Ready == [kind |-> "ready"]
Args == [kind |-> "args"]
Exit == [kind |-> "exit"]

AskForMain(t, r) == [kind |-> "ask", from |-> Main, name |-> r[1], file |-> r[2]]  \* mutant

Ask(t, r) == [kind |-> "ask", from |-> t, name |-> r[1], file |-> r[2]]

NoModule == [kind |-> "none"]
ModuleOf(i, n, f) == [kind |-> "module", id |-> i, name |-> n, file |-> f]
BuiltinModule(n) == ModuleOf(0, n, NoFile)

Nothing == <<NoName, NoFile>>

Init ==
  /\ pc = [t \in Tasks |-> IF t = Main THEN "start" ELSE "new"]
  /\ inbox = [t \in Tasks |-> Empty]
  /\ asked = [t \in Tasks |-> Nothing]
  /\ got = [t \in Tasks |-> [n \in Names |-> NoModule]]
  /\ source \in MainFiles
  /\ used = 0
  /\ job = Empty /\ seek = NoName /\ nest = <<>> /\ answer = NoModule
  /\ cache = [n \in Names |-> NoModule]
  /\ made = {} /\ binds = <<>>
  /\ stopped = "no"

Running == stopped = "no"
Goto(t, l) == pc' = [pc EXCEPT ![t] = l]

\* chimp_task_send to a task that is not DONE waits until its inbox is empty.
Send(u, m) == /\ inbox[u] = Empty
              /\ inbox' = [inbox EXCEPT ![u] = m]

\* CHIMP_BUG, the end of the C stack, or the return of main ().
Stop(why) == /\ stopped' = why
             /\ UNCHANGED <<pc, inbox, asked, got, source, used, manager>>

-----------------------------------------------------------------------------
(* The main task.                                                          *)

\* chimp_core_startup and chimp_module_mgr_init: the manager is started and told who to answer.
Start ==
  /\ Running /\ pc[Main] = "start" /\ pc[Mgr] = "new"
  /\ pc' = [pc EXCEPT ![Main] = "ready", ![Mgr] = "args"]
  /\ Send(Mgr, Args)
  /\ UNCHANGED <<asked, got, source, used, manager, stopped>>

\* Main hears from the manager and goes on to compile its file.
ManagerReady ==
  /\ Running /\ pc[Main] = "ready" /\ inbox[Main] # Empty
  /\ inbox' = [inbox EXCEPT ![Main] = Empty]
  /\ Goto(Main, "compile")
  /\ UNCHANGED <<asked, got, source, used, manager, stopped>>

\* real_main compiles the file in its own task: every use is a request.
MainUses ==
  /\ Running /\ pc[Main] = "compile" /\ used < Len(Uses[source]) /\ source \notin Unreadable
  /\ asked' = [asked EXCEPT ![Main] = <<Uses[source][used + 1], NoFile>>]
  /\ used' = used + 1
  /\ Goto(Main, "send")
  /\ UNCHANGED <<inbox, got, source, manager, stopped>>

\* The program begins; a file that is not opened ends main before it.
MainCompiled ==
  /\ Running /\ pc[Main] = "compile"
  /\ \/ /\ used = Len(Uses[source]) /\ source \notin Malformed \cup Unreadable
        /\ pc' = [t \in Tasks |-> IF t \in Programs THEN "run" ELSE pc[t]]
     \/ /\ used = 0 /\ source \in Unreadable
        /\ Goto(Main, "exit")
  /\ UNCHANGED <<inbox, asked, got, source, used, manager, stopped>>

MainMalformed ==
  /\ Running /\ pc[Main] = "compile" /\ source \in Malformed
  /\ Stop("malformed")

\* chimp_module_mgr_shutdown.
SendExit ==
  /\ Running /\ pc[Main] = "exit"
  /\ Send(Mgr, Exit)
  /\ Goto(Main, "join")
  /\ UNCHANGED <<asked, got, source, used, manager, stopped>>

\* Main joins the manager and returns, whatever the other tasks are doing.
Return ==
  /\ Running /\ pc[Main] = "join" /\ pc[Mgr] = "over"
  /\ Stop("returned")

-----------------------------------------------------------------------------
(* A task that runs the program, main among them.                          *)

\* compile (name, file) of the program.
Compile(t) ==
  /\ Running /\ pc[t] = "run"
  /\ \E r \in Requests : asked' = [asked EXCEPT ![t] = r]
  /\ Goto(t, "send")
  /\ UNCHANGED <<inbox, got, source, used, manager, stopped>>

\* _chimp_module_mgr_send_cmd.  A manager that is DONE cannot be sent to.
SendRequest(t) ==
  /\ Running /\ pc[t] = "send"
  /\ IF pc[Mgr] = "over" THEN Stop("no manager")
     ELSE /\ Send(Mgr, Ask(t, asked[t]))
          /\ Goto(t, "wait")
          /\ UNCHANGED <<asked, got, source, used, manager, stopped>>

\* The next message is taken for the module, whatever it is.
TakeAnswer(t) ==
  /\ Running /\ pc[t] = "wait" /\ inbox[t] # Empty
  /\ got' = [got EXCEPT ![t][asked[t][1]] = inbox[t]]
  /\ inbox' = [inbox EXCEPT ![t] = Empty]
  /\ asked' = [asked EXCEPT ![t] = Nothing]
  /\ Goto(t, IF asked[t][2] = NoFile THEN "compile" ELSE "run")
  /\ UNCHANGED <<source, used, manager, stopped>>

Talk(t) ==
  /\ Running /\ pc[t] = "run"
  /\ \E u \in Talkers \ {t} : pc[u] # "end" /\ Send(u, Data)
  /\ UNCHANGED <<pc, asked, got, source, used, manager, stopped>>

Listen(t) ==
  /\ Running /\ pc[t] = "run" /\ inbox[t] # Empty
  /\ inbox' = [inbox EXCEPT ![t] = Empty]
  /\ UNCHANGED <<pc, asked, got, source, used, manager, stopped>>

\* The method of a task returns; the task of main () goes on to its shutdown.
End(t) ==
  /\ Running /\ pc[t] = "run"
  /\ Goto(t, IF t = Main THEN "exit" ELSE "end")
  /\ UNCHANGED <<inbox, asked, got, source, used, manager, stopped>>

-----------------------------------------------------------------------------
(* The manager.                                                            *)

\* _chimp_module_mgr_func up to its loop.
Prepare ==
  /\ Running /\ pc[Mgr] = "args" /\ inbox[Mgr] # Empty
  /\ inbox' = [inbox EXCEPT ![Mgr] = Empty, ![Main] = Ready]
  /\ Goto(Mgr, "serve")
  /\ UNCHANGED <<asked, got, source, used, manager, stopped>>

\* A new file is compiled inside the ones that are being compiled.
Open(n, f) == nest' = Append(nest, [mod |-> ModuleOf(Cardinality(made) + 1, n, f), used |-> 0])

CachedOrMissing(n) == n \in Names  \* mutant: what is not found is taken for found

Cached(n) == cache[n] # NoModule

NeverBound(n) == n \notin Names  \* mutant: any name may be compiled again

AlreadyBound(n) == Cached(n)

\* The request is taken from the inbox.  A name is not compiled twice.
Serve ==
  /\ Running /\ pc[Mgr] = "serve" /\ inbox[Mgr] # Empty
  /\ \/ /\ inbox[Mgr].kind = "exit"
        /\ inbox' = [inbox EXCEPT ![Mgr] = Empty]
        /\ Goto(Mgr, "free")
        /\ UNCHANGED <<asked, got, source, used, manager, stopped>>
     \/ /\ inbox[Mgr].kind = "ask" /\ inbox[Mgr].file # NoFile
        /\ AlreadyBound(inbox[Mgr].name)
        /\ Stop("bound twice")
     \/ /\ inbox[Mgr].kind = "ask"
        /\ inbox[Mgr].file # NoFile => ~AlreadyBound(inbox[Mgr].name)
        /\ job' = inbox[Mgr]
        /\ inbox' = [inbox EXCEPT ![Mgr] = Empty]
        /\ Goto(Mgr, "work")
        /\ IF inbox[Mgr].file = NoFile
           THEN seek' = inbox[Mgr].name /\ UNCHANGED <<nest, made>>
           ELSE /\ Open(inbox[Mgr].name, inbox[Mgr].file)
                /\ made' = made \cup {nest'[1].mod}
                /\ UNCHANGED seek
        /\ UNCHANGED <<asked, got, source, used, answer, cache, binds, stopped>>

Innermost == nest[Len(nest)]

BindNothing(b, m, n, x) == b  \* mutant

\* chimp_compile_ast_decl_use puts what it was given into the locals of its module.
Bind(b, m, n, x) == [k \in DOMAIN b \cup {<<m, n>>} |-> IF k = <<m, n>> THEN x ELSE b[k]]

\* _chimp_module_mgr_load (seek): the cache, then the path, then the builtins.
Load ==
  LET n == seek
      Give(x) == /\ seek' = NoName
                 /\ IF nest = <<>>
                    THEN answer' = x /\ Goto(Mgr, "reply") /\ UNCHANGED binds
                    ELSE /\ binds' = Bind(binds, Innermost.mod, n, x)
                         /\ UNCHANGED <<pc, answer>>
                 /\ UNCHANGED <<inbox, asked, got, source, used, job, nest, made, stopped>>
  IN /\ Running /\ pc[Mgr] = "work" /\ seek # NoName
     /\ \/ Cached(n) /\ Give(cache[n]) /\ UNCHANGED cache
        \/ /\ ~Cached(n) /\ n \in InPath
           /\ IF Len(nest) = Depth THEN Stop("stack overflow")
              ELSE /\ Open(n, n)
                   /\ made' = made \cup {nest'[Len(nest) + 1].mod}
                   /\ seek' = NoName
                   /\ UNCHANGED <<pc, inbox, asked, got, source, used, job, answer, cache, binds, stopped>>
        \/ /\ ~Cached(n) /\ n \in Builtin \ InPath
           /\ Give(BuiltinModule(n))
           /\ cache' = [cache EXCEPT ![n] = BuiltinModule(n)]
        \/ ~Cached(n) /\ n \notin Builtin \cup InPath /\ Stop("not found")

WantedSelf(e) == e.mod.name  \* mutant: a use loads the module it is in

Wanted(e) == Uses[e.mod.file][e.used + 1]

\* The next use of the file that is being compiled.
Use ==
  /\ Running /\ pc[Mgr] = "work" /\ seek = NoName /\ nest # <<>>
  /\ Innermost.used < Len(Uses[Innermost.mod.file]) /\ Innermost.mod.file \notin Unreadable
  /\ seek' = Wanted(Innermost)
  /\ nest' = [nest EXCEPT ![Len(nest)].used = @ + 1]
  /\ UNCHANGED <<pc, inbox, asked, got, source, used, job, answer, cache, made, binds, stopped>>

KeepNothing(mod) == cache  \* mutant: a compiled module is not cached

Keep(mod) == [cache EXCEPT ![mod.name] = mod]

\* A file that is all right is compiled: its module is cached and given to who wanted it.
Compiled ==
  LET mod == Innermost.mod
      outer == SubSeq(nest, 1, Len(nest) - 1)
  IN /\ Running /\ pc[Mgr] = "work" /\ seek = NoName /\ nest # <<>>
     /\ Innermost.used = Len(Uses[mod.file]) /\ mod.file \notin Malformed \cup Unreadable
     /\ cache' = Keep(mod)
     /\ nest' = outer
     /\ IF outer = <<>>
        THEN answer' = mod /\ Goto(Mgr, "reply") /\ UNCHANGED binds
        ELSE binds' = Bind(binds, outer[Len(outer)].mod, mod.name, mod) /\ UNCHANGED <<pc, answer>>
     /\ UNCHANGED <<inbox, asked, got, source, used, job, seek, made, stopped>>

\* A file that is not opened: NULL is handed outwards through every file, the manager returns
\* NULL and its thread ends, but its task is never DONE.
Fail ==
  /\ Running /\ pc[Mgr] = "work" /\ seek = NoName /\ nest # <<>>
  /\ Innermost.used = 0 /\ Innermost.mod.file \in Unreadable
  /\ Goto(Mgr, "failed")
  /\ UNCHANGED <<inbox, asked, got, source, used, manager, stopped>>

FoundMalformed ==
  /\ Running /\ pc[Mgr] = "work" /\ seek = NoName /\ nest # <<>>
  /\ Innermost.mod.file \in Malformed
  /\ Stop("malformed")

\* The answer is sent to who asked.  If that task is DONE meanwhile the manager fails too (or
\* waits on an inbox nobody empties, which comes to the same).
Reply ==
  /\ Running /\ pc[Mgr] = "reply"
  /\ \/ Send(job.from, answer) /\ Goto(Mgr, "serve")
     \/ pc[job.from] = "end" /\ Goto(Mgr, "failed") /\ UNCHANGED inbox
  /\ job' = Empty /\ answer' = NoModule
  /\ UNCHANGED <<asked, got, source, used, seek, nest, cache, made, binds, stopped>>

\* The heap with all the modules is freed, then the task is DONE.
Free ==
  /\ Running /\ pc[Mgr] = "free"
  /\ Goto(Mgr, "freed")
  /\ UNCHANGED <<inbox, asked, got, source, used, manager, stopped>>

Done ==
  /\ Running /\ pc[Mgr] = "freed"
  /\ Goto(Mgr, "over")
  /\ UNCHANGED <<inbox, asked, got, source, used, manager, stopped>>

-----------------------------------------------------------------------------
MainStep == Start \/ ManagerReady \/ MainUses \/ MainCompiled \/ MainMalformed \/ SendExit \/ Return
ManagerStep == Prepare \/ Serve \/ Load \/ Use \/ Compiled \/ Fail \/ FoundMalformed \/ Reply \/ Free \/ Done
ClientStep(t) == SendRequest(t) \/ TakeAnswer(t)
ProgramStep(t) == Compile(t) \/ Talk(t) \/ Listen(t) \/ End(t)

Next ==
  \/ MainStep
  \/ ManagerStep
  \/ \E t \in Programs : ClientStep(t) \/ ProgramStep(t)

\* A thread in the code of the runtime goes on; what the program does is up to it.
Spec ==
  /\ Init /\ [][Next]_vars
  /\ WF_vars(MainStep)
  /\ WF_vars(ManagerStep)
  /\ \A t \in Programs : WF_vars(ClientStep(t))
-----------------------------------------------------------------------------
Modules == made \cup { BuiltinModule(n) : n \in Builtin }

Held(t, n) == got[t][n] # NoModule

\* Everything is what it should be, and only a task others send to takes data for a module.
TypeOK ==
  /\ pc \in [Tasks -> {"start", "new", "ready", "compile", "send", "wait", "run", "exit", "join", "end",
                       "args", "serve", "work", "reply", "failed", "free", "freed", "over"}]
  /\ \A t \in Tasks : inbox[t] \in {Empty, Data, Ready, Args, Exit} \cup Modules
                         \cup { Ask(u, r) : u \in Programs, r \in Names \X (Files \cup {NoFile}) }
  /\ \A t \in Tasks, n \in Names :
       got[t][n] \in {NoModule} \cup Modules \cup (IF t \in Talkers THEN {Data} ELSE {})
  /\ cache \in [Names -> {NoModule} \cup Modules]
  /\ seek \in Names \cup {NoName}
  /\ Len(nest) <= Depth
  /\ \A i \in DOMAIN nest : nest[i].mod \in made /\ nest[i].used <= Len(Uses[nest[i].mod.file])
  /\ made \subseteq { ModuleOf(i, n, f) : i \in 1..Cardinality(made), n \in Names, f \in Files }
  /\ \A k \in DOMAIN binds : k[1] \in made /\ binds[k] \in Modules

\* What a task was given for a name is what the manager has under that name, for good, whatever
\* else was compiled since: unless other tasks send to it (_chimp_module_mgr_send_cmd takes
\* the next message, and the answer comes for the next request).
HeldIsCached ==
  \A t \in Programs \ Talkers, n \in Names : Held(t, n) => got[t][n] = cache[n]

\* A cached module has each name it uses bound to a module of that name that is itself cached
\* or replaced in the cache, never to one that is still being compiled.
Linked ==
  \A n \in Names :
    LET m == cache[n] IN
    m \in made =>
      /\ m.name = n
      /\ \A i \in DOMAIN Uses[m.file] :
           LET u == Uses[m.file][i] IN
           /\ <<m, u>> \in DOMAIN binds
           /\ binds[<<m, u>>].name = u
           /\ \A j \in DOMAIN nest : nest[j].mod # binds[<<m, u>>]

UsedBy(S) == UNION { { Uses[f][i] : i \in DOMAIN Uses[f] } : f \in S }

\* The names compiling a file can lead to: the least set with those it uses and, with a file
\* of the path, those that one uses.
LeadsTo ==
  [f \in Files |->
     { n \in Names : \A S \in SUBSET Names :
                      UsedBy({f}) \subseteq S /\ UsedBy(S \cap InPath) \subseteq S => n \in S }]

Circular == { n \in InPath : n \in LeadsTo[n] }

\* Two modules of one name exist only where compile () gives a file a name it uses itself
\* (checked before it is compiled, not after), or where files use each other in a circle.
OneOfAName ==
  \A m, x \in made \cup { binds[k] : k \in DOMAIN binds } \cup { cache[n] : n \in Names } :
    m # x /\ NoModule \notin {m, x} /\ m.name = x.name =>
      m.name \in Circular \/ \E r \in Requests : r[1] = m.name /\ m.name \in LeadsTo[r[2]]

\* The manager runs out of stack only in files that use each other in a circle ("TODO circular
\* references ... ?"): a module is cached after it is compiled, so a circle has no end.
OverflowsOnlyInCircles ==
  stopped = "stack overflow" =>
    IF job.file = NoFile THEN job.name \in InPath /\ LeadsTo[job.name] \cap Circular # {}
    ELSE LeadsTo[job.file] \cap Circular # {}

\* Who asks gets an answer, or the process ends or is about to; or the manager has failed on a
\* file it cannot open (it answers nobody from then on), or waits to answer a task whose inbox others fill.
Answered ==
  \A t \in Programs :
    pc[t] \in {"send", "wait"} ~>
      \/ pc[t] \notin {"send", "wait"} \/ ~Running \/ pc[Main] \in {"exit", "join"}
      \/ pc[Mgr] = "failed"
      \/ [](pc[Mgr] = "reply" /\ job.from \in Talkers)
=============================================================================
