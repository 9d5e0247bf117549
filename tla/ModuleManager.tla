---------------------------- MODULE ModuleManager ----------------------------
(***************************************************************************)
(* One DAQling process: the modules loaded in it and the commands that the *)
(* control system sends to it (Core/Command.cpp, Core/ModuleManager.cpp,   *)
(* Core/ModuleLoader.*, Core/DAQProcess.hpp, Core/ConnectionManager.cpp).  *)
(*                                                                         *)
(* A command is executed by the thread that the XML-RPC server gave to the *)
(* connection, a handler.  The handler selects the modules whose status    *)
(* allows the command and ModuleManager::for_each_module runs the work for *)
(* every one of them in a thread of its own, a task.  A task writes a      *)
(* transitional status, makes two calls and writes the final status; an    *)
(* exception in one of the calls ends the task and leaves the transitional *)
(* status in place.                                                        *)
(***************************************************************************)
EXTENDS Naturals, FiniteSets

CONSTANTS
    Modules,     \* names of the modules of the configuration
    Types,       \* module types
    TypeOf,      \* the type of each module
    Queued,      \* modules with at least one queue-wrapped connection
    QueuedPair,  \* those of them that send over a queue-wrapped ZMQPair
    DirectPair,  \* modules that send over a ZMQPair without a queue
    Handlers,    \* threads of the XML-RPC server that execute commands
    Custom,      \* names of the registered custom commands
    Transition,  \* the transitional status of each custom command
    Target       \* the target status of each custom command

(***************************************************************************)
(* The statuses that the code itself writes.                               *)
(***************************************************************************)
Quiet == {"booted", "configuring", "ready", "unconfiguring"}
Active == {"starting", "running", "stopping"}
CustomStatus == {Transition[c] : c \in Custom} \cup {Target[c] : c \in Custom}
Status == {"absent"} \cup Quiet \cup Active \cup CustomStatus

(* The operations of ModuleManager itself. *)
BuiltIn == {"configure", "start", "stop", "unconfigure", "unload"}

(***************************************************************************)
(* The custom commands of the repository lead to "paused", "running" and   *)
(* "foobarred": never to a status in which a module is at rest.            *)
(***************************************************************************)
ASSUME ConstantsAssumption ==
    /\ TypeOf \in [Modules -> Types]
    /\ Queued \subseteq Modules /\ QueuedPair \subseteq Queued
    /\ DirectPair \subseteq Modules
    /\ CustomStatus \cap (Quiet \cup {"absent"}) = {}
    /\ Custom \cap BuiltIn = {}

VARIABLES
    proc,     \* the operating system process
    status,   \* m_module_status; "absent": no entry in m_modloaders
    loaded,   \* ModuleLoader::m_loaded: the module object exists
    conns,    \* "nosub": no sub-manager; "none": no channel; "open":
              \* channels without handler threads; "live": with them
    run,      \* DAQProcess::m_run
    runner,   \* m_runner_thread: not joinable, running, or returned
    blocked,  \* the threads of each module that wait in ZMQPairSender::send
    pc,       \* what each handler is doing
    op,       \* the ModuleManager operation its tasks execute
    sel,      \* types_affected of its command
    task      \* the progress of its task for each module

modVars == <<status, loaded, conns, run, runner, blocked>>
rpcVars == <<pc, op, sel, task>>
vars == <<proc, modVars, rpcVars>>

Ops == BuiltIn \cup Custom
PCs == {"idle", "loading", "run", "merge", "downStop", "downUnconf"}
TaskStates == {"off", "queued", "entered", "joining", "half", "done", "threw"}
NoTasks == [m \in Modules |-> "off"]

TypeOK ==
    /\ proc \in {"up", "stopping", "leaving", "exited", "crashed", "killed"}
    /\ status \in [Modules -> Status]
    /\ loaded \in [Modules -> BOOLEAN]
    /\ conns \in [Modules -> {"nosub", "none", "open", "live"}]
    /\ run \in [Modules -> BOOLEAN]
    /\ runner \in [Modules -> {"none", "running", "finished"}]
    /\ blocked \in [Modules -> SUBSET {"runner", "handler"}]
    /\ pc \in [Handlers -> PCs]
    /\ op \in [Handlers -> Ops]
    /\ sel \in [Handlers -> SUBSET Types]
    /\ task \in [Handlers -> [Modules -> TaskStates]]

Init ==
    /\ proc = "up"
    /\ status = [m \in Modules |-> "absent"]
    /\ loaded = [m \in Modules |-> FALSE]
    /\ conns = [m \in Modules |-> "nosub"]
    /\ run = [m \in Modules |-> FALSE]
    /\ runner = [m \in Modules |-> "none"]
    /\ blocked = [m \in Modules |-> {}]
    /\ pc = [h \in Handlers |-> "idle"]
    /\ op = [h \in Handlers |-> "configure"]
    /\ sel = [h \in Handlers |-> {}]
    /\ task = [h \in Handlers |-> NoTasks]

-----------------------------------------------------------------------------
(* Selection of modules.                                                   *)

Alive == proc \in {"up", "stopping", "leaving"}

(* The XML-RPC server takes commands until main calls terminate(). *)
Serving == proc \in {"up", "stopping"}

Present == {m \in Modules : status[m] # "absent"}

(* modargs.empty() || modargs.find(mod.m_module_type) != modargs.end() *)
Addressed(T) == {m \in Modules : T = {} \/ TypeOf[m] \in T}

Eligible(T, S) == {m \in Present \cap Addressed(T) : status[m] \in S}

(* Mutant: the first module decides the overall state. *)
AllBooted_Any == Present = {} \/ \E m \in Present : status[m] = "booted"

(* getStatesAsString() == "booted"; see module CommandReply. *)
AllBooted == \A m \in Present : status[m] = "booted"

(***************************************************************************)
(* The handler hands the operation o to for_each_module for the modules S. *)
(***************************************************************************)
Dispatch(h, o, S, next) ==
    /\ pc' = [pc EXCEPT ![h] = next]
    /\ op' = [op EXCEPT ![h] = o]
    /\ task' = [task EXCEPT ![h] = [m \in Modules |-> IF m \in S THEN "queued" ELSE "off"]]

Crash ==
    /\ proc' = "crashed"
    /\ UNCHANGED <<modVars, rpcVars>>

-----------------------------------------------------------------------------
(* Commands.  A command that is refused (InvalidState, InvalidCommand,     *)
(* UnregisteredCommand) changes nothing and is not a step.                 *)

(* class configure, up to the loop over the modules of the configuration. *)
BeginConfigure(h, T) ==
    /\ Serving /\ pc[h] = "idle"
    /\ AllBooted
    /\ pc' = [pc EXCEPT ![h] = "loading"]
    /\ sel' = [sel EXCEPT ![h] = T]
    /\ task' = [task EXCEPT ![h] = [m \in Modules |-> "queued"]]
    /\ UNCHANGED <<proc, modVars, op>>

(* class start, class stop, class unconfigure. *)
Begin(h, T, o, S, next) ==
    /\ Serving /\ pc[h] = "idle"
    /\ Eligible(T, S) # {}
    /\ Dispatch(h, o, Eligible(T, S), next)
    /\ sel' = [sel EXCEPT ![h] = T]
    /\ UNCHANGED <<proc, modVars>>

BeginStart(h, T) == Begin(h, T, "start", {"ready", "running"}, "run")
BeginStop(h, T) == Begin(h, T, "stop", {"running"}, "run")
(* Mutant: unconfigure is also offered to modules whose start or stop failed. *)
BeginUnconfigure_Any(h, T) == Begin(h, T, "unconfigure", {"ready", "stopping", "starting"}, "merge")

BeginUnconfigure(h, T) == Begin(h, T, "unconfigure", {"ready"}, "merge")

(***************************************************************************)
(* class down: stop what is running, unconfigure what is ready, and ask    *)
(* main to return if every module is booted.  With nothing to stop         *)
(* modules_to_stop is empty and the handler goes on at once.               *)
(***************************************************************************)
BeginDown(h, T) ==
    /\ Serving /\ pc[h] = "idle"
    /\ Eligible(T, {"booted", "ready", "running"}) # {} \/ AllBooted
    /\ Dispatch(h, "stop", Eligible(T, {"running"}), "downStop")
    /\ sel' = [sel EXCEPT ![h] = T]
    /\ UNCHANGED <<proc, modVars>>

(***************************************************************************)
(* class custom: applied whatever the status of the module is.  A module   *)
(* whose loader failed has no m_dp: value() throws and the command is      *)
(* answered with FatalError.                                               *)
(***************************************************************************)
BeginCustom(h, T, c) ==
    /\ Serving /\ pc[h] = "idle"
    /\ \A m \in Present \cap Addressed(T) : loaded[m]
    /\ Present \cap Addressed(T) # {}
    /\ Dispatch(h, c, Present \cap Addressed(T), "run")
    /\ sel' = [sel EXCEPT ![h] = T]
    /\ UNCHANGED <<proc, modVars>>

-----------------------------------------------------------------------------
(* The loading loop of configure.                                          *)

(* Mutant: the status promised by the comment on AddModules. *)
Load_Added(h, m) ==
    /\ Alive /\ pc[h] = "loading" /\ task[h][m] = "queued"
    /\ status' = [status EXCEPT ![m] = "added"]
    /\ task' = [task EXCEPT ![h][m] = "half"]
    /\ UNCHANGED <<proc, loaded, conns, run, runner, blocked, pc, op, sel>>

(***************************************************************************)
(* plugin.load(name, type): the entry is made before the plugin is opened, *)
(* so an exception leaves an entry whose loader has loaded nothing.  A     *)
(* name that has an entry is left as it is.  The DAQProcess constructor    *)
(* makes the sub-manager.                                                  *)
(***************************************************************************)
Load(h, m) ==
    /\ Alive /\ pc[h] = "loading" /\ task[h][m] = "queued"
    /\ \A k \in Modules : task[h][k] # "half"
    /\ status' = [status EXCEPT ![m] = IF @ = "absent" THEN "booted" ELSE @]
    /\ \/ /\ task' = [task EXCEPT ![h][m] = "half"]
          /\ loaded' = [loaded EXCEPT ![m] = @ \/ status[m] = "absent"]
          /\ conns' = [conns EXCEPT ![m] =
                IF status[m] = "absent" /\ @ = "nosub" THEN "none" ELSE @]
          /\ UNCHANGED pc
       \/ /\ status[m] = "absent"
          /\ pc' = [pc EXCEPT ![h] = "idle"]
          /\ task' = [task EXCEPT ![h] = NoTasks]
          /\ UNCHANGED <<loaded, conns>>
    /\ UNCHANGED <<proc, run, runner, blocked, op, sel>>

(***************************************************************************)
(* addReceiverChannel and addSenderChannel for every connection of m; an   *)
(* existing channel is kept.  An exception may come before or after the    *)
(* first channel has been added.  Without a sub-manager m_sub_managers[key]*)
(* is a null pointer, which a module that has no connections never uses.   *)
(***************************************************************************)
AddChannels(h, m) ==
    /\ Alive /\ pc[h] = "loading" /\ task[h][m] = "half"
    /\ \/ conns[m] = "nosub" /\ Crash
       \/ /\ conns[m] # "nosub" \/ m \notin Queued
          /\ \/ /\ task' = [task EXCEPT ![h][m] = "done"]
                /\ conns' = [conns EXCEPT ![m] = IF @ = "none" THEN "open" ELSE @]
                /\ UNCHANGED pc
             \/ /\ pc' = [pc EXCEPT ![h] = "idle"]
                /\ task' = [task EXCEPT ![h] = NoTasks]
                /\ conns' \in {conns, [conns EXCEPT ![m] = IF @ = "none" THEN "open" ELSE @]}
          /\ UNCHANGED <<proc, status, loaded, run, runner, blocked, op, sel>>

(* modules_affected of configure, and plugin.configure(modules_affected). *)
DispatchConfigure(h) ==
    /\ Alive /\ pc[h] = "loading"
    /\ \A m \in Modules : task[h][m] = "done"
    /\ IF Eligible(sel[h], {"booted"}) = {}
       THEN /\ pc' = [pc EXCEPT ![h] = "idle"]
            /\ task' = [task EXCEPT ![h] = NoTasks]
            /\ UNCHANGED op
       ELSE Dispatch(h, "configure", Eligible(sel[h], {"booted"}), "run")
    /\ UNCHANGED <<proc, modVars, sel>>

-----------------------------------------------------------------------------
(* Tasks.                                                                  *)

Running(h) == pc[h] \in {"run", "merge", "downStop", "downUnconf"}

(* A step of the task of h for m; the entry of m is still in the map. *)
TaskAt(h, m, o, s) ==
    /\ Alive /\ Running(h)
    /\ op[h] = o /\ task[h][m] = s /\ status[m] # "absent"

Advance(h, m, s) == task' = [task EXCEPT ![h][m] = s]

Finish(h, m, st) ==
    /\ Advance(h, m, "done")
    /\ status' = [status EXCEPT ![m] = st]

Throw(h, m) == Advance(h, m, "threw")

TransitionOf(o) ==
    CASE o = "configure" -> "configuring"
      [] o = "start" -> "starting"
      [] o = "stop" -> "stopping"
      [] o = "unconfigure" -> "unconfiguring"
      [] OTHER -> Transition[o]

(* mod.m_module_status = "configuring" and the like; unload writes none. *)
Enter(h, m) ==
    /\ \E o \in Ops \ {"unload"} :
         /\ TaskAt(h, m, o, "queued")
         /\ status' = [status EXCEPT ![m] = TransitionOf(o)]
    /\ Advance(h, m, "entered")
    /\ UNCHANGED <<proc, loaded, conns, run, runner, blocked, pc, op, sel>>

(* ModuleLoader::configure: the precondition m_loaded aborts the process. *)
LoaderConfigure(h, m) ==
    /\ TaskAt(h, m, "configure", "entered")
    /\ \/ ~loaded[m] /\ Crash
       \/ /\ loaded[m]
          /\ \/ Finish(h, m, "ready")
             \/ Throw(h, m) /\ UNCHANGED status
          /\ UNCHANGED <<proc, loaded, conns, run, runner, blocked, pc, op, sel>>

(***************************************************************************)
(* ConnectionManager::start: Queue{Receiver,Sender}::start assigns a new   *)
(* thread to m_handler_thread; std::terminate if that one is joinable.     *)
(***************************************************************************)
CmStart(h, m) ==
    /\ TaskAt(h, m, "start", "entered")
    /\ \/ conns[m] = "live" /\ Crash
       \/ /\ conns[m] # "live"
          /\ conns' = [conns EXCEPT ![m] = IF @ = "open" /\ m \in Queued THEN "live" ELSE @]
          /\ Advance(h, m, "half") \/ Throw(h, m)
          /\ UNCHANGED <<proc, status, loaded, run, runner, blocked, pc, op, sel>>

(* Mutant: an exception from the module's start() is swallowed. *)
LoaderStart_Swallow(h, m) ==
    /\ TaskAt(h, m, "start", "half")
    /\ loaded[m] /\ runner[m] = "none"
    /\ \/ /\ run' = [run EXCEPT ![m] = TRUE]
          /\ runner' = [runner EXCEPT ![m] = "running"]
       \/ UNCHANGED <<run, runner>>
    /\ Finish(h, m, "running")
    /\ UNCHANGED <<proc, loaded, conns, blocked, pc, op, sel>>

(***************************************************************************)
(* ModuleLoader::start and DAQProcess::start, which assigns a new thread   *)
(* to m_runner_thread.  A module's own start() may throw before or after   *)
(* it has called DAQProcess::start.                                        *)
(***************************************************************************)
LoaderStart(h, m) ==
    /\ TaskAt(h, m, "start", "half")
    /\ \/ (~loaded[m] \/ runner[m] # "none") /\ Crash
       \/ /\ loaded[m] /\ runner[m] = "none"
          /\ \/ /\ run' = [run EXCEPT ![m] = TRUE]
                /\ runner' = [runner EXCEPT ![m] = "running"]
                /\ \/ Finish(h, m, "running")
                   \/ Throw(h, m) /\ UNCHANGED status
             \/ Throw(h, m) /\ UNCHANGED <<status, run, runner>>
          /\ UNCHANGED <<proc, loaded, conns, blocked, pc, op, sel>>

(* ModuleLoader::stop, DAQProcess::stop: m_run = false ... *)
LoaderStop(h, m) ==
    /\ TaskAt(h, m, "stop", "entered")
    /\ \/ ~loaded[m] /\ Crash
       \/ /\ loaded[m]
          /\ run' = [run EXCEPT ![m] = FALSE]
          /\ Advance(h, m, "joining")
          /\ UNCHANGED <<proc, status, loaded, conns, runner, blocked, pc, op, sel>>

(* Mutant: stop does not wait for the runner thread. *)
JoinRunner_NoJoin(h, m) ==
    /\ TaskAt(h, m, "stop", "joining")
    /\ Advance(h, m, "half")
    /\ UNCHANGED <<proc, modVars, pc, op, sel>>

(* ... and m_runner_thread.join() if there is a thread to join. *)
JoinRunner(h, m) ==
    /\ TaskAt(h, m, "stop", "joining")
    /\ runner[m] \in {"none", "finished"}
    /\ runner' = [runner EXCEPT ![m] = "none"]
    /\ Advance(h, m, "half") \/ Throw(h, m)
    /\ UNCHANGED <<proc, status, loaded, conns, run, blocked, pc, op, sel>>

(***************************************************************************)
(* ConnectionManager::stop joins the handler threads, after the send that  *)
(* they are in; join() on a thread that was never started throws           *)
(* std::system_error.                                                      *)
(***************************************************************************)
CmStop(h, m) ==
    /\ TaskAt(h, m, "stop", "half")
    /\ "handler" \notin blocked[m]
    /\ \/ /\ conns[m] = "live" \/ conns[m] = "none" \/ m \notin Queued
          /\ conns' = [conns EXCEPT ![m] = IF @ = "live" THEN "open" ELSE @]
          /\ Finish(h, m, "ready")
       \/ /\ conns[m] = "open" /\ m \in Queued
          /\ Throw(h, m)
          /\ UNCHANGED <<status, conns>>
    /\ UNCHANGED <<proc, loaded, run, runner, blocked, pc, op, sel>>

(* ModuleLoader::unconfigure, which does nothing for a module not loaded. *)
LoaderUnconfigure(h, m) ==
    /\ TaskAt(h, m, "unconfigure", "entered")
    /\ Advance(h, m, "half") \/ (loaded[m] /\ Throw(h, m))
    /\ UNCHANGED <<proc, modVars, pc, op, sel>>

(***************************************************************************)
(* ConnectionManager::removeChannel destroys the channels; destroying one  *)
(* whose handler thread is joinable is std::terminate, and one in which a  *)
(* thread sends may crash.                                                 *)
(***************************************************************************)
RemoveChannel(h, m) ==
    /\ TaskAt(h, m, "unconfigure", "half")
    /\ \/ (conns[m] = "live" \/ blocked[m] # {}) /\ Crash
       \/ /\ conns[m] # "live"
          /\ conns' = [conns EXCEPT ![m] = IF @ = "open" THEN "none" ELSE @]
          /\ Finish(h, m, "booted")
          /\ UNCHANGED <<proc, loaded, run, runner, blocked, pc, op, sel>>

(* Mutant: daqling_module_delete does not wait for the runner thread. *)
LoaderUnload_NoWait(h, m) ==
    /\ TaskAt(h, m, "unload", "queued")
    /\ loaded[m]
    /\ loaded' = [loaded EXCEPT ![m] = FALSE]
    /\ Finish(h, m, "absent")
    /\ UNCHANGED <<proc, conns, run, runner, blocked, pc, op, sel>>

(***************************************************************************)
(* ModuleLoader::unload: daqling_module_delete waits while running(), then *)
(* deletes the module; the entry is erased from m_modloaders.              *)
(* for_each_module may still be iterating over that map, and other tasks   *)
(* may be erasing from it: the process may crash.                          *)
(***************************************************************************)
LoaderUnload(h, m) ==
    /\ TaskAt(h, m, "unload", "queued")
    /\ \/ /\ ~loaded[m]
          /\ Throw(h, m)
          /\ UNCHANGED <<proc, modVars, pc, op, sel>>
       \/ /\ loaded[m] /\ runner[m] = "none"
          /\ loaded' = [loaded EXCEPT ![m] = FALSE]
          /\ Finish(h, m, "absent")
          /\ proc' \in {proc, "crashed"}
          /\ UNCHANGED <<conns, run, runner, blocked, pc, op, sel>>

(* ModuleManager::command for one module. *)
LoaderCommand(h, m) ==
    /\ \E c \in Custom :
         /\ TaskAt(h, m, c, "entered")
         /\ \/ Finish(h, m, Target[c])
            \/ Throw(h, m) /\ UNCHANGED status
    /\ UNCHANGED <<proc, loaded, conns, run, runner, blocked, pc, op, sel>>

(* A task uses a module_info that another handler has erased. *)
TouchErased(h, m) ==
    /\ Alive /\ Running(h)
    /\ task[h][m] \in {"queued", "entered", "joining", "half"}
    /\ status[m] = "absent"
    /\ Crash

-----------------------------------------------------------------------------
(* The end of a command.                                                   *)

(* Mutant: the handler waits for a result of a task that threw. *)
TasksOver_Threw(h) == \A m \in Modules : task[h][m] \in {"off", "done"}

TasksOver(h) == \A m \in Modules : task[h][m] \in {"off", "done", "threw"}
SomeThrew(h) == \E m \in Modules : task[h][m] = "threw"

Reply(h) ==
    /\ pc' = [pc EXCEPT ![h] = "idle"]
    /\ task' = [task EXCEPT ![h] = NoTasks]
    /\ UNCHANGED op

(* The command is answered: with an error if a task threw. *)
EndCommand(h) ==
    /\ Alive /\ Running(h) /\ TasksOver(h)
    /\ pc[h] = "run" \/ SomeThrew(h)
    /\ Reply(h)
    /\ UNCHANGED <<proc, modVars, sel>>

(* unconfigure goes on with plugin.unload(modules_affected). *)
UnloadUnconfigured(h) ==
    /\ Alive /\ pc[h] = "merge" /\ TasksOver(h) /\ ~SomeThrew(h)
    /\ Dispatch(h, "unload", {m \in Modules : task[h][m] = "done"}, "run")
    /\ UNCHANGED <<proc, modVars, sel>>

(* down goes on with the modules that are ready now. *)
DownUnconfigure(h) ==
    /\ Alive /\ pc[h] = "downStop" /\ TasksOver(h) /\ ~SomeThrew(h)
    /\ Dispatch(h, "unconfigure", Eligible(sel[h], {"ready"}), "downUnconf")
    /\ UNCHANGED <<proc, modVars, sel>>

(* down ends: stop_and_notify() if every module is booted. *)
DownEnd(h) ==
    /\ Alive /\ pc[h] = "downUnconf" /\ TasksOver(h) /\ ~SomeThrew(h)
    /\ proc' = IF AllBooted THEN "stopping" ELSE proc
    /\ Reply(h)
    /\ UNCHANGED <<modVars, sel>>

-----------------------------------------------------------------------------
(* The runner threads and the process.                                     *)

(***************************************************************************)
(* ZMQPairSender::send waits, without a timeout, while the socket has no   *)
(* room: in the handler thread of a queue-wrapped connection, or in the    *)
(* runner thread itself.  A thread may begin one more send after its flag  *)
(* has told it to stop.                                                    *)
(***************************************************************************)
SendBlocks(m) ==
    /\ Alive
    /\ \/ /\ m \in QueuedPair /\ conns[m] = "live"
          /\ blocked' = [blocked EXCEPT ![m] = @ \cup {"handler"}]
       \/ /\ m \in DirectPair /\ runner[m] = "running" /\ conns[m] \in {"open", "live"}
          /\ blocked' = [blocked EXCEPT ![m] = @ \cup {"runner"}]
    /\ UNCHANGED <<proc, status, loaded, conns, run, runner, rpcVars>>

(* The other end of the connection has taken a message. *)
SendReturns(m) ==
    /\ Alive
    /\ \E t \in blocked[m] : blocked' = [blocked EXCEPT ![m] = @ \ {t}]
    /\ UNCHANGED <<proc, status, loaded, conns, run, runner, rpcVars>>

(* runner() leaves its loop when it sees m_run = false. *)
RunnerReturns(m) ==
    /\ Alive /\ runner[m] = "running" /\ ~run[m]
    /\ "runner" \notin blocked[m]
    /\ runner' = [runner EXCEPT ![m] = "finished"]
    /\ UNCHANGED <<proc, status, loaded, conns, run, blocked, rpcVars>>

(* runner() gives up by itself: it sets m_run = false. *)
RunnerGivesUp(m) ==
    /\ Alive /\ runner[m] = "running" /\ run[m]
    /\ "runner" \notin blocked[m]
    /\ run' = [run EXCEPT ![m] = FALSE]
    /\ UNCHANGED <<proc, status, loaded, conns, runner, blocked, rpcVars>>

(* main wakes up, returns, and ~Command terminates the server. *)
MainReturns ==
    /\ proc = "stopping"
    /\ proc' = "leaving"
    /\ UNCHANGED <<modVars, rpcVars>>

(* Mutant: the destructor waits for modules that down does not unload. *)
MainExit_Unloaded ==
    /\ proc = "leaving"
    /\ \A h \in Handlers : pc[h] = "idle"
    /\ \A m \in Modules : ~loaded[m]
    /\ proc' = "exited"
    /\ UNCHANGED <<modVars, rpcVars>>

(***************************************************************************)
(* The server has ended its connections; every loaded module is deleted,   *)
(* which waits while its runner thread is joinable.                        *)
(***************************************************************************)
MainExit ==
    /\ proc = "leaving"
    /\ \A h \in Handlers : pc[h] = "idle"
    /\ \A m \in Modules : loaded[m] => runner[m] = "none"
    /\ proc' = "exited"
    /\ UNCHANGED <<modVars, rpcVars>>

(* The control system removes the process: supervisord kills it. *)
Kill ==
    /\ Alive
    /\ proc' = "killed"
    /\ UNCHANGED <<modVars, rpcVars>>

(* The control system adds the process again. *)
Boot ==
    /\ ~Alive
    /\ proc' = "up"
    /\ status' = [m \in Modules |-> "absent"]
    /\ loaded' = [m \in Modules |-> FALSE]
    /\ conns' = [m \in Modules |-> "nosub"]
    /\ run' = [m \in Modules |-> FALSE]
    /\ runner' = [m \in Modules |-> "none"]
    /\ blocked' = [m \in Modules |-> {}]
    /\ pc' = [h \in Handlers |-> "idle"]
    /\ op' = [h \in Handlers |-> "configure"]
    /\ sel' = [h \in Handlers |-> {}]
    /\ task' = [h \in Handlers |-> NoTasks]

Command(h) ==
    \E T \in SUBSET Types :
        \/ BeginConfigure(h, T) \/ BeginStart(h, T) \/ BeginStop(h, T)
        \/ BeginUnconfigure(h, T) \/ BeginDown(h, T)
        \/ \E c \in Custom : BeginCustom(h, T, c)

Task(h, m) ==
    \/ Load(h, m) \/ AddChannels(h, m)
    \/ Enter(h, m) \/ LoaderConfigure(h, m)
    \/ CmStart(h, m) \/ LoaderStart(h, m)
    \/ LoaderStop(h, m) \/ JoinRunner(h, m) \/ CmStop(h, m)
    \/ LoaderUnconfigure(h, m) \/ RemoveChannel(h, m)
    \/ LoaderUnload(h, m) \/ LoaderCommand(h, m) \/ TouchErased(h, m)

Handle(h) ==
    \/ DispatchConfigure(h) \/ EndCommand(h) \/ UnloadUnconfigured(h)
    \/ DownUnconfigure(h) \/ DownEnd(h)

Next ==
    \/ \E h \in Handlers : Command(h) \/ Handle(h)
    \/ \E h \in Handlers, m \in Modules : Task(h, m)
    \/ \E m \in Modules : RunnerReturns(m) \/ RunnerGivesUp(m)
    \/ \E m \in Modules : SendBlocks(m) \/ SendReturns(m)
    \/ MainReturns \/ MainExit
    \/ Kill \/ Boot

(***************************************************************************)
(* Every thread that can take a step takes one; nobody has to send         *)
(* commands, no runner has to give up, nobody has to boot the process, and *)
(* no send that waits has to return: that is up to the receiving module.   *)
(* The strong fairness says that a thread looks at its flag between two    *)
(* sends, however many of them wait for a while.                           *)
(***************************************************************************)
Fairness ==
    /\ \A h \in Handlers : WF_vars(Handle(h))
    /\ \A h \in Handlers, m \in Modules : WF_vars(Task(h, m)) /\ SF_vars(CmStop(h, m))
    /\ \A m \in Modules : SF_vars(RunnerReturns(m))
    /\ WF_vars(MainReturns) /\ WF_vars(MainExit)

Safety == Init /\ [][Next]_vars
Spec == Safety /\ Fairness

-----------------------------------------------------------------------------
(* Properties.                                                             *)

(***************************************************************************)
(* With one command at a time, a module whose status says that it is at    *)
(* rest (absent, booted, ready, or on its way between these) has neither a *)
(* runner thread nor connection handler threads: whatever failed before,   *)
(* a module can be configured, unconfigured and unloaded without meeting a *)
(* live thread.  Behind it: ModuleManager::start/stop write "starting" and *)
(* "stopping" before the first and "ready" only after the last call.       *)
(***************************************************************************)
NoOrphanThreads ==
    \A m \in Modules : status[m] \in Quiet \cup {"absent"} =>
        runner[m] = "none" /\ conns[m] # "live"

(***************************************************************************)
(* The other direction: "running" is reported only for a module with a     *)
(* runner thread and, if it has queued connections, handler threads.       *)
(* Custom commands such as "resume" write "running" whatever the status    *)
(* was, so this one is about a process without custom commands.            *)
(***************************************************************************)
RunningHasThreads ==
    \A m \in Modules : status[m] = "running" =>
        /\ loaded[m]
        /\ runner[m] # "none"
        /\ m \in Queued => conns[m] = "live"

(***************************************************************************)
(* The code of a module is never unloaded under its own runner thread,     *)
(* even when two commands overlap: daqling_module_delete waits while       *)
(* running().                                                              *)
(***************************************************************************)
RunnerHasModule ==
    \A m \in Modules : runner[m] # "none" => loaded[m]

(***************************************************************************)
(* Command::down asks main to return only when no thread of any module is  *)
(* left: the destructors of the process would otherwise wait for ever or   *)
(* terminate the process.                                                  *)
(***************************************************************************)
DownIsClean ==
    [][proc = "up" /\ proc' = "stopping" =>
          \A m \in Modules : runner[m] = "none" /\ conns[m] # "live"]_vars

(***************************************************************************)
(* A module that an operation left in a transitional status (the operation *)
(* threw) stays there: no later configure, start, stop, unconfigure or     *)
(* down touches it.  Behind it: getModulesEligibleForCommand.              *)
(***************************************************************************)
Stuck(m) ==
    /\ status[m] \in {"configuring", "starting", "stopping", "unconfiguring"}
    /\ \A h \in Handlers : task[h][m] = "off"

StuckIsLeftAlone ==
    [][\A m \in Modules : Stuck(m) /\ Alive /\ Alive' =>
          Stuck(m)' /\ status'[m] = status[m]]_vars

(* The task of h waits, in the join of DAQProcess::stop or of              *)
(* QueueSender::stop, for a thread that is in a send.                      *)
HeldUp(h) ==
    \E m \in Modules :
        \/ task[h][m] = "joining" /\ "runner" \in blocked[m]
        \/ task[h][m] = "half" /\ op[h] = "stop" /\ "handler" \in blocked[m]

(***************************************************************************)
(* Every command is answered, unless the process dies or the command stops *)
(* a module of which a thread waits in ZMQPairSender::send for ever: the   *)
(* receiving module has stopped, or never runs.  The tasks of a command do *)
(* not wait for each other, and the joins end because every thread that is *)
(* not in a send looks at its flag.                                        *)
(***************************************************************************)
CommandsAnswered ==
    \A h \in Handlers : pc[h] # "idle" ~> pc[h] = "idle" \/ ~Alive \/ []HeldUp(h)

(***************************************************************************)
(* A process that was told to go down and whose modules are all booted     *)
(* exits, unless another command gets in before main has terminated the    *)
(* server (a module started then is never stopped, and its deletion waits  *)
(* for ever).                                                              *)
(***************************************************************************)
ShutdownCompletes ==
    proc = "stopping" /\ AllBooted ~>
        ~Alive \/ \E h \in Handlers : pc[h] # "idle"
=============================================================================
