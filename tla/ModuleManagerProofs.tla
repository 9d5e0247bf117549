------------------------- MODULE ModuleManagerProofs -------------------------
(***************************************************************************)
(* Proofs about ModuleManager, for any modules, types and custom commands, *)
(* when commands come one at a time, and about what the process replies    *)
(* (CommandReply), for any statuses, any number of modules and any two     *)
(* replies.                                                                *)
(***************************************************************************)
EXTENDS ModuleManager, CommandReply, NaturalsInduction, WellFoundedInduction, TLAPS

(* One command at a time. *)
SingleHandler == \A h, k \in Handlers : h = k

(***************************************************************************)
(* What the task of a handler knows about the status of its module.        *)
(***************************************************************************)
TaskInv(h, m) ==
    Running(h) =>
      /\ task[h][m] = "queued" =>
            /\ op[h] = "configure" => status[m] = "booted"
            /\ op[h] = "unconfigure" => status[m] = "ready"
            /\ op[h] = "unload" => status[m] = "booted"
      /\ task[h][m] \in {"entered", "joining", "half"} =>
            op[h] # "unload" /\ status[m] = TransitionOf(op[h])
      /\ task[h][m] = "half" /\ op[h] = "stop" => runner[m] = "none"
      /\ pc[h] = "merge" => op[h] = "unconfigure"
      /\ task[h][m] = "done" /\ pc[h] = "merge" => status[m] = "booted"

IInv ==
    /\ TypeOK
    /\ NoOrphanThreads
    /\ \A h \in Handlers, m \in Modules : TaskInv(h, m)

-----------------------------------------------------------------------------
(* The transitional status of an operation is a status. *)
LEMMA TransitionType ==
    ASSUME NEW o \in Ops \ {"unload"}
    PROVE  TransitionOf(o) \in Status
BY ConstantsAssumption DEF TransitionOf, Ops, BuiltIn, Status, Quiet, Active, CustomStatus

(* A crash leaves the variables of the modules and of the handlers. *)
LEMMA CrashType == TypeOK /\ Crash => TypeOK'
BY DEF TypeOK, Crash, modVars, rpcVars

(* A send that begins to wait, or returns, changes nothing else. *)
LEMMA SendStep ==
    ASSUME TypeOK, NEW m \in Modules, SendBlocks(m) \/ SendReturns(m)
    PROVE  /\ UNCHANGED <<proc, status, loaded, conns, run, runner, pc, op, sel, task>>
           /\ TypeOK'
<1>1. UNCHANGED <<proc, status, loaded, conns, run, runner, pc, op, sel, task>>
  BY DEF SendBlocks, SendReturns, rpcVars
<1>2. blocked' \in [Modules -> SUBSET {"runner", "handler"}]
  BY DEF SendBlocks, SendReturns, TypeOK
<1> QED BY <1>1, <1>2 DEF TypeOK

(* Type correctness of the commands. *)
LEMMA CommandType ==
    ASSUME TypeOK, NEW h \in Handlers, Command(h)
    PROVE  TypeOK'
<1>1. PICK T \in SUBSET Types :
        \/ BeginConfigure(h, T) \/ BeginStart(h, T) \/ BeginStop(h, T)
        \/ BeginUnconfigure(h, T) \/ BeginDown(h, T)
        \/ \E c \in Custom : BeginCustom(h, T, c)
  BY DEF Command
<1>2. CASE BeginConfigure(h, T)
  BY <1>2 DEF BeginConfigure, TypeOK, PCs, TaskStates, modVars
<1>3. ASSUME NEW o \in Ops, NEW S, NEW next \in PCs, Dispatch(h, o, S, next),
             sel' = [sel EXCEPT ![h] = T], UNCHANGED <<proc, modVars>>
      PROVE  TypeOK'
  BY <1>3 DEF Dispatch, TypeOK, TaskStates, modVars
<1>4. CASE BeginStart(h, T)
  BY <1>3, <1>4 DEF BeginStart, Begin, Ops, BuiltIn, PCs
<1>5. CASE BeginStop(h, T)
  BY <1>3, <1>5 DEF BeginStop, Begin, Ops, BuiltIn, PCs
<1>6. CASE BeginUnconfigure(h, T)
  BY <1>3, <1>6 DEF BeginUnconfigure, Begin, Ops, BuiltIn, PCs
<1>7. CASE BeginDown(h, T)
  BY <1>3, <1>7 DEF BeginDown, Ops, BuiltIn, PCs
<1>8. CASE \E c \in Custom : BeginCustom(h, T, c)
  BY <1>3, <1>8 DEF BeginCustom, Ops, PCs
<1> QED BY <1>1, <1>2, <1>4, <1>5, <1>6, <1>7, <1>8

(* Type correctness of the steps that end or continue a command. *)
LEMMA HandleType ==
    ASSUME TypeOK, NEW h \in Handlers, Handle(h)
    PROVE  TypeOK'
<1>d. ASSUME NEW o \in Ops, NEW S, NEW next \in PCs, Dispatch(h, o, S, next),
             UNCHANGED <<proc, modVars, sel>>
      PROVE  TypeOK'
  BY <1>d DEF Dispatch, TypeOK, TaskStates, modVars
<1>r. ASSUME Reply(h), proc' \in {proc, "stopping"}, UNCHANGED <<modVars, sel>>
      PROVE  TypeOK'
  BY <1>r DEF Reply, NoTasks, TypeOK, TaskStates, PCs, modVars
<1>o. {"configure", "unload", "unconfigure"} \subseteq Ops /\ {"run", "downUnconf"} \subseteq PCs
  BY DEF Ops, BuiltIn, PCs
<1>1. CASE DispatchConfigure(h)
  BY <1>1, <1>d, <1>r, <1>o DEF DispatchConfigure, Reply
<1>2. CASE EndCommand(h)
  BY <1>2, <1>r DEF EndCommand
<1>3. CASE UnloadUnconfigured(h)
  BY <1>3, <1>d, <1>o DEF UnloadUnconfigured
<1>4. CASE DownUnconfigure(h)
  BY <1>4, <1>d, <1>o DEF DownUnconfigure
<1>5. CASE DownEnd(h)
  BY <1>5, <1>r DEF DownEnd
<1> QED BY <1>1, <1>2, <1>3, <1>4, <1>5 DEF Handle

(* Type correctness of the steps of a task. *)
LEMMA TaskType ==
    ASSUME TypeOK, NEW h \in Handlers, NEW m \in Modules, Task(h, m)
    PROVE  TypeOK'
<1> DEFINE TaskOK == task' \in [Handlers -> [Modules -> TaskStates]]
           StatusOK == status' \in [Modules -> Status]
<1>a. \A s \in TaskStates : Advance(h, m, s) => TaskOK
  BY DEF TypeOK, Advance
<1>h. /\ Advance(h, m, "half") => TaskOK
      /\ Advance(h, m, "entered") => TaskOK
      /\ Advance(h, m, "joining") => TaskOK
      /\ Throw(h, m) => TaskOK
  BY <1>a DEF Throw, TaskStates
<1>f. \A st \in Status : Finish(h, m, st) => TaskOK /\ StatusOK
  BY <1>a DEF TypeOK, Finish, TaskStates
<1>g. /\ Finish(h, m, "ready") => TaskOK /\ StatusOK
      /\ Finish(h, m, "running") => TaskOK /\ StatusOK
      /\ Finish(h, m, "booted") => TaskOK /\ StatusOK
      /\ Finish(h, m, "absent") => TaskOK /\ StatusOK
      /\ \A c \in Custom : Finish(h, m, Target[c]) => TaskOK /\ StatusOK
  BY <1>f DEF Status, Quiet, Active, CustomStatus
<1>u. UNCHANGED status => StatusOK
  BY DEF TypeOK
<1>c. CASE Crash
  BY <1>c, CrashType
<1>p. task' = [task EXCEPT ![h] = NoTasks] => TaskOK
  BY DEF TypeOK, NoTasks, TaskStates
<1>q. pc' = [pc EXCEPT ![h] = "idle"] \/ UNCHANGED pc => pc' \in [Handlers -> PCs]
  BY DEF TypeOK, PCs
<1>e. Advance(h, m, "half") <=> task' = [task EXCEPT ![h][m] = "half"]
  BY DEF Advance
<1>v. task' = [task EXCEPT ![h][m] = "done"] => TaskOK
  BY <1>a DEF Advance, TaskStates
<1> HIDE DEF TaskOK, StatusOK
<1>t. ASSUME TaskOK, StatusOK,
             loaded' \in [Modules -> BOOLEAN],
             conns' \in [Modules -> {"nosub", "none", "open", "live"}],
             run' \in [Modules -> BOOLEAN],
             runner' \in [Modules -> {"none", "running", "finished"}], UNCHANGED blocked,
             proc' \in {proc, "crashed"}, UNCHANGED <<op, sel>>,
             pc' \in [Handlers -> PCs]
      PROVE  TypeOK'
  BY <1>t DEF TypeOK, TaskOK, StatusOK
<1>1. CASE Load(h, m)
  <2>1. StatusOK
    BY <1>1 DEF Load, TypeOK, Status, Quiet, StatusOK
  <2>2. TaskOK /\ pc' \in [Handlers -> PCs]
    BY <1>1, <1>p, <1>q, <1>e, <1>h DEF Load
  <2>3. /\ loaded' \in [Modules -> BOOLEAN]
        /\ conns' \in [Modules -> {"nosub", "none", "open", "live"}]
    BY <1>1 DEF Load, TypeOK
  <2> QED BY <1>1, <1>t, <2>1, <2>2, <2>3 DEF Load, TypeOK
<1>2. CASE AddChannels(h, m) /\ ~Crash
  <2>2. TaskOK /\ pc' \in [Handlers -> PCs]
    BY <1>2, <1>p, <1>q, <1>v DEF AddChannels
  <2>3. conns' \in [Modules -> {"nosub", "none", "open", "live"}]
    BY <1>2 DEF AddChannels, TypeOK
  <2> QED BY <1>2, <1>t, <1>u, <2>2, <2>3 DEF AddChannels, TypeOK
<1>3. CASE Enter(h, m)
  <2>1. StatusOK
    BY <1>3, TransitionType DEF Enter, TypeOK, StatusOK
  <2> QED BY <1>3, <1>t, <1>h, <2>1 DEF Enter, TypeOK
<1>4. CASE LoaderConfigure(h, m) /\ ~Crash
  BY <1>4, <1>t, <1>h, <1>g, <1>u DEF LoaderConfigure, TypeOK
<1>5. CASE CmStart(h, m) /\ ~Crash
  <2>1. conns' \in [Modules -> {"nosub", "none", "open", "live"}]
    BY <1>5 DEF CmStart, TypeOK
  <2> QED BY <1>5, <1>t, <1>h, <1>u, <2>1 DEF CmStart, TypeOK
<1>6. CASE LoaderStart(h, m) /\ ~Crash
  <2>1. /\ run' \in [Modules -> BOOLEAN]
        /\ runner' \in [Modules -> {"none", "running", "finished"}]
    BY <1>6 DEF LoaderStart, TypeOK
  <2>2. TaskOK /\ StatusOK
    BY <1>6, <1>h, <1>g, <1>u DEF LoaderStart
  <2> QED BY <1>6, <1>t, <2>1, <2>2 DEF LoaderStart, TypeOK
<1>7. CASE LoaderStop(h, m) /\ ~Crash
  BY <1>7, <1>t, <1>h, <1>u DEF LoaderStop, TypeOK
<1>8. CASE JoinRunner(h, m)
  BY <1>8, <1>t, <1>h, <1>u DEF JoinRunner, TypeOK
<1>9. CASE CmStop(h, m)
  <2>1. conns' \in [Modules -> {"nosub", "none", "open", "live"}]
    BY <1>9 DEF CmStop, TypeOK
  <2>2. TaskOK /\ StatusOK
    BY <1>9, <1>h, <1>g, <1>u DEF CmStop
  <2> QED BY <1>9, <1>t, <2>1, <2>2 DEF CmStop, TypeOK
<1>10. CASE LoaderUnconfigure(h, m)
  BY <1>10, <1>t, <1>h, <1>u DEF LoaderUnconfigure, TypeOK, modVars
<1>11. CASE RemoveChannel(h, m) /\ ~Crash
  <2>1. conns' \in [Modules -> {"nosub", "none", "open", "live"}]
    BY <1>11 DEF RemoveChannel, TypeOK
  <2> QED BY <1>11, <1>t, <1>g, <2>1 DEF RemoveChannel, TypeOK
<1>12. CASE LoaderUnload(h, m)
  <2>1. loaded' \in [Modules -> BOOLEAN]
    BY <1>12 DEF LoaderUnload, TypeOK, modVars
  <2>2. TaskOK /\ StatusOK
    BY <1>12, <1>h, <1>g, <1>u DEF LoaderUnload, modVars
  <2> QED BY <1>12, <1>t, <2>1, <2>2 DEF LoaderUnload, TypeOK, modVars
<1>13. CASE LoaderCommand(h, m)
  <2>1. TaskOK /\ StatusOK
    BY <1>13, <1>h, <1>g, <1>u DEF LoaderCommand
  <2> QED BY <1>13, <1>t, <2>1 DEF LoaderCommand, TypeOK
<1>14. CASE TouchErased(h, m)
  BY <1>14, <1>c DEF TouchErased
<1> QED BY <1>c, <1>1, <1>2, <1>3, <1>4, <1>5, <1>6, <1>7, <1>8, <1>9, <1>10, <1>11,
           <1>12, <1>13, <1>14 DEF Task

(* The type invariant is inductive: for any number of handlers. *)
THEOREM TypeCorrect == Safety => []TypeOK
<1>1. Init => TypeOK
  BY DEF Init, TypeOK, Status, Quiet, NoTasks, TaskStates, Ops, BuiltIn, PCs
<1>2. TypeOK /\ [Next]_vars => TypeOK'
  <2> SUFFICES ASSUME TypeOK, [Next]_vars PROVE TypeOK'
    OBVIOUS
  <2>1. ASSUME NEW h \in Handlers, Command(h) PROVE TypeOK'
    BY <2>1, CommandType
  <2>2. ASSUME NEW h \in Handlers, Handle(h) PROVE TypeOK'
    BY <2>2, HandleType
  <2>3. ASSUME NEW h \in Handlers, NEW m \in Modules, Task(h, m) PROVE TypeOK'
    BY <2>3, TaskType
  <2>4. ASSUME NEW m \in Modules, RunnerReturns(m) \/ RunnerGivesUp(m) PROVE TypeOK'
    BY <2>4 DEF RunnerReturns, RunnerGivesUp, TypeOK, rpcVars
  <2>5. CASE MainReturns \/ MainExit \/ Kill
    BY <2>5 DEF MainReturns, MainExit, Kill, TypeOK, modVars, rpcVars
  <2>6. CASE Boot
    BY <2>6 DEF Boot, TypeOK, Status, Quiet, NoTasks, TaskStates, Ops, BuiltIn, PCs
  <2>7. CASE UNCHANGED vars
    BY <2>7 DEF vars, TypeOK, modVars, rpcVars
  <2>8. ASSUME NEW m \in Modules, SendBlocks(m) \/ SendReturns(m) PROVE TypeOK'
    BY <2>8, SendStep
  <2> QED BY <2>1, <2>2, <2>3, <2>4, <2>5, <2>6, <2>7, <2>8 DEF Next
<1> QED BY <1>1, <1>2, PTL DEF Safety

-----------------------------------------------------------------------------
(* No orphan threads.                                                      *)

(* The part of the inductive invariant that speaks of one module. *)
AtRest(m) ==
    status[m] \in Quiet \cup {"absent"} => runner[m] = "none" /\ conns[m] # "live"

(* A step that changes nothing but module m and its task. *)
Local(h, m) ==
    /\ UNCHANGED <<pc, op>>
    /\ \A n \in Modules \ {m} :
         /\ status'[n] = status[n] /\ runner'[n] = runner[n]
         /\ conns'[n] = conns[n] /\ task'[h][n] = task[h][n]

(* After a local step only the module of the task needs a look. *)
LEMMA LocalStep ==
    ASSUME SingleHandler, IInv, NEW h \in Handlers, NEW m \in Modules,
           Local(h, m), AtRest(m)', TaskInv(h, m)', TypeOK'
    PROVE  IInv'
<1>1. ASSUME NEW n \in Modules PROVE AtRest(n)' /\ TaskInv(h, n)'
  BY DEF IInv, NoOrphanThreads, AtRest, TaskInv, Local, Running
<1>2. \A k \in Handlers : k = h
  BY DEF SingleHandler
<1> QED BY <1>1, <1>2 DEF IInv, NoOrphanThreads, AtRest

(* The transitional status of each operation. *)
LEMMA TransitionQuiet ==
    ASSUME NEW o \in Ops \ {"unload"}
    PROVE  /\ o = "configure" => TransitionOf(o) = "configuring"
           /\ o = "start" => TransitionOf(o) = "starting"
           /\ o = "stop" => TransitionOf(o) = "stopping"
           /\ o = "unconfigure" => TransitionOf(o) = "unconfiguring"
           /\ TransitionOf(o) \in Quiet \cup {"absent"} => o \in {"configure", "unconfigure"}
<1>1. CASE o \in BuiltIn
  BY <1>1 DEF BuiltIn, TransitionOf, Quiet
<1>2. CASE o \in Custom
  <2>1. o \notin BuiltIn /\ TransitionOf(o) = Transition[o]
    BY <1>2, ConstantsAssumption DEF BuiltIn, TransitionOf
  <2> QED BY <1>2, <2>1, ConstantsAssumption DEF CustomStatus, BuiltIn
<1> QED BY <1>1, <1>2 DEF Ops

(* Every step of a task but those of the loading loop preserves IInv. *)
LEMMA TaskStep ==
    ASSUME SingleHandler, IInv, NEW h \in Handlers, NEW m \in Modules,
           Task(h, m), ~Load(h, m), ~AddChannels(h, m)
    PROVE  IInv'
<1>0. TypeOK /\ TypeOK'
  BY TaskType DEF IInv
<1>c. CASE Crash
  BY <1>c, <1>0 DEF Crash, IInv, NoOrphanThreads, TaskInv, modVars, rpcVars, Running
<1>i. AtRest(m) /\ TaskInv(h, m)
  BY DEF IInv, NoOrphanThreads, AtRest
<1>o. op[h] \in Ops
  BY <1>0 DEF TypeOK
<1>q. op[h] # "unload" =>
        /\ op[h] = "configure" => TransitionOf(op[h]) = "configuring"
        /\ op[h] = "start" => TransitionOf(op[h]) = "starting"
        /\ op[h] = "stop" => TransitionOf(op[h]) = "stopping"
        /\ op[h] = "unconfigure" => TransitionOf(op[h]) = "unconfiguring"
        /\ TransitionOf(op[h]) \in Quiet \cup {"absent"} => op[h] \in {"configure", "unconfigure"}
  BY <1>o, TransitionQuiet
<1>u. "unload" \notin Custom
  BY ConstantsAssumption DEF BuiltIn
<1>t. \A s \in TaskStates : task' = [task EXCEPT ![h][m] = s] =>
        task'[h][m] = s /\ \A n \in Modules \ {m} : task'[h][n] = task[h][n]
  BY <1>0 DEF TypeOK
<1>a. /\ "half" \in TaskStates /\ "entered" \in TaskStates /\ "joining" \in TaskStates
      /\ "done" \in TaskStates /\ "threw" \in TaskStates
  BY DEF TaskStates
<1> DEFINE Goal == Local(h, m) /\ AtRest(m)' /\ TaskInv(h, m)'
<1> USE DEF TaskAt, Running, Advance, Finish, Throw
<1>1. CASE Enter(h, m)
  <2>1. Running(h) /\ op[h] # "unload" /\ task[h][m] = "queued"
    BY <1>1 DEF Enter
  <2>2. status' = [status EXCEPT ![m] = TransitionOf(op[h])]
    BY <1>1 DEF Enter
  <2>3. status'[m] = TransitionOf(op[h]) /\ task'[h][m] = "entered"
    BY <1>1, <2>2, <1>0, <1>t, <1>a DEF Enter, TypeOK
  <2>4. Local(h, m)
    BY <1>1, <2>2, <1>0, <1>t, <1>a DEF Enter, Local, TypeOK
  <2>5. AtRest(m)'
    BY <1>1, <2>1, <2>3, <1>i, <1>q DEF AtRest, TaskInv, Enter, Quiet
  <2>6. TaskInv(h, m)'
    BY <1>1, <2>1, <2>3, <1>i DEF TaskInv, TransitionOf, Enter
  <2> QED BY <1>0, <2>4, <2>5, <2>6, LocalStep
<1>2. CASE LoaderConfigure(h, m) /\ ~Crash
  <2>1. Local(h, m)
    BY <1>2, <1>0, <1>t, <1>a DEF LoaderConfigure, Local, TypeOK
  <2>2. /\ runner'[m] = "none" /\ conns'[m] # "live" /\ op'[h] = "configure"
        /\ task'[h][m] \in {"done", "threw"} /\ pc'[h] # "merge"
    BY <1>2, <1>0, <1>i, <1>q, <1>t, <1>a DEF LoaderConfigure, AtRest, TaskInv, TypeOK, Quiet
  <2> QED BY <1>0, <2>1, <2>2, LocalStep DEF AtRest, TaskInv
<1>3. CASE CmStart(h, m) /\ ~Crash
  <2>1. Local(h, m)
    BY <1>3, <1>0, <1>t, <1>a DEF CmStart, Local, TypeOK
  <2>2. /\ status'[m] = "starting" /\ op'[h] = "start" /\ pc'[h] # "merge"
        /\ task'[h][m] \in {"half", "threw"} /\ TransitionOf(op[h]) = "starting"
    BY <1>3, <1>0, <1>i, <1>q, <1>t, <1>a DEF CmStart, TaskInv, TypeOK
  <2>3. AtRest(m)' /\ TaskInv(h, m)'
    BY <2>2, <1>3 DEF AtRest, TaskInv, Quiet, CmStart, TransitionOf
  <2> QED BY <1>0, <2>1, <2>3, LocalStep
<1>4. CASE LoaderStart(h, m) /\ ~Crash
  <2>1. Local(h, m)
    BY <1>4, <1>0, <1>t, <1>a DEF LoaderStart, Local, TypeOK
  <2>2. /\ status'[m] \in {"starting", "running"} /\ op'[h] = "start" /\ pc'[h] # "merge"
        /\ task'[h][m] \in {"done", "threw"}
    BY <1>4, <1>0, <1>i, <1>q, <1>t, <1>a DEF LoaderStart, TaskInv, TypeOK
  <2>3. AtRest(m)' /\ TaskInv(h, m)'
    BY <2>2 DEF AtRest, TaskInv, Quiet
  <2> QED BY <1>0, <2>1, <2>3, LocalStep
<1>5. CASE LoaderStop(h, m) /\ ~Crash
  <2>1. Local(h, m)
    BY <1>5, <1>0, <1>t, <1>a DEF LoaderStop, Local, TypeOK
  <2>2. /\ status'[m] = "stopping" /\ op'[h] = "stop" /\ pc'[h] # "merge"
        /\ task'[h][m] = "joining" /\ TransitionOf(op[h]) = "stopping"
    BY <1>5, <1>0, <1>i, <1>q, <1>t, <1>a DEF LoaderStop, TaskInv, TypeOK
  <2>3. AtRest(m)' /\ TaskInv(h, m)'
    BY <2>2, <1>5 DEF AtRest, TaskInv, Quiet, LoaderStop, TransitionOf
  <2> QED BY <1>0, <2>1, <2>3, LocalStep
<1>6. CASE JoinRunner(h, m)
  <2>1. Local(h, m)
    BY <1>6, <1>0, <1>t, <1>a DEF JoinRunner, Local, TypeOK
  <2>2. /\ status'[m] = "stopping" /\ op'[h] = "stop" /\ pc'[h] # "merge"
        /\ task'[h][m] \in {"half", "threw"} /\ TransitionOf(op[h]) = "stopping"
        /\ runner'[m] = "none"
    BY <1>6, <1>0, <1>i, <1>q, <1>t, <1>a DEF JoinRunner, TaskInv, TypeOK
  <2>3. AtRest(m)' /\ TaskInv(h, m)'
    BY <2>2, <1>6 DEF AtRest, TaskInv, Quiet, JoinRunner, TransitionOf
  <2> QED BY <1>0, <2>1, <2>3, LocalStep
<1>7. CASE CmStop(h, m)
  <2>1. Local(h, m)
    BY <1>7, <1>0, <1>t, <1>a DEF CmStop, Local, TypeOK
  <2>2. /\ op'[h] = "stop" /\ pc'[h] # "merge" /\ task'[h][m] \in {"done", "threw"}
        /\ runner'[m] = "none" /\ conns'[m] # "live"
    BY <1>7, <1>0, <1>i, <1>q, <1>t, <1>a DEF CmStop, TaskInv, TypeOK
  <2>3. AtRest(m)' /\ TaskInv(h, m)'
    BY <2>2 DEF AtRest, TaskInv
  <2> QED BY <1>0, <2>1, <2>3, LocalStep
<1>8. CASE LoaderUnconfigure(h, m)
  <2>1. Local(h, m)
    BY <1>8, <1>0, <1>t, <1>a DEF LoaderUnconfigure, Local, TypeOK, modVars
  <2>2. AtRest(m)' /\ TaskInv(h, m)'
    BY <1>8, <1>i, <1>t, <1>a DEF LoaderUnconfigure, AtRest, TaskInv, modVars, TransitionOf
  <2> QED BY <1>0, <2>1, <2>2, LocalStep
<1>9. CASE RemoveChannel(h, m) /\ ~Crash
  <2>1. Local(h, m)
    BY <1>9, <1>0, <1>t, <1>a DEF RemoveChannel, Local, TypeOK
  <2>2. /\ status'[m] = "booted" /\ op'[h] = "unconfigure" /\ task'[h][m] = "done"
        /\ runner'[m] = "none" /\ conns'[m] # "live"
    BY <1>9, <1>0, <1>i, <1>q, <1>t, <1>a DEF RemoveChannel, AtRest, TaskInv, TypeOK, Quiet
  <2>3. AtRest(m)' /\ TaskInv(h, m)'
    BY <2>2 DEF AtRest, TaskInv
  <2> QED BY <1>0, <2>1, <2>3, LocalStep
<1>10. CASE LoaderUnload(h, m)
  <2>1. Local(h, m)
    BY <1>10, <1>0, <1>t, <1>a DEF LoaderUnload, Local, TypeOK, modVars
  <2>2. /\ op'[h] = "unload" /\ task'[h][m] \in {"done", "threw"} /\ pc'[h] # "merge"
        /\ runner'[m] = "none" /\ conns'[m] # "live"
    BY <1>10, <1>0, <1>i, <1>q, <1>t, <1>a DEF LoaderUnload, AtRest, TaskInv, TypeOK, Quiet, modVars
  <2>3. AtRest(m)' /\ TaskInv(h, m)'
    BY <2>2 DEF AtRest, TaskInv
  <2> QED BY <1>0, <2>1, <2>3, LocalStep
<1>11. CASE LoaderCommand(h, m)
  <2>1. op[h] \in Custom /\ op[h] \notin BuiltIn /\ Running(h) /\ task[h][m] = "entered"
    BY <1>11, ConstantsAssumption DEF LoaderCommand
  <2>2. Local(h, m)
    BY <1>11, <1>0, <1>t, <1>a DEF LoaderCommand, Local, TypeOK
  <2>3. /\ status'[m] \notin Quiet \cup {"absent"} /\ task'[h][m] \in {"done", "threw"}
        /\ op'[h] = op[h] /\ pc'[h] # "merge"
    <3>1. Target[op[h]] \notin Quiet \cup {"absent"} /\ TransitionOf(op[h]) \notin Quiet \cup {"absent"}
      BY <2>1, <1>q, ConstantsAssumption DEF CustomStatus, BuiltIn
    <3> QED BY <1>11, <2>1, <3>1, <1>0, <1>i, <1>t, <1>a DEF LoaderCommand, TaskInv, TypeOK, BuiltIn
  <2>4. AtRest(m)' /\ TaskInv(h, m)'
    BY <2>3 DEF AtRest, TaskInv
  <2> QED BY <1>0, <2>2, <2>4, LocalStep
<1>12. CASE TouchErased(h, m)
  BY <1>12, <1>c DEF TouchErased
<1> QED BY <1>c, <1>1, <1>2, <1>3, <1>4, <1>5, <1>6, <1>7, <1>8, <1>9, <1>10, <1>11, <1>12 DEF Task

(* The loading loop only adds entries, and no thread with them. *)
LEMMA LoadStep ==
    ASSUME SingleHandler, IInv, NEW h \in Handlers, NEW m \in Modules,
           Load(h, m) \/ AddChannels(h, m)
    PROVE  IInv'
<1>0. TypeOK /\ TypeOK'
  BY TaskType DEF IInv, Task
<1>c. CASE Crash
  BY <1>c, <1>0 DEF Crash, IInv, NoOrphanThreads, TaskInv, modVars, rpcVars, Running
<1>1. \A k \in Handlers : k = h
  BY DEF SingleHandler
<1>2. ~Running(h)'  \/ Crash
  BY <1>0 DEF Load, AddChannels, Running, TypeOK
<1>3. CASE ~Crash
  <2>1. ASSUME NEW n \in Modules PROVE AtRest(n)'
    BY <1>0, <1>3, <2>1 DEF IInv, NoOrphanThreads, AtRest, Load, AddChannels, TypeOK, Quiet
  <2>2. ASSUME NEW k \in Handlers, NEW n \in Modules PROVE TaskInv(k, n)'
    BY <1>1, <1>2, <1>3 DEF TaskInv
  <2> QED BY <1>0, <2>1, <2>2 DEF IInv, NoOrphanThreads, AtRest
<1> QED BY <1>c, <1>3

(* A dispatch starts tasks whose modules have the status they rely on. *)
LEMMA DispatchStep ==
    ASSUME SingleHandler, IInv, TypeOK', NEW h \in Handlers, UNCHANGED modVars,
           NEW o \in Ops, NEW S, NEW next \in PCs, Dispatch(h, o, S, next),
           next = "merge" => o = "unconfigure",
           \A m \in Modules \cap S :
               /\ o = "configure" => status[m] = "booted"
               /\ o = "unconfigure" => status[m] = "ready"
               /\ o = "unload" => status[m] = "booted"
    PROVE  IInv'
<1>0. TypeOK
  BY DEF IInv
<1>1. ASSUME NEW m \in Modules PROVE AtRest(m)'
  BY <1>1 DEF IInv, NoOrphanThreads, AtRest, modVars
<1>2. ASSUME NEW m \in Modules PROVE TaskInv(h, m)'
  <2>1. op'[h] = o /\ pc'[h] = next /\ task'[h][m] = IF m \in S THEN "queued" ELSE "off"
    BY <1>0 DEF Dispatch, TypeOK
  <2> QED BY <2>1 DEF TaskInv, modVars
<1> QED BY <1>1, <1>2 DEF IInv, NoOrphanThreads, AtRest, SingleHandler

(* A reply, or a new configure command: no task relies on anything. *)
LEMMA QuietStep ==
    ASSUME SingleHandler, IInv, TypeOK', NEW h \in Handlers, UNCHANGED modVars,
           pc' = [pc EXCEPT ![h] = "idle"] \/ pc' = [pc EXCEPT ![h] = "loading"]
    PROVE  IInv'
BY DEF IInv, NoOrphanThreads, TaskInv, modVars, Running, TypeOK, SingleHandler

(* Commands and the steps between their phases preserve IInv. *)
LEMMA RpcStep ==
    ASSUME SingleHandler, IInv, NEW h \in Handlers, Command(h) \/ Handle(h)
    PROVE  IInv'
<1>0. TypeOK /\ TypeOK'
  BY CommandType, HandleType DEF IInv
<1>p. {"run", "merge", "downStop", "downUnconf"} \subseteq PCs
  BY DEF PCs
<1>o. BuiltIn \subseteq Ops /\ Custom \subseteq Ops /\ Custom \cap BuiltIn = {}
  BY ConstantsAssumption DEF Ops
<1>1. ASSUME NEW T \in SUBSET Types, BeginConfigure(h, T) PROVE IInv'
  BY <1>0, <1>1, QuietStep DEF BeginConfigure
<1>2. ASSUME NEW T \in SUBSET Types, BeginStart(h, T) PROVE IInv'
  BY <1>0, <1>2, <1>p, <1>o, DispatchStep DEF BeginStart, Begin, BuiltIn
<1>3. ASSUME NEW T \in SUBSET Types, BeginStop(h, T) PROVE IInv'
  BY <1>0, <1>3, <1>p, <1>o, DispatchStep DEF BeginStop, Begin, BuiltIn
<1>4. ASSUME NEW T \in SUBSET Types, BeginUnconfigure(h, T) PROVE IInv'
  BY <1>0, <1>4, <1>p, <1>o, DispatchStep DEF BeginUnconfigure, Begin, BuiltIn, Eligible
<1>5. ASSUME NEW T \in SUBSET Types, BeginDown(h, T) PROVE IInv'
  BY <1>0, <1>5, <1>p, <1>o, DispatchStep DEF BeginDown, BuiltIn
<1>6. ASSUME NEW T \in SUBSET Types, NEW c \in Custom, BeginCustom(h, T, c) PROVE IInv'
  BY <1>0, <1>6, <1>p, <1>o, DispatchStep DEF BeginCustom, BuiltIn
<1>7. CASE DispatchConfigure(h)
  <2>1. CASE Eligible(sel[h], {"booted"}) = {}
    BY <1>0, <1>7, <2>1, QuietStep DEF DispatchConfigure
  <2>2. CASE Eligible(sel[h], {"booted"}) # {}
    <3>1. Dispatch(h, "configure", Eligible(sel[h], {"booted"}), "run") /\ UNCHANGED modVars
      BY <1>7, <2>2 DEF DispatchConfigure
    <3>2. \A m \in Modules \cap Eligible(sel[h], {"booted"}) : status[m] = "booted"
      BY DEF Eligible
    <3> QED BY <1>0, <3>1, <3>2, <1>p, <1>o, DispatchStep DEF BuiltIn
  <2> QED BY <2>1, <2>2
<1>8. CASE EndCommand(h)
  BY <1>0, <1>8, QuietStep DEF EndCommand, Reply
<1>9. CASE UnloadUnconfigured(h)
  <2>1. \A m \in {n \in Modules : task[h][n] = "done"} : status[m] = "booted"
    BY <1>9 DEF UnloadUnconfigured, IInv, TaskInv, Running
  <2> QED BY <1>0, <1>9, <2>1, <1>p, <1>o, DispatchStep DEF UnloadUnconfigured, BuiltIn
<1>10. CASE DownUnconfigure(h)
  <2>1. \A m \in Eligible(sel[h], {"ready"}) : status[m] = "ready"
    BY DEF Eligible
  <2> QED BY <1>0, <1>10, <2>1, <1>p, <1>o, DispatchStep DEF DownUnconfigure, BuiltIn
<1>11. CASE DownEnd(h)
  BY <1>0, <1>11, QuietStep DEF DownEnd, Reply
<1> QED BY <1>1, <1>2, <1>3, <1>4, <1>5, <1>6, <1>7, <1>8, <1>9, <1>10, <1>11 DEF Command, Handle

(* The inductive invariant. *)
LEMMA Inductive ==
    ASSUME SingleHandler
    PROVE  /\ Init => IInv
           /\ IInv /\ [Next]_vars => IInv'
<1>1. Init => IInv
  <2>1. Init => TypeOK
    BY DEF Init, TypeOK, Status, Quiet, NoTasks, TaskStates, Ops, BuiltIn, PCs
  <2> QED BY <2>1 DEF Init, IInv, NoOrphanThreads, TaskInv, Running, NoTasks
<1>2. IInv /\ [Next]_vars => IInv'
  <2> SUFFICES ASSUME IInv, [Next]_vars PROVE IInv'
    OBVIOUS
  <2>1. ASSUME NEW h \in Handlers, Command(h) \/ Handle(h) PROVE IInv'
    BY <2>1, RpcStep
  <2>2. ASSUME NEW h \in Handlers, NEW m \in Modules, Task(h, m) PROVE IInv'
    BY <2>2, TaskStep, LoadStep
  <2>3. ASSUME NEW m \in Modules, RunnerReturns(m) \/ RunnerGivesUp(m) PROVE IInv'
    <3>1. UNCHANGED <<proc, status, loaded, conns, rpcVars>>
      BY <2>3 DEF RunnerReturns, RunnerGivesUp
    <3>2. TypeOK' /\ (\A n \in Modules : runner[n] = "none" => runner'[n] = "none")
      BY <2>3 DEF RunnerReturns, RunnerGivesUp, rpcVars, IInv, TypeOK
    <3>3. NoOrphanThreads'
      BY <3>1, <3>2 DEF IInv, NoOrphanThreads
    <3>4. ASSUME NEW k \in Handlers, NEW n \in Modules PROVE TaskInv(k, n)'
      BY <3>1, <3>2 DEF IInv, TaskInv, Running, rpcVars
    <3> QED BY <3>2, <3>3, <3>4 DEF IInv
  <2>4. CASE MainReturns \/ MainExit \/ Kill
    BY <2>4 DEF MainReturns, MainExit, Kill, modVars, rpcVars, IInv, TypeOK, NoOrphanThreads,
                TaskInv, Running
  <2>5. CASE Boot
    BY <2>5, <1>1 DEF Boot, Init, IInv, TypeOK, NoOrphanThreads, TaskInv, Running, NoTasks,
                      TaskStates, Status, Quiet, Ops, BuiltIn, PCs
  <2>6. CASE UNCHANGED vars
    BY <2>6 DEF vars, modVars, rpcVars, IInv, TypeOK, NoOrphanThreads, TaskInv, Running
  <2>7. ASSUME NEW m \in Modules, SendBlocks(m) \/ SendReturns(m) PROVE IInv'
    <3>1. TypeOK' /\ UNCHANGED <<status, conns, runner, pc, op, task>>
      BY <2>7, SendStep DEF IInv
    <3> QED BY <3>1 DEF IInv, NoOrphanThreads, TaskInv, Running
  <2> QED BY <2>1, <2>2, <2>3, <2>4, <2>5, <2>6, <2>7 DEF Next
<1> QED BY <1>1, <1>2

(***************************************************************************)
(* With one command at a time, a module at rest has no live threads, for   *)
(* any set of modules and whatever operations failed before.               *)
(***************************************************************************)
THEOREM NoOrphans ==
    ASSUME SingleHandler
    PROVE  Safety => []NoOrphanThreads
<1>1. IInv => NoOrphanThreads
  BY DEF IInv
<1> QED BY <1>1, Inductive, PTL DEF Safety

(***************************************************************************)
(* With one command at a time, down asks the process to exit only when no  *)
(* module has a live thread.                                               *)
(***************************************************************************)
THEOREM DownClean ==
    ASSUME SingleHandler
    PROVE  Safety => DownIsClean
<1> DEFINE Clean == proc = "up" /\ proc' = "stopping" =>
                      \A m \in Modules : runner[m] = "none" /\ conns[m] # "live"
<1>1. IInv /\ [Next]_vars => [Clean]_vars
  <2> SUFFICES ASSUME IInv, Next, proc = "up", proc' = "stopping"
               PROVE  \A m \in Modules : runner[m] = "none" /\ conns[m] # "live"
    OBVIOUS
  <2>1. AllBooted
    <3>1. ASSUME NEW h \in Handlers, Command(h) PROVE FALSE
      BY <3>1 DEF Command, BeginConfigure, BeginStart, BeginStop, BeginUnconfigure, Begin,
                  BeginDown, BeginCustom
    <3>2. ASSUME NEW h \in Handlers, Handle(h) PROVE AllBooted
      BY <3>2 DEF Handle, DispatchConfigure, EndCommand, UnloadUnconfigured, DownUnconfigure, DownEnd
    <3>3. ASSUME NEW h \in Handlers, NEW m \in Modules, Task(h, m) PROVE FALSE
      BY <3>3 DEF Task, Load, AddChannels, Enter, LoaderConfigure, CmStart, LoaderStart,
                  LoaderStop, JoinRunner, CmStop, LoaderUnconfigure, RemoveChannel,
                  LoaderUnload, LoaderCommand, TouchErased, Crash
    <3> QED BY <3>1, <3>2, <3>3 DEF Next, RunnerReturns, RunnerGivesUp, SendBlocks,
           SendReturns, MainReturns, MainExit, Kill, Boot
  <2> QED BY <2>1 DEF IInv, NoOrphanThreads, AllBooted, Present, Quiet
<1>2. Safety => [][Clean]_vars
  BY <1>1, Inductive, PTL DEF Safety
<1> QED BY <1>2 DEF DownIsClean

(***************************************************************************)
(* However many commands overlap, the code of a module is never unloaded   *)
(* under its own runner thread.                                            *)
(***************************************************************************)
THEOREM RunnerModule == Safety => []RunnerHasModule
<1>1. Init => RunnerHasModule
  BY DEF Init, RunnerHasModule
<1>2. TypeOK /\ RunnerHasModule /\ [Next]_vars => RunnerHasModule'
  <2> SUFFICES ASSUME TypeOK, RunnerHasModule, [Next]_vars PROVE RunnerHasModule'
    OBVIOUS
  <2> USE DEF RunnerHasModule
  <2>1. ASSUME NEW h \in Handlers, Command(h) \/ Handle(h) PROVE RunnerHasModule'
    <3>1. UNCHANGED modVars
      BY <2>1 DEF Command, BeginConfigure, BeginStart, BeginStop, BeginUnconfigure, Begin,
                  BeginDown, BeginCustom, Handle, DispatchConfigure, EndCommand,
                  UnloadUnconfigured, DownUnconfigure, DownEnd
    <3> QED BY <3>1 DEF modVars
  <2>2. ASSUME NEW h \in Handlers, NEW m \in Modules, Task(h, m) PROVE RunnerHasModule'
    <3>1. CASE Load(h, m)
      BY <3>1 DEF Load, TypeOK
    <3>2. CASE LoaderStart(h, m)
      BY <3>2 DEF LoaderStart, TypeOK, Crash, modVars
    <3>3. CASE JoinRunner(h, m)
      BY <3>3 DEF JoinRunner, TypeOK
    <3>4. CASE LoaderUnload(h, m)
      BY <3>4 DEF LoaderUnload, TypeOK, modVars
    <3>5. CASE UNCHANGED <<loaded, runner>>
      BY <3>5
    <3> QED BY <2>2, <3>1, <3>2, <3>3, <3>4, <3>5
         DEF Task, AddChannels, Enter, LoaderConfigure, CmStart, LoaderStop, CmStop,
             LoaderUnconfigure, RemoveChannel, LoaderCommand, TouchErased, Crash, modVars
  <2>3. ASSUME NEW m \in Modules, RunnerReturns(m) \/ RunnerGivesUp(m) PROVE RunnerHasModule'
    BY <2>3 DEF RunnerReturns, RunnerGivesUp, TypeOK
  <2>4. CASE MainReturns \/ MainExit \/ Kill \/ Boot
    BY <2>4 DEF MainReturns, MainExit, Kill, Boot, modVars
  <2>5. CASE UNCHANGED vars
    BY <2>5 DEF vars, modVars
  <2>6. ASSUME NEW m \in Modules, SendBlocks(m) \/ SendReturns(m) PROVE RunnerHasModule'
    BY <2>6, SendStep
  <2> QED BY <2>1, <2>2, <2>3, <2>4, <2>5, <2>6 DEF Next
<1> QED BY <1>1, <1>2, TypeCorrect, PTL DEF Safety

-----------------------------------------------------------------------------
(* Running modules have their threads.                                     *)

(* No custom commands: "running" is then written by start alone. *)
NoCustomCommands == Custom = {}

(* The queued connections of m are there, or have their handler threads. *)
Wired(m) == m \in Queued => conns[m] \in {"open", "live"}
Live(m) == m \in Queued => conns[m] = "live"

(* What the status of a module says about its connections and threads. *)
StatusInv(m) ==
    /\ status[m] = "running" => loaded[m] /\ runner[m] # "none" /\ Live(m)
    /\ status[m] = "ready" => Wired(m)

(* What the loading loop and the tasks know about the connections. *)
WireInv(h, m) ==
    /\ pc[h] = "loading" /\ task[h][m] = "done" => Wired(m)
    /\ Running(h) =>
         /\ op[h] = "configure" /\ task[h][m] \in {"queued", "entered"} => Wired(m)
         /\ op[h] = "start" =>
              /\ task[h][m] = "queued" => status[m] \in {"ready", "running"}
              /\ task[h][m] = "entered" => Wired(m)
              /\ task[h][m] = "half" => Live(m)
         /\ op[h] = "stop" =>
              /\ task[h][m] = "queued" => status[m] = "running"
              /\ task[h][m] \in {"entered", "joining", "half"} => Live(m)

RunInv ==
    /\ \A m \in Modules : StatusInv(m)
    /\ \A h \in Handlers, m \in Modules : WireInv(h, m)

(* A step of module m alone: the other modules keep what RunInv speaks of. *)
Alone(h, m) ==
    /\ UNCHANGED <<pc, op>>
    /\ \A n \in Modules \ {m} :
         /\ status'[n] = status[n] /\ runner'[n] = runner[n] /\ loaded'[n] = loaded[n]
         /\ conns'[n] = conns[n] /\ task'[h][n] = task[h][n]

(* After such a step only that module needs a look. *)
LEMMA AloneStep ==
    ASSUME SingleHandler, RunInv, NEW h \in Handlers, NEW m \in Modules,
           Alone(h, m), StatusInv(m)', WireInv(h, m)'
    PROVE  RunInv'
<1>1. ASSUME NEW n \in Modules PROVE StatusInv(n)' /\ WireInv(h, n)'
  BY DEF RunInv, StatusInv, WireInv, Alone, Running, Wired, Live
<1>2. \A k \in Handlers : k = h BY DEF SingleHandler
<1> QED BY <1>1, <1>2 DEF RunInv

(* Every step of a task but those of the loading loop preserves RunInv. *)
LEMMA TaskRun ==
    ASSUME SingleHandler, NoCustomCommands, IInv, RunInv,
           NEW h \in Handlers, NEW m \in Modules,
           Task(h, m), ~Load(h, m), ~AddChannels(h, m)
    PROVE  RunInv'
<1>0. TypeOK /\ status \in [Modules -> Status] /\ loaded \in [Modules -> BOOLEAN]
      /\ conns \in [Modules -> {"nosub", "none", "open", "live"}]
      /\ runner \in [Modules -> {"none", "running", "finished"}]
      /\ task \in [Handlers -> [Modules -> TaskStates]]
  BY DEF IInv, TypeOK
<1>c. CASE Crash
  BY <1>c DEF Crash, RunInv, StatusInv, WireInv, Wired, Live, modVars, rpcVars, Running
<1>i. StatusInv(m) /\ WireInv(h, m) /\ TaskInv(h, m) BY DEF RunInv, IInv
<1>o. op[h] \in BuiltIn BY <1>0 DEF TypeOK, Ops, NoCustomCommands
<1>q. /\ TransitionOf("configure") = "configuring" /\ TransitionOf("start") = "starting"
      /\ TransitionOf("stop") = "stopping" /\ TransitionOf("unconfigure") = "unconfiguring"
  BY DEF TransitionOf
<1>t. ASSUME NEW s \in TaskStates, task' = [task EXCEPT ![h][m] = s]
      PROVE  task'[h][m] = s /\ \A n \in Modules \ {m} : task'[h][n] = task[h][n]
  BY <1>0, <1>t
<1>a. /\ "half" \in TaskStates /\ "entered" \in TaskStates /\ "joining" \in TaskStates
      /\ "done" \in TaskStates /\ "threw" \in TaskStates
  BY DEF TaskStates
<1> USE DEF TaskAt, Advance, Finish, Throw
<1>1. CASE Enter(h, m)
  <2>1. Running(h) /\ op[h] # "unload" /\ task[h][m] = "queued"
        /\ status' = [status EXCEPT ![m] = TransitionOf(op[h])]
        /\ task' = [task EXCEPT ![h][m] = "entered"]
        /\ UNCHANGED <<loaded, conns, runner, pc, op>>
    BY <1>1 DEF Enter
  <2>2. Alone(h, m) /\ task'[h][m] = "entered" /\ status'[m] = TransitionOf(op[h])
    BY <2>1, <1>0, <1>t, <1>a DEF Alone
  <2>3. status'[m] \notin {"running", "ready"} BY <2>1, <2>2, <1>o, <1>q DEF BuiltIn
  <2>4. StatusInv(m)' BY <2>3 DEF StatusInv
  <2>5. WireInv(h, m)'
    BY <2>1, <2>2, <1>i DEF WireInv, StatusInv, Running, Wired, Live
  <2> QED BY <2>2, <2>4, <2>5, AloneStep
<1>2. CASE LoaderConfigure(h, m) /\ ~Crash
  <2>1. Running(h) /\ op[h] = "configure" /\ task[h][m] = "entered"
        /\ UNCHANGED <<loaded, conns, runner, pc, op>>
    BY <1>2 DEF LoaderConfigure
  <2>2. Alone(h, m) /\ task'[h][m] \in {"done", "threw"} /\ status'[m] \in {"ready", status[m]}
    BY <1>2, <1>0, <1>t, <1>a DEF LoaderConfigure, Alone
  <2>3. StatusInv(m)' BY <2>1, <2>2, <1>i DEF StatusInv, WireInv, Wired, Live
  <2>4. WireInv(h, m)' BY <2>1, <2>2 DEF WireInv, Running
  <2> QED BY <2>2, <2>3, <2>4, AloneStep
<1>3. CASE CmStart(h, m) /\ ~Crash
  <2>1. Running(h) /\ op[h] = "start" /\ task[h][m] = "entered"
        /\ UNCHANGED <<status, loaded, runner, pc, op>>
        /\ conns' = [conns EXCEPT ![m] = IF @ = "open" /\ m \in Queued THEN "live" ELSE @]
    BY <1>3 DEF CmStart
  <2>2. Alone(h, m) /\ task'[h][m] \in {"half", "threw"}
    BY <1>3, <2>1, <1>0, <1>t, <1>a DEF CmStart, Alone
  <2>3. status'[m] = "starting" BY <2>1, <1>i, <1>q DEF TaskInv
  <2>4. StatusInv(m)' BY <2>3 DEF StatusInv
  <2>5. Live(m)' BY <2>1, <1>0, <1>i DEF WireInv, Wired, Live
  <2>6. WireInv(h, m)' BY <2>1, <2>2, <2>5 DEF WireInv, Running
  <2> QED BY <2>2, <2>4, <2>6, AloneStep
<1>4. CASE LoaderStart(h, m) /\ ~Crash
  <2>1. Running(h) /\ op[h] = "start" /\ task[h][m] = "half" /\ loaded[m]
        /\ UNCHANGED <<loaded, conns, pc, op>>
        /\ \/ runner' = [runner EXCEPT ![m] = "running"]
           \/ status' = status /\ runner' = runner
    BY <1>4 DEF LoaderStart
  <2>2. Alone(h, m) /\ task'[h][m] \in {"done", "threw"}
    BY <1>4, <2>1, <1>0, <1>t, <1>a DEF LoaderStart, Alone
  <2>3. status[m] = "starting" BY <2>1, <1>i, <1>q DEF TaskInv
  <2>4. status'[m] \in {"starting", "running"}
        /\ (status'[m] = "running" => runner'[m] = "running")
    BY <1>4, <2>1, <2>3, <1>0 DEF LoaderStart
  <2>5. StatusInv(m)' BY <2>1, <2>4, <1>i DEF StatusInv, WireInv, Live
  <2>6. WireInv(h, m)' BY <2>1, <2>2 DEF WireInv, Running
  <2> QED BY <2>2, <2>5, <2>6, AloneStep
<1>5. CASE (LoaderStop(h, m) \/ JoinRunner(h, m)) /\ ~Crash
  <2>1. Running(h) /\ op[h] = "stop" /\ task[h][m] \in {"entered", "joining"}
        /\ UNCHANGED <<status, loaded, conns, pc, op>>
    BY <1>5 DEF LoaderStop, JoinRunner
  <2>2. Alone(h, m) /\ task'[h][m] \in {"joining", "half", "threw"}
    BY <1>5, <2>1, <1>0, <1>t, <1>a DEF LoaderStop, JoinRunner, Alone
  <2>3. status'[m] = "stopping" BY <2>1, <1>i, <1>q DEF TaskInv
  <2>4. StatusInv(m)' BY <2>3 DEF StatusInv
  <2>5. WireInv(h, m)' BY <2>1, <2>2, <1>i DEF WireInv, Running, Live
  <2> QED BY <2>2, <2>4, <2>5, AloneStep
<1>6. CASE CmStop(h, m)
  <2>1. Running(h) /\ op[h] = "stop" /\ task[h][m] = "half"
        /\ UNCHANGED <<loaded, runner, pc, op>>
    BY <1>6 DEF CmStop
  <2>2. Live(m) /\ status[m] = "stopping" BY <2>1, <1>i, <1>q DEF WireInv, TaskInv
  <2>3. Alone(h, m) /\ task'[h][m] \in {"done", "threw"} /\ status'[m] \in {"stopping", "ready"}
    BY <1>6, <2>1, <2>2, <1>0, <1>t, <1>a DEF CmStop, Alone
  <2>4. Wired(m)' BY <1>6, <2>2, <1>0 DEF CmStop, Live, Wired
  <2>5. StatusInv(m)' BY <2>3, <2>4 DEF StatusInv
  <2>6. WireInv(h, m)' BY <2>1, <2>3 DEF WireInv, Running
  <2> QED BY <2>3, <2>5, <2>6, AloneStep
<1>7. CASE LoaderUnconfigure(h, m)
  <2>1. Running(h) /\ op[h] = "unconfigure" /\ UNCHANGED <<modVars, pc, op>>
    BY <1>7 DEF LoaderUnconfigure
  <2>2. Alone(h, m) BY <1>7, <2>1, <1>t, <1>a DEF LoaderUnconfigure, Alone, modVars
  <2>3. StatusInv(m)' BY <2>1, <1>i DEF StatusInv, Wired, Live, modVars
  <2>4. WireInv(h, m)' BY <2>1 DEF WireInv, Running
  <2> QED BY <2>2, <2>3, <2>4, AloneStep
<1>8. CASE RemoveChannel(h, m) /\ ~Crash
  <2>1. Running(h) /\ op[h] = "unconfigure" /\ UNCHANGED <<loaded, runner, pc, op>>
    BY <1>8 DEF RemoveChannel
  <2>2. Alone(h, m) /\ status'[m] = "booted"
    BY <1>8, <2>1, <1>0, <1>t, <1>a DEF RemoveChannel, Alone
  <2>3. StatusInv(m)' BY <2>2 DEF StatusInv
  <2>4. WireInv(h, m)' BY <2>1 DEF WireInv, Running
  <2> QED BY <2>2, <2>3, <2>4, AloneStep
<1>9. CASE LoaderUnload(h, m)
  <2>1. Running(h) /\ op[h] = "unload" /\ task[h][m] = "queued"
        /\ UNCHANGED <<conns, runner, pc, op>>
    BY <1>9 DEF LoaderUnload, modVars
  <2>2. status[m] = "booted" BY <2>1, <1>i DEF TaskInv
  <2>3. Alone(h, m) /\ status'[m] \in {"absent", "booted"}
    BY <1>9, <2>1, <2>2, <1>0, <1>t, <1>a DEF LoaderUnload, Alone, modVars
  <2>4. StatusInv(m)' BY <2>3 DEF StatusInv
  <2>5. WireInv(h, m)' BY <2>1 DEF WireInv, Running
  <2> QED BY <2>3, <2>4, <2>5, AloneStep
<1>10. CASE LoaderCommand(h, m) BY <1>10 DEF LoaderCommand, NoCustomCommands
<1>11. CASE TouchErased(h, m) BY <1>11, <1>c DEF TouchErased
<1> QED BY <1>c, <1>1, <1>2, <1>3, <1>4, <1>5, <1>6, <1>7, <1>8, <1>9, <1>10, <1>11 DEF Task

(* The loading loop: a module whose channels are added is wired. *)
LEMMA LoadRun ==
    ASSUME SingleHandler, IInv, RunInv, NEW h \in Handlers, NEW m \in Modules,
           Load(h, m) \/ AddChannels(h, m)
    PROVE  RunInv'
<1>0. TypeOK /\ status \in [Modules -> Status] /\ loaded \in [Modules -> BOOLEAN]
      /\ conns \in [Modules -> {"nosub", "none", "open", "live"}]
      /\ pc \in [Handlers -> PCs]
      /\ task \in [Handlers -> [Modules -> TaskStates]]
  BY DEF IInv, TypeOK
<1>c. CASE Crash
  BY <1>c DEF Crash, RunInv, StatusInv, WireInv, Wired, Live, modVars, rpcVars, Running
<1>h. \A k \in Handlers : k = h BY DEF SingleHandler
<1>1. CASE ~Crash
  <2>1. \A n \in Modules :
          /\ Wired(n) => Wired(n)'
          /\ Live(n) => Live(n)'
    BY <1>0, <1>1 DEF Load, AddChannels, Wired, Live
  <2>2. \A n \in Modules :
          /\ status'[n] \in {status[n], "booted"} /\ runner'[n] = runner[n]
          /\ loaded[n] => loaded'[n]
    BY <1>0, <1>1 DEF Load, AddChannels
  <2>3. \A n \in Modules : StatusInv(n)'
    BY <2>1, <2>2 DEF RunInv, StatusInv
  <2>4. CASE pc' = [pc EXCEPT ![h] = "idle"]
    <3>1. pc'[h] = "idle" BY <1>0, <2>4
    <3>2. \A n \in Modules : WireInv(h, n)' BY <3>1 DEF WireInv, Running
    <3> QED BY <1>h, <2>3, <3>2 DEF RunInv
  <2>5. CASE pc' = pc /\ task' = [task EXCEPT ![h][m] = "half"]
    <3>1. pc'[h] = "loading" BY <1>1, <2>5 DEF Load, AddChannels
    <3>2. \A n \in Modules : task'[h][n] = "done" => task[h][n] = "done"
      BY <1>0, <2>5
    <3>3. \A n \in Modules : WireInv(h, n)'
      BY <2>1, <2>5, <3>1, <3>2 DEF RunInv, WireInv, Running
    <3> QED BY <1>h, <2>3, <3>3 DEF RunInv
  <2>6. CASE pc' = pc /\ task' = [task EXCEPT ![h][m] = "done"] /\ AddChannels(h, m)
    <3>1. pc'[h] = "loading" BY <2>6 DEF AddChannels
    <3>2. \A n \in Modules : n # m /\ task'[h][n] = "done" => task[h][n] = "done"
      BY <1>0, <2>6
    <3>3. Wired(m)'
      <4>1. conns' = [conns EXCEPT ![m] = IF @ = "none" THEN "open" ELSE @]
            /\ (m \in Queued => conns[m] # "nosub")
        <5>1. task' # [task EXCEPT ![h] = NoTasks]
          BY <1>0, <2>6 DEF NoTasks
        <5> QED BY <1>1, <2>6, <5>1 DEF AddChannels
      <4> QED BY <1>0, <4>1 DEF Wired
    <3>4. \A n \in Modules : WireInv(h, n)'
      BY <2>1, <2>6, <3>1, <3>2, <3>3 DEF RunInv, WireInv, Running
    <3> QED BY <1>h, <2>3, <3>4 DEF RunInv
  <2> QED BY <1>1, <2>4, <2>5, <2>6 DEF Load, AddChannels
<1> QED BY <1>c, <1>1

(* Modules that are handed an operation are fit for it. *)
LEMMA DispatchRun ==
    ASSUME SingleHandler, TypeOK, RunInv, NEW h \in Handlers, NEW o, NEW S,
           NEW next \in PCs, next # "loading", Dispatch(h, o, S, next), UNCHANGED modVars,
           \A m \in Modules \cap S :
             /\ o = "configure" => Wired(m)
             /\ o = "start" => status[m] \in {"ready", "running"}
             /\ o = "stop" => status[m] = "running"
    PROVE  RunInv'
<1>h. \A k \in Handlers : k = h BY DEF SingleHandler
<1>1. /\ pc'[h] = next /\ op'[h] = o
      /\ \A m \in Modules : task'[h][m] = IF m \in S THEN "queued" ELSE "off"
  BY DEF Dispatch, TypeOK
<1>2. \A m \in Modules : StatusInv(m)' /\ (Wired(m) <=> Wired(m)')
  BY DEF RunInv, StatusInv, Wired, Live, modVars
<1>3. ASSUME NEW m \in Modules PROVE WireInv(h, m)'
  <2>1. status'[m] = status[m] BY DEF modVars
  <2>2. task'[h][m] = "queued" => m \in S BY <1>1
  <2>3. task'[h][m] \in {"queued", "off"} BY <1>1
  <2> QED BY <1>1, <1>2, <2>1, <2>2, <2>3 DEF WireInv
<1> QED BY <1>h, <1>2, <1>3 DEF RunInv

(* The handler has nothing to do, or has just begun to load. *)
LEMMA RestRun ==
    ASSUME SingleHandler, RunInv, NEW h \in Handlers, UNCHANGED modVars,
           ~Running(h)', \A m \in Modules : pc'[h] = "loading" => task'[h][m] # "done"
    PROVE  RunInv'
<1>h. \A k \in Handlers : k = h BY DEF SingleHandler
<1>1. \A m \in Modules : StatusInv(m)'
  BY DEF RunInv, StatusInv, Wired, Live, modVars
<1>2. \A m \in Modules : WireInv(h, m)'
  BY DEF WireInv
<1> QED BY <1>h, <1>1, <1>2 DEF RunInv

(* The steps that begin, continue and end a command. *)
LEMMA RpcRun ==
    ASSUME SingleHandler, NoCustomCommands, TypeOK, RunInv, NEW h \in Handlers,
           Command(h) \/ Handle(h)
    PROVE  RunInv'
<1>p. {"run", "merge", "downStop", "downUnconf"} \subseteq PCs BY DEF PCs
<1>r. ASSUME UNCHANGED modVars, pc' = [pc EXCEPT ![h] = "idle"] PROVE RunInv'
  <2>1. pc'[h] = "idle" BY <1>r DEF TypeOK
  <2> QED BY <1>r, <2>1, RestRun DEF Running
<1>1. CASE \E T \in SUBSET Types : BeginConfigure(h, T)
  <2>1. UNCHANGED modVars /\ pc'[h] = "loading" /\ \A m \in Modules : task'[h][m] = "queued"
    BY <1>1 DEF BeginConfigure, TypeOK
  <2> QED BY <2>1, RestRun DEF Running
<1>2. CASE \E T \in SUBSET Types : BeginStart(h, T)
  <2>1. PICK T \in SUBSET Types : BeginStart(h, T) BY <1>2
  <2>2. Dispatch(h, "start", Eligible(T, {"ready", "running"}), "run") /\ UNCHANGED modVars
    BY <2>1 DEF BeginStart, Begin
  <2>3. \A m \in Eligible(T, {"ready", "running"}) : status[m] \in {"ready", "running"}
    BY DEF Eligible
  <2> QED BY <1>p, <2>2, <2>3, DispatchRun
<1>3. CASE \E T \in SUBSET Types : BeginStop(h, T)
  <2>1. PICK T \in SUBSET Types : BeginStop(h, T) BY <1>3
  <2>2. Dispatch(h, "stop", Eligible(T, {"running"}), "run") /\ UNCHANGED modVars
    BY <2>1 DEF BeginStop, Begin
  <2>3. \A m \in Eligible(T, {"running"}) : status[m] = "running" BY DEF Eligible
  <2> QED BY <1>p, <2>2, <2>3, DispatchRun
<1>4. CASE \E T \in SUBSET Types : BeginUnconfigure(h, T)
  <2>1. PICK T \in SUBSET Types : BeginUnconfigure(h, T) BY <1>4
  <2>2. Dispatch(h, "unconfigure", Eligible(T, {"ready"}), "merge") /\ UNCHANGED modVars
    BY <2>1 DEF BeginUnconfigure, Begin
  <2> QED BY <1>p, <2>2, DispatchRun
<1>5. CASE \E T \in SUBSET Types : BeginDown(h, T)
  <2>1. PICK T \in SUBSET Types : BeginDown(h, T) BY <1>5
  <2>2. Dispatch(h, "stop", Eligible(T, {"running"}), "downStop") /\ UNCHANGED modVars
    BY <2>1 DEF BeginDown
  <2>3. \A m \in Eligible(T, {"running"}) : status[m] = "running" BY DEF Eligible
  <2> QED BY <1>p, <2>2, <2>3, DispatchRun
<1>6. CASE DispatchConfigure(h)
  <2>1. CASE pc' = [pc EXCEPT ![h] = "idle"]
    BY <1>6, <1>r, <2>1 DEF DispatchConfigure
  <2>2. CASE Dispatch(h, "configure", Eligible(sel[h], {"booted"}), "run")
    <3>1. UNCHANGED modVars BY <1>6 DEF DispatchConfigure
    <3>2. \A m \in Modules : Wired(m) BY <1>6 DEF DispatchConfigure, RunInv, WireInv
    <3> QED BY <1>p, <2>2, <3>1, <3>2, DispatchRun
  <2> QED BY <1>6, <2>1, <2>2 DEF DispatchConfigure
<1>7. CASE EndCommand(h) \/ DownEnd(h)
  BY <1>7, <1>r DEF EndCommand, DownEnd, Reply
<1>8. CASE UnloadUnconfigured(h)
  <2>1. Dispatch(h, "unload", {m \in Modules : task[h][m] = "done"}, "run") /\ UNCHANGED modVars
    BY <1>8 DEF UnloadUnconfigured
  <2> QED BY <1>p, <2>1, DispatchRun
<1>9. CASE DownUnconfigure(h)
  <2>1. Dispatch(h, "unconfigure", Eligible(sel[h], {"ready"}), "downUnconf") /\ UNCHANGED modVars
    BY <1>9 DEF DownUnconfigure
  <2> QED BY <1>p, <2>1, DispatchRun
<1> QED BY <1>1, <1>2, <1>3, <1>4, <1>5, <1>6, <1>7, <1>8, <1>9
     DEF Command, Handle, NoCustomCommands

(***************************************************************************)
(* With one command at a time and no custom command, a module that reports *)
(* "running" is loaded, has a runner thread and, if it has queued          *)
(* connections, the threads that move their messages.                      *)
(***************************************************************************)
THEOREM RunningThreads ==
    ASSUME SingleHandler, NoCustomCommands
    PROVE  Safety => []RunningHasThreads
<1>1. Init => RunInv
  BY DEF Init, RunInv, StatusInv, WireInv, Running
<1>2. IInv /\ RunInv /\ [Next]_vars => RunInv'
  <2> SUFFICES ASSUME IInv, RunInv, [Next]_vars PROVE RunInv'
    OBVIOUS
  <2>0. TypeOK BY DEF IInv
  <2>1. ASSUME NEW h \in Handlers, Command(h) \/ Handle(h) PROVE RunInv'
    BY <2>0, <2>1, RpcRun
  <2>2. ASSUME NEW h \in Handlers, NEW m \in Modules, Task(h, m) PROVE RunInv'
    BY <2>2, TaskRun, LoadRun
  <2>3. CASE \E m \in Modules : RunnerReturns(m) \/ RunnerGivesUp(m)
    <3>1. UNCHANGED <<status, loaded, conns, rpcVars>>
          /\ \A n \in Modules : runner[n] # "none" => runner'[n] # "none"
      BY <2>0, <2>3 DEF RunnerReturns, RunnerGivesUp, TypeOK
    <3>2. \A n \in Modules : StatusInv(n)' BY <3>1 DEF RunInv, StatusInv, Wired, Live
    <3>3. \A h \in Handlers, n \in Modules : WireInv(h, n)'
      BY <3>1 DEF RunInv, WireInv, Running, Wired, Live, rpcVars
    <3> QED BY <3>2, <3>3 DEF RunInv
  <2>4. CASE MainReturns \/ MainExit \/ Kill \/ UNCHANGED vars
    <3>1. UNCHANGED <<modVars, rpcVars>> BY <2>4 DEF MainReturns, MainExit, Kill, vars
    <3> QED BY <3>1 DEF RunInv, StatusInv, WireInv, Running, Wired, Live, modVars, rpcVars
  <2>5. CASE Boot
    BY <2>5 DEF Boot, RunInv, StatusInv, WireInv, Running
  <2>6. ASSUME NEW m \in Modules, SendBlocks(m) \/ SendReturns(m) PROVE RunInv'
    <3>1. UNCHANGED <<status, loaded, conns, runner, pc, op, task>> BY <2>0, <2>6, SendStep
    <3> QED BY <3>1 DEF RunInv, StatusInv, WireInv, Running, Wired, Live
  <2> QED BY <2>1, <2>2, <2>3, <2>4, <2>5, <2>6 DEF Next
<1>3. RunInv => RunningHasThreads
  BY DEF RunInv, StatusInv, Live, RunningHasThreads
<1> QED BY <1>1, <1>2, <1>3, Inductive, PTL DEF Safety

-----------------------------------------------------------------------------
(* Modules whose operation failed.                                         *)

(* The statuses that an operation leaves behind when it throws. *)
Transitional == {"configuring", "starting", "stopping", "unconfiguring"}

(***************************************************************************)
(* However many commands overlap, a module that a failed operation left in *)
(* a transitional status keeps it and is given no task until the process   *)
(* ends: without custom commands, no command selects it.                   *)
(***************************************************************************)
THEOREM StuckAlone ==
    ASSUME NoCustomCommands
    PROVE  Safety => StuckIsLeftAlone
<1> DEFINE Kept(m) == Stuck(m) /\ Alive /\ Alive' => Stuck(m)' /\ status'[m] = status[m]
           Left == \A m \in Modules : Kept(m)
<1>1. TypeOK /\ [Next]_vars => [Left]_vars
  <2> SUFFICES ASSUME TypeOK, Next, NEW m \in Modules, Stuck(m), Alive, Alive'
               PROVE  Stuck(m)' /\ status'[m] = status[m]
    BY DEF Stuck
  <2>0. status[m] \in Transitional /\ \A h \in Handlers : task[h][m] = "off"
    BY DEF Stuck, Transitional
  <2>k. ASSUME status'[m] = status[m], \A h \in Handlers : task'[h][m] = "off"
        PROVE  Stuck(m)' /\ status'[m] = status[m]
    BY <2>k DEF Stuck
  <2>d. ASSUME NEW h \in Handlers, NEW S, m \notin S,
               task' = [task EXCEPT ![h] = [n \in Modules |-> IF n \in S THEN "queued" ELSE "off"]]
        PROVE  \A k \in Handlers : task'[k][m] = "off"
    BY <2>0, <2>d DEF TypeOK
  <2>n. ASSUME NEW h \in Handlers, task' = [task EXCEPT ![h] = NoTasks]
        PROVE  \A k \in Handlers : task'[k][m] = "off"
    BY <2>0, <2>n DEF TypeOK, NoTasks
  <2>e. \A T, S : S \cap Transitional = {} => m \notin Eligible(T, S)
    BY <2>0 DEF Eligible
  <2>s. /\ {"ready", "running"} \cap Transitional = {} /\ {"running"} \cap Transitional = {}
        /\ {"ready"} \cap Transitional = {} /\ {"booted"} \cap Transitional = {}
    BY DEF Transitional
  <2>1. ASSUME NEW h \in Handlers, Command(h) PROVE Stuck(m)' /\ status'[m] = status[m]
    <3>1. PICK T \in SUBSET Types :
            \/ BeginConfigure(h, T) \/ BeginStart(h, T) \/ BeginStop(h, T)
            \/ BeginUnconfigure(h, T) \/ BeginDown(h, T)
      BY <2>1 DEF Command, NoCustomCommands
    <3>2. status' = status
      BY <3>1 DEF BeginConfigure, BeginStart, BeginStop, BeginUnconfigure, Begin, BeginDown, modVars
    <3>3. ~BeginConfigure(h, T)
      BY <2>0 DEF BeginConfigure, AllBooted, Present, Transitional
    <3>4. \A k \in Handlers : task'[k][m] = "off"
      BY <2>d, <2>e, <2>s, <3>1, <3>3
         DEF BeginStart, BeginStop, BeginUnconfigure, Begin, BeginDown, Dispatch
    <3> QED BY <2>k, <3>2, <3>4
  <2>2. ASSUME NEW h \in Handlers, Handle(h) PROVE Stuck(m)' /\ status'[m] = status[m]
    <3>1. status' = status
      BY <2>2 DEF Handle, DispatchConfigure, EndCommand, UnloadUnconfigured, DownUnconfigure,
                  DownEnd, modVars
    <3>2. m \notin {n \in Modules : task[h][n] = "done"} BY <2>0
    <3>3. \A k \in Handlers : task'[k][m] = "off"
      BY <2>2, <2>d, <2>n, <2>e, <2>s, <3>2
         DEF Handle, DispatchConfigure, EndCommand, UnloadUnconfigured, DownUnconfigure,
             DownEnd, Reply, Dispatch
    <3> QED BY <2>k, <3>1, <3>3
  <2>3. ASSUME NEW h \in Handlers, NEW n \in Modules, Task(h, n)
        PROVE  Stuck(m)' /\ status'[m] = status[m]
    <3>1. n # m
      BY <2>0, <2>3 DEF Task, Load, AddChannels, Enter, LoaderConfigure, CmStart, LoaderStart,
            LoaderStop, JoinRunner, CmStop, LoaderUnconfigure, RemoveChannel, LoaderUnload,
            LoaderCommand, TouchErased, TaskAt, NoCustomCommands
    <3>2. status'[m] = status[m]
      BY <2>3, <3>1 DEF Task, Load, AddChannels, Enter, LoaderConfigure, CmStart, LoaderStart,
            LoaderStop, JoinRunner, CmStop, LoaderUnconfigure, RemoveChannel, LoaderUnload,
            LoaderCommand, TouchErased, Finish, Crash, modVars, NoCustomCommands, TypeOK
    <3>3. \/ UNCHANGED task
          \/ task' = [task EXCEPT ![h] = NoTasks]
          \/ \E s \in TaskStates : task' = [task EXCEPT ![h][n] = s]
      <4>1. /\ {"entered", "joining", "half", "done", "threw"} \subseteq TaskStates
            /\ Custom = {}
        BY DEF TaskStates, NoCustomCommands
      <4>2. CASE Crash BY <4>2 DEF Crash, rpcVars
      <4>3. CASE Load(h, n) \/ (AddChannels(h, n) /\ ~Crash)
        BY <4>1, <4>3 DEF Load, AddChannels
      <4>4. CASE Enter(h, n) \/ (LoaderConfigure(h, n) /\ ~Crash) \/ (CmStart(h, n) /\ ~Crash)
                 \/ (LoaderStart(h, n) /\ ~Crash) \/ (LoaderStop(h, n) /\ ~Crash)
        BY <4>1, <4>4 DEF Enter, LoaderConfigure, CmStart, LoaderStart, LoaderStop, Finish,
                          Throw, Advance
      <4>5. CASE JoinRunner(h, n) \/ CmStop(h, n) \/ LoaderUnconfigure(h, n)
                 \/ (RemoveChannel(h, n) /\ ~Crash) \/ LoaderUnload(h, n)
        BY <4>1, <4>5 DEF JoinRunner, CmStop, LoaderUnconfigure, RemoveChannel, LoaderUnload,
                          Finish, Throw, Advance
      <4>6. CASE LoaderCommand(h, n) \/ TouchErased(h, n)
        BY <4>1, <4>2, <4>6 DEF LoaderCommand, TouchErased
      <4> QED BY <2>3, <4>2, <4>3, <4>4, <4>5, <4>6 DEF Task
    <3>4. \A k \in Handlers : task'[k][m] = "off"
      <4>1. task \in [Handlers -> [Modules -> TaskStates]] BY DEF TypeOK
      <4>2. CASE UNCHANGED task BY <2>0, <4>2
      <4>3. CASE task' = [task EXCEPT ![h] = NoTasks] BY <2>n, <4>3
      <4>4. CASE \E s \in TaskStates : task' = [task EXCEPT ![h][n] = s]
        BY <2>0, <3>1, <4>1, <4>4
      <4> QED BY <3>3, <4>2, <4>3, <4>4
    <3> QED BY <2>k, <3>2, <3>4
  <2>4. CASE \E n \in Modules : RunnerReturns(n) \/ RunnerGivesUp(n)
    BY <2>0, <2>4, <2>k DEF RunnerReturns, RunnerGivesUp, rpcVars
  <2>5. CASE MainReturns \/ MainExit \/ Kill
    BY <2>0, <2>5, <2>k DEF MainReturns, MainExit, Kill, modVars, rpcVars
  <2>6. CASE Boot
    BY <2>6 DEF Boot
  <2>7. CASE \E n \in Modules : SendBlocks(n) \/ SendReturns(n)
    BY <2>0, <2>7, <2>k, SendStep
  <2> QED BY <2>1, <2>2, <2>3, <2>4, <2>5, <2>6, <2>7 DEF Next
<1>2. Safety => [][Left]_vars
  BY <1>1, TypeCorrect, PTL DEF Safety
<1> QED BY <1>2 DEF StuckIsLeftAlone

-----------------------------------------------------------------------------
(***************************************************************************)
(* CommandReply.                                                           *)
(***************************************************************************)

(***************************************************************************)
(* The scan.  It is a recursion over the modules, so that facts about it   *)
(* need induction, here by the least number that contradicts them.         *)
(***************************************************************************)

(* Induction over the natural numbers, for a set of them. *)
LEMMA NatSet ==
    ASSUME NEW T \in SUBSET Nat, 0 \in T, \A n \in T : n + 1 \in T
    PROVE  T = Nat
<1> SUFFICES ASSUME Nat \ T # {} PROVE FALSE
  OBVIOUS
<1>1. \E x \in Nat \ T : \A y \in Nat \ T : ~ (<<y, x>> \in OpToRel(<, Nat))
  BY NatLessThanWellFounded, WFMin, Zenon
<1>2. PICK x \in Nat \ T : \A y \in Nat \ T : ~ (y < x)
  BY <1>1 DEF OpToRel
<1>3. x # 0 /\ x - 1 \in Nat /\ x - 1 < x /\ (x - 1) + 1 = x OBVIOUS
<1>4. x - 1 \in T BY <1>2, <1>3
<1> QED BY <1>2, <1>3, <1>4

ScanStart == [state |-> "booted", first |-> TRUE]

(* f is the scan of the first m modules. *)
ScansTo(f, seq, m) ==
    f = [n \in 0..m |-> IF n = 0 THEN ScanStart ELSE Scan(f[n - 1], seq[n])]

(* Every prefix has a scan. *)
LEMMA ScanExists ==
    ASSUME NEW seq, NEW m \in Nat
    PROVE  \E f : ScansTo(f, seq, m)
<1> DEFINE T == {k \in Nat : \E f : ScansTo(f, seq, k)}
<1>1. 0 \in T
  <2>1. PICK f : f = [n \in 0..0 |-> ScanStart] OBVIOUS
  <2>2. ScansTo(f, seq, 0) BY <2>1 DEF ScansTo
  <2> QED BY <2>2
<1>2. ASSUME NEW k \in T PROVE k + 1 \in T
  <2>1. PICK f : ScansTo(f, seq, k) OBVIOUS
  <2>2. PICK last : last = Scan(f[k], seq[k + 1]) OBVIOUS
  <2>3. PICK g : g = [n \in 0..(k + 1) |-> IF n = k + 1 THEN last ELSE f[n]] OBVIOUS
  <2>4. ASSUME NEW n \in 0..(k + 1)
        PROVE  g[n] = IF n = 0 THEN ScanStart ELSE Scan(g[n - 1], seq[n])
    <3>1. CASE n = k + 1
      <4>1. g[n] = last /\ n - 1 = k /\ k \in 0..(k + 1) /\ k # k + 1 /\ n # 0 BY <2>3, <3>1
      <4>2. g[n - 1] = f[k] BY <2>3, <4>1
      <4> QED BY <2>2, <3>1, <4>1, <4>2
    <3>2. CASE n # k + 1
      <4>1. n \in 0..k /\ g[n] = f[n] BY <2>3, <3>2
      <4>2. f[n] = IF n = 0 THEN ScanStart ELSE Scan(f[n - 1], seq[n])
        BY <2>1, <4>1 DEF ScansTo
      <4>3. n # 0 => g[n - 1] = f[n - 1] BY <2>3, <4>1
      <4> QED BY <4>1, <4>2, <4>3
    <3> QED BY <3>1, <3>2
  <2>5. g = [n \in 0..(k + 1) |-> IF n = 0 THEN ScanStart ELSE Scan(g[n - 1], seq[n])]
    BY <2>3, <2>4
  <2>6. ScansTo(g, seq, k + 1) BY <2>5 DEF ScansTo
  <2>7. k + 1 \in Nat OBVIOUS
  <2> QED BY <2>6, <2>7
<1>3. T \in SUBSET Nat OBVIOUS
<1>4. T = Nat
  <2> HIDE DEF T
  <2> QED BY <1>1, <1>2, <1>3, NatSet
<1> QED BY <1>4

(* Scans is the recursion that it is defined by. *)
LEMMA ScanSteps ==
    ASSUME NEW seq, Len(seq) \in Nat
    PROVE  /\ Scans(seq)[0] = ScanStart
           /\ \A n \in 1..Len(seq) : Scans(seq)[n] = Scan(Scans(seq)[n - 1], seq[n])
<1>1. PICK f : f = Scans(seq) OBVIOUS
<1>2. f = CHOOSE g : ScansTo(g, seq, Len(seq)) BY <1>1 DEF Scans, ScansTo, ScanStart
<1>3. ScansTo(f, seq, Len(seq)) BY <1>2, ScanExists
<1>4. 0 \in 0..Len(seq) /\ \A n \in 1..Len(seq) : n \in 0..Len(seq) /\ n # 0 OBVIOUS
<1> QED BY <1>1, <1>3, <1>4 DEF ScansTo

BootedBefore(seq, i) == \A j \in 1..(i - 1) : seq[j] = "booted"

(* What the loop knows after n modules: all are booted; or all after a     *)
(* booted prefix agree; or two after it do not.                            *)
AllBootedIn(a, seq, n) == a.first /\ a.state = "booted" /\ \A j \in 1..n : seq[j] = "booted"
Agreed(a, seq, n) ==
    /\ ~a.first
    /\ \E i \in 1..n : /\ BootedBefore(seq, i) /\ seq[i] # "booted" /\ a.state = seq[i]
                       /\ \A j \in i..n : seq[j] = seq[i]
Differ(a, seq, n) ==
    /\ ~a.first /\ a.state = "inconsistent"
    /\ \E i \in 1..n : /\ BootedBefore(seq, i) /\ seq[i] # "booted"
                       /\ \E k \in i..n : seq[k] # seq[i]
Seen(a, seq, n) == AllBootedIn(a, seq, n) \/ Agreed(a, seq, n) \/ Differ(a, seq, n)

(* One turn of the loop. *)
LEMMA ScanTurn ==
    ASSUME NEW seq, NEW n \in Nat, NEW a, DOMAIN a = {"state", "first"}, Seen(a, seq, n),
           seq[n + 1] # "inconsistent", NEW b, b = Scan(a, seq[n + 1])
    PROVE  DOMAIN b = {"state", "first"} /\ Seen(b, seq, n + 1)
<1> DEFINE item == seq[n + 1]
<1>0. /\ n + 1 \in 1..(n + 1) /\ \A i \in 1..n : i \in 1..(n + 1) /\ n + 1 \in i..(n + 1)
      /\ \A i \in 1..n : \A j \in i..n : j \in i..(n + 1)
      /\ \A i \in 1..(n + 1) : \A j \in i..(n + 1) : j = n + 1 \/ (i \in 1..n /\ j \in i..n)
      /\ (n + 1) - 1 = n
  OBVIOUS
<1>1. CASE AllBootedIn(a, seq, n)
  <2>1. a.state = "booted" /\ a.first BY <1>1 DEF AllBootedIn
  <2>2. CASE item = "booted"
    <3>1. b = a BY <2>1, <2>2 DEF Scan
    <3>2. \A j \in 1..(n + 1) : seq[j] = "booted" BY <1>1, <2>2 DEF AllBootedIn
    <3> QED BY <2>1, <3>1, <3>2 DEF Seen, AllBootedIn
  <2>3. CASE item # "booted"
    <3>1. b = [state |-> item, first |-> FALSE] BY <2>1, <2>3 DEF Scan
    <3>2. DOMAIN b = {"state", "first"} /\ b.state = item /\ ~b.first BY <3>1
    <3>3. BootedBefore(seq, n + 1) BY <1>0, <1>1 DEF BootedBefore, AllBootedIn
    <3>4. \A j \in (n + 1)..(n + 1) : seq[j] = seq[n + 1] OBVIOUS
    <3>5. Agreed(b, seq, n + 1) BY <1>0, <2>3, <3>2, <3>3, <3>4 DEF Agreed
    <3> QED BY <3>2, <3>5 DEF Seen
  <2> QED BY <2>2, <2>3
<1>2. CASE Agreed(a, seq, n)
  <2>1. PICK i \in 1..n : /\ BootedBefore(seq, i) /\ seq[i] # "booted" /\ a.state = seq[i]
                          /\ \A j \in i..n : seq[j] = seq[i]
    BY <1>2 DEF Agreed
  <2>2. ~a.first BY <1>2 DEF Agreed
  <2>3. CASE a.state = "inconsistent" \/ item = a.state
    <3>1. b = a BY <2>3 DEF Scan
    <3>2. CASE item = a.state
      <4>1. \A j \in i..(n + 1) : seq[j] = seq[i] BY <1>0, <2>1, <3>2
      <4>2. Agreed(b, seq, n + 1) BY <1>0, <2>1, <2>2, <3>1, <4>1 DEF Agreed
      <4> QED BY <3>1, <4>2 DEF Seen
    <3>3. CASE a.state = "inconsistent" /\ item # a.state
      <4>1. n + 1 \in i..(n + 1) /\ seq[n + 1] # seq[i] BY <1>0, <2>1, <3>3
      <4>2. Differ(b, seq, n + 1) BY <1>0, <2>1, <2>2, <3>1, <3>3, <4>1 DEF Differ
      <4> QED BY <3>1, <4>2 DEF Seen
    <3> QED BY <2>3, <3>2, <3>3
  <2>4. CASE ~(a.state = "inconsistent" \/ item = a.state)
    <3>1. b = [a EXCEPT !.state = "inconsistent"] BY <2>2, <2>4 DEF Scan
    <3>2. DOMAIN b = {"state", "first"} /\ b.state = "inconsistent" /\ b.first = a.first
      BY <3>1
    <3>3. n + 1 \in i..(n + 1) /\ seq[n + 1] # seq[i] BY <1>0, <2>1, <2>4
    <3>4. ~b.first BY <2>2, <3>2
    <3>5. Differ(b, seq, n + 1) BY <1>0, <2>1, <3>2, <3>3, <3>4 DEF Differ
    <3> QED BY <3>2, <3>5 DEF Seen
  <2> QED BY <2>3, <2>4
<1>3. CASE Differ(a, seq, n)
  <2>1. b = a BY <1>3 DEF Differ, Scan
  <2>2. PICK i \in 1..n : /\ BootedBefore(seq, i) /\ seq[i] # "booted"
                          /\ \E k \in i..n : seq[k] # seq[i]
    BY <1>3 DEF Differ
  <2>3. \E k \in i..(n + 1) : seq[k] # seq[i] BY <1>0, <2>2
  <2>4. Differ(b, seq, n + 1) BY <1>0, <1>3, <2>1, <2>2, <2>3 DEF Differ
  <2> QED BY <2>1, <2>4 DEF Seen
<1> QED BY <1>1, <1>2, <1>3 DEF Seen

(* What the loop knows in the end. *)
LEMMA ScanEnds ==
    ASSUME NEW seq, Len(seq) \in Nat, \A n \in 1..Len(seq) : seq[n] # "inconsistent"
    PROVE  Seen(Scans(seq)[Len(seq)], seq, Len(seq))
<1> DEFINE Good(n) == /\ DOMAIN Scans(seq)[n] = {"state", "first"}
                      /\ Seen(Scans(seq)[n], seq, n)
           T == {n \in Nat : n <= Len(seq) => Good(n)}
<1>0. /\ Scans(seq)[0] = ScanStart
      /\ \A n \in 1..Len(seq) : Scans(seq)[n] = Scan(Scans(seq)[n - 1], seq[n])
  BY ScanSteps
<1>1. 0 \in T
  <2>1. DOMAIN ScanStart = {"state", "first"} /\ ScanStart.state = "booted" /\ ScanStart.first
    BY DEF ScanStart
  <2>2. Good(0) BY <1>0, <2>1 DEF Seen, AllBootedIn
  <2> QED BY <2>2
<1>2. ASSUME NEW n \in T PROVE n + 1 \in T
  <2> SUFFICES ASSUME n + 1 <= Len(seq) PROVE Good(n + 1)
    OBVIOUS
  <2>1. n <= Len(seq) /\ n + 1 \in 1..Len(seq) /\ (n + 1) - 1 = n OBVIOUS
  <2>2. PICK a : a = Scans(seq)[n] OBVIOUS
  <2>3. DOMAIN a = {"state", "first"} /\ Seen(a, seq, n) BY <2>1, <2>2
  <2>4. PICK b : b = Scan(a, seq[n + 1]) OBVIOUS
  <2>5. Scans(seq)[n + 1] = b BY <1>0, <2>1, <2>2, <2>4
  <2>6. DOMAIN b = {"state", "first"} /\ Seen(b, seq, n + 1)
    BY <2>1, <2>3, <2>4, ScanTurn
  <2> QED BY <2>5, <2>6
<1>3. T \in SUBSET Nat OBVIOUS
<1>4. T = Nat
  <2> HIDE DEF T
  <2> QED BY <1>1, <1>2, <1>3, NatSet
<1> QED BY <1>4

-----------------------------------------------------------------------------
(* The merge of two replies.                                               *)

(* m is the worse of the outcomes a and b, or says that their texts clash. *)
Worse(m, a, b) ==
    /\ a.status # "Success" \/ b.status # "Success" => m.status # "Success"
    /\ m.status # "Success" =>
         a.status # "Success" \/ b.status # "Success" \/ (a.text /\ b.text)

(* Of two outcomes the worse one is kept. *)
LEMMA WorseKept ==
    ASSUME NEW a, NEW b, a.status \in {"Success", "Error", "FatalError"},
           b.status \in {"Success", "Error", "FatalError"}, NEW m, m = MergeOutcome(a, b)
    PROVE  Worse(m, a, b)
<1>1. MergeError.status = "Error" BY DEF MergeError
<1>2. /\ a.status # "Success" \/ b.status # "Success" => m.status # "Success"
      /\ m.status # "Success" =>
           a.status # "Success" \/ b.status # "Success" \/ (a.text /\ b.text)
  BY <1>1 DEF MergeOutcome, Rank
<1> QED BY <1>2, Zenon DEF Worse

Levels == {"Success", "Error", "FatalError"}

(* A reply with its modules. *)
IsReply(r) ==
    /\ r.status \in Levels
    /\ \A n \in DOMAIN r.modules : r.modules[n].status \in Levels

(* m tells no less than each of the replies in R, and no more. *)
TellsAll(m, R) ==
    /\ (\E r \in R : r.status # "Success") => m.status # "Success"
    /\ DOMAIN m.modules = UNION {DOMAIN r.modules : r \in R}
    /\ \A r \in R : \A n \in DOMAIN r.modules :
          r.modules[n].status # "Success" => m.modules[n].status # "Success"
    /\ \A n \in DOMAIN m.modules :
          m.modules[n].status # "Success" =>
              \E r \in R : n \in DOMAIN r.modules /\
                  (r.modules[n].status # "Success" \/ r.modules[n].text)

(* The replies of the model are replies. *)
LEMMA ReplyFacts ==
    ASSUME NEW r \in Response
    PROVE  IsReply(r) /\ r # EmptyReply
<1>1. r.status \in Levels BY DEF Response, Levels
<1>2. PICK S \in SUBSET Names : r.modules \in [S -> Outcome] BY DEF Response
<1>3. \A n \in DOMAIN r.modules : r.modules[n].status \in Levels
  BY <1>2 DEF Outcome, Levels
<1>4. r # EmptyReply BY <1>1 DEF EmptyReply, Levels
<1> QED BY <1>1, <1>3, <1>4 DEF IsReply

(* The merge of two replies that are not empty. *)
LEMMA MergeTwo ==
    ASSUME NEW r1, NEW r2, IsReply(r1), IsReply(r2), r1 # EmptyReply, r2 # EmptyReply,
           NEW m, m = MergeCommandResponses(r1, r2)
    PROVE  TellsAll(m, {r1, r2})
<1>1. PICK a : a = [status |-> r1.status, text |-> r1.text] OBVIOUS
<1>2. PICK b : b = [status |-> r2.status, text |-> r2.text] OBVIOUS
<1>3. PICK o : o = IF Clash(r1, r2) THEN MergeError ELSE MergeOutcome(a, b) OBVIOUS
<1>4. PICK M : M = MergeModules(r1, r2) OBVIOUS
<1>5. m = [status |-> o.status, text |-> o.text, modules |-> M]
  BY <1>1, <1>2, <1>3, <1>4 DEF MergeCommandResponses
<1>6. m.status = o.status /\ m.modules = M BY <1>5
<1>7. r1.status # "Success" \/ r2.status # "Success" => m.status # "Success"
  <2>1. a.status = r1.status /\ b.status = r2.status BY <1>1, <1>2
  <2>2. CASE Clash(r1, r2) BY <1>3, <1>6, <2>2 DEF MergeError
  <2>3. CASE ~Clash(r1, r2)
    <3>1. o = MergeOutcome(a, b) BY <1>3, <2>3
    <3>2. Worse(o, a, b) BY <2>1, <3>1, WorseKept DEF IsReply, Levels
    <3> QED BY <1>6, <2>1, <3>2 DEF Worse
  <2> QED BY <2>2, <2>3
<1>8. /\ DOMAIN M = DOMAIN r1.modules \cup DOMAIN r2.modules
      /\ \A n \in DOMAIN M : n \notin DOMAIN r2.modules => M[n] = r1.modules[n]
      /\ \A n \in DOMAIN M : n \notin DOMAIN r1.modules => M[n] = r2.modules[n]
      /\ \A n \in DOMAIN M : n \in DOMAIN r1.modules /\ n \in DOMAIN r2.modules =>
                                M[n] = MergeOutcome(r1.modules[n], r2.modules[n])
  BY <1>4 DEF MergeModules
<1>9. ASSUME NEW n \in DOMAIN r1.modules, n \in DOMAIN r2.modules
      PROVE  /\ r1.modules[n].status # "Success" \/ r2.modules[n].status # "Success" =>
                  M[n].status # "Success"
             /\ M[n].status # "Success" =>
                  \/ r1.modules[n].status # "Success" \/ r2.modules[n].status # "Success"
                  \/ (r1.modules[n].text /\ r2.modules[n].text)
  <2>1. M[n] = MergeOutcome(r1.modules[n], r2.modules[n]) BY <1>8, <1>9
  <2>2. PICK x : x = r1.modules[n] OBVIOUS
  <2>3. PICK y : y = r2.modules[n] OBVIOUS
  <2>4. x.status \in Levels /\ y.status \in Levels BY <1>9, <2>2, <2>3 DEF IsReply
  <2>5. PICK z : z = MergeOutcome(x, y) OBVIOUS
  <2>6. Worse(z, x, y)
    BY <2>4, <2>5, WorseKept DEF Levels
  <2>7. M[n] = z BY <2>1, <2>2, <2>3, <2>5
  <2> QED BY <2>2, <2>3, <2>6, <2>7 DEF Worse
<1>10. DOMAIN M = UNION {DOMAIN r.modules : r \in {r1, r2}} BY <1>8
<1>11. ASSUME NEW r \in {r1, r2}, NEW n \in DOMAIN r.modules, r.modules[n].status # "Success"
       PROVE  M[n].status # "Success"
  <2>1. n \in DOMAIN M BY <1>8
  <2>2. CASE n \in DOMAIN r1.modules /\ n \in DOMAIN r2.modules BY <1>9, <1>11, <2>2
  <2>3. CASE n \notin DOMAIN r2.modules BY <1>8, <1>11, <2>1, <2>3
  <2>4. CASE n \notin DOMAIN r1.modules BY <1>8, <1>11, <2>1, <2>4
  <2> QED BY <2>2, <2>3, <2>4
<1>12. ASSUME NEW n \in DOMAIN M, M[n].status # "Success"
       PROVE  \E r \in {r1, r2} : n \in DOMAIN r.modules /\
                  (r.modules[n].status # "Success" \/ r.modules[n].text)
  <2>1. CASE n \in DOMAIN r1.modules /\ n \in DOMAIN r2.modules BY <1>9, <1>12, <2>1
  <2>2. CASE n \notin DOMAIN r2.modules BY <1>8, <1>12, <2>2
  <2>3. CASE n \notin DOMAIN r1.modules BY <1>8, <1>12, <2>3
  <2> QED BY <2>1, <2>2, <2>3
<1> QED BY <1>6, <1>7, <1>10, <1>11, <1>12 DEF TellsAll

(* A reply tells no less than itself. *)
LEMMA MergeOne ==
    ASSUME NEW r, IsReply(r)
    PROVE  TellsAll(r, {r})
BY DEF TellsAll

-----------------------------------------------------------------------------
(* The theorems.                                                           *)

(* What is reported is what the functions compute from what is there. *)
ReplyInv ==
    /\ Len(statuses) \in Nat /\ DOMAIN statuses = 1..Len(statuses)
    /\ \A n \in 1..Len(statuses) : statuses[n] \in Statuses
    /\ first \in Response \cup {EmptyReply} /\ second \in Response \cup {EmptyReply}
    /\ overall # "none" => overall = GetStatesAsString(statuses)
    /\ merged # NoReply => merged = MergeCommandResponses(first, second)

(* It is, from the beginning on. *)
THEOREM ReplyInductive == ReplySpec => []ReplyInv
<1>1. ReplyInit => ReplyInv
  <2> SUFFICES ASSUME ReplyInit PROVE ReplyInv
    OBVIOUS
  <2>1. PICK m \in 0..MaxModules : statuses \in [1..m -> Statuses]
    BY ReplyAssumption DEF ReplyInit, SeqOf
  <2>2. m \in Nat BY ReplyAssumption
  <2>3. Len(statuses) = m BY <2>1, <2>2
  <2> QED BY <2>1, <2>2, <2>3 DEF ReplyInit, ReplyInv
<1>2. ReplyInv /\ [ReplyNext]_replyVars => ReplyInv'
  <2> SUFFICES ASSUME ReplyInv, [ReplyNext]_replyVars PROVE ReplyInv'
    OBVIOUS
  <2>1. CASE Report BY <2>1 DEF Report, ReplyInv
  <2>2. CASE Merge BY <2>2 DEF Merge, ReplyInv
  <2>3. CASE UNCHANGED replyVars BY <2>3 DEF replyVars, ReplyInv
  <2> QED BY <2>1, <2>2, <2>3 DEF ReplyNext
<1> QED BY <1>1, <1>2, PTL DEF ReplySpec

(* getStatesAsString computes the overall state as it is defined without a *)
(* loop, for any number of modules in any order.                           *)
THEOREM Overall == ReplySpec => []OverallIsRight
<1>1. ASSUME ReplyInv PROVE OverallIsRight
  <2> SUFFICES ASSUME overall # "none"
               PROVE  /\ overall = "booted" <=> AllAre("booted", 1)
                      /\ \A s \in Statuses \ {"booted"} : overall = s <=>
                            \E i \in DOMAIN statuses :
                                /\ AllAre(s, i)
                                /\ \A j \in 1..(i - 1) : statuses[j] = "booted"
    BY DEF OverallIsRight
  <2> DEFINE N == Len(statuses)
  <2>1. N \in Nat /\ DOMAIN statuses = 1..N /\ \A n \in 1..N : statuses[n] # "inconsistent"
    BY <1>1, ReplyAssumption DEF ReplyInv
  <2>2. PICK a : a = Scans(statuses)[N] OBVIOUS
  <2>3. Seen(a, statuses, N) BY <2>1, <2>2, ScanEnds
  <2>4. overall = a.state BY <1>1, <2>2 DEF ReplyInv, GetStatesAsString
  <2>5. \A s, i : AllAre(s, i) <=> \A j \in 1..N : j >= i => statuses[j] = s
    BY <2>1 DEF AllAre
  <2>6. CASE AllBootedIn(a, statuses, N)
    <3>1. \A j \in 1..N : statuses[j] = "booted" BY <2>6 DEF AllBootedIn
    <3>2. ASSUME NEW s \in Statuses \ {"booted"}, NEW i \in DOMAIN statuses, AllAre(s, i)
          PROVE  FALSE
      BY <2>1, <2>5, <3>1, <3>2
    <3> QED BY <2>4, <2>5, <2>6, <3>1, <3>2 DEF AllBootedIn
  <2>7. CASE Agreed(a, statuses, N)
    <3>1. PICK i \in 1..N : /\ BootedBefore(statuses, i) /\ statuses[i] # "booted"
                            /\ a.state = statuses[i]
                            /\ \A j \in i..N : statuses[j] = statuses[i]
      BY <2>7 DEF Agreed
    <3>2. AllAre(statuses[i], i) BY <2>1, <2>5, <3>1
    <3>3. ASSUME NEW s \in Statuses \ {"booted"}, NEW k \in DOMAIN statuses, AllAre(s, k),
                 \A j \in 1..(k - 1) : statuses[j] = "booted"
          PROVE  s = statuses[i]
      <4>1. statuses[k] = s BY <2>1, <2>5, <3>3
      <4>2. ~(i < k) BY <2>1, <3>1, <3>3
      <4>3. ~(k < i) BY <2>1, <3>1, <3>3, <4>1 DEF BootedBefore
      <4>4. k = i BY <2>1, <4>2, <4>3
      <4> QED BY <4>1, <4>4
    <3>4. ~AllAre("booted", 1) BY <2>1, <2>5, <3>1
    <3> QED BY <2>1, <2>4, <3>1, <3>2, <3>3, <3>4 DEF BootedBefore
  <2>8. CASE Differ(a, statuses, N)
    <3>1. PICK i \in 1..N : /\ BootedBefore(statuses, i) /\ statuses[i] # "booted"
                            /\ \E k \in i..N : statuses[k] # statuses[i]
      BY <2>8 DEF Differ
    <3>2. PICK d \in i..N : statuses[d] # statuses[i] BY <3>1
    <3>3. ASSUME NEW s \in Statuses \ {"booted"}, NEW k \in DOMAIN statuses, AllAre(s, k),
                 \A j \in 1..(k - 1) : statuses[j] = "booted"
          PROVE  FALSE
      <4>1. statuses[k] = s BY <2>1, <2>5, <3>3
      <4>2. ~(i < k) BY <2>1, <3>1, <3>3
      <4>3. ~(k < i) BY <2>1, <3>1, <3>3, <4>1 DEF BootedBefore
      <4>4. k = i BY <2>1, <4>2, <4>3
      <4> QED BY <2>1, <2>5, <3>2, <3>3, <4>1, <4>4
    <3>4. ~AllAre("booted", 1) BY <2>1, <2>5, <3>1
    <3>5. \A s \in Statuses : overall # s BY <2>4, <2>8, ReplyAssumption DEF Differ
    <3>6. overall # "booted" BY <3>5, ReplyAssumption
    <3> QED BY <3>3, <3>4, <3>5, <3>6
  <2> QED BY <2>3, <2>6, <2>7, <2>8 DEF Seen
<1> QED BY <1>1, ReplyInductive, PTL

(* mergeCommandResponses loses no failure and invents none, for any        *)
(* modules.                                                                *)
THEOREM Merged == ReplySpec => []NoErrorLost
<1>1. ASSUME ReplyInv PROVE NoErrorLost
  <2> SUFFICES ASSUME merged # NoReply, Replies # {} PROVE TellsAll(merged, Replies)
    BY DEF NoErrorLost, TellsAll
  <2>1. /\ merged = MergeCommandResponses(first, second)
        /\ first \in Response \cup {EmptyReply} /\ second \in Response \cup {EmptyReply}
    BY <1>1 DEF ReplyInv
  <2>2. CASE first = EmptyReply
    <3>1. merged = second BY <2>1, <2>2 DEF MergeCommandResponses
    <3>2. Replies = {second} BY <2>2 DEF Replies
    <3>3. second # EmptyReply BY <2>2 DEF Replies
    <3>4. IsReply(second) BY <2>1, <3>3, ReplyFacts
    <3> QED BY <3>1, <3>2, <3>4, MergeOne
  <2>3. CASE first # EmptyReply /\ second = EmptyReply
    <3>1. merged = first BY <2>1, <2>3 DEF MergeCommandResponses
    <3>2. Replies = {first} BY <2>3 DEF Replies
    <3>3. IsReply(first) BY <2>1, <2>3, ReplyFacts
    <3> QED BY <3>1, <3>2, <3>3, MergeOne
  <2>4. CASE first # EmptyReply /\ second # EmptyReply
    <3>1. IsReply(first) /\ IsReply(second) BY <2>1, <2>4, ReplyFacts
    <3>2. Replies = {first, second} BY <2>4 DEF Replies
    <3> QED BY <2>1, <2>4, <3>1, <3>2, MergeTwo
  <2> QED BY <2>2, <2>3, <2>4
<1> QED BY <1>1, ReplyInductive, PTL

=============================================================================
