------------------------ MODULE ReusableThreadProofs ------------------------
(***************************************************************************)
(* Proofs for ReusableThread, for every number of tasks.                   *)
(***************************************************************************)
EXTENDS ReusableThread, TLAPS

Safety == Init /\ [][Next]_vars

-----------------------------------------------------------------------------
(***************************************************************************)
(* The hand-over of the task: the user owns m_task between its exchange of *)
(* m_task_executed and its store to m_task_assigned, the worker between    *)
(* its test of both flags and its reset of the second one.                 *)
(***************************************************************************)
UserOwns == upc \in {"bind", "assign"}
WorkerOwns == wpc \in {"task", "setExecuted", "clearAssigned"}

HandOver ==
    /\ UserOwns => ~executed /\ ~assigned
    /\ upc = "exchange" => ~assigned
    /\ WorkerOwns => assigned
    /\ wpc \in {"task", "setExecuted"} => ~executed
    /\ wpc = "clearAssigned" => executed
    /\ ~executed => UserOwns \/ assigned
    /\ assigned /\ executed => wpc = "clearAssigned"

(* How many accepted tasks are still to be run, told from the flags. *)
Counts ==
    /\ executed \/ upc = "bind" \/ wpc = "setExecuted" => given = ran
    /\ upc = "assign" => given = ran + 1
    /\ assigned /\ ~executed /\ wpc # "setExecuted" => given = ran + 1

(* set_work is entered below the bound. *)
Bounds == upc \in {"exchange", "bind"} => given < MaxWork

IInv == TypeOK /\ HandOver /\ Counts /\ Bounds

(* The invariant holds when the constructor returns. *)
LEMMA InitIInv == Init => IInv
<1> SUFFICES ASSUME Init PROVE IInv
    OBVIOUS
<1>1. executed /\ ~assigned /\ ~quit /\ ~done
      BY Zenon DEF Init
<1>2. executed \in BOOLEAN /\ assigned \in BOOLEAN /\ quit \in BOOLEAN /\ done \in BOOLEAN
      BY Zenon DEF Init
<1>3. upc = "idle" /\ wpc = "test" /\ given = 0 /\ ran = 0
      BY DEF Init
<1>4. given \in 0..MaxWork /\ ran \in 0..MaxWork
      BY <1>3, WorkAssumption
<1>5. TypeOK
      BY <1>2, <1>3, <1>4, Zenon DEF TypeOK, UserStates, WorkerStates
<1>6. HandOver /\ Counts /\ Bounds
      BY <1>1, <1>3 DEF HandOver, Counts, Bounds, UserOwns, WorkerOwns
<1> QED BY <1>5, <1>6 DEF IInv

(* set_work keeps the invariant. *)
LEMMA SetWorkStep ==
    IInv /\ (ReadAssigned \/ Exchange \/ Bind \/ Assign \/ Notify) => IInv'
<1> SUFFICES ASSUME IInv, ReadAssigned \/ Exchange \/ Bind \/ Assign \/ Notify
             PROVE  IInv'
    OBVIOUS
<1> USE WorkAssumption DEF IInv, TypeOK, HandOver, Counts, Bounds, UserOwns,
        WorkerOwns, UserStates, WorkerStates, UserGoes
<1>1. CASE ReadAssigned BY <1>1 DEF ReadAssigned
<1>2. CASE Exchange BY <1>2 DEF Exchange
<1>3. CASE Bind BY <1>3 DEF Bind
<1>4. CASE Assign BY <1>4 DEF Assign
<1>5. CASE Notify BY <1>5 DEF Notify, Woken
<1> QED BY <1>1, <1>2, <1>3, <1>4, <1>5

(* The destructor and the constructor keep the invariant. *)
LEMMA DestructorStep ==
    IInv /\ (Destroy \/ SpinEnds \/ Quit \/ Wake \/ Construct) => IInv'
<1> SUFFICES ASSUME IInv, Destroy \/ SpinEnds \/ Quit \/ Wake \/ Construct
             PROVE  IInv'
    OBVIOUS
<1> USE WorkAssumption DEF IInv, TypeOK, HandOver, Counts, Bounds, UserOwns,
        WorkerOwns, UserStates, WorkerStates, UserGoes
<1>1. CASE Destroy BY <1>1 DEF Destroy
<1>2. CASE SpinEnds BY <1>2 DEF SpinEnds
<1>3. CASE Quit BY <1>3 DEF Quit
<1>4. CASE Wake BY <1>4 DEF Wake, Woken
<1>5. ASSUME Construct PROVE IInv'
  <2>1. executed' /\ ~assigned' /\ ~quit' /\ ~done'
        BY <1>5, Zenon DEF Construct
  <2>2. upc' = "idle" /\ wpc' = "test" /\ given' = 0 /\ ran' = 0
        BY <1>5 DEF Construct
  <2>3. /\ executed' \in BOOLEAN /\ assigned' \in BOOLEAN
        /\ quit' \in BOOLEAN /\ done' \in BOOLEAN
        BY <1>5, Zenon DEF Construct
  <2>4. given' \in 0..MaxWork /\ ran' \in 0..MaxWork
        BY <2>2
  <2>5. TypeOK'
        BY <2>2, <2>3, <2>4, Zenon DEF TypeOK, UserStates, WorkerStates
  <2>6. HandOver' /\ Counts' /\ Bounds'
        BY <2>1, <2>2
  <2> QED BY <2>5, <2>6
<1> QED BY <1>1, <1>2, <1>3, <1>4, <1>5

(* thread_worker keeps the invariant. *)
LEMMA WorkerStep == IInv /\ (Worker \/ SpuriousWakeup) => IInv'
<1> SUFFICES ASSUME IInv, Worker \/ SpuriousWakeup PROVE IInv'
    OBVIOUS
<1> USE WorkAssumption DEF IInv, TypeOK, HandOver, Counts, Bounds, UserOwns,
        WorkerOwns, UserStates, WorkerStates, WorkerGoes
<1>1. CASE TestQuit BY <1>1 DEF TestQuit
<1>2. CASE ReadExecuted BY <1>2 DEF ReadExecuted
<1>3. CASE WorkerReadsAssigned BY <1>3 DEF WorkerReadsAssigned
<1>4. CASE RunTask BY <1>4 DEF RunTask
<1>5. CASE SetExecuted BY <1>5 DEF SetExecuted
<1>6. CASE ClearAssigned BY <1>6 DEF ClearAssigned
<1>7. CASE EnterWait BY <1>7 DEF EnterWait
<1>8. CASE SpuriousWakeup BY <1>8 DEF SpuriousWakeup
<1> QED BY <1>1, <1>2, <1>3, <1>4, <1>5, <1>6, <1>7, <1>8 DEF Worker

(* The invariant of the hand-over is inductive. *)
LEMMA Inductive == Safety => []IInv
<1>1. IInv /\ [Next]_vars => IInv'
  <2> SUFFICES ASSUME IInv, [Next]_vars PROVE IInv'
      OBVIOUS
  <2>1. CASE Next
        BY <2>1, SetWorkStep, DestructorStep, WorkerStep DEF Next, User
  <2>2. CASE UNCHANGED vars
        BY <2>2 DEF IInv, TypeOK, HandOver, Counts, Bounds, UserOwns, WorkerOwns, vars
  <2> QED BY <2>1, <2>2
<1> QED BY <1>1, InitIInv, PTL DEF Safety

-----------------------------------------------------------------------------
(***************************************************************************)
(* set_work never writes m_task while the worker calls it: the two atomic  *)
(* flags suffice, although set_work takes no mutex.                        *)
(***************************************************************************)
THEOREM NoTaskRace == Safety => []TaskNotWrittenWhileCalled
<1>1. IInv => TaskNotWrittenWhileCalled
      BY DEF IInv, HandOver, UserOwns, WorkerOwns, TaskNotWrittenWhileCalled
<1> QED BY <1>1, Inductive, PTL

(***************************************************************************)
(* get_readiness() tells the truth: every accepted task has run, once.     *)
(***************************************************************************)
THEOREM Readiness == Safety => []ReadyMeansRan
<1>1. IInv => ReadyMeansRan
      BY DEF IInv, TypeOK, HandOver, Counts, Bounds, UserOwns, ReadyMeansRan
<1> QED BY <1>1, Inductive, PTL

(* Type correctness of the worker thread, for any number of tasks. *)
THEOREM TypeCorrect == Safety => []TypeOK
<1>1. IInv => TypeOK BY DEF IInv
<1> QED BY <1>1, Inductive, PTL
=============================================================================
