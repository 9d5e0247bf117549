--------------------------- MODULE ReusableThread ---------------------------
(***************************************************************************)
(* Utils/ReusableThread.hpp, the worker thread of the file writers: one    *)
(* user (FileWriterModule::start, stop) hands tasks to it, asks whether it *)
(* is ready and destroys it.  The flags are atomics; the user takes no     *)
(* mutex, so every access is a step of its own.  The mutex of the worker   *)
(* has no other holder and is left out.                                    *)
(***************************************************************************)
EXTENDS Naturals

CONSTANT MaxWork   \* bound on the number of tasks given to one object

ASSUME WorkAssumption == MaxWork \in Nat

VARIABLES
    executed,   \* m_task_executed
    assigned,   \* m_task_assigned
    quit,       \* m_thread_quit
    done,       \* m_worker_done
    upc,        \* where the user is
    wpc,        \* where the worker is
    given,      \* number of tasks accepted by set_work
    ran         \* number of tasks executed

vars == <<executed, assigned, quit, done, upc, wpc, given, ran>>

UserStates == {"idle", "exchange", "bind", "assign", "notify",
               "spin", "quit", "wake", "gone"}
WorkerStates == {"test", "readExecuted", "readAssigned", "task",
                 "setExecuted", "clearAssigned", "enterWait", "waiting", "returned"}

TypeOK ==
    /\ executed \in BOOLEAN /\ assigned \in BOOLEAN
    /\ quit \in BOOLEAN /\ done \in BOOLEAN
    /\ upc \in UserStates
    /\ wpc \in WorkerStates
    /\ given \in 0..MaxWork /\ ran \in 0..MaxWork

(* The constructor starts the thread last. *)
Init ==
    /\ executed = TRUE /\ assigned = FALSE
    /\ quit = FALSE /\ done = FALSE
    /\ upc = "idle"
    /\ wpc = "test"
    /\ given = 0 /\ ran = 0

-----------------------------------------------------------------------------
(* The user: set_work.                                                     *)

UserGoes(from, to) == upc = from /\ upc' = to

(* Mutant: only m_task_executed is consulted. *)
ReadAssigned_Skip ==
    /\ given < MaxWork
    /\ UserGoes("idle", "exchange")
    /\ UNCHANGED <<executed, assigned, quit, done, wpc, given, ran>>

(* if (!m_task_assigned && ...; a call that is refused changes nothing. *)
ReadAssigned ==
    /\ ~assigned
    /\ given < MaxWork
    /\ UserGoes("idle", "exchange")
    /\ UNCHANGED <<executed, assigned, quit, done, wpc, given, ran>>

(* ... m_task_executed.exchange(false)) *)
Exchange ==
    /\ upc = "exchange"
    /\ upc' = IF executed THEN "bind" ELSE "idle"
    /\ executed' = FALSE
    /\ UNCHANGED <<assigned, quit, done, wpc, given, ran>>

(* m_task = std::bind(f, args...) *)
Bind ==
    /\ UserGoes("bind", "assign")
    /\ given' = given + 1
    /\ UNCHANGED <<executed, assigned, quit, done, wpc, ran>>

Assign ==
    /\ UserGoes("assign", "notify")
    /\ assigned' = TRUE
    /\ UNCHANGED <<executed, quit, done, wpc, given, ran>>

(* m_cv.notify_all() wakes the worker only if it is waiting already. *)
Woken == IF wpc = "waiting" THEN "test" ELSE wpc

Notify ==
    /\ UserGoes("notify", "idle")
    /\ wpc' = Woken
    /\ UNCHANGED <<executed, assigned, quit, done, given, ran>>

(* The user: the destructor.                                               *)

Destroy ==
    /\ UserGoes("idle", "spin")
    /\ UNCHANGED <<executed, assigned, quit, done, wpc, given, ran>>

(* while (m_task_assigned) sleep *)
SpinEnds ==
    /\ ~assigned
    /\ UserGoes("spin", "quit")
    /\ UNCHANGED <<executed, assigned, quit, done, wpc, given, ran>>

Quit ==
    /\ UserGoes("quit", "wake")
    /\ quit' = TRUE
    /\ UNCHANGED <<executed, assigned, done, wpc, given, ran>>

(* while (!m_worker_done) { sleep; notify_all() }, then join(). *)
Wake ==
    /\ upc = "wake"
    /\ \/ ~done /\ wpc' = Woken /\ UNCHANGED upc
       \/ done /\ upc' = "gone" /\ UNCHANGED wpc
    /\ UNCHANGED <<executed, assigned, quit, done, given, ran>>

(* m_channelContexts.emplace at the next start: a new object. *)
Construct ==
    /\ upc = "gone"
    /\ executed' = TRUE /\ assigned' = FALSE
    /\ quit' = FALSE /\ done' = FALSE
    /\ upc' = "idle"
    /\ wpc' = "test"
    /\ given' = 0 /\ ran' = 0

-----------------------------------------------------------------------------
(* The worker: thread_worker.                                              *)

WorkerGoes(from, to) == wpc = from /\ wpc' = to

(* while (!m_thread_quit); after the loop m_worker_done = true. *)
TestQuit ==
    /\ wpc = "test"
    /\ wpc' = IF quit THEN "returned" ELSE "readExecuted"
    /\ done' = quit
    /\ UNCHANGED <<executed, assigned, quit, upc, given, ran>>

(* Mutant: the worker takes any task that was marked as not executed. *)
ReadExecuted_Only ==
    /\ wpc = "readExecuted"
    /\ wpc' = IF executed THEN "enterWait" ELSE "task"
    /\ UNCHANGED <<executed, assigned, quit, done, upc, given, ran>>

ReadExecuted ==
    /\ wpc = "readExecuted"
    /\ wpc' = IF executed THEN "enterWait" ELSE "readAssigned"
    /\ UNCHANGED <<executed, assigned, quit, done, upc, given, ran>>

WorkerReadsAssigned ==
    /\ wpc = "readAssigned"
    /\ wpc' = IF assigned THEN "task" ELSE "enterWait"
    /\ UNCHANGED <<executed, assigned, quit, done, upc, given, ran>>

(* m_task() returns. *)
RunTask ==
    /\ WorkerGoes("task", "setExecuted")
    /\ ran' = ran + 1
    /\ UNCHANGED <<executed, assigned, quit, done, upc, given>>

SetExecuted ==
    /\ WorkerGoes("setExecuted", "clearAssigned")
    /\ executed' = TRUE
    /\ UNCHANGED <<assigned, quit, done, upc, given, ran>>

ClearAssigned ==
    /\ WorkerGoes("clearAssigned", "test")
    /\ assigned' = FALSE
    /\ UNCHANGED <<executed, quit, done, upc, given, ran>>

(* m_cv.wait(lock) begins ... *)
EnterWait ==
    /\ WorkerGoes("enterWait", "waiting")
    /\ UNCHANGED <<executed, assigned, quit, done, upc, given, ran>>

(* ... and may end without a notification. *)
SpuriousWakeup ==
    /\ WorkerGoes("waiting", "test")
    /\ UNCHANGED <<executed, assigned, quit, done, upc, given, ran>>

-----------------------------------------------------------------------------
User ==
    \/ Exchange \/ Bind \/ Assign \/ Notify
    \/ SpinEnds \/ Quit \/ Wake

Worker ==
    \/ TestQuit \/ ReadExecuted \/ WorkerReadsAssigned
    \/ RunTask \/ SetExecuted \/ ClearAssigned \/ EnterWait

Next == User \/ Worker \/ ReadAssigned \/ Destroy \/ Construct \/ SpuriousWakeup

(***************************************************************************)
(* Both threads run; tasks return (the flusher does once m_stopWriters is  *)
(* set).  A wakeup without a notification may happen and need not.         *)
(***************************************************************************)
Spec == Init /\ [][Next]_vars /\ WF_vars(User) /\ WF_vars(Worker)

-----------------------------------------------------------------------------
(* Properties.                                                             *)

(***************************************************************************)
(* m_task, which is not an atomic, is never written by set_work while the  *)
(* worker calls it.                                                        *)
(***************************************************************************)
TaskNotWrittenWhileCalled == ~(upc = "bind" /\ wpc = "task")

(***************************************************************************)
(* When get_readiness() says so, every task that was accepted has run, and *)
(* none has run twice.  FileWriterModule::stop relies on it.               *)
(***************************************************************************)
ReadyMeansRan == ran <= given /\ (executed => ran = given)

(***************************************************************************)
(* The worker waits although a task is assigned and its notification has   *)
(* been sent already: set_work stored the flag and notified between the    *)
(* worker's test and its wait.                                             *)
(***************************************************************************)
Missed == wpc = "waiting" /\ assigned /\ upc # "notify"

(***************************************************************************)
(* A task that set_work accepted is executed and the destructor returns,   *)
(* unless the notification is missed: nothing else can hold them up.       *)
(***************************************************************************)
WorkEnds ==
    /\ given > ran ~> given = ran \/ Missed
    /\ upc = "spin" ~> upc = "gone" \/ Missed
=============================================================================
