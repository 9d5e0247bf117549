# Verification of the AMS DAQ (DAQling)

This directory holds TLA+ modules that model the run control, the data path and the two
browser user interfaces of the AMS DAQ software, TLC configurations that check them on small instances, and
TLAPS proofs, for every value of the constants, of the safety properties that the runs check.

## 1. Inventory of the system

A data acquisition run is made by several **processes** (`src/src/Exec/daqling.cpp`), each
with a few **modules** (plugins) whose **connections** form a pipeline
readout → event builder → file writer.  A **control tree** (Python) boots the processes through
supervisord and sends them commands by XML-RPC.

| Component | State it keeps | Operations | Hard behaviour |
|---|---|---|---|
| Process and module manager (`Command.cpp`, `ModuleManager.cpp`, `ModuleLoader.*`, `DAQProcess.hpp`) | map of modules with a status each, the module objects, their runner threads | configure, start, stop, unconfigure, down, custom commands, status | one thread per module and command; exceptions at every call leave "-ing" statuses; two clients; no lock; shutdown waits for threads |
| Connections (`ConnectionManager.*`, `Sender.cpp`, `Receiver.cpp`, `Queue.cpp`) | channels, queues, a handler thread per queued channel | add, start, stop, remove channels; send, receive | independent start and stop of the two ends, full queues, retries, messages left over |
| Transport plugins (ZeroMQ pair and pub/sub, UDP, local queue) | sockets, shared queue | send, receive | block, fail or drop when full |
| Worker thread (`ReusableThread.hpp`) | one task, three flags, a condition variable | `set_work`, `get_readiness`, destructor | flags without the mutex, lost wakeups |
| Event builder | map of partial events, queue of complete ones, two threads | start, runner, stop | lost and stale fragments, queue overflow, stop |
| Readout interface, CAEN dummy | event counter, run flag | start, pause, resume, runner, stop | retry of a failed send, runner that gives up |
| File writers (`FileWriter`, `CaenFileWriter`) | payload queues, buffers, open file, run state | start, runner, flusher, rotation, stop | producer and flusher, rotation, stop against a full buffer, errors on open |
| Statistics | registered counters, metrics thread | register, unregister, publish | counters read and reset while modules write |
| Control tree (`nodetree.py`, `daqcontrol.py`) | cached state of each node, include/exclude flags, poller threads | boot, ordered actions over the tree, state checking | stale states, partial failures |
| Supervisor wrapper | supervisord program table | add, start, remove process | kill in mid-command, restart |
| Configuration GUI canvas (`drag.js`) | modules, connectors, links (in three places), port generators, the form, chains of requests | add modules and connectors, draw, cancel and submit links, load, save, copy, reload | every change is GET, change, POST; callbacks read globals that have moved on; chains overlap |
| Configuration GUI pages (`input.js`, `menu.js`, `initPage.py`, `input.py`) | document and buttons of the editor, one working copy and one schema for all browsers, output files | new, edit, select schema, change, help, submit, name, return | requests without callbacks, aborted by the next one or by leaving the page; several browsers |
| Control GUI pages (`scripts.js`) | ownership flag, states of the nodes, selection, buttons, check boxes | lock, commands, include, exclude, select, switch configuration; events and answers | three unordered sources of news; lost events; reload |
| Control GUI server (`ControlGUIServer.py`) | holder and lease of each configuration, session, last broadcast values | interlock, commands, states, configuration switch, state checker | check-then-act between clients; polling misses changes; sessions in cookies |
| Configuration services, monitoring scripts, log streams, graph page | none of interest | database and network I/O, presentation | – |

Interactions.  A command reaches a process over XML-RPC; the server thread (a
*handler*) selects the modules whose status allows it and runs a *task* for each one in a thread of its own.
`start` starts the connections of a module and then its runner thread; `stop`
joins the runner thread and then stops the connections.  The tree starts file
writer, event builder and readout in this order and stops them in the reverse one
(`src/configs/demo-tree/fsm-rules.json`).  Data flow only through connections:
a queued connection puts two queues and two handler threads around a transport.
The consumer side of the file writers runs in a `ReusableThread`.
A configuration is a JSON document made beforehand with the configuration GUI: the menu copies it into a working copy on its
server, canvas and editor change that copy, and the editor writes it out.  The control GUI is a server around the control
tree, to which any number of pages are connected; one user at a time is in control of a configuration.

What makes each component correct:

* manager: the reported status tells the truth about threads; nothing is
  unloaded under a thread; a failed module is not touched again; every command
  is answered, unless a thread that it waits for is blocked in a socket; a process told to go down goes down.
* connections: order, no duplicates, no loss between a start and a stop over a
  transport that blocks; stop returns.
* worker thread: a task is run exactly once, is not written while it is called, and starts.
* event builder: events are whole, sent once, not forgotten; stop returns, with the same exception.
* CAEN file writer: what is received is on the disk while a run goes on, in order, once, in files
  of one run and within the limits; files are not spoiled by a pause, a rotation or a failure.
* canvas: the three places that keep a link agree; what is on the canvas is in the working copy after a save; ports are
  not handed out twice; a reload shows the same links.
* configuration pages: "Submit" is offered exactly for a valid document, whatever help does; no invalid document is written
  out; a submission writes both files.
* control GUI: a page believes that it is in control exactly when its user is; it shows the states of the tree and the
  commands they allow; it offers no control to others; a click acts on the configuration that is shown.

## 2. Modules

### ModuleManager — one process

State: `proc` (the operating system process), and for every module `status`
(`m_module_status`; `"absent"` is "no entry in `m_modloaders`"), `loaded`
(`ModuleLoader::m_loaded`), `conns` (its sub-manager and channels), `run` and `runner`
(`DAQProcess::m_run`, `m_runner_thread`) and `blocked`, which of its threads wait in `ZMQPairSender::send`; for every handler `pc`, `op`, `sel` and
`task`, the progress of the threads that `for_each_module` made.

* `Begin*` are the `execute` functions of the command classes up to the dispatch.
  A refused command changes nothing and is not a step.
* A task is cut at every call that can throw or that other threads can see: `Enter` writes the
  transitional status; `LoaderConfigure`; `CmStart`, `LoaderStart`; `LoaderStop`,
  `JoinRunner`, `CmStop`; `LoaderUnconfigure`, `RemoveChannel`; `LoaderUnload`; `LoaderCommand`.
  Wherever a plugin may throw, the task may end in `"threw"` with the transitional status in place.
* The loop of `configure` is `Load` and `AddChannels`, one module after the other.
* Undefined behaviour is a choice: erasing from `m_modloaders` while
  it is iterated over may crash (`LoaderUnload`); a task that uses an erased
  entry crashes (`TouchErased`).  Assigning to a joinable `std::thread` and a failed
  `ERS_PRECONDITION` end the process (`Crash`).
* `ZMQPairSender::send` has no timeout.  `SendBlocks` and `SendReturns` are the wait in it: of the handler thread of a queue-wrapped
  connection (`QueuedPair`), which `CmStop` joins, or of the runner itself where the connection has no queue (`DirectPair`, as in
  `src/configs/demo-metrics-manager-no-queue`), which `JoinRunner` joins.
* `Kill` and `Boot` are the supervisor; `MainReturns` and `MainExit` the end of `main`.

Custom commands are parameters, registered by every module: their transitional and target statuses must not be statuses of
a module at rest, as holds for the ones in the repository (`ConstantsAssumption`).

### CommandReply — what a process answers

`GetStatesAsString` is the scan over the statuses in the order of the map, `MergeCommandResponses`
the merge of two replies.  Every input within the bound is an initial state; `Report` and `Merge` compute.
A reply is abstracted to its severity, whether it has a text, and the same for each module.

### LossyChannel and QueueChannel — a connection

`LossyChannel` is the promise: messages leave in the order in which they entered,
some may be lost, none is duplicated.  `QueueChannel` is the code: producer, queue,
handler thread, transport, handler thread, queue, consumer, with the start, stop, join and
re-creation of both ends.  The refinement mapping concatenates everything that is under way.
`SleepSend` moves the data before it tries (`ConnectionManager.hpp:157`); the result of a
retry is the message `Empty`, which is not followed further, into the event builder.
The receiving handler tests its loop condition, receives and writes in three steps.  The transports are told apart by what a full one
does: `"pair"` blocks, `"local"` fails, `"pub"` drops.

### ReusableThread — the worker of the file writers

One action per access to an atomic flag or to the condition variable, of the user
(`set_work`, destructor) and of the worker (`thread_worker`).  `given` and `ran`
are history variables: tasks accepted and tasks executed.  `SpuriousWakeup` is what the C++ standard allows of
`wait`.  The flags are sequentially consistent atomics in the code, so interleaving is the right semantics.

### EventBuilder — runner and consumer thread

`Collect` and `ConsumerBuilds` are the two critical sections under the mutex.  A fragment is its
sequence number and the run it was read out in; the run is not in the code, it serves to state
the properties.  `Arrive` may lose the fragment; `Reconfigure` empties the connections;
a `Start` without it finds the leftovers of the run before.
`output` is the kind of the sender connection, which the configuration fixes: the un-queued ZMQPair of `src/configs/demo-metrics-manager-no-queue` never fails, it may
wait (`ConsumerSendBlocks`, the value `"blocked"` of `cpc`); the others return, and what fails is retried.

### CaenFileWriter — producer, flusher and files

One connection: the contexts of the connections share only the flags.  `Start`, `Stop`, `StopWriters`,
`KeepWriteState`, `ClearContexts` and `Unconfigure` are the commands with every wait they make; `saved` is
`m_channelStates`, `state` the copy in the context that the flusher works on.  The flusher is cut at its tests of
`m_stopWriters` and, for one event, into taking, `Generate` (one turn of the loop of `FileGenerator::next`), opening and
writing; failures are `OpenStreamsFails` (an error code) and `Crash` (an exception leaves the thread).  The disk maps file names to
what was written.  A name is a record of the fields `{run}`, `{ch}`, `{filenum}` that the pattern has; fields made of the
time are left out, which leaves the hardest case, that they do not change.  Settings are chosen from a set of records.  `last_event_written`
and the metrics are left out: nothing depends on them.  `filenum` counts modulo `FilenumMod`.

### CanvasEditor — the canvas of the configuration GUI

State: the globals of `drag.js` (`moduleArray`, `overallConnections`, `TEMPORARYINFO`, the port generators, the forms), the
link lists of the modules as two bags, the working copy `file` on the server and the chains in flight.  An operation of the user is one action up
to the start of its chain, which then goes through `ServeGet`, its callback (`WriteCallback`, `SubmitCallback`, `CopyCallback`,
`readJSON_helper`) and `editModule`, each a step of its own; the callbacks read the globals as they are then.  A GET that meets a POST may
get half a document (`GetFails`); a TypeError ends a callback (`Fillable`, `CopyCallback`).  `checkConnection` keeps the
order of insertion, `LinksOf` the pairing of every sender with every receiver of the same key, `LastNumber` the comparison with lower-cased names and the two digits of
`submitNewMultiModules`.  Loops that push onto an array are recursive functions (`Flatten`, `WithLinks`), so that they can be reasoned about.  History: `overlapped` (the user went on while a chain was in flight) and `unsaved` (and no save has run alone since).

### ControlGui — pages and server of the control GUI

A page is a record; the functions that redraw it (`redrawLock`, `includeChecker`, `changed`, `open_node`, `loaded`) are functions
from page to page in the order of calls in the handlers, including the TypeErrors that end a handler (`Copied`, `changed`).  Requests are served and answered in any
order; events of one page keep their order.  `interlock` is cut between its test and its assignment; `stateChecker` is one round for
one configuration, with the holder that it compares possibly older than the one it remembers.  `Request` carries the session of the cookie,
`Answer` writes it back.  `disturbed` (history) collects the pages that have missed or misordered news, each cause at the step where it happens;
loading the page again clears it.

### ConfigPages — menu, canvas and editor around one working copy

Each browser shows one page.  `Sent` is `open` and `send` on one of the two request objects of the editor, which aborts what
that object has under way; `Left` is leaving a page.  An aborted request may have reached the server or not (`Lost`).  `change` is the handler
of the editor's change event, `help` the help button.  What the canvas stores is any document here.
`writtenBy` and `submitted` are history.

### Requests

What `ControlGui` and `ConfigPages` share: the requests that a page has in flight, as a function from numbers to requests.  Nothing
orders them; a request keeps its number until it is answered or lost.

### Proof modules

For each of `ModuleManager`, `ReusableThread`, `QueueChannel`, `EventBuilder`, `CaenFileWriter`, `CanvasEditor`, `ConfigPages` and `ControlGui` a
module named `...Proofs` extends it and holds its inductive invariant, the lemmas and the theorems; see section 4.
`ModuleManagerProofs` holds those about `CommandReply` too.

### Names ending in `_Something`

A definition preceded by a comment that starts with "Mutant" is a wrong version of the one
that follows it, kept to show that the property it is meant for would notice.

## 3. Runs

| Run | Instance | Shows |
|---|---|---|
| `mm_single` | 2 modules of 2 types, one with a queued ZMQPair, one with an un-queued one, 1 handler, no custom commands | statuses and threads agree (`NoOrphanThreads`, `RunningHasThreads`), `DownIsClean`, `StuckIsLeftAlone`, every command answered unless it waits for a blocked send, shutdown completes |
| `mm_overlap` | 1 module with a queued connection and an un-queued ZMQPair, 2 handlers, pause and resume | `RunnerHasModule` when commands overlap |
| `reply` | 5 modules in 3 statuses; replies about 1 module | the scan and the merge against their definitions |
| `channel` | all buffers of size 1, 4 messages, three transports | refinement of `LossyChannel`, no loss between start and stop, delivery, stop returns |
| `channel_retry` (violation) | PAIR, 3 messages | a retry sends an empty message |
| `thread` | 3 tasks per object | no race on the task, readiness, tasks run and the destructor returns unless a notification is missed |
| `builder` | 2 channels, queue of 1, 2 sequence numbers, 2 runs, an un-queued ZMQPair or another sender | events whole, sent once, not forgotten; stop returns unless the consumer is blocked in its send |
| `caen` | 6 configurations, 3 events, 2 events per file, 2 starts, queue of 1 | files of one run, in order, each event once, limits, sets of files aligned, nothing lost, files only grow, stop returns |
| `caen_stop` (violation) | `CloseFiles`, 3 events, 1 run | the treatment of the last files at a stop is skipped |
| `canvas` | a new and a saved document, 3 modules of 2 names, 2 connectors a side, 3 operations, 2 chains in flight | `LinesAgree` and `ModulePortsUnique` while operations do not overlap, `SavesHeal` after an overlap, `ReloadShowsTheSame` |
| `gui` | 2 pages (of two users, or both of `local_user`), 2 configurations of 2 and 1 nodes, 3 operations | `FlagIsRight` and `ViewIsRight` but for the named disturbances; `ControlsFollowFlag`, `OnePageOneConfig` without exception |
| `pages` | 2 browsers, 4 documents, 2 schemas that disagree, 2 file names, 5 operations | `ButtonsAgree`, `OutFilesValid`, `SubmitWritesBoth` |

Bounds.  Two modules are enough for "one fails, the other goes on"; modules interact only through
the overall state and the selection by type, and two types tell the selection apart.  One module sends over a queue-wrapped
ZMQPair and the other over an un-queued one, so that each of the two joins of a stop meets a blocked thread.  In the channel,
buffers of size one are full and empty most often; four messages are one more than fit in the
three buffers.  Three tasks let the third `set_work` meet the end of the first one's run.  Two runs let
leftovers meet fresh fragments; two sequence numbers and a queue of one let the queue overflow.
In the file writer, two starts with the same or another run number tell a pause from a new run; three events fill a file and
begin the next; the six configurations have every value of every setting and patterns with and without each field.
On the canvas, three operations are enough to draw a link from a saved document, draw a second one that shares an end and save or reload; the saved
document has a number at the end of its range and ports below the generators' first values.  Two chains are the smallest overlap.  In the control GUI, two users
and two configurations tell the holder, the user and the configuration apart; three operations allow taking, releasing and taking
again, or a command between a switch and its late answer.  Pages are interchangeable with their users, and browsers with each other (symmetry sets `MCSymmetry`).  In the pages, five operations lead from the menu through the canvas into the editor and through a submission.

The three browser models check no deadlock because the operations of the users are bounded.  The event builder checks none because the number of runs is bounded, the file writer because it may be
unconfigured or crash, and `reply` because it
computes once.

Fairness.  Weak fairness for every thread of the code that can go on: handlers that have work, tasks, the handler threads of connections, the consumer, the joining command.  All
of them are operating system threads in loops with bounded sleeps.  No fairness for
what the environment does: commands, kills, boots, production of data, spurious wakeups, a runner giving up; and none for the return of a send into a ZMQPair whose
socket is full: `ZMQPairSender::send` waits without a timeout until the receiver takes a message, which a stopped one never does.
In `ModuleManager` a send may block and return any number of times before a thread looks at its flag, so that the runner's exit once `m_run` is false and the join of the
handler threads are enabled again and again, not for ever: `RunnerReturns` and `CmStop` have strong fairness, which says that a thread looks at its flag between two sends.
`CommandsAnswered` excepts a command whose task waits, from some time on for ever, in a join for a thread that is in such a send (`HeldUp`), and says that nothing else keeps a command from its
answer; `StopReturns` of the event builder excepts a consumer that is blocked for ever (`cpc = "blocked"`), `StopReturns` of the channel a PAIR sender whose receiver has stopped.
`StopReturns` of the file writer excludes the settings `Endless`, and takes for granted that the tasks of its worker threads start.
The browser models state no fairness and only safety: nothing obliges a user, and no code retries a request.

## 4. Proofs

Assumptions are only the named `ASSUME`s of the modules, and the ones that a theorem states itself.  The inductive
invariants were tried out with TLC on small instances first.

**ModuleManager**

* `TypeCorrect` — `TypeOK`, for any modules, handlers and custom commands.
* `RunnerModule` — `RunnerHasModule` for any number of overlapping commands.  The only way to lose
  `loaded` is `LoaderUnload`, which waits for the runner, and the only way to gain a runner requires `loaded`.
* `NoOrphans`, `DownClean` — with a single handler and any custom commands.  `NoOrphanThreads` is not inductive: it says nothing about a task
  in the middle of `stop`.  The inductive invariant adds, for every task that has not
  ended, what has been done so far: the status is the transitional one of its operation; after
  `JoinRunner` there is no runner thread; and a module with a task for an operation on resting modules has no threads.
  It needs the single handler: with two, a start can overtake an unconfigure.
* `RunningThreads` — `RunningHasThreads`, with a single handler and without custom commands.  The invariant adds what a start has done at each of its
  steps (the connections are live after `CmStart`, there is a runner after `LoaderStart`) and that only a start leads to "running".
* `StuckAlone` — `StuckIsLeftAlone`, without custom commands and for any number of handlers: the selection of modules reads the
  status after the task that left it has ended.

**CommandReply**, for any statuses, modules and replies.

* `Overall` — `OverallIsRight`.  The scan is a recursive function over the modules; that it exists, and what it knows after each module (`Seen`: all booted; or agreed after a booted
  prefix; or two that differ), is shown by induction, in the form of the least number that contradicts it (`NatSet`, from `WFMin`).
* `Merged` — `NoErrorLost`, by cases on the modules of the two replies and the order of severities.

**ReusableThread**

* `NoTaskRace`, `Readiness`, `TypeCorrect` — for any number of tasks.  The inductive invariant
  is the ownership of the task told from the two flags (`HandOver`) and the number of tasks to be run told from them (`Counts`):
  the user owns the task while both are false, the worker while `m_task_assigned` is true.

**QueueChannel**

* `Refinement` — every behaviour is one of `LossyChannel`, for any sizes, transports and numbers of messages.  The messages under way are the
  concatenation of queues, hands and transport; a step either moves a message from one part to the next (a stutter), adds one at
  the end, takes the first, or drops some; the lemmas on concatenation say which of these each action is.  The type invariant (a thread holds at most one message) is all it needs.
* `NoLoss` — `NoLossWhileRunning`, from the same lemmas.
* `TypeCorrect` — with it.

**EventBuilder**

* `TypeCorrect` — needs "`m_run` is set only while a run number is given" beside the types, and includes that `complete_seq` stays within its size.
* `NothingForgotten` — `NoneForgotten`: a complete event that is not yet queued is queued by the step that completes it unless the queue is full, and
  only the consumer takes it off.
* `WholeEvents`, `SentOnce` — the invariant follows a fragment through connection, map, hands of the consumer and sent events: it is in one place
  at a time, and a fresh event that is sent or built has `N` different channels.  The cardinality argument uses `FiniteSetTheorems`.

**CaenFileWriter**, for any settings, numbers of events, channels, files and starts.

* `OneRun`, `NoEventTwice`, `Limits`, `AlignedFiles` — one inductive invariant: the numbers of the events on the disk are below those in the queue, in increasing order; the
  files of the write state are the ones open or to be continued, hold events of its run, and the same ones; its counters bound the lengths of these files and the number of events on
  the disk.  It needs clauses for the copy in `m_channelStates` and for each step between the taking of an event and its writing.
* `OnlyGrow` — `FilesOnlyGrow`: names come from the search for one that does not exist, or are those of the write state; a file that is cleared has fewer events than a full one.
* `TypesKept` — `TypeOK`.  What a file of a set gets is taken from the event by the number of the file (`Share`), so the types rest on the length of an event: the
  invariant `FitInv` says that a set has no more files than the run has channels (and a header), and that an event about to be written has at least that many.
  That `normalize_event` grants this, although it removes nothing and sorts nothing, is the lemma `Normalized`: it adds every channel that is missing (`AmongElements`, by induction), and a list
  without repetition is no longer than one that has all its elements (`LongEnough`, by the pigeonhole principle).  It needs that the channels of an event are different (`WriterAssumption`), as those of a digitizer are.
* `NoEventLost` — `NothingLost` where name conflicts are not settled by "Overwrite".  With "Overwrite" and `{filenum}` the property depends on `filenum` not wrapping
  around within a run, which the bounds of the run guarantee and the code does not: it is model-checked only.

**CanvasEditor**, for any module names, ipc paths, saved documents and numbers of modules, operations and chains.  The assumptions (`CanvasAssumption`) are that a saved document is
one that the page could have written, with different control ports, and that a module has fewer than ten connectors a side.  One inductive invariant (`CanvasInductive`) has a part for each property:

* `LinesAlwaysAgree` — `LinesAgree`: the three places agree also while a link is drawn whose form is open or whose chain is under way; such a link is in the lists exactly once,
  shares no connector with another one, and is the one that a cancellation or the callback will name (`LinesInv`).  This is where "one chain at a time" is needed: `TEMPORARYINFO` is a global.
* `SavesAlwaysHeal` — `SavesHeal`, also after overlaps: the document as it will be once the chain in flight has ended (`Latest`) covers every module of the canvas, unless a save is under way that has not been
  answered, which then will (`SavedInv`, `ChainInv`, and `Covers` for what `Merge` makes).
* `ModulePortsAlwaysUnique` — `ModulePortsUnique`: components are on the canvas with their ports, and the generator is above all of them (`PortsInv`); it stays so through a load because the load reads the ports of the document it draws.
* `ReloadAlwaysShowsTheSame` — `ReloadShowsTheSame`: every link drawn has one value at both its ends in the document, and no two connectors have a common value without a link, except ipc paths typed twice
  (`ShowInv`); ports are new when they are given (`PortsUsed`).  What `LinksOf` makes of such a document follows by induction over its connectors.
  The proof attempt corrected the property: an ipc path that two senders or two receivers have is excluded (`Separate`), because a reload joins every sender with every receiver of the same path.  It had been
  excluded for senders only; but in a saved document with two receivers of one path and no sender of it, a link to one of them under that path is, after a reload, a link to both.

**ConfigPages**, for any number of browsers, documents, schemas, names and requests.

* `Buttons`, `OnlyValidFiles`, `BothFiles` — the invariant relates the buttons that are shown, those that help has put aside and the validity of
  the document (`Agrees`); says that a request that writes an output file carries a document valid for its editor (`Fits`); and that, while a submission
  is followed, the two files hold its document or the request that will write it is under way, and no other request writes (`SubmitInv`).

**ControlGui**, for any number of pages, users, configurations, nodes, FSM rules and requests.

* `NoControlWithoutFlag` — `ControlsFollowFlag`.  A function that redraws a page ends with the lock drawn, or adds check boxes to a page on which every node that is
  shown has one already (`Boxed`, `Locked`).  The one exception, `loaded`, is covered by the POST that is then under way (`FirstPost`).
* `FlagInTheEnd`, `ViewInTheEnd` — `FlagIsRight` and `ViewIsRight` speak of settled pages only and are far from inductive.  The invariant (`Told`) says what a page
  that is not disturbed *will* know: the last event on its way says what the checker broadcast last; and without such an event, and while the server has not moved away from what was broadcast,
  the one answer with news on its way tells the truth, or there is none and the page is right already.  Nothing is said of a page that still waits for its snapshot, and of
  one that what is on its way will disturb (`Doomed`).  A move of the server away from what was broadcast makes the claim void (`ServerMoves`), a move back disturbs the page: this is where the definition of `disturbed` is needed in full.
  That a list of states is copied as a whole rests on requests and events of a page being of its own configuration.
* `OneConfig` — `OnePageOneConfig` is part of the invariant and inductive with the sessions of requests and cookies.

Model-checked only:

* liveness under fairness, and the deadlocks: out of the prover's reach;
* `NothingLost` with "Overwrite" (above).

## 5. Where the code and its own words disagree

1. `channel_retry` — after a failed `sleep_send` the retry sends an empty message and reports success.
2. `caen_stop` — when `m_stopWriters` is set while the flusher writes an event, its outer loop ends and `when_stopped_writing` is
   not looked at: files that are to be closed are continued, files to be trimmed are kept.

Met while modelling, and visible in the models, without a run of their own: a failed load leaves an entry in the map, so a repeated configure skips the load and
calls `ModuleLoader::configure`, which "may only be called after a successful `load`" (`Load`, `LoaderConfigure`); a task given between the worker's test and its wait does not start
until a spurious wakeup, and the destructor, which waits before it notifies, hangs (`Notify`; `WorkEnds` excludes it); the consumer of the event builder does not "finish to process complete events" (`ConsumerAbandons`); `start` is accepted for a running module and ends the process
(`LoaderStart`); a module that is stopped while one of its threads waits in `ZMQPairSender::send`, because the receiver has stopped before or is stuck, stays in "stopping" and the command is
never answered (`SendBlocks`, with `CmStop` or `JoinRunner`; `ConsumerSendBlocks` in the event builder); with `NextFilenames` and a pattern without `{filenum}` the search for a name does not end (`Endless`); `CloseAndTrim` counts `filenum` back
at every stop because `num_events_written` is not reset, so that it may reach a full file again (`StoppedState`); `normalize_event` neither sorts nor shortens
`ch_data` (`NormalizeEvent`); after a file could not be opened all events of the run are skipped, not only one (`FlusherSkips`);
of two overlapping chains of the canvas the later POST undoes the earlier one (`editModule`), and a callback fills the link drawn last instead of the one submitted (`SubmitCallback`); commands of
the control GUI are executed whoever is in control (`ajaxParse`); a change of the holder that is undone between two polls, or comes between the two reads of one, is never broadcast (`Reassign`, `stateChecker`);
two pages of one user share the session, so that a click in one may act on the configuration of the other; "Whiteboard" in the editor posts the document while the canvas already reads it, although its help text says that
the changes "will be drawn on the GUI" (`returnToCanvas`).

## 6. Not modelled, and the plan

Not modelled: configuration services, monitoring scripts, command line dialogue (I/O and presentation), log streams (formatting), UDP and socket set-up; `FileWriter`, whose threads follow the
pattern of the CAEN file writer; `Statistics`, whose values are only published; the control tree beyond what the GUI sees of it.  Of the GUIs: positions and drawing on the canvas, the log list
with its filters, grafana and kibana frames, uploads and login, the graph page `addGraph.js` (a chart that polls), and the vendored
libraries `jquery.gridstrap.js`, `create.js` and `jsoneditor.js`.

Plan:

1. `FileWriter` and the control tree, if more of the system is to be modelled.
2. `NothingLost` with "Overwrite", from a bound on the files of a run that the code would have to keep.
