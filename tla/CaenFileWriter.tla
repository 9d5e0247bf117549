--------------------------- MODULE CaenFileWriter ---------------------------
(***************************************************************************)
(* CaenFileWriterModule, for one connection ("each DAQling channel is      *)
(* written and processed independently").  A producer thread receives      *)
(* events and puts them into the payload queue; the flusher thread takes   *)
(* them from there, makes up file names, opens the files, writes, and      *)
(* rotates the files.  WriteState outlives a stop: it tells the next start *)
(* whether to go on with the same files.                                   *)
(*                                                                         *)
(* An event is its number in the order of receipt and the CAEN channels it *)
(* has data of.  A file is the sequence of what was written to it; every   *)
(* event is flushed to the disk at once.  A file name is the record of the *)
(* fields that the filename pattern shows; the fields made from the time   *)
(* do not occur (within a second, or a day, they do not change).  The file *)
(* format only says how an event is spelled and is left out.               *)
(*                                                                         *)
(* The two worker threads are ReusableThreads; here their tasks do start.  *)
(***************************************************************************)
EXTENDS Naturals, Sequences, FiniteSets, Functions

CONSTANTS
    SettingsSet,    \* the configurations considered, see Settings
    ChannelLists,   \* what an event may have in ch_data, <<>> included
    Leftovers,      \* the sets of file names that may be on the disk already
    QueueCap,       \* number of events the payload queue can hold
    RunNumbers,     \* the run numbers that start may be given
    MaxEvents,      \* bound on the number of events received
    MaxStarts,      \* bound on the number of starts
    FilenumMod      \* filenum is unsigned: it counts modulo this number

Splittings == {"FilePerDevice", "FilePerDeviceHead", "FilePerChannel", "FilePerChannelHead"}
StopBehaviors == {"Pause", "CloseFiles", "CloseAndTrim"}
FinishedRunBehaviors == {"IgnoreLast", "ClearLast"}
NameConflictBehaviors == {"Overwrite", "NextFilenames", "Stop"}
Fields == {"run", "ch", "filenum"}
ErrorCodes == {"None", "FilenameConflictFilesystem", "FilenameConflictGenerated",
               "FilenamesNotChanged", "FilestreamsNotOpened", "MaxTotalEventsReached"}

(* CaenFileWriterModule::Settings; the pattern is the set of its fields. *)
Settings == [file_splitting : Splittings,
             when_stopped_writing : StopBehaviors,
             when_finished_run : FinishedRunBehaviors,
             when_name_conflict : NameConflictBehaviors,
             filename_pattern : SUBSET Fields,
             max_events_per_file : Nat,
             max_total_events : Nat]

CaenChannels == UNION {Range(l) : l \in ChannelLists}

Name == [run : RunNumbers \cup {0}, filenum : 0..(FilenumMod - 1),
         ch : CaenChannels \cup {"", "head"}]

ASSUME WriterAssumption ==
    /\ SettingsSet \subseteq Settings
    /\ \A s \in SettingsSet : s.max_events_per_file > 0 /\ s.max_total_events > 0
    /\ \A l \in ChannelLists : l \in Seq(CaenChannels) /\ IsInjective(l)
    /\ Leftovers \subseteq SUBSET Name  \* other files are never looked at
    /\ QueueCap \in Nat \ {0} /\ FilenumMod \in Nat \ {0}
    /\ RunNumbers \subseteq Nat \ {0}
    /\ MaxEvents \in Nat /\ MaxStarts \in Nat

VARIABLES
    settings,    \* m_channelSettings of the connection
    disk,        \* the files: what was written to each, by name
    phase,       \* how far start and stop have come; or unconfigured, crashed
    mrun,        \* DAQProcess::m_run
    stopWriters, \* m_stopWriters
    saved,       \* m_channelStates: the WriteState between a stop and a start
    runner,      \* DAQProcess::m_runner_thread
    producer,    \* the task of Context::producer
    held,        \* the event in its hands, as a sequence of at most one
    queue,       \* Context::queue
    flusher,     \* the task of Context::consumer
    state,       \* Context::write_state
    streams,     \* names of the files that the flusher has open
    continuing,  \* its variable continuing_after_pause
    nextEv,      \* number of the next event
    got,         \* non-empty events received since the last start
    starts       \* number of starts

commands == <<phase, mrun, stopWriters, saved, starts>>
producing == <<runner, producer, held, nextEv, got>>
writing == <<disk, flusher, state, streams, continuing>>
vars == <<settings, commands, producing, queue, writing>>

Event == [ev : Nat, chs : Seq(CaenChannels)]
Entry == [ev : Nat, run : RunNumbers \cup {0}, chs : Seq(CaenChannels)]
WriteState == [run_number : RunNumbers \cup {0}, filenum : 0..(FilenumMod - 1),
               num_events_written : Nat, num_total_events_written : Nat,
               filenames : Seq(Name), caen_channels : Seq(CaenChannels),
               error_code : ErrorCodes]

(* The state keeps its type; the payload queue never holds more than it can. *)
TypeOK ==
    /\ settings \in SettingsSet
    /\ DOMAIN disk \subseteq Name /\ \A f \in DOMAIN disk : disk[f] \in Seq(Entry)
    /\ phase \in {"idle", "running", "joining", "stopping", "clearing",
                  "unconfigured", "crashed"}
    /\ mrun \in BOOLEAN /\ stopWriters \in BOOLEAN /\ continuing \in BOOLEAN
    /\ saved \in WriteState /\ state \in WriteState
    /\ runner \in {"none", "starting", "up"}
    /\ producer \in {"none", "receiving", "received", "writing", "returned"}
    /\ held \in Seq(Event) /\ Len(held) <= 1
    /\ queue \in Seq(Event) /\ Len(queue) <= QueueCap
    /\ flusher \in {"none", "outer", "inner", "take", "generate", "open", "write", "returned"}
    /\ streams \in Seq(Name)
    /\ nextEv \in 1..(MaxEvents + 1) /\ got \subseteq 1..MaxEvents
    /\ starts \in 0..MaxStarts

(* WriteState(channel_id). *)
NewWriteState ==
    [run_number |-> 0, filenum |-> 0, num_events_written |-> 0, num_total_events_written |-> 0,
     filenames |-> <<>>, caen_channels |-> <<>>, error_code |-> "None"]

(* configure() has been called; files of earlier days may be there. *)
Init ==
    /\ settings \in SettingsSet
    /\ \E old \in Leftovers : disk = [f \in old |-> <<[ev |-> 0, run |-> 0, chs |-> <<>>]>>]
    /\ phase = "idle" /\ mrun = FALSE /\ stopWriters = FALSE
    /\ saved = NewWriteState /\ state = NewWriteState
    /\ runner = "none" /\ producer = "none" /\ held = <<>>
    /\ queue = <<>>
    /\ flusher = "none" /\ streams = <<>> /\ continuing = FALSE
    /\ nextEv = 1 /\ got = {} /\ starts = 0

-----------------------------------------------------------------------------
(* start, stop, unconfigure.                                               *)

(* fs::remove of several files; the error codes are ignored. *)
Without(files, names) == Restrict(files, DOMAIN files \ names)

(* WriteState::finish_run, and the files it deletes. *)
FinishRun(st) == [st EXCEPT !.filenum = 0, !.num_events_written = 0,
                            !.filenames = <<>>, !.caen_channels = <<>>]
DeletedAtFinish(st) ==
    IF settings.when_finished_run = "ClearLast" THEN Range(st.filenames) ELSE {}

(* Mutant: a new run number leaves the file names of the last run. *)
NewRun_Keep(st, r) ==
    [st EXCEPT !.run_number = r,
               !.error_code = IF @ = "MaxTotalEventsReached" THEN @ ELSE "None"]

(* WriteState::new_run: a new run number finishes the last run. *)
NewRun(st, r) ==
    [(IF st.run_number # r THEN [FinishRun(st) EXCEPT !.run_number = r] ELSE st)
        EXCEPT !.error_code = IF @ = "MaxTotalEventsReached" THEN @ ELSE "None"]

(* start(run_num): makes the context of the connection and hands the       *)
(* flusher to its consumer thread; the runner thread has been started.     *)
Start(r) ==
    /\ phase = "idle" /\ starts < MaxStarts
    /\ starts' = starts + 1
    /\ phase' = "running" /\ mrun' = TRUE /\ stopWriters' = FALSE
    /\ saved' = NewRun(saved, r) /\ state' = saved'
    /\ disk' = IF saved.run_number # r THEN Without(disk, DeletedAtFinish(saved)) ELSE disk
    /\ runner' = "starting" /\ producer' = "none"
    /\ flusher' = "outer" /\ streams' = <<>>
    /\ continuing' = (saved'.filenames # <<>>)
    /\ got' = {}
    /\ UNCHANGED <<settings, held, nextEv, queue>>

(* stop() waits for m_start_completed, then m_run = false. *)
Stop ==
    /\ phase = "running"
    /\ phase' = "joining" /\ mrun' = FALSE
    /\ UNCHANGED <<settings, stopWriters, saved, starts, producing, queue, writing>>

(* The runner thread is joined, m_stopWriters is set. *)
StopWriters ==
    /\ phase = "joining" /\ runner = "none"
    /\ phase' = "stopping" /\ stopWriters' = TRUE
    /\ UNCHANGED <<settings, mrun, saved, starts, producing, queue, writing>>

(* Mutant: the write state of the context is not copied back. *)
KeepWriteState_Lost ==
    /\ phase = "stopping" /\ flusher = "returned"
    /\ phase' = "clearing"
    /\ UNCHANGED <<settings, mrun, stopWriters, saved, starts, producing, queue, writing>>

(* consumer.get_readiness(): the write state is kept for the next start. *)
KeepWriteState ==
    /\ phase = "stopping" /\ flusher = "returned"
    /\ phase' = "clearing" /\ saved' = state
    /\ UNCHANGED <<settings, mrun, stopWriters, starts, producing, queue, writing>>

(* m_channelContexts.clear(): the destructor of the producer waits for its *)
(* task; what is left in the queue is gone.                                *)
ClearContexts ==
    /\ phase = "clearing" /\ producer = "returned"
    /\ phase' = "idle"
    /\ producer' = "none" /\ flusher' = "none" /\ queue' = <<>> /\ got' = {}
    /\ UNCHANGED <<settings, mrun, stopWriters, saved, starts, runner, held, nextEv,
                   disk, state, streams, continuing>>

(* unconfigure() finishes the run; the module is unloaded after it. *)
Unconfigure ==
    /\ phase = "idle"
    /\ phase' = "unconfigured"
    /\ saved' = FinishRun(saved)
    /\ disk' = Without(disk, DeletedAtFinish(saved))
    /\ UNCHANGED <<settings, mrun, stopWriters, starts, producing, queue,
                   flusher, state, streams, continuing>>

-----------------------------------------------------------------------------
(* The runner thread and the producer.                                     *)

Alive == phase # "crashed"

(* A test of m_run at the head of the producer's loop. *)
Looping == IF mrun THEN "receiving" ELSE "returned"

(* runner() waits for m_start_completed and hands the producer its task. *)
RunnerStarts ==
    /\ Alive /\ runner = "starting"
    /\ runner' = "up" /\ producer' = Looping
    /\ UNCHANGED <<settings, commands, held, nextEv, got, queue, writing>>

RunnerReturns ==
    /\ Alive /\ runner = "up" /\ ~mrun
    /\ runner' = "none"
    /\ UNCHANGED <<settings, commands, producer, held, nextEv, got, queue, writing>>

(* sleep_receive returns true; m_run may have been cleared meanwhile. *)
ProducerReceives ==
    /\ Alive /\ producer = "receiving" /\ nextEv <= MaxEvents
    /\ \E l \in ChannelLists :
          /\ held' = <<[ev |-> nextEv, chs |-> l]>>
          /\ got' = IF l = <<>> THEN got ELSE got \cup {nextEv}
    /\ nextEv' = nextEv + 1
    /\ producer' = "received"
    /\ UNCHANGED <<settings, commands, runner, queue, writing>>

(* sleep_receive returns false and m_run is false. *)
ProducerEnds ==
    /\ Alive /\ producer = "receiving" /\ ~mrun
    /\ producer' = "returned"
    /\ UNCHANGED <<settings, commands, runner, held, nextEv, got, queue, writing>>

(* An event that was received after m_run was cleared is dropped. *)
ProducerTests ==
    /\ Alive /\ producer = "received"
    /\ producer' = IF mrun THEN "writing" ELSE "returned"
    /\ held' = IF mrun THEN held ELSE <<>>
    /\ UNCHANGED <<settings, commands, runner, nextEv, got, queue, writing>>

(* Mutant: the producer does not look whether the queue is full. *)
ProducerWrites_Unbounded ==
    /\ Alive /\ producer = "writing"
    /\ queue' = queue \o held
    /\ held' = <<>> /\ producer' = Looping
    /\ UNCHANGED <<settings, commands, runner, nextEv, got, writing>>

ProducerWrites ==
    /\ Alive /\ producer = "writing" /\ Len(queue) < QueueCap
    /\ queue' = queue \o held
    /\ held' = <<>> /\ producer' = Looping
    /\ UNCHANGED <<settings, commands, runner, nextEv, got, writing>>

(* Mutant: one attempt to write to a full queue is enough. *)
ProducerGivesUp_Once ==
    /\ Alive /\ producer = "writing" /\ Len(queue) = QueueCap
    /\ held' = <<>> /\ producer' = Looping
    /\ UNCHANGED <<settings, commands, runner, nextEv, got, queue, writing>>

(* The queue is full and m_run is false: the event is dropped. *)
ProducerGivesUp ==
    /\ Alive /\ producer = "writing" /\ Len(queue) = QueueCap /\ ~mrun
    /\ held' = <<>> /\ producer' = "returned"
    /\ UNCHANGED <<settings, commands, runner, nextEv, got, queue, writing>>

-----------------------------------------------------------------------------
(* The flusher: its loop.                                                  *)

(* The test of the outer loop: when m_stopWriters is set at this point the *)
(* flusher returns without looking at when_stopped_writing.                *)
FlusherTests ==
    /\ Alive /\ flusher = "outer"
    /\ flusher' = IF stopWriters THEN "returned" ELSE "inner"
    /\ streams' = IF stopWriters THEN <<>> ELSE streams
    /\ UNCHANGED <<settings, commands, producing, queue, disk, state, continuing>>

(* The inner loop has ended because there is an event. *)
FlusherFindsEvent ==
    /\ Alive /\ flusher = "inner" /\ ~stopWriters /\ queue # <<>>
    /\ flusher' = "take"
    /\ UNCHANGED <<settings, commands, producing, queue, disk, state, streams, continuing>>

(* What is done with the last files once m_stopWriters is set. *)
Trims == /\ settings.when_stopped_writing = "CloseAndTrim"
         /\ state.num_events_written > 0
         /\ state.num_events_written < settings.max_events_per_file

StoppedState ==
    CASE settings.when_stopped_writing = "Pause" -> state
      [] settings.when_stopped_writing = "CloseFiles" ->
            [state EXCEPT !.filenames = <<>>,
                          !.filenum = IF state.num_events_written > 0
                                      THEN (@ + 1) % FilenumMod ELSE @]
      [] settings.when_stopped_writing = "CloseAndTrim" ->
            [state EXCEPT !.filenames = <<>>,
                          !.filenum = IF Trims /\ @ > 0 THEN @ - 1 ELSE @]

(* Mutant: a flusher that has nothing to write does not look at m_stopWriters. *)
FlusherStops_Busy ==
    /\ Alive /\ flusher = "inner" /\ stopWriters /\ queue # <<>>
    /\ state' = StoppedState
    /\ disk' = IF Trims THEN Without(disk, Range(state.filenames)) ELSE disk
    /\ streams' = <<>> /\ flusher' = "returned"
    /\ UNCHANGED <<settings, commands, producing, queue, continuing>>

(* After the inner loop m_stopWriters is set; events may still be queued. *)
FlusherStops ==
    /\ Alive /\ flusher = "inner" /\ stopWriters
    /\ state' = StoppedState
    /\ disk' = IF Trims THEN Without(disk, Range(state.filenames)) ELSE disk
    /\ streams' = <<>> /\ flusher' = "returned"
    /\ UNCHANGED <<settings, commands, producing, queue, continuing>>

-----------------------------------------------------------------------------
(* The flusher: one event.                                                 *)

(* The elements of a sequence that are in a set, in their order. *)
Among(s, S) ==
    LET upTo[n \in 0..Len(s)] ==
            IF n = 0 THEN <<>>
            ELSE upTo[n - 1] \o IF s[n] \in S THEN <<s[n]>> ELSE <<>>
    IN  upTo[Len(s)]

(* normalize_event: missing channels are added at the end; remove_if moves *)
(* the channels to be kept to the front but the vector keeps its length,   *)
(* and the elements behind them keep their channel numbers.                *)
NormalizeEvent(channels, chs) ==
    LET all == chs \o Among(channels, Range(channels) \ Range(chs))
        kept == Among(all, Range(channels))
    IN kept \o SubSeq(all, Len(kept) + 1, Len(all))

(* Label skip: the event is done with. *)
Skip == /\ queue' = Tail(queue)
        /\ flusher' = "outer"

(* Where an event goes that is to be written. *)
NextStep == IF state.filenames = <<>> THEN "generate"
            ELSE IF streams = <<>> THEN "open" ELSE "write"

(* Empty events, and all events while there is an error, are skipped. *)
FlusherSkips ==
    /\ Alive /\ flusher = "take"
    /\ Head(queue).chs = <<>> \/ state.error_code # "None"
    /\ Skip
    /\ UNCHANGED <<settings, commands, producing, disk, state, streams, continuing>>

(* The first event of a run tells the channels, the others are adapted. *)
FlusherTakes ==
    LET chs == Head(queue).chs IN
    /\ Alive /\ flusher = "take" /\ chs # <<>> /\ state.error_code = "None"
    /\ IF state.caen_channels = <<>>
       THEN state' = [state EXCEPT !.caen_channels = chs] /\ UNCHANGED queue
       ELSE queue' = [queue EXCEPT ![1].chs = NormalizeEvent(state.caen_channels, chs)]
            /\ UNCHANGED state
    /\ flusher' = NextStep
    /\ UNCHANGED <<settings, commands, producing, disk, streams, continuing>>

(* The {ch} of the files of a set. *)
FileChannels ==
    CASE settings.file_splitting = "FilePerDevice" -> <<"">>
      [] settings.file_splitting = "FilePerDeviceHead" -> <<"head", "">>
      [] settings.file_splitting = "FilePerChannel" -> state.caen_channels
      [] settings.file_splitting = "FilePerChannelHead" -> <<"head">> \o state.caen_channels

(* fmt::format: only the fields in the pattern tell names apart. *)
FileNames ==
    LET shown(field, value, none) == IF field \in settings.filename_pattern THEN value ELSE none
    IN [i \in DOMAIN FileChannels |->
           [run |-> shown("run", state.run_number, 0),
            filenum |-> shown("filenum", state.filenum, 0),
            ch |-> shown("ch", FileChannels[i], "")]]

(* check_name_conflicts: the error code of a conflict, or "None". *)
NameConflict(fnames) ==
    IF ~IsInjective(fnames) THEN "FilenameConflictGenerated"
    ELSE IF Range(fnames) \cap DOMAIN disk # {} THEN "FilenameConflictFilesystem" ELSE "None"

(* check_all_names_changed compares with the names of the write state. *)
AllNamesChanged(fnames) == Range(fnames) \cap Range(state.filenames) = {}

(* One turn of the loop of FileGenerator::next. *)
Generate ==
    LET fnames == FileNames
        conflict == NameConflict(fnames)
        numbered == [state EXCEPT !.filenum = (@ + 1) % FilenumMod]
        failed(code) == [numbered EXCEPT !.error_code = code, !.filenames = <<>>]
        behavior == settings.when_name_conflict
    IN
    /\ Alive /\ flusher = "generate"
    /\ \/ /\ \/ conflict = "None"
             \/ conflict = "FilenameConflictFilesystem" /\ behavior = "Overwrite"
          /\ state' = [numbered EXCEPT !.error_code = "None", !.filenames = fnames]
          /\ flusher' = IF streams = <<>> THEN "open" ELSE "write"
          /\ UNCHANGED queue
       \/ /\ \/ conflict = "FilenameConflictGenerated"
             \/ conflict = "FilenameConflictFilesystem" /\ behavior = "Stop"
          /\ state' = failed(conflict)
          /\ Skip
       \/ /\ conflict = "FilenameConflictFilesystem" /\ behavior = "NextFilenames"
          /\ IF AllNamesChanged(fnames)
             THEN /\ state' = [numbered EXCEPT !.error_code = conflict]
                  /\ UNCHANGED <<flusher, queue>>
             ELSE state' = failed("FilenamesNotChanged") /\ Skip
    /\ UNCHANGED <<settings, commands, producing, disk, streams, continuing>>

(* The disk after the files have been opened, to be appended to or anew. *)
Opened(names, append) ==
    [f \in DOMAIN disk \cup names |->
        IF f \in DOMAIN disk /\ (append \/ f \notin names) THEN disk[f] ELSE <<>>]

(* Mutant: only the first file of a set is continued after a pause. *)
OpenStreams_First ==
    /\ Alive /\ flusher = "open"
    /\ disk' = [f \in DOMAIN disk \cup Range(state.filenames) |->
                  IF f \in DOMAIN disk /\ \/ f \notin Range(state.filenames)
                                          \/ continuing /\ f = state.filenames[1]
                  THEN disk[f] ELSE <<>>]
    /\ streams' = state.filenames /\ continuing' = FALSE
    /\ flusher' = "write"
    /\ UNCHANGED <<settings, commands, producing, queue, state>>

(* Mutant: files are opened anew also after a pause. *)
OpenStreams_Anew ==
    /\ Alive /\ flusher = "open"
    /\ disk' = Opened(Range(state.filenames), FALSE)
    /\ streams' = state.filenames /\ continuing' = FALSE
    /\ flusher' = "write"
    /\ UNCHANGED <<settings, commands, producing, queue, state>>

(* open_ofstreams. *)
OpenStreams ==
    /\ Alive /\ flusher = "open"
    /\ disk' = Opened(Range(state.filenames), continuing)
    /\ streams' = state.filenames /\ continuing' = FALSE
    /\ flusher' = "write"
    /\ UNCHANGED <<settings, commands, producing, queue, state>>

(* One of the files cannot be opened; the ones before it have been. *)
OpenStreamsFails ==
    /\ Alive /\ flusher = "open"
    /\ \E k \in 0..(Len(state.filenames) - 1) :
          disk' = Opened(Range(SubSeq(state.filenames, 1, k)), continuing)
    /\ state' = [state EXCEPT !.error_code = "FilestreamsNotOpened", !.filenames = <<>>]
    /\ continuing' = FALSE
    /\ Skip
    /\ UNCHANGED <<settings, commands, producing, streams>>

(* The write_event functions: what the i-th file of a set gets of an event. *)
Share(i, chs) ==
    CASE settings.file_splitting = "FilePerDevice" -> chs
      [] settings.file_splitting = "FilePerDeviceHead" -> IF i = 1 THEN <<>> ELSE chs
      [] settings.file_splitting = "FilePerChannel" -> <<chs[i]>>
      [] settings.file_splitting = "FilePerChannelHead" -> IF i = 1 THEN <<>> ELSE <<chs[i - 1]>>

(* The disk after event e has been written to the open files. *)
Written(e) ==
    [f \in DOMAIN disk |->
        IF f \in Range(streams)
        THEN LET i == CHOOSE i \in DOMAIN streams : streams[i] = f
             IN Append(disk[f], [ev |-> e.ev, run |-> state.run_number, chs |-> Share(i, e.chs)])
        ELSE disk[f]]

(* The write state after one more event: rotation and the total limit. *)
Counted ==
    LET n == state.num_events_written + 1
        total == state.num_total_events_written + 1
        full == n >= settings.max_events_per_file
        enough == total >= settings.max_total_events
    IN [state EXCEPT !.num_events_written = IF full THEN 0 ELSE n,
                     !.num_total_events_written = total,
                     !.filenames = IF full \/ enough THEN <<>> ELSE @,
                     !.error_code = IF enough THEN "MaxTotalEventsReached" ELSE @]

(* Mutant: the event at which the files are rotated is not taken off the queue. *)
Flush_KeepAtRotation ==
    /\ Alive /\ flusher = "write"
    /\ disk' = Written(Head(queue))
    /\ state' = Counted
    /\ streams' = IF state'.filenames = <<>> THEN <<>> ELSE streams
    /\ flusher' = "outer"
    /\ queue' = IF streams' = <<>> THEN queue ELSE Tail(queue)
    /\ UNCHANGED <<settings, commands, producing, continuing>>

(* The event is written and flushed, then the files may be rotated. *)
Flush ==
    /\ Alive /\ flusher = "write"
    /\ disk' = Written(Head(queue))
    /\ state' = Counted
    /\ streams' = IF state'.filenames = <<>> THEN <<>> ELSE streams
    /\ Skip
    /\ UNCHANGED <<settings, commands, producing, continuing>>

(* An exception leaves the flusher, and std::terminate is called: a name   *)
(* cannot be formatted, a directory cannot be made, a write fails; or      *)
(* streams is accessed beyond its end, when an event has more channels     *)
(* than there are files.                                                   *)
Crash ==
    /\ Alive /\ flusher \in {"generate", "open", "write"}
    /\ phase' = "crashed"
    /\ UNCHANGED <<settings, mrun, stopWriters, saved, starts, producing, queue, writing>>

-----------------------------------------------------------------------------
Commands == \/ \E r \in RunNumbers : Start(r)
            \/ Stop \/ Unconfigure
Stopping == StopWriters \/ KeepWriteState \/ ClearContexts
Runner == RunnerStarts \/ RunnerReturns
ProducerRuns == ProducerEnds \/ ProducerTests \/ ProducerWrites \/ ProducerGivesUp
FlusherRuns == \/ FlusherTests \/ FlusherFindsEvent \/ FlusherStops
               \/ FlusherSkips \/ FlusherTakes \/ Generate \/ OpenStreams \/ Flush

Next == \/ Commands \/ Stopping \/ Runner
        \/ ProducerReceives \/ ProducerRuns
        \/ FlusherRuns \/ OpenStreamsFails \/ Crash

(* The threads run; commands, data and failures come when they come. *)
Spec == /\ Init /\ [][Next]_vars
        /\ WF_vars(Stopping) /\ WF_vars(Runner)
        /\ WF_vars(ProducerRuns) /\ WF_vars(FlusherRuns)

-----------------------------------------------------------------------------
(* Properties.                                                             *)

EventsIn(f) == {disk[f][i].ev : i \in DOMAIN disk[f]}
OnDisk == UNION {EventsIn(f) : f \in DOMAIN disk}
EventNumbers(s) == {s[i].ev : i \in DOMAIN s}

(* A file holds events of one run only, in the order in which they were    *)
(* received: what a pause, a new run number or a leftover file could mix   *)
(* up is kept apart by the file names in the write state.                  *)
OneRunPerFile ==
    \A f \in DOMAIN disk : \A i, j \in DOMAIN disk[f] :
        /\ disk[f][i].run = disk[f][j].run
        /\ i < j => disk[f][i].ev < disk[f][j].ev

(* No event is written twice: files for the same channel have no event in  *)
(* common (1..MaxEvents: leftover files are none of this program's).       *)
EachEventOnce ==
    \A f, g \in DOMAIN disk :
        f # g /\ f.ch = g.ch => EventsIn(f) \cap EventsIn(g) \cap (1..MaxEvents) = {}

(* However often writing is stopped and started again, no more than        *)
(* max_total_events events are on the disk ("will stop writing after       *)
(* reaching this limit"), and no file has more than max_events_per_file.   *)
LimitsKept ==
    /\ Cardinality(OnDisk \ {0}) <= settings.max_total_events
    /\ \A f \in DOMAIN disk : Len(disk[f]) <= settings.max_events_per_file

(* The files of a set that are open, header and channels, hold the same    *)
(* events: a reader can put them together line by line.                    *)
OpenFilesAligned ==
    \A f, g \in Range(streams) :
        Len(disk[f]) = Len(disk[g]) /\ \A i \in DOMAIN disk[f] : disk[f][i].ev = disk[g][i].ev

(* While a run goes on without an error, every event received that has     *)
(* data is on the disk, in the queue or in the hands of the producer,      *)
(* unless the settings allow to overwrite files within the run.            *)
NothingLost ==
    /\ mrun /\ Alive /\ state.error_code = "None"
    /\ "filenum" \in settings.filename_pattern \/ settings.when_name_conflict # "Overwrite"
    => got \subseteq OnDisk \cup EventNumbers(queue) \cup EventNumbers(held)

(* Unless files may be overwritten, a file is only ever appended to; and   *)
(* clearing incomplete files (at a stop or the end of a run) never removes *)
(* one that has the full number of events.                                 *)
FilesOnlyGrow ==
    [][settings.when_name_conflict # "Overwrite" =>
        \A f \in DOMAIN disk :
            IF f \in DOMAIN disk'
            THEN /\ Len(disk[f]) <= Len(disk'[f])
                 /\ SubSeq(disk'[f], 1, Len(disk[f])) = disk[f]
            ELSE Len(disk[f]) < settings.max_events_per_file]_vars

(* FileGenerator::next never finds a name when the pattern has no          *)
(* {filenum}, the file exists and it is told to try the next names.        *)
Endless == /\ settings.when_name_conflict = "NextFilenames"
           /\ "filenum" \notin settings.filename_pattern

(* stop() returns, unless the module is looking for a name for ever. *)
StopReturns == (phase = "joining" /\ ~Endless) ~> phase \in {"idle", "unconfigured", "crashed"}

(* "After stopping writing events close all files and proceed to the next  *)
(* ones": after a stop no file is to be continued unless writing was only  *)
(* paused.                                                                 *)
StoppedFilesClosed ==
    phase = "idle" /\ settings.when_stopped_writing # "Pause" => saved.filenames = <<>>
=============================================================================
