------------------------ MODULE CaenFileWriterProofs ------------------------
(***************************************************************************)
(* Proofs about CaenFileWriter: what the files hold, for any settings,     *)
(* channels, leftover files, run numbers, queue size and number of events. *)
(* The invariant IInv speaks of event numbers and runs; the channels of an *)
(* event, and with them TypeOK, come last (FitInv).                        *)
(***************************************************************************)
EXTENDS CaenFileWriter, SequenceTheorems, FiniteSetTheorems, NaturalsInduction, TLAPS

(* A sequence, of whatever it is a sequence. *)
IsSeq(s) == s \in Seq(Range(s))

(* The types that the arguments below need. *)
Typed ==
    /\ settings \in SettingsSet
    /\ state \in WriteState /\ saved \in WriteState
    /\ streams \in Seq(Name)
    /\ nextEv \in 1..(MaxEvents + 1)
    /\ IsSeq(queue) /\ \A i \in DOMAIN queue : DOMAIN queue[i] = {"ev", "chs"}
    /\ IsSeq(held) /\ \A i \in DOMAIN held : DOMAIN held[i] = {"ev", "chs"}
    /\ \A f \in DOMAIN disk : IsSeq(disk[f])

(***************************************************************************)
(* Where the threads are, and what that says of the write state: between a *)
(* stop and a start the module keeps the state of the last context; the    *)
(* flusher has either none or all of the named files open; it goes on with *)
(* files of an earlier start only before it has opened any.                *)
(***************************************************************************)
AtWork == flusher \in {"take", "generate", "open", "write"}

PhaseInv ==
    /\ phase \in {"idle", "clearing"} => saved = state
    /\ phase \in {"idle", "unconfigured"} => flusher = "none"
    /\ phase = "clearing" => flusher = "returned"
    /\ mrun => phase \in {"running", "crashed"} /\ ~stopWriters

FlusherInv ==
    /\ AtWork => queue # <<>>
    /\ streams \in {<<>>, state.filenames}
    /\ flusher \in {"none", "returned", "generate", "open"} => streams = <<>>
    /\ flusher = "generate" => state.filenames = <<>> /\ ~continuing
    /\ flusher = "write" => streams = state.filenames /\ ~continuing
    /\ flusher \in {"outer", "inner", "take"} =>
         /\ state.filenames # <<>> /\ streams = <<>> => continuing
         /\ continuing => state.filenames # <<>> /\ streams = <<>>
    /\ flusher \in {"open", "write"} => state.error_code = "None"
    /\ flusher = "generate" => state.error_code # "MaxTotalEventsReached"

ControlInv == PhaseInv /\ FlusherInv

(* Events are numbered in the order of receipt, from the disk to the hands *)
(* of the producer.                                                        *)
OrderInv ==
    /\ Len(held) <= 1
    /\ \A i \in DOMAIN held : held[i].ev \in 1..(nextEv - 1)
    /\ \A i \in DOMAIN queue : queue[i].ev \in 1..(nextEv - 1)
    /\ \A i, j \in DOMAIN queue : i < j => queue[i].ev < queue[j].ev
    /\ \A i \in DOMAIN queue, j \in DOMAIN held : queue[i].ev < held[j].ev
    /\ got \subseteq 1..(nextEv - 1)
    /\ \A e \in OnDisk :
         /\ e \in 0..(nextEv - 1)
         /\ \A j \in DOMAIN queue : e < queue[j].ev
         /\ \A j \in DOMAIN held : e < held[j].ev

(* Events that have not been taken yet are as they were received. *)
RawInv ==
    /\ \A i \in DOMAIN queue : i > 1 \/ flusher \notin {"generate", "open", "write"} =>
         /\ queue[i].chs \in ChannelLists
         /\ queue[i].ev \in got => queue[i].chs # <<>>
    /\ \A i \in DOMAIN held :
         /\ held[i].chs \in ChannelLists
         /\ held[i].ev \in got => held[i].chs # <<>>

(* The files named in the write state have been opened by this run. *)
Adopted == phase # "unconfigured" /\ (flusher = "open" => continuing)

Aligned(f, g) ==
    Len(disk[f]) = Len(disk[g]) /\ \A i \in DOMAIN disk[f] : disk[f][i].ev = disk[g][i].ev

NamesInv ==
    /\ \A f, g \in Range(state.filenames) : f # g => f.ch # g.ch
    /\ Adopted =>
         /\ \A f \in Range(state.filenames) :
              /\ f \in DOMAIN disk
              /\ Len(disk[f]) <= state.num_events_written
              /\ \A i \in DOMAIN disk[f] : disk[f][i].run = state.run_number
         /\ \A f, g \in Range(state.filenames) : Aligned(f, g)

(* The counters of the write state and the limits. *)
CountInv ==
    /\ state.num_events_written < settings.max_events_per_file
    /\ state.num_total_events_written <= settings.max_total_events
    /\ state.error_code # "MaxTotalEventsReached" =>
         state.num_total_events_written < settings.max_total_events
    /\ Cardinality(OnDisk \ {0}) <= state.num_total_events_written
    /\ \A f \in DOMAIN disk : Len(disk[f]) <= settings.max_events_per_file

IInv == /\ Typed /\ ControlInv /\ OrderInv /\ RawInv
        /\ OneRunPerFile /\ EachEventOnce /\ NamesInv /\ CountInv

(* A set of files that is about to be opened anew overwrites nothing. *)
NewNames ==
    flusher = "open" /\ ~continuing /\ settings.when_name_conflict # "Overwrite" =>
        Range(state.filenames) \cap DOMAIN disk = {}

(* The first event of a run has told the channels: every set has a file. *)
ChannelsKnown ==
    /\ flusher \in {"generate", "open", "write"} => state.caen_channels # <<>>
    /\ flusher \in {"open", "write"} => state.filenames # <<>>

(* The producer holds an event only between receiving and handing it on;   *)
(* it has no task before the runner gives it one, nor between two runs.    *)
ProducerInv ==
    /\ producer \notin {"received", "writing"} => held = <<>>
    /\ runner = "starting" \/ phase \in {"idle", "unconfigured"} => producer = "none"
    /\ phase \in {"stopping", "clearing", "idle", "unconfigured"} => runner = "none"

(* NothingLost, also while a file name is being looked for. *)
Keeping == /\ mrun /\ Alive /\ settings.when_name_conflict # "Overwrite"
           /\ state.error_code = "None" \/ flusher = "generate"
KeptInv == Keeping => got \subseteq OnDisk \cup EventNumbers(queue) \cup EventNumbers(held)

-----------------------------------------------------------------------------
(* Sequences.                                                              *)

(* A function on 1..n is a sequence. *)
LEMMA SeqMade ==
    ASSUME NEW S, NEW n \in Nat, NEW s \in [1..n -> S]
    PROVE  s \in Seq(S)
OBVIOUS

(* A sequence over some set is a sequence. *)
LEMMA SeqOf ==
    ASSUME NEW S, NEW s \in Seq(S)
    PROVE  IsSeq(s) /\ Len(s) \in Nat /\ DOMAIN s = 1..Len(s)
<1>1. Len(s) \in Nat /\ DOMAIN s = 1..Len(s) /\ s = [i \in 1..Len(s) |-> s[i]]
  BY LenProperties
<1>2. \A i \in 1..Len(s) : s[i] \in Range(s)
  BY <1>1 DEF Range
<1>3. [i \in 1..Len(s) |-> s[i]] \in Seq(Range(s))
  BY <1>1, <1>2, IsASeq
<1> QED BY <1>1, <1>3 DEF IsSeq

(* The domain of a sequence; the empty ones. *)
LEMMA SeqDomain ==
    ASSUME NEW s, IsSeq(s)
    PROVE  /\ Len(s) \in Nat /\ DOMAIN s = 1..Len(s)
           /\ s = <<>> <=> Len(s) = 0
           /\ s # <<>> => 1 \in DOMAIN s
BY LenProperties, EmptySeq DEF IsSeq

(* The empty sequence. *)
LEMMA NoneSeq == IsSeq(<<>>) /\ Len(<<>>) = 0 /\ DOMAIN <<>> = {}
<1>1. <<>> \in Seq({}) /\ Len(<<>>) = 0 BY EmptySeq
<1>2. IsSeq(<<>>) /\ DOMAIN <<>> = 1..Len(<<>>) BY <1>1, SeqOf
<1> QED BY <1>1, <1>2

(* A sequence of one element. *)
LEMMA OneSeq ==
    ASSUME NEW e
    PROVE  IsSeq(<<e>>) /\ Len(<<e>>) = 1 /\ DOMAIN <<e>> = {1} /\ <<e>>[1] = e
<1>1. <<e>> \in Seq({e}) /\ Len(<<e>>) = 1 /\ <<e>>[1] = e OBVIOUS
<1>2. IsSeq(<<e>>) /\ DOMAIN <<e>> = 1..Len(<<e>>) BY <1>1, SeqOf
<1> QED BY <1>1, <1>2

(* A sequence without its first element. *)
LEMMA TailSeq ==
    ASSUME NEW s, IsSeq(s), s # <<>>
    PROVE  /\ IsSeq(Tail(s)) /\ Len(Tail(s)) = Len(s) - 1 /\ Head(s) = s[1]
           /\ \A i \in DOMAIN Tail(s) : i + 1 \in DOMAIN s /\ Tail(s)[i] = s[i + 1]
           /\ Tail(s) # s
<1>1. s \in Seq(Range(s)) BY DEF IsSeq
<1>2. Tail(s) \in Seq(Range(s)) /\ Len(Tail(s)) = Len(s) - 1
      /\ \A i \in 1..Len(Tail(s)) : Tail(s)[i] = s[i + 1]
  BY <1>1, HeadTailProperties
<1>3. IsSeq(Tail(s)) /\ DOMAIN Tail(s) = 1..Len(Tail(s)) /\ Len(Tail(s)) \in Nat
  BY <1>2, SeqOf
<1>4. Len(s) \in Nat /\ DOMAIN s = 1..Len(s) BY <1>1, LenProperties
<1>5. Head(s) = s[1] BY <1>1
<1>6. \A n \in Nat : n - 1 # n OBVIOUS
<1>7. Tail(s) # s BY <1>2, <1>4, <1>6, Zenon
<1>8. \A i \in DOMAIN Tail(s) : i + 1 \in DOMAIN s /\ Tail(s)[i] = s[i + 1]
  BY <1>2, <1>3, <1>4
<1> QED BY <1>2, <1>3, <1>5, <1>7, <1>8, Zenon

(* A sequence with one more element. *)
LEMMA AppendSeq ==
    ASSUME NEW s, IsSeq(s), NEW e
    PROVE  /\ IsSeq(Append(s, e)) /\ Len(Append(s, e)) = Len(s) + 1
           /\ Append(s, e)[Len(s) + 1] = e
           /\ DOMAIN Append(s, e) = DOMAIN s \cup {Len(s) + 1}
           /\ \A i \in DOMAIN s : i < Len(s) + 1 /\ Append(s, e)[i] = s[i]
<1>1. s \in Seq(Range(s) \cup {e}) BY SeqMonotonic DEF IsSeq
<1>2. Append(s, e) \in Seq(Range(s) \cup {e}) /\ Len(Append(s, e)) = Len(s) + 1
      /\ Append(s, e)[Len(s) + 1] = e
      /\ \A i \in 1..Len(s) : Append(s, e)[i] = s[i]
  BY <1>1, AppendProperties
<1>3. IsSeq(Append(s, e)) /\ DOMAIN Append(s, e) = 1..Len(Append(s, e)) BY <1>2, SeqOf
<1>4. Len(s) \in Nat /\ DOMAIN s = 1..Len(s) BY <1>1, LenProperties
<1> QED BY <1>2, <1>3, <1>4

(* A sequence is a prefix of what it becomes by appending. *)
LEMMA PrefixOfAppend ==
    ASSUME NEW s, IsSeq(s), NEW e
    PROVE  SubSeq(Append(s, e), 1, Len(s)) = s /\ Len(Append(s, e)) = Len(s) + 1
<1>1. s \in Seq(Range(s) \cup {e}) BY SeqMonotonic DEF IsSeq
<1> DEFINE S == Range(s) \cup {e}
<1> HIDE DEF S
<1>2. s \in Seq(S) /\ e \in S /\ Len(s) \in Nat BY <1>1, LenProperties DEF S
<1>3. Append(s, e) \in Seq(S) /\ Len(Append(s, e)) = Len(s) + 1
      /\ \A i \in 1..Len(s) : Append(s, e)[i] = s[i]
  BY <1>2, AppendProperties
<1>4. /\ SubSeq(Append(s, e), 1, Len(s)) \in Seq(S)
      /\ Len(SubSeq(Append(s, e), 1, Len(s))) = Len(s)
      /\ \A i \in 1..Len(s) : SubSeq(Append(s, e), 1, Len(s))[i] = Append(s, e)[i]
  BY <1>2, <1>3
<1>5. \A i \in 1..Len(s) : SubSeq(Append(s, e), 1, Len(s))[i] = s[i]
  BY <1>3, <1>4
<1> QED BY <1>2, <1>3, <1>4, <1>5, SeqEqual

(* The elements of a concatenation, from either side. *)
LEMMA CatSeq ==
    ASSUME NEW s, IsSeq(s), NEW t, IsSeq(t)
    PROVE  /\ IsSeq(s \o t)
           /\ \A i \in DOMAIN (s \o t) :
                \/ i \in DOMAIN s /\ (s \o t)[i] = s[i]
                \/ i \notin DOMAIN s /\ i - Len(s) \in DOMAIN t /\ (s \o t)[i] = t[i - Len(s)]
           /\ \A i \in DOMAIN s : i \in DOMAIN (s \o t) /\ (s \o t)[i] = s[i]
           /\ \A i \in DOMAIN t : Len(s) + i \in DOMAIN (s \o t) /\ (s \o t)[Len(s) + i] = t[i]
<1> DEFINE U == Range(s) \cup Range(t)
<1>1. s \in Seq(U) /\ t \in Seq(U) BY SeqMonotonic DEF IsSeq
<1> HIDE DEF U
<1>2. s \o t \in Seq(U) /\ Len(s \o t) = Len(s) + Len(t)
      /\ \A i \in 1..Len(s) + Len(t) : (s \o t)[i] = IF i <= Len(s) THEN s[i] ELSE t[i - Len(s)]
  BY <1>1, ConcatProperties
<1>3. IsSeq(s \o t) /\ DOMAIN (s \o t) = 1..Len(s \o t) BY <1>2, SeqOf
<1>4. Len(s) \in Nat /\ DOMAIN s = 1..Len(s) /\ Len(t) \in Nat /\ DOMAIN t = 1..Len(t)
  BY <1>1, LenProperties
<1> HIDE <1>1
<1>5. DOMAIN (s \o t) = 1..(Len(s) + Len(t)) BY <1>2, <1>3
<1>6. ASSUME NEW cat, NEW D, D = 1..(Len(s) + Len(t)),
             \A i \in 1..Len(s) + Len(t) : cat[i] = IF i <= Len(s) THEN s[i] ELSE t[i - Len(s)]
      PROVE  /\ \A i \in D :
                   \/ i \in DOMAIN s /\ cat[i] = s[i]
                   \/ i \notin DOMAIN s /\ i - Len(s) \in DOMAIN t /\ cat[i] = t[i - Len(s)]
             /\ \A i \in DOMAIN s : i \in D /\ cat[i] = s[i]
             /\ \A i \in DOMAIN t : Len(s) + i \in D /\ cat[Len(s) + i] = t[i]
  BY <1>4, <1>6
<1> QED BY <1>2, <1>3, <1>5, <1>6

(* A new first element. *)
LEMMA HeadSeq ==
    ASSUME NEW s, IsSeq(s), s # <<>>, NEW e
    PROVE  /\ IsSeq([s EXCEPT ![1] = e]) /\ DOMAIN [s EXCEPT ![1] = e] = DOMAIN s
           /\ [s EXCEPT ![1] = e][1] = e
           /\ \A i \in DOMAIN s : i # 1 => [s EXCEPT ![1] = e][i] = s[i]
<1>1. s \in Seq(Range(s) \cup {e}) BY SeqMonotonic DEF IsSeq
<1>2. 1 \in 1..Len(s) /\ DOMAIN s = 1..Len(s) BY SeqDomain
<1>3. [s EXCEPT ![1] = e] \in Seq(Range(s) \cup {e}) BY <1>1, <1>2, ExceptSeq
<1>4. IsSeq([s EXCEPT ![1] = e]) BY <1>3, SeqOf
<1> QED BY <1>2, <1>4

-----------------------------------------------------------------------------
(* The files.                                                              *)

(* Every file is as it was, or empty. *)
Shrunk == \A f \in DOMAIN disk' : disk'[f] = <<>> \/ (f \in DOMAIN disk /\ disk'[f] = disk[f])

(* Only writing an event adds to a file. *)
LEMMA OnlyFlushWrites == Next => Shrunk \/ Flush
<1>1. UNCHANGED disk => Shrunk
  BY DEF Shrunk
<1>2. \A names : disk' = Without(disk, names) => Shrunk
  BY DEF Shrunk, Without, Restrict
<1>3. \A names, append : disk' = Opened(names, append) => Shrunk
  BY DEF Shrunk, Opened
<1>4. Commands => Shrunk
  BY <1>1, <1>2 DEF Commands, Start, Stop, Unconfigure, writing
<1>5. Stopping \/ Runner => Shrunk
  BY <1>1 DEF Stopping, Runner, StopWriters, KeepWriteState, ClearContexts, RunnerStarts,
              RunnerReturns, writing
<1>6. ProducerReceives \/ ProducerRuns \/ Crash => Shrunk
  BY <1>1 DEF ProducerReceives, ProducerRuns, ProducerEnds, ProducerTests, ProducerWrites,
              ProducerGivesUp, Crash, writing
<1>7. FlusherRuns => Shrunk \/ Flush
  BY <1>1, <1>2, <1>3 DEF FlusherRuns, FlusherTests, FlusherFindsEvent, FlusherStops,
              FlusherSkips, FlusherTakes, Generate, OpenStreams
<1>8. OpenStreamsFails => Shrunk
  BY <1>3 DEF OpenStreamsFails
<1> QED BY <1>4, <1>5, <1>6, <1>7, <1>8 DEF Next

(* What holds of all files still holds when some of them are emptied. *)
LEMMA ShrunkFiles ==
    ASSUME Typed, OneRunPerFile, EachEventOnce, Shrunk
    PROVE  /\ \A f \in DOMAIN disk' : IsSeq(disk'[f])
           /\ OneRunPerFile' /\ EachEventOnce' /\ OnDisk' \subseteq OnDisk
           /\ \A f \in DOMAIN disk' : Len(disk'[f]) = 0 \/ (f \in DOMAIN disk /\ disk'[f] = disk[f])
<1>1. \A f \in DOMAIN disk' : \A i \in DOMAIN disk'[f] : f \in DOMAIN disk /\ disk'[f] = disk[f]
  BY NoneSeq DEF Shrunk
<1>2. \A f \in DOMAIN disk' : IsSeq(disk'[f])
  BY NoneSeq DEF Shrunk, Typed
<1>3. OneRunPerFile'
  BY <1>1 DEF OneRunPerFile
<1>4. \A f \in DOMAIN disk' : \A e \in EventsIn(f)' : f \in DOMAIN disk /\ e \in EventsIn(f)
  BY <1>1 DEF EventsIn
<1>5. EachEventOnce'
  BY <1>4 DEF EachEventOnce
<1>6. OnDisk' \subseteq OnDisk
  BY <1>4 DEF OnDisk
<1>7. \A f \in DOMAIN disk' : Len(disk'[f]) = 0 \/ (f \in DOMAIN disk /\ disk'[f] = disk[f])
  BY NoneSeq DEF Shrunk
<1> QED BY <1>2, <1>3, <1>5, <1>6, <1>7

(* What writing an event does to a file. *)
LEMMA FlushedFile ==
    ASSUME Typed, queue # <<>>, Flush, NEW f \in DOMAIN disk
    PROVE  /\ f \notin Range(streams) => disk'[f] = disk[f]
           /\ f \in Range(streams) =>
                /\ Len(disk'[f]) = Len(disk[f]) + 1
                /\ DOMAIN disk'[f] = DOMAIN disk[f] \cup {Len(disk[f]) + 1}
                /\ disk'[f][Len(disk[f]) + 1].ev = queue[1].ev
                /\ disk'[f][Len(disk[f]) + 1].run = state.run_number
                /\ \A i \in DOMAIN disk[f] : i < Len(disk[f]) + 1 /\ disk'[f][i] = disk[f][i]
           /\ IsSeq(disk'[f])
<1>1. IsSeq(disk[f]) /\ IsSeq(queue) BY DEF Typed
<1>2. Head(queue) = queue[1] BY <1>1, TailSeq
<1>3. CASE f \notin Range(streams)
  <2>1. disk'[f] = disk[f] BY <1>3 DEF Flush, Written
  <2> QED BY <1>1, <1>3, <2>1
<1>4. CASE f \in Range(streams)
  <2>1. PICK i : disk'[f] = Append(disk[f],
            [ev |-> queue[1].ev, run |-> state.run_number, chs |-> Share(i, queue[1].chs)])
    BY <1>2, <1>4 DEF Flush, Written
  <2> DEFINE x == [ev |-> queue[1].ev, run |-> state.run_number, chs |-> Share(i, queue[1].chs)]
  <2>2. x.ev = queue[1].ev /\ x.run = state.run_number OBVIOUS
  <2>3. disk'[f] = Append(disk[f], x) BY <2>1
  <2> HIDE DEF x
  <2>4. /\ IsSeq(Append(disk[f], x)) /\ Len(Append(disk[f], x)) = Len(disk[f]) + 1
        /\ Append(disk[f], x)[Len(disk[f]) + 1] = x
        /\ DOMAIN Append(disk[f], x) = DOMAIN disk[f] \cup {Len(disk[f]) + 1}
        /\ \A j \in DOMAIN disk[f] : j < Len(disk[f]) + 1 /\ Append(disk[f], x)[j] = disk[f][j]
    BY <1>1, AppendSeq
  <2> QED BY <1>4, <2>2, <2>3, <2>4
<1> QED BY <1>3, <1>4

(* The event at the head of the queue is the oldest that is not on disk. *)
LEMMA FlushOrder ==
    ASSUME Typed, ControlInv, OrderInv, Flush
    PROVE  /\ queue # <<>> /\ 1 \in DOMAIN queue /\ queue[1].ev \in 1..(nextEv - 1)
           /\ \A e \in OnDisk : e \in Nat /\ e < queue[1].ev
           /\ DOMAIN disk' = DOMAIN disk /\ streams = state.filenames
<1>1. queue # <<>> /\ streams = state.filenames
  BY DEF Flush, ControlInv, PhaseInv, FlusherInv, AtWork
<1>2. 1 \in DOMAIN queue BY <1>1, SeqDomain DEF Typed
<1>3. \A e \in OnDisk : e \in Nat /\ e < queue[1].ev
  BY <1>2 DEF OrderInv
<1>4. queue[1].ev \in 1..(nextEv - 1)
  BY <1>2 DEF OrderInv
<1>5. DOMAIN disk' = DOMAIN disk
  BY DEF Flush, Written
<1> QED BY <1>1, <1>2, <1>3, <1>4, <1>5

(* Writing an event keeps runs and events apart. *)
LEMMA FlushFiles ==
    ASSUME Typed, ControlInv, OrderInv, NamesInv, OneRunPerFile, EachEventOnce, Flush
    PROVE  /\ \A f \in DOMAIN disk' : IsSeq(disk'[f])
           /\ OneRunPerFile' /\ EachEventOnce' /\ OnDisk' \subseteq OnDisk \cup {queue[1].ev}
<1> DEFINE e == queue[1].ev
<1>0. /\ queue # <<>> /\ e \in Nat /\ \A x \in OnDisk : x \in Nat /\ x < e
      /\ DOMAIN disk' = DOMAIN disk /\ streams = state.filenames
  BY FlushOrder DEF Typed
<1>1. /\ \A f, g \in Range(streams) : f # g => f.ch # g.ch
      /\ \A f \in Range(streams) : \A i \in DOMAIN disk[f] : disk[f][i].run = state.run_number
  <2>1. Adopted BY DEF Flush, Adopted, ControlInv, PhaseInv, FlusherInv
  <2> QED BY <1>0, <2>1 DEF NamesInv
<1> HIDE DEF e
<1>2. ASSUME NEW f \in DOMAIN disk
      PROVE  /\ f \notin Range(streams) => disk'[f] = disk[f]
             /\ f \in Range(streams) =>
                  /\ DOMAIN disk'[f] = DOMAIN disk[f] \cup {Len(disk[f]) + 1}
                  /\ disk'[f][Len(disk[f]) + 1].ev = e
                  /\ disk'[f][Len(disk[f]) + 1].run = state.run_number
                  /\ \A i \in DOMAIN disk[f] : i < Len(disk[f]) + 1 /\ disk'[f][i] = disk[f][i]
             /\ IsSeq(disk'[f])
             /\ Len(disk[f]) \in Nat /\ DOMAIN disk[f] \subseteq Nat
  BY <1>0, <1>2, FlushedFile, SeqDomain DEF e, Typed
<1>3. \A f \in DOMAIN disk : \A i \in DOMAIN disk[f] : disk[f][i].ev \in OnDisk
  BY DEF OnDisk, EventsIn
<1>4. OneRunPerFile'
  <2> SUFFICES ASSUME NEW f \in DOMAIN disk, NEW i \in DOMAIN disk'[f], NEW j \in DOMAIN disk'[f]
               PROVE  /\ disk'[f][i].run = disk'[f][j].run
                      /\ i < j => disk'[f][i].ev < disk'[f][j].ev
    BY <1>0 DEF OneRunPerFile
  <2>1. CASE f \notin Range(streams)
    BY <2>1, <1>2 DEF OneRunPerFile
  <2>2. CASE f \in Range(streams)
    <3>1. \A k \in DOMAIN disk'[f] :
            \/ k \in DOMAIN disk[f] /\ disk'[f][k] = disk[f][k] /\ k < Len(disk[f]) + 1
               /\ disk[f][k].run = state.run_number /\ disk[f][k].ev < e
            \/ k = Len(disk[f]) + 1 /\ disk'[f][k].ev = e /\ disk'[f][k].run = state.run_number
      BY <1>0, <1>1, <1>2, <1>3, <2>2
    <3>2. \A k, l \in DOMAIN disk[f] : k < l => disk[f][k].ev < disk[f][l].ev
      BY DEF OneRunPerFile
    <3>3. DOMAIN disk[f] \subseteq Nat /\ Len(disk[f]) \in Nat BY <1>2
    <3>4. disk'[f][i].run = disk'[f][j].run BY <3>1
    <3>5. ASSUME i < j PROVE disk'[f][i].ev < disk'[f][j].ev
      <4>1. CASE j \in DOMAIN disk[f]
        BY <3>1, <3>2, <3>3, <3>5, <4>1
      <4>2. CASE j = Len(disk[f]) + 1 /\ j \notin DOMAIN disk[f]
        BY <3>1, <3>3, <3>5, <4>2
      <4> QED BY <3>1, <4>1, <4>2
    <3> QED BY <3>4, <3>5
  <2> QED BY <2>1, <2>2
<1>5. \A f \in DOMAIN disk' : \A x \in EventsIn(f)' :
        f \in DOMAIN disk /\ (x \in EventsIn(f) \/ (x = e /\ f \in Range(streams)))
  BY <1>0, <1>2 DEF EventsIn
<1>6. EachEventOnce'
  <2> SUFFICES ASSUME NEW f \in DOMAIN disk, NEW g \in DOMAIN disk, f # g, f.ch = g.ch,
                      NEW x \in EventsIn(f)' \cap EventsIn(g)' \cap 1..MaxEvents
               PROVE  FALSE
    BY <1>0 DEF EachEventOnce
  <2>1. \A h \in DOMAIN disk : e \notin EventsIn(h)
    BY <1>0, <1>3 DEF EventsIn
  <2>2. CASE x = e
    BY <1>0, <1>1, <1>5, <2>1, <2>2
  <2>3. CASE x # e
    BY <1>0, <1>5, <2>3 DEF EachEventOnce
  <2> QED BY <2>2, <2>3
<1>7. OnDisk' \subseteq OnDisk \cup {queue[1].ev}
  BY <1>5 DEF OnDisk, e
<1> QED BY <1>0, <1>2, <1>4, <1>6, <1>7

-----------------------------------------------------------------------------
(* Types.                                                                  *)

(* The names of a set of files. *)
LEMMA FileNamesType ==
    ASSUME Typed
    PROVE  FileNames \in Seq(Name) /\ DOMAIN FileNames = DOMAIN FileChannels
<1> DEFINE Ch == CaenChannels \cup {"", "head"}
<1>0. settings \in Settings /\ state \in WriteState BY WriterAssumption DEF Typed
<1>1. FileChannels \in Seq(Ch)
  <2>1. state.caen_channels \in Seq(Ch)
    <3>1. state.caen_channels \in Seq(CaenChannels) BY <1>0 DEF WriteState
    <3> QED BY <3>1, SeqMonotonic
  <2>2. <<"">> \in Seq(Ch) /\ <<"head", "">> \in Seq(Ch) /\ <<"head">> \in Seq(Ch) OBVIOUS
  <2>3. <<"head">> \o state.caen_channels \in Seq(Ch) BY <2>1, <2>2, ConcatProperties
  <2>4. settings.file_splitting \in Splittings BY <1>0 DEF Settings
  <2> HIDE DEF Ch
  <2> QED BY <2>1, <2>2, <2>3, <2>4 DEF FileChannels, Splittings
<1> DEFINE n == Len(FileChannels)
<1>2. n \in Nat /\ DOMAIN FileChannels = 1..n /\ \A i \in 1..n : FileChannels[i] \in Ch
  BY <1>1, LenProperties, ElementOfSeq
<1> HIDE DEF n
<1>3. state.run_number \in RunNumbers \cup {0} /\ state.filenum \in 0..(FilenumMod - 1)
      /\ 0 \in 0..(FilenumMod - 1)
  BY <1>0, WriterAssumption DEF WriteState
<1>4. DOMAIN FileNames = 1..n /\ FileNames = [i \in 1..n |-> FileNames[i]]
  BY <1>2 DEF FileNames
<1>5. ASSUME NEW i \in 1..n PROVE FileNames[i] \in Name
  <2>1. PICK a, b, c :
          /\ FileNames[i] = [run |-> a, filenum |-> b, ch |-> c]
          /\ a \in {state.run_number, 0} /\ b \in {state.filenum, 0} /\ c \in {FileChannels[i], ""}
    <3>1. FileNames[i] =
            [run |-> IF "run" \in settings.filename_pattern THEN state.run_number ELSE 0,
             filenum |-> IF "filenum" \in settings.filename_pattern THEN state.filenum ELSE 0,
             ch |-> IF "ch" \in settings.filename_pattern THEN FileChannels[i] ELSE ""]
      BY <1>2 DEF FileNames
    <3> QED BY <3>1
  <2>2. a \in RunNumbers \cup {0} /\ b \in 0..(FilenumMod - 1) /\ c \in Ch
    BY <1>2, <1>3, <2>1
  <2>3. [run |-> a, filenum |-> b, ch |-> c] \in Name
    BY <2>2 DEF Name
  <2> QED BY <2>1, <2>3
<1>6. FileNames \in [1..n -> Name]
  BY <1>4, <1>5
<1> QED BY <1>2, <1>4, <1>6, SeqMade

(* The write states that the operations make up. *)
LEMMA WriteStates ==
    ASSUME NEW st \in WriteState
    PROVE  /\ FinishRun(st) \in WriteState
           /\ \A r \in RunNumbers : NewRun(st, r) \in WriteState
           /\ \A ec \in ErrorCodes : [st EXCEPT !.error_code = ec, !.filenames = <<>>] \in WriteState
           /\ \A l \in ChannelLists : [st EXCEPT !.caen_channels = l] \in WriteState
<1>1. 0 \in 0..(FilenumMod - 1) BY WriterAssumption
<1>2. <<>> \in Seq(Name) /\ <<>> \in Seq(CaenChannels) OBVIOUS
<1>3. FinishRun(st) \in WriteState
  BY <1>1, <1>2 DEF FinishRun, WriteState
<1>4. ASSUME NEW r \in RunNumbers PROVE NewRun(st, r) \in WriteState
  <2>1. ASSUME NEW x \in WriteState
        PROVE  [x EXCEPT !.error_code = IF @ = "MaxTotalEventsReached" THEN @ ELSE "None"]
                  \in WriteState
    BY <2>1 DEF WriteState, ErrorCodes
  <2>2. [FinishRun(st) EXCEPT !.run_number = r] \in WriteState
    BY <1>3 DEF WriteState
  <2> QED BY <2>1, <2>2 DEF NewRun
<1>5. \A ec \in ErrorCodes : [st EXCEPT !.error_code = ec, !.filenames = <<>>] \in WriteState
  BY <1>2 DEF WriteState
<1>6. \A l \in ChannelLists : [st EXCEPT !.caen_channels = l] \in WriteState
  BY WriterAssumption DEF WriteState
<1> QED BY <1>3, <1>4, <1>5, <1>6

(* The write state of the flusher keeps its type. *)
LEMMA FlusherState ==
    ASSUME Typed, ControlInv, RawInv,
           FlusherStops \/ FlusherTakes \/ Generate \/ OpenStreamsFails \/ Flush
    PROVE  state' \in WriteState
<1>0. settings \in Settings /\ state \in WriteState BY WriterAssumption DEF Typed
<1>e. <<>> \in Seq(Name) OBVIOUS
<1>1. CASE FlusherStops
  <2>1. settings.when_stopped_writing \in StopBehaviors BY <1>0 DEF Settings
  <2>2. /\ state.filenum \in 0..(FilenumMod - 1) /\ FilenumMod \in Nat \ {0}
        /\ (state.filenum + 1) % FilenumMod \in 0..(FilenumMod - 1)
        /\ state.filenum > 0 => state.filenum - 1 \in 0..(FilenumMod - 1)
    BY <1>0, WriterAssumption DEF WriteState
  <2>3. \A k \in 0..(FilenumMod - 1) :
          [state EXCEPT !.filenames = <<>>, !.filenum = k] \in WriteState
    BY <1>0, <1>e DEF WriteState
  <2>4. StoppedState \in WriteState
    BY <1>0, <2>1, <2>2, <2>3 DEF StoppedState, StopBehaviors
  <2> QED BY <1>1, <2>4 DEF FlusherStops
<1>2. CASE FlusherTakes
  <2>1. queue # <<>> /\ flusher = "take" BY <1>2 DEF FlusherTakes, ControlInv, PhaseInv, FlusherInv, AtWork
  <2>2. Head(queue) = queue[1] /\ 1 \in DOMAIN queue BY <2>1, TailSeq, SeqDomain DEF Typed
  <2>3. Head(queue).chs \in ChannelLists BY <2>1, <2>2 DEF RawInv
  <2> QED BY <1>0, <1>2, <2>3, WriteStates DEF FlusherTakes
<1>3. CASE Generate
  <2> DEFINE numbered == [state EXCEPT !.filenum = (@ + 1) % FilenumMod]
  <2>1. numbered \in WriteState
    <3>1. (state.filenum + 1) % FilenumMod \in 0..(FilenumMod - 1)
      BY <1>0, WriterAssumption DEF WriteState
    <3> QED BY <1>0, <3>1 DEF WriteState
  <2>2. NameConflict(FileNames) \in ErrorCodes BY DEF NameConflict, ErrorCodes
  <2>3. FileNames \in Seq(Name) BY FileNamesType
  <2>4. \/ state' = [numbered EXCEPT !.error_code = "None", !.filenames = FileNames]
        \/ state' = [numbered EXCEPT !.error_code = NameConflict(FileNames), !.filenames = <<>>]
        \/ state' = [numbered EXCEPT !.error_code = NameConflict(FileNames)]
        \/ state' = [numbered EXCEPT !.error_code = "FilenamesNotChanged", !.filenames = <<>>]
    BY <1>3 DEF Generate
  <2> HIDE DEF numbered
  <2>5. ASSUME NEW ec \in ErrorCodes, NEW fs \in Seq(Name)
        PROVE  /\ [numbered EXCEPT !.error_code = ec, !.filenames = fs] \in WriteState
               /\ [numbered EXCEPT !.error_code = ec] \in WriteState
    BY <2>1 DEF WriteState
  <2>6. "None" \in ErrorCodes /\ "FilenamesNotChanged" \in ErrorCodes BY DEF ErrorCodes
  <2> QED BY <1>e, <2>2, <2>3, <2>4, <2>5, <2>6
<1>4. CASE OpenStreamsFails
  BY <1>0, <1>4, WriteStates DEF OpenStreamsFails, ErrorCodes
<1>5. CASE Flush
  <2>1. ASSUME NEW n \in Nat, NEW t \in Nat, NEW fs \in Seq(Name), NEW ec \in ErrorCodes
        PROVE  [state EXCEPT !.num_events_written = n, !.num_total_events_written = t,
                             !.filenames = fs, !.error_code = ec] \in WriteState
    BY <1>0 DEF WriteState
  <2>2. /\ state.num_events_written + 1 \in Nat /\ state.num_total_events_written + 1 \in Nat
        /\ state.filenames \in Seq(Name) /\ state.error_code \in ErrorCodes
        /\ "MaxTotalEventsReached" \in ErrorCodes /\ 0 \in Nat
    BY <1>0 DEF WriteState, ErrorCodes
  <2>3. Counted \in WriteState
    BY <1>e, <2>1, <2>2 DEF Counted
  <2> QED BY <1>5, <2>3 DEF Flush
<1> QED BY <1>1, <1>2, <1>3, <1>4, <1>5

-----------------------------------------------------------------------------
(* The producer, and the steps that only move threads along.               *)

(* Steps that leave the files and the flusher alone. *)
Outside ==
    \/ Stop \/ StopWriters \/ KeepWriteState \/ Runner
    \/ ProducerReceives \/ ProducerRuns \/ Crash

(* They keep the types and the control state. *)
LEMMA OutsideControl ==
    ASSUME Typed, ControlInv, Outside
    PROVE  Typed' /\ ControlInv' /\ UNCHANGED <<settings, writing>>
<1> USE DEF Outside, Runner, ProducerRuns, Stop, StopWriters, KeepWriteState, RunnerStarts,
            RunnerReturns, ProducerReceives, ProducerEnds, ProducerTests, ProducerWrites,
            ProducerGivesUp, Crash, commands, producing, writing
<1>1. UNCHANGED <<settings, disk, flusher, state, streams, continuing>>
  OBVIOUS
<1>2. saved' \in {saved, state} /\ nextEv' \in 1..(MaxEvents + 1)
  BY WriterAssumption DEF Typed
<1>3. queue' = queue \/ queue' = queue \o held
  OBVIOUS
<1>4. IsSeq(queue') /\ (\A i \in DOMAIN queue' : DOMAIN queue'[i] = {"ev", "chs"})
      /\ (queue # <<>> => queue' # <<>>)
  <2>0. IsSeq(queue) /\ IsSeq(held) BY DEF Typed
  <2>1. CASE queue' = queue
    BY <2>1 DEF Typed
  <2>2. CASE queue' = queue \o held
    <3>1. IsSeq(queue') BY <2>0, <2>2, CatSeq
    <3>2. \A i \in DOMAIN queue' : \/ i \in DOMAIN queue /\ queue'[i] = queue[i]
                                   \/ i - Len(queue) \in DOMAIN held /\ queue'[i] = held[i - Len(queue)]
      BY <2>0, <2>2, CatSeq
    <3>3. \A i \in DOMAIN queue : i \in DOMAIN queue' BY <2>0, <2>2, CatSeq
    <3>4. queue # <<>> => queue' # <<>>
      BY <2>0, <3>3, SeqDomain, NoneSeq
    <3> QED BY <3>1, <3>2, <3>4 DEF Typed
  <2> QED BY <1>3, <2>1, <2>2
<1>5. IsSeq(held') /\ (\A i \in DOMAIN held' : DOMAIN held'[i] = {"ev", "chs"})
  <2>1. held' = held \/ held' = <<>> \/ \E l : held' = <<[ev |-> nextEv, chs |-> l]>>
    OBVIOUS
  <2>2. \A l : DOMAIN [ev |-> nextEv, chs |-> l] = {"ev", "chs"} OBVIOUS
  <2> QED BY <2>1, <2>2, NoneSeq, OneSeq DEF Typed
<1>6. Typed'
  BY <1>1, <1>2, <1>4, <1>5 DEF Typed
<1>7. ControlInv'
  <2>1. /\ phase' \in {"idle", "clearing"} => saved' = state'
        /\ phase' \in {"idle", "unconfigured"} => flusher' = "none"
        /\ phase' = "clearing" => flusher' = "returned"
        /\ mrun' => phase' \in {"running", "crashed"} /\ ~stopWriters'
    BY DEF ControlInv, PhaseInv, FlusherInv
  <2>2. AtWork' => queue' # <<>>
    BY <1>1, <1>4 DEF ControlInv, PhaseInv, FlusherInv, AtWork
  <2> QED BY <1>1, <2>1, <2>2 DEF ControlInv, PhaseInv, FlusherInv
<1> QED BY <1>1, <1>6, <1>7

(* Only what has been received is on its way. *)
LEMMA OutsideOrder ==
    ASSUME Typed, OrderInv, RawInv, Outside, UNCHANGED writing
    PROVE  OrderInv' /\ RawInv'
<1>0. /\ nextEv \in Nat /\ IsSeq(queue) /\ IsSeq(held) /\ Len(queue) \in Nat /\ Len(held) \in Nat
      /\ DOMAIN queue = 1..Len(queue) /\ DOMAIN held = 1..Len(held)
  BY SeqDomain DEF Typed
<1>n. nextEv \in Nat \ {0} BY DEF Typed
<1>1. OnDisk' = OnDisk /\ flusher' = flusher
  BY DEF OnDisk, EventsIn, writing
<1>2. CASE queue' = queue /\ held' = held /\ nextEv' = nextEv /\ got' = got
  BY <1>1, <1>2 DEF OrderInv, RawInv
<1>3. CASE queue' = queue /\ held' = <<>> /\ nextEv' = nextEv /\ got' = got
  <2>1. DOMAIN held' = {} /\ Len(held') = 0 BY <1>3, NoneSeq
  <2> QED BY <1>1, <1>3, <2>1 DEF OrderInv, RawInv
<1>4. CASE ProducerReceives
  <2>1. PICK l \in ChannelLists :
          /\ held' = <<[ev |-> nextEv, chs |-> l]>>
          /\ got' = IF l = <<>> THEN got ELSE got \cup {nextEv}
    BY <1>4 DEF ProducerReceives
  <2>2. queue' = queue /\ nextEv' = nextEv + 1
    BY <1>4 DEF ProducerReceives
  <2> DEFINE x == [ev |-> nextEv, chs |-> l]
  <2>3. x.ev = nextEv /\ x.chs = l OBVIOUS
  <2>4. held' = <<x>> BY <2>1
  <2> HIDE DEF x
  <2>5. DOMAIN held' = {1} /\ Len(held') = 1 /\ held'[1] = x BY <2>4, OneSeq
  <2>6. OrderInv'
    <3>1. /\ \A i \in DOMAIN queue : queue[i].ev \in 1..(nextEv' - 1) /\ queue[i].ev < nextEv
          /\ nextEv \in 1..(nextEv' - 1)
          /\ \A e \in OnDisk : e \in 0..(nextEv' - 1) /\ e < nextEv
      BY <1>n, <2>2 DEF OrderInv
    <3>2. got' \subseteq 1..(nextEv' - 1)
      BY <1>n, <2>1, <2>2 DEF OrderInv
    <3>3. \A i \in DOMAIN held' : held'[i].ev = nextEv BY <2>3, <2>5
    <3> QED BY <1>1, <2>2, <2>5, <3>1, <3>2, <3>3 DEF OrderInv
  <2>7. \A i \in DOMAIN queue : queue[i].ev # nextEv
    BY <1>n DEF OrderInv
  <2>8. l = <<>> => nextEv \notin got'
    BY <1>n, <2>1 DEF OrderInv
  <2>9. RawInv'
    BY <1>1, <2>1, <2>2, <2>3, <2>5, <2>7, <2>8 DEF RawInv
  <2> QED BY <2>6, <2>9
<1>5. CASE ProducerWrites
  <2>1. queue' = queue \o held /\ held' = <<>> /\ nextEv' = nextEv /\ got' = got
    BY <1>5 DEF ProducerWrites
  <2>2. DOMAIN held' = {} /\ Len(held') = 0 BY <2>1, NoneSeq
  <2>3. /\ IsSeq(queue')
        /\ \A i \in DOMAIN queue' :
              \/ i \in DOMAIN queue /\ queue'[i] = queue[i]
              \/ i \notin DOMAIN queue /\ i - Len(queue) \in DOMAIN held
                 /\ queue'[i] = held[i - Len(queue)]
    <3>1. /\ IsSeq(queue \o held)
          /\ \A i \in DOMAIN (queue \o held) :
                \/ i \in DOMAIN queue /\ (queue \o held)[i] = queue[i]
                \/ i \notin DOMAIN queue /\ i - Len(queue) \in DOMAIN held
                   /\ (queue \o held)[i] = held[i - Len(queue)]
      BY <1>0, CatSeq
    <3> QED BY <2>1, <3>1
  <2>4. /\ DOMAIN queue' = 1..Len(queue') /\ Len(queue') \in Nat
        /\ Len(held) <= 1
    BY <2>3, SeqDomain DEF OrderInv
  <2>5. \A i \in DOMAIN queue' :
          \/ i \in DOMAIN queue /\ queue'[i] = queue[i]
          \/ i = Len(queue) + 1 /\ 1 \in DOMAIN held /\ queue'[i] = held[1]
    BY <1>0, <2>3, <2>4
  <2>6. /\ \A i \in DOMAIN queue' : queue'[i].ev \in 1..(nextEv - 1)
        /\ \A i, j \in DOMAIN queue' : i < j => queue'[i].ev < queue'[j].ev
        /\ \A e \in OnDisk : \A j \in DOMAIN queue' : e < queue'[j].ev
    BY <1>0, <2>4, <2>5 DEF OrderInv
  <2>7. OrderInv'
    BY <1>1, <2>1, <2>2, <2>6 DEF OrderInv
  <2>8. RawInv'
    <3>1. ASSUME NEW i \in DOMAIN queue', i > 1 \/ flusher \notin {"generate", "open", "write"}
          PROVE  queue'[i].chs \in ChannelLists /\ (queue'[i].ev \in got => queue'[i].chs # <<>>)
      BY <2>5, <3>1 DEF RawInv
    <3> QED BY <1>1, <2>1, <2>2, <3>1 DEF RawInv
  <2> QED BY <2>7, <2>8
<1> QED BY <1>2, <1>3, <1>4, <1>5
     DEF Outside, Runner, ProducerRuns, Stop, StopWriters, KeepWriteState, RunnerStarts,
         RunnerReturns, ProducerEnds, ProducerTests, ProducerGivesUp, Crash, producing

(* The steps outside the flusher preserve the invariant. *)
LEMMA OutsideStep ==
    ASSUME IInv, Outside
    PROVE  IInv'
<1>1. Typed' /\ ControlInv' /\ UNCHANGED <<settings, writing>>
  BY OutsideControl DEF IInv
<1>2. OrderInv' /\ RawInv'
  BY <1>1, OutsideOrder DEF IInv
<1>3. OnDisk' = OnDisk
  BY <1>1 DEF OnDisk, EventsIn, writing
<1>4. OneRunPerFile' /\ EachEventOnce'
  BY <1>1 DEF IInv, OneRunPerFile, EachEventOnce, EventsIn, writing
<1>5. phase = "unconfigured" => phase' = "unconfigured"
  BY DEF IInv, ControlInv, PhaseInv, FlusherInv, Outside, Runner, ProducerRuns, Stop, StopWriters, KeepWriteState,
         RunnerStarts, RunnerReturns, ProducerReceives, ProducerEnds, ProducerTests,
         ProducerWrites, ProducerGivesUp, Crash, commands
<1>6. NamesInv'
  BY <1>1, <1>5 DEF IInv, NamesInv, Adopted, Aligned, writing
<1>7. CountInv'
  BY <1>1, <1>3 DEF IInv, CountInv, writing
<1> QED BY <1>1, <1>2, <1>4, <1>6, <1>7 DEF IInv

-----------------------------------------------------------------------------
(* The flusher.                                                            *)

FlusherSteps == FlusherRuns \/ OpenStreamsFails

(* The flusher takes nothing but the first event from the queue. *)
LEMMA FlusherQueue ==
    ASSUME Typed, ControlInv, RawInv, FlusherSteps
    PROVE  /\ UNCHANGED <<settings, commands, producing>>
           /\ IsSeq(queue') /\ \A i \in DOMAIN queue' : DOMAIN queue'[i] = {"ev", "chs"}
           /\ \/ queue' = queue
              \/ /\ DOMAIN queue' = DOMAIN queue
                 /\ \A i \in DOMAIN queue : queue'[i].ev = queue[i].ev
                 /\ \A i \in DOMAIN queue : i # 1 => queue'[i] = queue[i]
                 /\ FlusherTakes
              \/ /\ queue # <<>> /\ Skip /\ Len(queue') = Len(queue) - 1
                 /\ \A i \in DOMAIN queue' : i + 1 \in DOMAIN queue /\ queue'[i] = queue[i + 1]
<1> USE DEF FlusherSteps, FlusherRuns
<1>0. IsSeq(queue) /\ \A i \in DOMAIN queue : DOMAIN queue[i] = {"ev", "chs"}
  BY DEF Typed
<1>1. UNCHANGED <<settings, commands, producing>>
  BY DEF FlusherTests, FlusherFindsEvent, FlusherStops, FlusherSkips, FlusherTakes, Generate,
         OpenStreams, Flush, OpenStreamsFails
<1>2. CASE UNCHANGED queue
  BY <1>0, <1>1, <1>2
<1>3. CASE Skip /\ queue # <<>>
  <2>1. queue' = Tail(queue) BY <1>3 DEF Skip
  <2>2. /\ IsSeq(Tail(queue)) /\ Len(Tail(queue)) = Len(queue) - 1
        /\ \A i \in DOMAIN Tail(queue) : i + 1 \in DOMAIN queue /\ Tail(queue)[i] = queue[i + 1]
    BY <1>0, <1>3, TailSeq
  <2>3. /\ IsSeq(queue') /\ Len(queue') = Len(queue) - 1
        /\ \A i \in DOMAIN queue' : i + 1 \in DOMAIN queue /\ queue'[i] = queue[i + 1]
    BY <2>1, <2>2
  <2>4. \A i \in DOMAIN queue' : DOMAIN queue'[i] = {"ev", "chs"}
    BY <1>0, <2>3
  <2> QED BY <1>1, <1>3, <2>3, <2>4
<1>4. CASE FlusherTakes /\ ~UNCHANGED queue
  <2>1. queue # <<>> BY <1>4 DEF FlusherTakes, ControlInv, PhaseInv, FlusherInv, AtWork
  <2>2. PICK c : queue' = [queue EXCEPT ![1].chs = c]
    BY <1>4 DEF FlusherTakes
  <2> DEFINE x == [queue[1] EXCEPT !.chs = c]
  <2>3. 1 \in DOMAIN queue BY <1>0, <2>1, SeqDomain
  <2>4. x.ev = queue[1].ev /\ DOMAIN x = {"ev", "chs"} BY <1>0, <2>3
  <2>5. queue' = [queue EXCEPT ![1] = x] BY <2>2
  <2> HIDE DEF x
  <2>6. /\ IsSeq([queue EXCEPT ![1] = x]) /\ DOMAIN [queue EXCEPT ![1] = x] = DOMAIN queue
        /\ [queue EXCEPT ![1] = x][1] = x
        /\ \A i \in DOMAIN queue : i # 1 => [queue EXCEPT ![1] = x][i] = queue[i]
    BY <1>0, <2>1, HeadSeq
  <2>7. /\ IsSeq(queue') /\ DOMAIN queue' = DOMAIN queue /\ queue'[1] = x
        /\ \A i \in DOMAIN queue : i # 1 => queue'[i] = queue[i]
    BY <2>5, <2>6
  <2>8. /\ \A i \in DOMAIN queue : queue'[i].ev = queue[i].ev
        /\ \A i \in DOMAIN queue : DOMAIN queue'[i] = {"ev", "chs"}
    BY <1>0, <2>4, <2>7
  <2> QED BY <1>1, <1>4, <2>7, <2>8
<1>5. AtWork => queue # <<>> BY DEF ControlInv, PhaseInv, FlusherInv
<1> QED BY <1>2, <1>3, <1>4, <1>5
     DEF FlusherTests, FlusherFindsEvent, FlusherStops, FlusherSkips, Generate,
         OpenStreams, Flush, OpenStreamsFails, AtWork

(* The flusher keeps the order of the events. *)
LEMMA FlusherOrder ==
    ASSUME IInv, FlusherSteps, OnDisk' \subseteq OnDisk \/ Flush
    PROVE  OrderInv' /\ RawInv'
<1>0. Typed /\ ControlInv /\ OrderInv /\ RawInv BY DEF IInv
<1>1. UNCHANGED <<held, nextEv, got>>
  BY <1>0, FlusherQueue DEF producing
<1>2. /\ IsSeq(queue) /\ DOMAIN queue = 1..Len(queue) /\ Len(queue) \in Nat /\ nextEv \in Nat
  BY <1>0, SeqDomain DEF Typed
<1>3. CASE queue' = queue
  <2>1. ~Flush
    <3>1. Flush => queue # <<>> BY <1>0, FlushOrder
    <3>2. queue # <<>> => Tail(queue) # queue BY <1>2, TailSeq
    <3> QED BY <1>3, <3>1, <3>2 DEF Flush, Skip
  <2>2. OrderInv' BY <1>0, <1>1, <1>3, <2>1 DEF OrderInv
  <2>3. flusher \in {"generate", "open", "write"} => flusher' \in {"generate", "open", "write"}
    <3>1. ~Skip
      <4>1. Skip => AtWork
        BY DEF FlusherSteps, FlusherRuns, FlusherTests, FlusherFindsEvent, FlusherStops,
               FlusherSkips, FlusherTakes, Generate, OpenStreams, Flush, OpenStreamsFails,
               AtWork, Skip, NextStep
      <4>2. AtWork => queue # <<>> BY <1>0 DEF ControlInv, PhaseInv, FlusherInv
      <4>3. queue # <<>> => Tail(queue) # queue BY <1>2, TailSeq
      <4> QED BY <1>3, <4>1, <4>2, <4>3 DEF Skip
    <3> QED BY <3>1 DEF FlusherSteps, FlusherRuns, FlusherTests, FlusherFindsEvent, FlusherStops,
               FlusherSkips, FlusherTakes, Generate, OpenStreams, Flush, OpenStreamsFails
  <2>4. RawInv' BY <1>0, <1>1, <1>3, <2>3 DEF RawInv
  <2> QED BY <2>2, <2>4
<1>4. CASE /\ DOMAIN queue' = DOMAIN queue
           /\ \A i \in DOMAIN queue : queue'[i].ev = queue[i].ev
           /\ \A i \in DOMAIN queue : i # 1 => queue'[i] = queue[i]
           /\ FlusherTakes
  <2>1. ~Flush BY <1>4 DEF FlusherTakes, Flush
  <2>2. OrderInv' BY <1>0, <1>1, <1>4, <2>1 DEF OrderInv
  <2>3. flusher' \in {"generate", "open", "write"} /\ flusher = "take"
    BY <1>4 DEF FlusherTakes, NextStep
  <2>4. RawInv' BY <1>0, <1>1, <1>4, <2>3 DEF RawInv
  <2> QED BY <2>2, <2>4
<1>5. CASE /\ queue # <<>> /\ Skip /\ Len(queue') = Len(queue) - 1
           /\ \A i \in DOMAIN queue' : i + 1 \in DOMAIN queue /\ queue'[i] = queue[i + 1]
  <2>0. 1 \in DOMAIN queue /\ IsSeq(queue') BY <1>0, <1>2, <1>5, SeqDomain, FlusherQueue
  <2>1. DOMAIN queue' \subseteq Nat \ {0} BY <2>0, SeqDomain
  <2>2. OnDisk' \subseteq OnDisk \cup {queue[1].ev}
    <3>1. Flush => OnDisk' \subseteq OnDisk \cup {queue[1].ev} BY FlushFiles DEF IInv
    <3> QED BY <3>1
  <2>3. \A e \in OnDisk' :
          /\ e \in 0..(nextEv - 1)
          /\ \A j \in DOMAIN queue' : e < queue'[j].ev
          /\ \A j \in DOMAIN held : e < held[j].ev
    <3> SUFFICES ASSUME NEW e \in OnDisk'
                 PROVE  /\ e \in 0..(nextEv - 1)
                        /\ \A j \in DOMAIN queue' : e < queue'[j].ev
                        /\ \A j \in DOMAIN held : e < held[j].ev
      OBVIOUS
    <3>1. CASE e \in OnDisk BY <1>0, <1>5, <3>1 DEF OrderInv
    <3>2. CASE e = queue[1].ev
      <4>1. e \in 0..(nextEv - 1) BY <1>0, <1>2, <2>0, <3>2 DEF OrderInv
      <4>2. \A j \in DOMAIN held : e < held[j].ev BY <1>0, <2>0, <3>2 DEF OrderInv
      <4>3. ASSUME NEW j \in DOMAIN queue' PROVE e < queue'[j].ev
        <5>1. j + 1 \in DOMAIN queue /\ queue'[j] = queue[j + 1] /\ 1 < j + 1
          BY <1>5, <2>1
        <5> QED BY <1>0, <2>0, <3>2, <5>1 DEF OrderInv
      <4> QED BY <4>1, <4>2, <4>3
    <3> QED BY <2>2, <3>1, <3>2
  <2>4. \A i, j \in DOMAIN queue' : i < j => queue'[i].ev < queue'[j].ev
    <3>1. ASSUME NEW i \in DOMAIN queue', NEW j \in DOMAIN queue', i < j
          PROVE  queue'[i].ev < queue'[j].ev
      <4>1. i + 1 < j + 1 BY <2>1, <3>1
      <4>2. /\ i + 1 \in DOMAIN queue /\ queue'[i] = queue[i + 1]
            /\ j + 1 \in DOMAIN queue /\ queue'[j] = queue[j + 1] BY <1>5
      <4> QED BY <1>0, <4>1, <4>2 DEF OrderInv
    <3> QED BY <3>1
  <2>5. OrderInv'
    BY <1>0, <1>1, <1>5, <2>3, <2>4 DEF OrderInv
  <2>6. RawInv'
    <3>1. \A i \in DOMAIN queue' : i + 1 \in DOMAIN queue /\ queue'[i] = queue[i + 1] /\ i + 1 > 1
      BY <1>5, <2>1
    <3> QED BY <1>0, <1>1, <3>1 DEF RawInv
  <2> QED BY <2>5, <2>6
<1> QED BY <1>0, <1>3, <1>4, <1>5, FlusherQueue

(* The types, and where the flusher is. *)
LEMMA FlusherControl ==
    ASSUME IInv, FlusherSteps, \A f \in DOMAIN disk' : IsSeq(disk'[f])
    PROVE  Typed' /\ ControlInv'
<1>0. Typed /\ ControlInv /\ RawInv BY DEF IInv
<1>1. /\ UNCHANGED <<settings, commands, producing>>
      /\ IsSeq(queue') /\ \A i \in DOMAIN queue' : DOMAIN queue'[i] = {"ev", "chs"}
  BY <1>0, FlusherQueue
<1>2. state' \in WriteState
  <2>1. CASE UNCHANGED state BY <1>0, <2>1 DEF Typed
  <2>2. CASE FlusherStops \/ FlusherTakes \/ Generate \/ OpenStreamsFails \/ Flush
    BY <1>0, <2>2, FlusherState
  <2> QED BY <2>1, <2>2 DEF FlusherSteps, FlusherRuns, FlusherTests, FlusherFindsEvent,
                            FlusherSkips, OpenStreams
<1>3. streams' \in Seq(Name)
  <2>1. state.filenames \in Seq(Name) BY <1>0 DEF Typed, WriteState
  <2>2. <<>> \in Seq(Name) OBVIOUS
  <2>3. streams' \in {<<>>, streams, state.filenames}
    BY DEF FlusherSteps, FlusherRuns, FlusherTests, FlusherFindsEvent, FlusherStops,
           FlusherSkips, FlusherTakes, Generate, OpenStreams, Flush, OpenStreamsFails
  <2> QED BY <1>0, <2>1, <2>2, <2>3 DEF Typed
<1>4. Typed'
  BY <1>0, <1>1, <1>2, <1>3 DEF Typed, commands, producing
<1>5. phase \notin {"idle", "clearing", "unconfigured"} /\ phase' = phase
      /\ mrun' = mrun /\ stopWriters' = stopWriters
  BY <1>0, <1>1 DEF FlusherSteps, FlusherRuns, FlusherTests, FlusherFindsEvent, FlusherStops,
         FlusherSkips, FlusherTakes, Generate, OpenStreams, Flush, OpenStreamsFails,
         ControlInv, PhaseInv, commands
<1>6. state \in WriteState BY <1>0 DEF Typed
<1>p. PhaseInv'
  BY <1>0, <1>5 DEF ControlInv, PhaseInv
<1>f. FlusherInv
  BY <1>0 DEF ControlInv
<1>7. CASE FlusherTests \/ FlusherFindsEvent \/ FlusherSkips
  <2>1. FlusherInv'
    BY <1>f, <1>7 DEF FlusherInv, FlusherTests, FlusherFindsEvent, FlusherSkips, Skip, AtWork
  <2> QED BY <1>4, <1>p, <2>1 DEF ControlInv
<1>8. CASE FlusherStops
  <2>1. FlusherInv'
    BY <1>f, <1>8 DEF FlusherInv, FlusherStops, AtWork
  <2> QED BY <1>4, <1>p, <2>1 DEF ControlInv
<1>9. CASE FlusherTakes
  <2>1. queue' # <<>>
    <3>1. queue # <<>> BY <1>f, <1>9 DEF FlusherTakes, FlusherInv, AtWork
    <3>2. DOMAIN queue' = DOMAIN queue BY <1>9 DEF FlusherTakes
    <3>3. 1 \in DOMAIN queue BY <1>0, <3>1, SeqDomain DEF Typed
    <3> QED BY <3>2, <3>3, NoneSeq
  <2>2. UNCHANGED <<streams, continuing>> /\ flusher = "take" /\ flusher' = NextStep
        /\ state.error_code = "None"
    BY <1>9 DEF FlusherTakes
  <2>3. state'.filenames = state.filenames /\ state'.error_code = state.error_code
    <3>1. state' = state \/ \E c : state' = [state EXCEPT !.caen_channels = c]
      BY <1>9 DEF FlusherTakes
    <3> QED BY <1>6, <3>1 DEF WriteState
  <2>4. FlusherInv' BY <1>f, <2>1, <2>2, <2>3 DEF FlusherInv, NextStep, AtWork
  <2> QED BY <1>4, <1>p, <2>4 DEF ControlInv
<1>10. CASE Generate
  <2>1. UNCHANGED <<streams, continuing>> /\ flusher = "generate" BY <1>10 DEF Generate
  <2>2. queue # <<>> /\ streams = <<>> /\ state.filenames = <<>> /\ ~continuing
    BY <1>f, <2>1 DEF FlusherInv, AtWork
  <2>3. \/ /\ flusher' = "open" /\ queue' = queue
           /\ state' = [[state EXCEPT !.filenum = (@ + 1) % FilenumMod]
                           EXCEPT !.error_code = "None", !.filenames = FileNames]
        \/ /\ flusher' = "outer"
           /\ \E ec : state' = [[state EXCEPT !.filenum = (@ + 1) % FilenumMod]
                                  EXCEPT !.error_code = ec, !.filenames = <<>>]
        \/ /\ flusher' = "generate" /\ queue' = queue
           /\ state' = [[state EXCEPT !.filenum = (@ + 1) % FilenumMod]
                           EXCEPT !.error_code = "FilenameConflictFilesystem"]
    BY <1>10, <2>1, <2>2 DEF Generate, Skip
  <2>4. \/ flusher' = "open" /\ queue' = queue /\ state'.error_code = "None"
        \/ flusher' = "outer" /\ state'.filenames = <<>>
        \/ flusher' = "generate" /\ state'.filenames = <<>> /\ queue' = queue
           /\ state'.error_code = "FilenameConflictFilesystem"
    BY <1>6, <2>2, <2>3 DEF WriteState
  <2>5. FlusherInv' BY <2>1, <2>2, <2>4 DEF FlusherInv, AtWork
  <2> QED BY <1>4, <1>p, <2>5 DEF ControlInv
<1>11. CASE OpenStreams
  <2>1. FlusherInv' BY <1>f, <1>11 DEF FlusherInv, OpenStreams, AtWork
  <2> QED BY <1>4, <1>p, <2>1 DEF ControlInv
<1>12. CASE OpenStreamsFails
  <2>1. state'.filenames = <<>> BY <1>6, <1>12 DEF OpenStreamsFails, WriteState
  <2>2. FlusherInv' BY <1>f, <1>12, <2>1 DEF FlusherInv, OpenStreamsFails, Skip, AtWork
  <2> QED BY <1>4, <1>p, <2>2 DEF ControlInv
<1>13. CASE Flush
  <2>1. state'.filenames \in {<<>>, state.filenames}
    BY <1>6, <1>13 DEF Flush, Counted, WriteState
  <2>2. FlusherInv' BY <1>f, <1>13, <2>1 DEF FlusherInv, Flush, Skip, AtWork
  <2> QED BY <1>4, <1>p, <2>2 DEF ControlInv
<1> QED BY <1>7, <1>8, <1>9, <1>10, <1>11, <1>12, <1>13 DEF FlusherSteps, FlusherRuns

(* The files named in the write state. *)
LEMMA FlusherNames ==
    ASSUME IInv, FlusherSteps
    PROVE  NamesInv'
<1>0. Typed /\ FlusherInv /\ PhaseInv /\ NamesInv /\ OrderInv /\ state \in WriteState
  BY DEF IInv, ControlInv, Typed
<1>1. phase' = phase /\ phase # "unconfigured"
  BY <1>0 DEF FlusherSteps, FlusherRuns, FlusherTests, FlusherFindsEvent, FlusherStops,
         FlusherSkips, FlusherTakes, Generate, OpenStreams, Flush, OpenStreamsFails,
         PhaseInv, commands
<1>e. ASSUME state'.filenames = <<>> PROVE NamesInv'
  <2>1. Range(state'.filenames) = {} BY <1>e, NoneSeq DEF Range
  <2> QED BY <2>1 DEF NamesInv
<1>s. ASSUME UNCHANGED disk, state'.filenames = state.filenames,
             state'.num_events_written = state.num_events_written,
             state'.run_number = state.run_number, Adopted
      PROVE  NamesInv'
  BY <1>0, <1>s DEF NamesInv, Aligned
<1>2. CASE FlusherTests \/ FlusherFindsEvent \/ FlusherSkips
  BY <1>1, <1>2, <1>s DEF FlusherTests, FlusherFindsEvent, FlusherSkips, Adopted
<1>3. CASE FlusherStops
  <2>1. CASE settings.when_stopped_writing = "Pause"
    BY <1>1, <1>3, <1>s, <2>1 DEF FlusherStops, StoppedState, Trims, Adopted
  <2>2. CASE settings.when_stopped_writing # "Pause"
    <3>1. settings.when_stopped_writing \in StopBehaviors
      BY <1>0, WriterAssumption DEF Typed, Settings
    <3>2. \E k : StoppedState = [state EXCEPT !.filenames = <<>>, !.filenum = k]
      BY <2>2, <3>1 DEF StoppedState, StopBehaviors
    <3>3. state'.filenames = <<>> BY <1>0, <1>3, <3>2 DEF FlusherStops, WriteState
    <3> QED BY <1>e, <3>3
  <2> QED BY <2>1, <2>2
<1>4. CASE FlusherTakes
  <2>1. state' = state \/ \E c : state' = [state EXCEPT !.caen_channels = c]
    BY <1>4 DEF FlusherTakes
  <2>2. /\ state'.filenames = state.filenames /\ state'.run_number = state.run_number
        /\ state'.num_events_written = state.num_events_written
    BY <1>0, <2>1 DEF WriteState
  <2> QED BY <1>1, <1>4, <1>s, <2>2 DEF FlusherTakes, Adopted
<1>5. CASE Generate
  <2>1. CASE state'.filenames = <<>> BY <1>e, <2>1
  <2>2. CASE state'.filenames # <<>>
    <3>1. flusher = "generate" /\ ~continuing' /\ streams = <<>> /\ state.filenames = <<>>
      BY <1>0, <1>5 DEF Generate, FlusherInv
    <3>2. IsInjective(FileNames) /\ state'.filenames = FileNames /\ flusher' = "open"
      <4>1. \/ state'.filenames = <<>>
            \/ /\ state'.filenames = FileNames /\ flusher' = "open"
               /\ NameConflict(FileNames) # "FilenameConflictGenerated"
        <5>1. \/ \E ec : state' = [[state EXCEPT !.filenum = (@ + 1) % FilenumMod]
                                      EXCEPT !.error_code = ec, !.filenames = <<>>]
              \/ \E ec : state' = [[state EXCEPT !.filenum = (@ + 1) % FilenumMod]
                                      EXCEPT !.error_code = ec]
              \/ /\ state' = [[state EXCEPT !.filenum = (@ + 1) % FilenumMod]
                                EXCEPT !.error_code = "None", !.filenames = FileNames]
                 /\ flusher' = "open" /\ NameConflict(FileNames) # "FilenameConflictGenerated"
          BY <1>5, <3>1 DEF Generate
        <5> QED BY <1>0, <3>1, <5>1 DEF WriteState
      <4> QED BY <2>2, <4>1 DEF NameConflict
    <3>3. ~Adopted' BY <3>1, <3>2 DEF Adopted
    <3>4. ASSUME NEW f \in Range(FileNames), NEW g \in Range(FileNames), f # g
          PROVE  f.ch # g.ch
      <4>1. PICK i \in DOMAIN FileNames, j \in DOMAIN FileNames :
              f = FileNames[i] /\ g = FileNames[j]
        BY DEF Range
      <4>2. PICK a, b : \A k \in DOMAIN FileNames :
              FileNames[k] = [run |-> a, filenum |-> b, ch |-> FileNames[k].ch]
        <5>1. \A k \in DOMAIN FileNames :
                \E c : FileNames[k] =
                  [run |-> IF "run" \in settings.filename_pattern THEN state.run_number ELSE 0,
                   filenum |-> IF "filenum" \in settings.filename_pattern THEN state.filenum ELSE 0,
                   ch |-> c]
          BY DEF FileNames
        <5> QED BY <5>1
      <4> QED BY <3>4, <4>1, <4>2
    <3> QED BY <3>2, <3>3, <3>4 DEF NamesInv
  <2> QED BY <2>1, <2>2
<1>6. CASE OpenStreams
  <2>1. state' = state /\ disk' = Opened(Range(state.filenames), continuing) /\ flusher = "open"
    BY <1>6 DEF OpenStreams
  <2>2. CASE continuing
    <3>1. \A f \in Range(state.filenames) : f \in DOMAIN disk' /\ f \in DOMAIN disk /\ disk'[f] = disk[f]
      BY <1>0, <1>1, <2>1, <2>2 DEF NamesInv, Adopted, Opened
    <3>2. Adopted BY <1>1, <2>2 DEF Adopted
    <3> HIDE <1>1, <2>2
    <3> QED BY <1>0, <2>1, <3>1, <3>2 DEF NamesInv, Aligned
  <2>3. CASE ~continuing
    <3>1. \A f \in Range(state.filenames) : f \in DOMAIN disk' /\ disk'[f] = <<>>
      BY <2>1, <2>3 DEF Opened
    <3>2. state.num_events_written \in Nat BY <1>0 DEF WriteState
    <3> QED BY <1>0, <2>1, <3>1, <3>2, NoneSeq DEF NamesInv, Aligned
  <2> QED BY <2>2, <2>3
<1>7. CASE OpenStreamsFails
  <2>1. state'.filenames = <<>> BY <1>0, <1>7 DEF OpenStreamsFails, WriteState
  <2> QED BY <1>e, <2>1
<1>8. CASE Flush
  <2>1. CASE state'.filenames = <<>> BY <1>e, <2>1
  <2>2. CASE state'.filenames # <<>>
    <3>0. queue # <<>> /\ streams = state.filenames /\ DOMAIN disk' = DOMAIN disk
      BY <1>8, FlushOrder DEF IInv
    <3>1. /\ state'.filenames = state.filenames /\ state'.run_number = state.run_number
          /\ state'.num_events_written = state.num_events_written + 1
      <4>1. state' = Counted BY <1>8 DEF Flush
      <4> QED BY <1>0, <2>2, <4>1 DEF Counted, WriteState
    <3>2. Adopted BY <1>1, <1>8 DEF Flush, Adopted
    <3>3. /\ \A f \in Range(streams) :
               /\ f \in DOMAIN disk
               /\ Len(disk[f]) <= state.num_events_written
               /\ \A i \in DOMAIN disk[f] : disk[f][i].run = state.run_number
          /\ \A f, g \in Range(streams) : Aligned(f, g)
      BY <1>0, <3>0, <3>2 DEF NamesInv
    <3>4. ASSUME NEW f \in Range(streams)
          PROVE  /\ Len(disk'[f]) = Len(disk[f]) + 1
                 /\ DOMAIN disk'[f] = DOMAIN disk[f] \cup {Len(disk[f]) + 1}
                 /\ disk'[f][Len(disk[f]) + 1].ev = queue[1].ev
                 /\ disk'[f][Len(disk[f]) + 1].run = state.run_number
                 /\ \A i \in DOMAIN disk[f] : disk'[f][i] = disk[f][i]
                 /\ Len(disk[f]) \in Nat
      BY <1>0, <1>8, <3>0, <3>3, FlushedFile, SeqDomain DEF Typed
    <3>5. state.num_events_written \in Nat BY <1>0 DEF WriteState
    <3>6. \A f \in Range(streams) :
            /\ f \in DOMAIN disk'
            /\ Len(disk'[f]) <= state'.num_events_written
            /\ \A i \in DOMAIN disk'[f] : disk'[f][i].run = state'.run_number
      BY <3>0, <3>1, <3>3, <3>4, <3>5
    <3>7. ASSUME NEW f \in Range(streams), NEW g \in Range(streams) PROVE Aligned(f, g)'
      BY <3>3, <3>4 DEF Aligned
    <3>8. \A f, g \in Range(streams) : f # g => f.ch # g.ch BY <1>0, <3>0 DEF NamesInv
    <3> QED BY <3>0, <3>1, <3>6, <3>7, <3>8 DEF NamesInv
  <2> QED BY <2>1, <2>2
<1> QED BY <1>2, <1>3, <1>4, <1>5, <1>6, <1>7, <1>8 DEF FlusherSteps, FlusherRuns

(* The events on disk are counted. *)
LEMMA CountDisk ==
    ASSUME NEW n \in Nat, NEW A \in SUBSET (0..n), NEW B, NEW e
    PROVE  /\ Cardinality(A \ {0}) \in Nat
           /\ B \subseteq A => Cardinality(B \ {0}) <= Cardinality(A \ {0})
           /\ B \subseteq A \cup {e} => Cardinality(B \ {0}) <= Cardinality(A \ {0}) + 1
<1> DEFINE P == A \ {0}
           Q == B \ {0}
<1>1. IsFiniteSet(P)
  <2>1. IsFiniteSet(0..n) BY FS_Interval
  <2>2. P \in SUBSET (0..n) OBVIOUS
  <2> HIDE DEF P
  <2> QED BY <2>1, <2>2, FS_Subset
<1>2. B \subseteq A => Q \in SUBSET P OBVIOUS
<1>3. B \subseteq A \cup {e} => Q \in SUBSET (P \cup {e}) OBVIOUS
<1> HIDE DEF P, Q
<1>4. Cardinality(P) \in Nat BY <1>1, FS_CardinalityType
<1>5. B \subseteq A => Cardinality(Q) <= Cardinality(P) BY <1>1, <1>2, FS_Subset
<1>6. IsFiniteSet(P \cup {e}) /\ Cardinality(P \cup {e}) <= Cardinality(P) + 1
  BY <1>1, <1>4, FS_AddElement
<1>7. ASSUME B \subseteq A \cup {e} PROVE Cardinality(Q) <= Cardinality(P) + 1
  <2>1. IsFiniteSet(Q) /\ Cardinality(Q) <= Cardinality(P \cup {e})
    BY <1>3, <1>6, <1>7, FS_Subset
  <2>2. Cardinality(Q) \in Nat /\ Cardinality(P \cup {e}) \in Nat
    BY <1>6, <2>1, FS_CardinalityType
  <2> QED BY <1>4, <1>6, <2>1, <2>2
<1> QED BY <1>4, <1>5, <1>7 DEF P, Q

(* The limits hold on the disk as long as nothing is added to it. *)
LEMMA ShrunkCount ==
    ASSUME IInv, Shrunk, settings' = settings, state' \in WriteState,
           state'.num_events_written < settings.max_events_per_file,
           state'.num_total_events_written = state.num_total_events_written,
           state.error_code = "MaxTotalEventsReached" => state'.error_code = "MaxTotalEventsReached"
    PROVE  CountInv'
<1>1. /\ \A f \in DOMAIN disk' : Len(disk'[f]) = 0 \/ (f \in DOMAIN disk /\ disk'[f] = disk[f])
      /\ OnDisk' \subseteq OnDisk
  BY ShrunkFiles DEF IInv
<1>2. /\ MaxEvents \in Nat /\ nextEv \in 1..(MaxEvents + 1)
      /\ settings.max_events_per_file \in Nat /\ settings.max_total_events \in Nat
  BY WriterAssumption DEF IInv, Typed, Settings
<1>3. OnDisk \in SUBSET (0..MaxEvents)
  BY <1>2 DEF IInv, OrderInv
<1>4. Cardinality(OnDisk' \ {0}) <= Cardinality(OnDisk \ {0})
  BY <1>1, <1>2, <1>3, CountDisk
<1>5. \A f \in DOMAIN disk' : Len(disk'[f]) <= settings.max_events_per_file
  BY <1>1, <1>2 DEF IInv, CountInv
<1>6. Cardinality(OnDisk \ {0}) \in Nat /\ state.num_total_events_written \in Nat
      /\ IsFiniteSet(OnDisk' \ {0})
  <2>1. IsFiniteSet(0..MaxEvents) BY <1>2, FS_Interval
  <2>2. OnDisk' \ {0} \in SUBSET (0..MaxEvents) BY <1>1, <1>3
  <2>3. IsFiniteSet(OnDisk' \ {0}) BY <2>1, <2>2, FS_Subset
  <2> QED BY <1>2, <1>3, <2>3, CountDisk DEF IInv, Typed, WriteState
<1>7. Cardinality(OnDisk' \ {0}) \in Nat BY <1>6, FS_CardinalityType
<1>8. Cardinality(OnDisk' \ {0}) <= state'.num_total_events_written
  BY <1>4, <1>6, <1>7 DEF IInv, CountInv
<1> QED BY <1>5, <1>8 DEF IInv, CountInv

(* The flusher keeps to the limits. *)
LEMMA FlusherCount ==
    ASSUME IInv, FlusherSteps, Shrunk \/ Flush, state' \in WriteState
    PROVE  CountInv'
<1>0. /\ Typed /\ FlusherInv /\ OrderInv /\ NamesInv /\ CountInv /\ state \in WriteState
      /\ settings' = settings
  BY FlusherQueue DEF IInv, ControlInv, Typed
<1>1. CASE Flush
  <2>1. settings.max_events_per_file \in Nat \ {0} /\ settings.max_total_events \in Nat
        /\ MaxEvents \in Nat /\ nextEv \in 1..(MaxEvents + 1)
        /\ state.num_events_written \in Nat /\ state.num_total_events_written \in Nat
    BY <1>0, WriterAssumption DEF Typed, Settings, WriteState
  <2>2. state.error_code # "MaxTotalEventsReached" BY <1>0, <1>1 DEF Flush, FlusherInv
  <2>3. /\ state'.num_events_written < settings.max_events_per_file
        /\ state'.num_total_events_written = state.num_total_events_written + 1
        /\ state'.error_code # "MaxTotalEventsReached" =>
             state'.num_total_events_written < settings.max_total_events
    <3>1. state' = Counted BY <1>1 DEF Flush
    <3>2. /\ Counted.num_events_written =
                IF state.num_events_written + 1 >= settings.max_events_per_file
                THEN 0 ELSE state.num_events_written + 1
          /\ Counted.num_total_events_written = state.num_total_events_written + 1
          /\ state.num_total_events_written + 1 >= settings.max_total_events =>
                Counted.error_code = "MaxTotalEventsReached"
      BY <1>0 DEF Counted, WriteState
    <3> HIDE <1>0
    <3> QED BY <2>1, <3>1, <3>2
  <2>4. state'.num_total_events_written <= settings.max_total_events
    BY <1>0, <2>1, <2>2, <2>3 DEF CountInv
  <2>5. OnDisk \in SUBSET (0..MaxEvents) /\ OnDisk' \subseteq OnDisk \cup {queue[1].ev}
    <3>1. OnDisk' \subseteq OnDisk \cup {queue[1].ev} BY <1>1, FlushFiles DEF IInv
    <3> QED BY <1>0, <2>1, <3>1 DEF OrderInv
  <2>6. /\ Cardinality(OnDisk' \ {0}) <= Cardinality(OnDisk \ {0}) + 1
        /\ Cardinality(OnDisk \ {0}) \in Nat
    BY <2>1, <2>5, CountDisk
  <2>7. Cardinality(OnDisk' \ {0}) \in Nat
    <3>1. OnDisk' \ {0} \in SUBSET (0..MaxEvents)
      <4>1. queue[1].ev \in 1..(nextEv - 1) BY <1>1, FlushOrder DEF IInv
      <4> QED BY <2>1, <2>5, <4>1
    <3>2. IsFiniteSet(0..MaxEvents) BY <2>1, FS_Interval
    <3>3. IsFiniteSet(OnDisk' \ {0}) BY <3>1, <3>2, FS_Subset
    <3> QED BY <3>3, FS_CardinalityType
  <2>8. Cardinality(OnDisk' \ {0}) <= state'.num_total_events_written
    BY <1>0, <2>1, <2>3, <2>6, <2>7 DEF CountInv
  <2>9. ASSUME NEW f \in DOMAIN disk' PROVE Len(disk'[f]) <= settings.max_events_per_file
    <3>1. queue # <<>> /\ streams = state.filenames /\ f \in DOMAIN disk
      BY <1>1, <2>9, FlushOrder DEF IInv
    <3>2. Len(disk[f]) \in Nat BY <1>0, <3>1, SeqDomain DEF Typed
    <3>3. CASE f \notin Range(streams)
      <4>1. disk'[f] = disk[f] BY <1>0, <1>1, <3>1, <3>3, FlushedFile
      <4> QED BY <1>0, <3>1, <4>1 DEF CountInv
    <3>4. CASE f \in Range(streams)
      <4>1. Len(disk'[f]) = Len(disk[f]) + 1 BY <1>0, <1>1, <3>1, <3>4, FlushedFile
      <4>2. Adopted
        <5>1. phase # "unconfigured" BY <1>1 DEF IInv, ControlInv, PhaseInv, Flush
        <5> QED BY <1>1, <5>1 DEF Adopted, Flush
      <4>3. Len(disk[f]) <= state.num_events_written
        BY <1>0, <3>1, <3>4, <4>2 DEF NamesInv
      <4> QED BY <1>0, <2>1, <3>2, <4>1, <4>3 DEF CountInv
    <3> QED BY <3>3, <3>4
  <2> QED BY <1>0, <2>3, <2>4, <2>8, <2>9 DEF CountInv
<1>2. CASE ~Flush
  <2>1. /\ state'.num_events_written = state.num_events_written
        /\ state'.num_total_events_written = state.num_total_events_written
        /\ state.error_code = "MaxTotalEventsReached" => state'.error_code = "MaxTotalEventsReached"
    <3>1. CASE state' = state BY <3>1
    <3>2. CASE FlusherStops
      <4>1. settings.when_stopped_writing \in StopBehaviors
        BY <1>0, WriterAssumption DEF Typed, Settings
      <4>2. StoppedState = state \/ \E k : StoppedState = [state EXCEPT !.filenames = <<>>, !.filenum = k]
        BY <4>1 DEF StoppedState, StopBehaviors
      <4> QED BY <1>0, <3>2, <4>2 DEF FlusherStops, WriteState
    <3>3. CASE FlusherTakes /\ state' # state
      <4>1. \E c : state' = [state EXCEPT !.caen_channels = c] BY <3>3 DEF FlusherTakes
      <4> QED BY <1>0, <4>1 DEF WriteState
    <3>4. CASE Generate
      <4>1. \/ \E ec, fs : state' = [[state EXCEPT !.filenum = (@ + 1) % FilenumMod]
                                       EXCEPT !.error_code = ec, !.filenames = fs]
            \/ \E ec : state' = [[state EXCEPT !.filenum = (@ + 1) % FilenumMod]
                                       EXCEPT !.error_code = ec]
        BY <3>4 DEF Generate
      <4>2. state.error_code # "MaxTotalEventsReached" BY <1>0, <3>4 DEF FlusherInv, Generate
      <4> QED BY <1>0, <4>1, <4>2 DEF WriteState
    <3>5. CASE OpenStreamsFails
      <4>1. state.error_code # "MaxTotalEventsReached" BY <1>0, <3>5 DEF FlusherInv, OpenStreamsFails
      <4> QED BY <1>0, <3>5, <4>1 DEF OpenStreamsFails, WriteState
    <3> QED BY <1>2, <3>1, <3>2, <3>3, <3>4, <3>5
         DEF FlusherSteps, FlusherRuns, FlusherTests, FlusherFindsEvent, FlusherSkips, OpenStreams
  <2>2. state'.num_events_written < settings.max_events_per_file BY <1>0, <2>1 DEF CountInv
  <2> QED BY <1>0, <1>2, <2>1, <2>2, ShrunkCount
<1> QED BY <1>1, <1>2

(* The flusher preserves the invariant. *)
LEMMA FlusherStep ==
    ASSUME IInv, FlusherSteps
    PROVE  IInv'
<1>1. Shrunk \/ Flush BY OnlyFlushWrites DEF FlusherSteps, Next
<1>2. /\ \A f \in DOMAIN disk' : IsSeq(disk'[f])
      /\ OneRunPerFile' /\ EachEventOnce' /\ (OnDisk' \subseteq OnDisk \/ Flush)
  BY <1>1, ShrunkFiles, FlushFiles DEF IInv
<1>3. Typed' /\ ControlInv' BY <1>2, FlusherControl
<1>4. OrderInv' /\ RawInv' BY <1>2, FlusherOrder
<1>5. NamesInv' BY FlusherNames
<1>6. CountInv'
  <2>1. state' \in WriteState BY <1>3 DEF Typed
  <2> QED BY <1>1, <2>1, FlusherCount
<1> QED BY <1>2, <1>3, <1>4, <1>5, <1>6 DEF IInv

-----------------------------------------------------------------------------
(* start, unconfigure, the end of stop.                                    *)

CommandSteps == (\E r \in RunNumbers : Start(r)) \/ Unconfigure \/ ClearContexts

(* The write state that a start goes on with. *)
LEMMA NewRunState ==
    ASSUME NEW st \in WriteState, NEW r \in RunNumbers
    PROVE  /\ NewRun(st, r).num_total_events_written = st.num_total_events_written
           /\ st.error_code = "MaxTotalEventsReached" =>
                NewRun(st, r).error_code = "MaxTotalEventsReached"
           /\ st.run_number # r =>
                NewRun(st, r).filenames = <<>> /\ NewRun(st, r).num_events_written = 0
           /\ st.run_number = r =>
                /\ NewRun(st, r).filenames = st.filenames
                /\ NewRun(st, r).num_events_written = st.num_events_written
                /\ NewRun(st, r).run_number = st.run_number
<1> DEFINE x == IF st.run_number # r THEN [FinishRun(st) EXCEPT !.run_number = r] ELSE st
<1>1. /\ x \in WriteState
      /\ x.num_total_events_written = st.num_total_events_written /\ x.error_code = st.error_code
      /\ st.run_number # r => x.filenames = <<>> /\ x.num_events_written = 0
      /\ st.run_number = r => x = st
  <2>1. FinishRun(st) \in WriteState BY WriteStates
  <2>2. CASE st.run_number # r BY <2>1, <2>2 DEF FinishRun, WriteState
  <2>3. CASE st.run_number = r BY <2>3
  <2> QED BY <2>2, <2>3
<1>2. NewRun(st, r) = [x EXCEPT !.error_code = IF @ = "MaxTotalEventsReached" THEN @ ELSE "None"]
  BY DEF NewRun
<1> HIDE DEF x
<1> QED BY <1>1, <1>2 DEF WriteState

(* The commands preserve the invariant. *)
LEMMA CommandStep ==
    ASSUME IInv, CommandSteps
    PROVE  IInv'
<1>0. Typed /\ PhaseInv /\ FlusherInv /\ OrderInv /\ RawInv /\ NamesInv /\ CountInv
      /\ state \in WriteState
  BY DEF IInv, ControlInv, Typed
<1>1. Shrunk
  <2>1. CommandSteps => ~Flush
    BY <1>0 DEF CommandSteps, Start, Unconfigure, ClearContexts, Flush, PhaseInv
  <2> QED BY <2>1, OnlyFlushWrites DEF CommandSteps, Next, Commands, Stopping
<1>2. /\ \A f \in DOMAIN disk' : IsSeq(disk'[f])
      /\ OneRunPerFile' /\ EachEventOnce' /\ OnDisk' \subseteq OnDisk
  BY <1>1, ShrunkFiles DEF IInv
<1>3. settings' = settings /\ UNCHANGED <<held, nextEv>> /\ got' \in {got, {}}
  BY DEF CommandSteps, Start, Unconfigure, ClearContexts, producing
<1>4. queue' \in {queue, <<>>} BY DEF CommandSteps, Start, Unconfigure, ClearContexts
<1>5. flusher' \in {"none", "outer"} /\ flusher \in {"none", "returned"}
  BY <1>0 DEF CommandSteps, Start, Unconfigure, ClearContexts, PhaseInv
<1>6. OrderInv' /\ RawInv'
  <2>1. \A i \in DOMAIN queue' : queue' = queue BY <1>4, NoneSeq
  <2>2. OrderInv' BY <1>0, <1>2, <1>3, <2>1 DEF OrderInv
  <2>3. RawInv' BY <1>0, <1>3, <1>5, <2>1 DEF RawInv
  <2> QED BY <2>2, <2>3
<1>7. ASSUME saved' \in WriteState, state' \in WriteState, streams' \in Seq(Name) PROVE Typed'
  <2>1. IsSeq(queue') /\ \A i \in DOMAIN queue' : DOMAIN queue'[i] = {"ev", "chs"}
    BY <1>0, <1>4, NoneSeq DEF Typed
  <2> QED BY <1>0, <1>2, <1>3, <1>7, <2>1 DEF Typed
<1>8. CASE \E r \in RunNumbers : Start(r)
  <2>1. PICK r \in RunNumbers : Start(r) BY <1>8
  <2>2. saved = state BY <1>0, <2>1 DEF Start, PhaseInv
  <2>3. state' = NewRun(state, r) /\ saved' = state' BY <2>1, <2>2 DEF Start
  <2>4. state' \in WriteState BY <1>0, <2>3, WriteStates
  <2>5. Typed' BY <1>7, <2>1, <2>3, <2>4 DEF Start
  <2>6. /\ state'.num_total_events_written = state.num_total_events_written
        /\ state.error_code = "MaxTotalEventsReached" =>
             state'.error_code = "MaxTotalEventsReached"
        /\ state.run_number # r => state'.filenames = <<>> /\ state'.num_events_written = 0
        /\ state.run_number = r =>
             /\ state'.filenames = state.filenames
             /\ state'.num_events_written = state.num_events_written
             /\ state'.run_number = state.run_number
    BY <1>0, <2>3, NewRunState
  <2>7. ControlInv'
    <3>1. PhaseInv' BY <2>1 DEF Start, PhaseInv
    <3>2. FlusherInv' BY <2>1, <2>3 DEF Start, FlusherInv, AtWork
    <3> QED BY <3>1, <3>2 DEF ControlInv
  <2>8. NamesInv'
    <3>1. CASE state.run_number # r
      <4>1. Range(state'.filenames) = {} BY <2>6, <3>1, NoneSeq DEF Range
      <4> QED BY <4>1 DEF NamesInv
    <3>2. CASE state.run_number = r
      <4>1. disk' = disk /\ Adopted
        BY <1>5, <2>1, <2>2, <3>2 DEF Start, Adopted
      <4> QED BY <1>0, <2>6, <3>2, <4>1 DEF NamesInv, Aligned
    <3> QED BY <3>1, <3>2
  <2>9. CountInv'
    <3>1. state'.num_events_written < settings.max_events_per_file
      <4>1. settings.max_events_per_file > 0 BY <1>0, WriterAssumption DEF Typed
      <4>2. settings.max_events_per_file \in Nat BY <1>0, WriterAssumption DEF Typed, Settings
      <4> QED BY <1>0, <2>6, <4>1, <4>2 DEF CountInv
    <3> QED BY <1>1, <1>3, <2>4, <2>6, <3>1, ShrunkCount
  <2> QED BY <1>2, <1>6, <2>5, <2>7, <2>8, <2>9 DEF IInv
<1>9. CASE Unconfigure \/ ClearContexts
  <2>1. state' = state /\ streams' = streams /\ UNCHANGED <<mrun, stopWriters, continuing>>
    BY <1>9 DEF Unconfigure, ClearContexts
  <2>2. saved' \in WriteState BY <1>0, <1>9, WriteStates DEF Unconfigure, ClearContexts, Typed
  <2>3. Typed' BY <1>0, <1>7, <2>1, <2>2 DEF Typed
  <2>4. PhaseInv' BY <1>0, <1>9, <2>1 DEF PhaseInv, Unconfigure, ClearContexts
  <2>5. FlusherInv'
    <3>1. flusher' = "none" BY <1>0, <1>9 DEF Unconfigure, ClearContexts, PhaseInv
    <3> QED BY <1>0, <1>5, <2>1, <3>1 DEF FlusherInv, AtWork
  <2>6. NamesInv'
    <3>1. CASE Unconfigure
      <4>1. ~Adopted' BY <3>1 DEF Unconfigure, Adopted
      <4> QED BY <1>0, <2>1, <4>1 DEF NamesInv
    <3>2. CASE ClearContexts
      <4>1. Adopted /\ disk' = disk BY <1>5, <3>2 DEF ClearContexts, Adopted
      <4> QED BY <1>0, <2>1, <4>1 DEF NamesInv, Aligned
    <3> QED BY <1>9, <3>1, <3>2
  <2>7. CountInv'
    <3>1. state'.num_events_written < settings.max_events_per_file BY <1>0, <2>1 DEF CountInv
    <3> QED BY <1>0, <1>1, <1>3, <2>1, <3>1, ShrunkCount
  <2> QED BY <1>2, <1>6, <2>3, <2>4, <2>5, <2>6, <2>7 DEF IInv, ControlInv
<1> QED BY <1>8, <1>9 DEF CommandSteps

-----------------------------------------------------------------------------
(* The theorems.                                                           *)

(* The invariant holds at first: leftover files hold event 0 only. *)
LEMMA InitStep == Init => IInv
<1> SUFFICES ASSUME Init PROVE IInv
  OBVIOUS
<1> DEFINE old == [ev |-> 0, run |-> 0, chs |-> <<>>]
<1>1. /\ NewWriteState \in WriteState
      /\ NewWriteState.filenames = <<>> /\ NewWriteState.num_events_written = 0
      /\ NewWriteState.num_total_events_written = 0 /\ NewWriteState.error_code = "None"
  <2>1. 0 \in 0..(FilenumMod - 1) BY WriterAssumption
  <2>2. <<>> \in Seq(Name) /\ <<>> \in Seq(CaenChannels) OBVIOUS
  <2> QED BY <2>1, <2>2 DEF NewWriteState, WriteState, ErrorCodes
<1>2. state = NewWriteState /\ saved = NewWriteState /\ queue = <<>> /\ held = <<>> /\ streams = <<>>
      /\ flusher = "none" /\ phase = "idle" /\ ~continuing /\ ~mrun /\ nextEv = 1 /\ got = {}
  BY DEF Init
<1>3. \A f \in DOMAIN disk : disk[f] = <<old>> BY DEF Init
<1>4. old.ev = 0 OBVIOUS
<1> HIDE DEF old
<1>5. ASSUME NEW f \in DOMAIN disk
      PROVE  IsSeq(disk[f]) /\ Len(disk[f]) = 1 /\ DOMAIN disk[f] = {1} /\ disk[f][1].ev = 0
  BY <1>3, <1>4, OneSeq
<1>6. Typed
  BY <1>1, <1>2, <1>5, NoneSeq, WriterAssumption DEF Typed, Init
<1>7. ControlInv
  BY <1>1, <1>2 DEF ControlInv, PhaseInv, FlusherInv, AtWork
<1>8. \A f \in DOMAIN disk : EventsIn(f) = {0} BY <1>5 DEF EventsIn
<1>9. OnDisk \subseteq {0} BY <1>8 DEF OnDisk
<1>10. OrderInv /\ RawInv
  BY <1>2, <1>9, NoneSeq DEF OrderInv, RawInv
<1>11. OneRunPerFile BY <1>5 DEF OneRunPerFile
<1>12. EachEventOnce BY <1>8 DEF EachEventOnce
<1>13. NamesInv
  <2>1. Range(state.filenames) = {} BY <1>1, <1>2, NoneSeq DEF Range
  <2> QED BY <2>1 DEF NamesInv
<1>14. CountInv
  <2>1. /\ settings.max_events_per_file > 0 /\ settings.max_total_events > 0
        /\ settings.max_events_per_file \in Nat /\ settings.max_total_events \in Nat
    BY <1>6, WriterAssumption DEF Typed, Settings
  <2>2. OnDisk \ {0} = {} BY <1>9
  <2>3. Cardinality(OnDisk \ {0}) = 0 BY <2>2, FS_EmptySet
  <2>4. \A f \in DOMAIN disk : Len(disk[f]) <= settings.max_events_per_file BY <1>5, <2>1
  <2>5. state.num_events_written = 0 /\ state.num_total_events_written = 0 BY <1>1, <1>2
  <2> HIDE <1>1, <1>2
  <2> QED BY <2>1, <2>3, <2>4, <2>5 DEF CountInv
<1> QED BY <1>6, <1>7, <1>10, <1>11, <1>12, <1>13, <1>14 DEF IInv

(* Doing nothing preserves it. *)
LEMMA StutterStep == IInv /\ UNCHANGED vars => IInv'
<1> SUFFICES ASSUME IInv, UNCHANGED vars PROVE IInv'
  OBVIOUS
<1>1. UNCHANGED <<settings, disk, phase, mrun, stopWriters, saved, held, queue, flusher, state,
                  streams, continuing, nextEv, got>>
  BY DEF vars, commands, producing, writing
<1>2. OnDisk' = OnDisk BY <1>1 DEF OnDisk, EventsIn
<1>3. Typed' /\ ControlInv'
  BY <1>1 DEF IInv, Typed, ControlInv, PhaseInv, FlusherInv, AtWork
<1>4. OrderInv' /\ RawInv' BY <1>1, <1>2 DEF IInv, OrderInv, RawInv
<1>5. OneRunPerFile' /\ EachEventOnce'
  BY <1>1 DEF IInv, OneRunPerFile, EachEventOnce, EventsIn
<1>6. NamesInv' BY <1>1 DEF IInv, NamesInv, Adopted, Aligned
<1>7. CountInv' BY <1>1, <1>2 DEF IInv, CountInv
<1> QED BY <1>3, <1>4, <1>5, <1>6, <1>7 DEF IInv

(* Every step is one of the three kinds. *)
LEMMA Kinds == Next <=> Outside \/ FlusherSteps \/ CommandSteps
BY DEF Next, Commands, Stopping, Outside, FlusherSteps, CommandSteps

(* The invariant of the file writer. *)
THEOREM Inductive == Spec => []IInv
<1>1. IInv /\ [Next]_vars => IInv'
  BY OutsideStep, FlusherStep, CommandStep, StutterStep, Kinds
<1> QED BY InitStep, <1>1, PTL DEF Spec

(***************************************************************************)
(* A file never mixes runs, and its events are in the order of receipt,    *)
(* whatever pauses, new run numbers, leftover files, conflicts of names,   *)
(* wrapped file numbers and failures to open a file there are.             *)
(***************************************************************************)
THEOREM OneRun == Spec => []OneRunPerFile
<1>1. IInv => OneRunPerFile BY DEF IInv
<1> QED BY Inductive, <1>1, PTL

(***************************************************************************)
(* No event is written to two files of the same channel: an event leaves   *)
(* the payload queue in the step that writes it.                           *)
(***************************************************************************)
THEOREM NoEventTwice == Spec => []EachEventOnce
<1>1. IInv => EachEventOnce BY DEF IInv
<1> QED BY Inductive, <1>1, PTL

(***************************************************************************)
(* max_total_events and max_events_per_file are kept over any number of    *)
(* stops and starts.                                                       *)
(***************************************************************************)
THEOREM Limits == Spec => []LimitsKept
<1>1. IInv => LimitsKept
  <2> SUFFICES ASSUME IInv PROVE LimitsKept
    OBVIOUS
  <2>1. /\ MaxEvents \in Nat /\ nextEv \in 1..(MaxEvents + 1)
        /\ settings.max_total_events \in Nat /\ state.num_total_events_written \in Nat
    BY WriterAssumption DEF IInv, Typed, Settings, WriteState
  <2>2. OnDisk \in SUBSET (0..MaxEvents) BY <2>1 DEF IInv, OrderInv
  <2>3. Cardinality(OnDisk \ {0}) \in Nat BY <2>1, <2>2, CountDisk
  <2> QED BY <2>1, <2>3 DEF IInv, CountInv, LimitsKept
<1> QED BY Inductive, <1>1, PTL

(***************************************************************************)
(* The open files of a set hold the same events at the same places.        *)
(***************************************************************************)
THEOREM AlignedFiles == Spec => []OpenFilesAligned
<1>1. IInv => OpenFilesAligned
  <2> SUFFICES ASSUME IInv, NEW f \in Range(streams), NEW g \in Range(streams)
               PROVE  Len(disk[f]) = Len(disk[g])
                      /\ \A i \in DOMAIN disk[f] : disk[f][i].ev = disk[g][i].ev
    BY DEF OpenFilesAligned
  <2>1. streams # <<>> BY NoneSeq DEF Range
  <2>2. streams = state.filenames /\ flusher \notin {"none", "open"}
    BY <2>1 DEF IInv, ControlInv, FlusherInv
  <2>3. Adopted BY <2>2 DEF IInv, ControlInv, PhaseInv, Adopted
  <2> QED BY <2>2, <2>3 DEF IInv, NamesInv, Aligned
<1> QED BY Inductive, <1>1, PTL

-----------------------------------------------------------------------------
(* Files are only appended to.                                             *)

(* A set of files that is opened anew has new names. *)
LEMMA NamesAreNew == Spec => []NewNames
<1>1. Init => NewNames BY DEF Init, NewNames
<1>2. IInv /\ NewNames /\ [Next]_vars => NewNames'
  <2> SUFFICES ASSUME IInv, NewNames, [Next]_vars PROVE NewNames'
    OBVIOUS
  <2>1. CASE Outside
    <3>1. UNCHANGED <<settings, writing>> BY <2>1, OutsideControl DEF IInv
    <3> QED BY <3>1 DEF NewNames, writing
  <2>2. CASE CommandSteps
    <3>1. flusher' # "open"
      BY <2>2 DEF CommandSteps, Start, Unconfigure, ClearContexts, IInv, ControlInv, PhaseInv
    <3> QED BY <3>1 DEF NewNames
  <2>3. CASE FlusherTakes
    <3>1. flusher' = "open" => continuing'
      BY <2>3 DEF FlusherTakes, NextStep, IInv, ControlInv, FlusherInv
    <3> QED BY <3>1 DEF NewNames
  <2>4. CASE Generate
    <3> SUFFICES ASSUME flusher' = "open", settings.when_name_conflict # "Overwrite"
                 PROVE  Range(state'.filenames) \cap DOMAIN disk' = {}
      BY <2>4 DEF NewNames, Generate
    <3>1. NameConflict(FileNames) = "None" /\ disk' = disk
          /\ state' = [[state EXCEPT !.filenum = (@ + 1) % FilenumMod]
                           EXCEPT !.error_code = "None", !.filenames = FileNames]
      BY <2>4 DEF Generate, Skip
    <3>2. state'.filenames = FileNames
      <4>1. state \in WriteState BY DEF IInv, Typed
      <4> QED BY <3>1, <4>1 DEF WriteState
    <3> QED BY <3>1, <3>2 DEF NameConflict
  <2>5. CASE FlusherSteps /\ ~FlusherTakes /\ ~Generate
    <3>1. flusher' # "open"
      BY <2>5 DEF FlusherSteps, FlusherRuns, FlusherTests, FlusherFindsEvent, FlusherStops,
                  FlusherSkips, OpenStreams, Flush, OpenStreamsFails, Skip
    <3> QED BY <3>1 DEF NewNames
  <2>6. CASE UNCHANGED vars
    BY <2>6 DEF vars, writing, NewNames
  <2> QED BY <2>1, <2>2, <2>3, <2>4, <2>5, <2>6, Kinds
<1> QED BY <1>1, <1>2, Inductive, PTL DEF Spec

(***************************************************************************)
(* Unless the settings allow files to be overwritten, a file is only ever  *)
(* appended to, and only files with less than the full number of events    *)
(* are removed: at a stop that trims and when a run is finished.           *)
(***************************************************************************)
THEOREM OnlyGrow == Spec => FilesOnlyGrow
<1> DEFINE Grown(f) == /\ Len(disk[f]) <= Len(disk'[f])
                       /\ SubSeq(disk'[f], 1, Len(disk[f])) = disk[f]
           Grow == settings.when_name_conflict # "Overwrite" =>
                     \A f \in DOMAIN disk :
                        IF f \in DOMAIN disk' THEN Grown(f)
                        ELSE Len(disk[f]) < settings.max_events_per_file
<1>1. IInv /\ NewNames /\ [Next]_vars => [Grow]_vars
  <2> SUFFICES ASSUME IInv, NewNames, Next, settings.when_name_conflict # "Overwrite",
                      NEW f \in DOMAIN disk
               PROVE  IF f \in DOMAIN disk' THEN Grown(f)
                      ELSE Len(disk[f]) < settings.max_events_per_file
    OBVIOUS
  <2>0. IsSeq(disk[f]) /\ Len(disk[f]) \in Nat /\ SubSeq(disk[f], 1, Len(disk[f])) = disk[f]
    <3>1. IsSeq(disk[f]) BY DEF IInv, Typed
    <3> QED BY <3>1, SeqDomain, SubSeqFull DEF IsSeq
  <2>k. ASSUME disk'[f] = disk[f] PROVE Grown(f)
    BY <2>0, <2>k
  <2>u. ASSUME UNCHANGED disk PROVE f \in DOMAIN disk' /\ Grown(f)
    BY <2>k, <2>u
  <2>r. (* files that may be removed are not full *)
        ASSUME Adopted, f \in Range(state.filenames)
        PROVE  Len(disk[f]) < settings.max_events_per_file
    <3>1. Len(disk[f]) <= state.num_events_written BY <2>r DEF IInv, NamesInv
    <3>2. state.num_events_written \in Nat /\ settings.max_events_per_file \in Nat
      BY WriterAssumption DEF IInv, Typed, Settings, WriteState
    <3> QED BY <2>0, <3>1, <3>2 DEF IInv, CountInv
  <2>w. ASSUME Adopted, NEW names \in SUBSET Range(state.filenames), disk' = Without(disk, names)
        PROVE  IF f \in DOMAIN disk' THEN Grown(f)
               ELSE Len(disk[f]) < settings.max_events_per_file
    <3>1. DOMAIN disk' = DOMAIN disk \ names BY <2>w DEF Without, Restrict
    <3>2. CASE f \in names BY <2>r, <2>w, <3>1, <3>2
    <3>3. CASE f \notin names
      <4>1. disk'[f] = disk[f] BY <2>w, <3>3 DEF Without, Restrict
      <4> QED BY <2>k, <3>1, <3>3, <4>1
    <3> QED BY <3>2, <3>3
  <2> HIDE DEF Grown
  <2>1. CASE Outside
    BY <2>1, <2>u, OutsideControl DEF IInv, writing
  <2>2. CASE CommandSteps
    <3>1. Adopted /\ DeletedAtFinish(state) \in SUBSET Range(state.filenames)
      BY <2>2 DEF IInv, ControlInv, PhaseInv, CommandSteps, Start, Unconfigure, ClearContexts,
                  Adopted, DeletedAtFinish
    <3>2. UNCHANGED disk \/ disk' = Without(disk, DeletedAtFinish(state))
      BY <2>2 DEF IInv, ControlInv, PhaseInv, CommandSteps, Start, Unconfigure, ClearContexts
    <3> QED BY <2>u, <2>w, <3>1, <3>2
  <2>3. CASE FlusherStops
    <3>1. Adopted
      BY <2>3 DEF IInv, ControlInv, PhaseInv, FlusherStops, Adopted
    <3> QED BY <2>3, <2>u, <2>w, <3>1 DEF FlusherStops
  <2>4. CASE OpenStreams \/ OpenStreamsFails
    <3>1. PICK names \in SUBSET Range(state.filenames) : disk' = Opened(names, continuing)
      <4>1. CASE OpenStreams BY <4>1 DEF OpenStreams
      <4>2. CASE OpenStreamsFails
        <5>1. PICK k \in 0..(Len(state.filenames) - 1) :
                disk' = Opened(Range(SubSeq(state.filenames, 1, k)), continuing)
          BY <4>2 DEF OpenStreamsFails
        <5>2. state.filenames \in Seq(Name) BY DEF IInv, Typed, WriteState
        <5>3. Range(SubSeq(state.filenames, 1, k)) \in SUBSET Range(state.filenames)
          <6> DEFINE s == state.filenames
          <6>1. s \in Seq(Name) /\ Len(s) \in Nat /\ DOMAIN s = 1..Len(s)
            BY <5>2, LenProperties
          <6>2. /\ DOMAIN SubSeq(s, 1, k) = 1..k
                /\ \A i \in 1..k : SubSeq(s, 1, k)[i] = s[i]
            BY <6>1
          <6> QED BY <6>1, <6>2 DEF Range
        <5> QED BY <5>1, <5>3
      <4> QED BY <2>4, <4>1, <4>2
    <3>2. flusher = "open" BY <2>4 DEF OpenStreams, OpenStreamsFails
    <3>3. continuing \/ f \notin names
      BY <3>2 DEF NewNames
    <3>4. f \in DOMAIN disk' /\ disk'[f] = disk[f]
      BY <3>1, <3>3 DEF Opened
    <3> QED BY <2>k, <3>4
  <2>5. CASE Flush
    <3>1. queue # <<>> /\ DOMAIN disk' = DOMAIN disk BY <2>5, FlushOrder DEF IInv
    <3>2. CASE f \notin Range(streams)
      BY <2>5, <2>k, <3>1, <3>2, FlushedFile DEF IInv
    <3>3. CASE f \in Range(streams)
      <4>1. \E x : disk'[f] = Append(disk[f], x)
        BY <2>5, <3>3 DEF Flush, Written
      <4>2. \A x : SubSeq(Append(disk[f], x), 1, Len(disk[f])) = disk[f]
                   /\ Len(Append(disk[f], x)) = Len(disk[f]) + 1
        BY <2>0, PrefixOfAppend
      <4>3. Len(disk[f]) <= Len(disk[f]) + 1 BY <2>0
      <4> QED BY <3>1, <4>1, <4>2, <4>3 DEF Grown
    <3> QED BY <3>2, <3>3
  <2>6. CASE FlusherSteps /\ UNCHANGED disk
    BY <2>6, <2>u
  <2> QED BY <2>1, <2>2, <2>3, <2>4, <2>5, <2>6, Kinds
       DEF FlusherSteps, FlusherRuns, FlusherTests, FlusherFindsEvent, FlusherSkips, FlusherTakes,
           Generate
<1>2. Spec => [][Grow]_vars
  BY <1>1, Inductive, NamesAreNew, PTL DEF Spec
<1> QED BY <1>2 DEF FilesOnlyGrow

-----------------------------------------------------------------------------
(* Nothing is lost.                                                        *)

(* Before a file name is made up the channels of the run are known. *)
LEMMA SetsHaveFiles == Spec => []ChannelsKnown
<1>1. Init => ChannelsKnown BY DEF Init, ChannelsKnown
<1>2. IInv /\ ChannelsKnown /\ [Next]_vars => ChannelsKnown'
  <2> SUFFICES ASSUME IInv, ChannelsKnown, [Next]_vars PROVE ChannelsKnown'
    OBVIOUS
  <2>0. state \in WriteState /\ settings \in Settings
    BY WriterAssumption DEF IInv, Typed
  <2>1. CASE Outside
    <3>1. UNCHANGED writing BY <2>1, OutsideControl DEF IInv
    <3> QED BY <3>1 DEF ChannelsKnown, writing
  <2>2. CASE CommandSteps
    <3>1. flusher' \notin {"generate", "open", "write"}
      BY <2>2 DEF CommandSteps, Start, Unconfigure, ClearContexts, IInv, ControlInv, PhaseInv
    <3> QED BY <3>1 DEF ChannelsKnown
  <2>3. CASE FlusherTakes
    <3>1. PICK chs : /\ chs # <<>>
                     /\ \/ state' = [state EXCEPT !.caen_channels = chs]
                        \/ state' = state /\ state.caen_channels # <<>>
      BY <2>3 DEF FlusherTakes
    <3>2. state'.filenames = state.filenames /\ state'.caen_channels # <<>>
      BY <2>0, <3>1 DEF WriteState
    <3>3. flusher' \in {"open", "write"} => state.filenames # <<>>
      BY <2>3 DEF FlusherTakes, NextStep
    <3> QED BY <3>2, <3>3 DEF ChannelsKnown
  <2>4. CASE Generate
    <3>1. state.caen_channels # <<>> /\ state'.caen_channels = state.caen_channels
      <4> DEFINE numbered == [state EXCEPT !.filenum = (@ + 1) % FilenumMod]
      <4>1. \/ state' = [numbered EXCEPT !.error_code = "None", !.filenames = FileNames]
            \/ state' = [numbered EXCEPT !.error_code = NameConflict(FileNames), !.filenames = <<>>]
            \/ state' = [numbered EXCEPT !.error_code = NameConflict(FileNames)]
            \/ state' = [numbered EXCEPT !.error_code = "FilenamesNotChanged", !.filenames = <<>>]
        BY <2>4 DEF Generate
      <4>2. state'.caen_channels = state.caen_channels BY <2>0, <4>1 DEF WriteState
      <4> QED BY <2>4, <4>2 DEF Generate, ChannelsKnown
    <3>2. ASSUME flusher' \in {"open", "write"} PROVE state'.filenames # <<>>
      <4>1. state' = [[state EXCEPT !.filenum = (@ + 1) % FilenumMod]
                           EXCEPT !.error_code = "None", !.filenames = FileNames]
        BY <2>4, <3>2 DEF Generate, Skip
      <4>2. state'.filenames = FileNames BY <2>0, <4>1 DEF WriteState
      <4>3. 1 \in DOMAIN FileChannels
        <5>1. settings.file_splitting \in Splittings BY <2>0 DEF Settings
        <5>2. IsSeq(state.caen_channels) BY <2>0, SeqOf DEF WriteState
        <5>3. 1 \in DOMAIN state.caen_channels BY <3>1, <5>2, SeqDomain
        <5>4. 1 \in DOMAIN <<"">> /\ 1 \in DOMAIN <<"head", "">> OBVIOUS
        <5>5. 1 \in DOMAIN (<<"head">> \o state.caen_channels)
          BY <5>2, OneSeq, CatSeq
        <5> QED BY <5>1, <5>3, <5>4, <5>5 DEF FileChannels, Splittings
      <4>4. 1 \in DOMAIN FileNames BY <4>3, FileNamesType DEF IInv
      <4> QED BY <4>2, <4>4, NoneSeq
    <3> QED BY <3>1, <3>2 DEF ChannelsKnown
  <2>5. CASE OpenStreams
    BY <2>5 DEF OpenStreams, ChannelsKnown
  <2>6. CASE FlusherSteps /\ ~FlusherTakes /\ ~Generate /\ ~OpenStreams
    <3>1. flusher' \notin {"generate", "open", "write"}
      BY <2>6 DEF FlusherSteps, FlusherRuns, FlusherTests, FlusherFindsEvent, FlusherStops,
                  FlusherSkips, Flush, OpenStreamsFails, Skip
    <3> QED BY <3>1 DEF ChannelsKnown
  <2>7. CASE UNCHANGED vars
    BY <2>7 DEF vars, writing, ChannelsKnown
  <2> QED BY <2>1, <2>2, <2>3, <2>4, <2>5, <2>6, <2>7, Kinds
<1> QED BY <1>1, <1>2, Inductive, PTL DEF Spec

(* The producer has an event in its hands only on the way to the queue. *)
LEMMA ProducerHolds == Spec => []ProducerInv
<1>1. Init => ProducerInv BY DEF Init, ProducerInv
<1>2. ProducerInv /\ [Next]_vars => ProducerInv'
  <2> SUFFICES ASSUME ProducerInv, [Next]_vars PROVE ProducerInv'
    OBVIOUS
  <2> USE DEF ProducerInv
  <2>1. CASE Commands
    BY <2>1 DEF Commands, Start, Stop, Unconfigure, producing
  <2>2. CASE Stopping
    BY <2>2 DEF Stopping, StopWriters, KeepWriteState, ClearContexts, producing
  <2>3. CASE Runner
    BY <2>3 DEF Runner, RunnerStarts, RunnerReturns, Looping, commands
  <2>4. CASE ProducerReceives \/ ProducerRuns
    BY <2>4 DEF ProducerReceives, ProducerRuns, ProducerEnds, ProducerTests, ProducerWrites,
                ProducerGivesUp, Looping, commands
  <2>5. CASE FlusherRuns \/ OpenStreamsFails
    <3>1. UNCHANGED <<commands, producing>>
      BY <2>5 DEF FlusherRuns, FlusherTests, FlusherFindsEvent, FlusherStops, FlusherSkips,
                  FlusherTakes, Generate, OpenStreams, Flush, OpenStreamsFails
    <3> QED BY <3>1 DEF commands, producing
  <2>6. CASE Crash
    BY <2>6 DEF Crash, producing
  <2>7. CASE UNCHANGED vars
    BY <2>7 DEF vars, commands, producing
  <2> QED BY <2>1, <2>2, <2>3, <2>4, <2>5, <2>6, <2>7 DEF Next
<1> QED BY <1>1, <1>2, PTL DEF Spec

(* The events of a queue whose first is taken off. *)
LEMMA RestOfEvents ==
    ASSUME NEW s, IsSeq(s), s # <<>>
    PROVE  EventNumbers(s) \subseteq EventNumbers(Tail(s)) \cup {s[1].ev}
<1> SUFFICES ASSUME NEW i \in DOMAIN s, i # 1
             PROVE  \E j \in DOMAIN Tail(s) : s[i].ev = Tail(s)[j].ev
  BY DEF EventNumbers
<1>1. DOMAIN s = 1..Len(s) /\ Len(s) \in Nat BY SeqDomain
<1>2. IsSeq(Tail(s)) /\ Len(Tail(s)) = Len(s) - 1
      /\ \A j \in DOMAIN Tail(s) : Tail(s)[j] = s[j + 1]
  BY TailSeq
<1>3. DOMAIN Tail(s) = 1..Len(Tail(s)) BY <1>2, SeqDomain
<1>4. i - 1 \in DOMAIN Tail(s) /\ (i - 1) + 1 = i BY <1>1, <1>2, <1>3
<1> QED BY <1>2, <1>4

(* An event that is written is on the disk, next to those that were. *)
LEMMA FlushKeeps ==
    ASSUME IInv, ChannelsKnown, Flush
    PROVE  OnDisk \cup {queue[1].ev} \subseteq OnDisk'
<1>0. queue # <<>> /\ DOMAIN disk' = DOMAIN disk /\ streams = state.filenames
  BY FlushOrder DEF IInv
<1>1. ASSUME NEW f \in DOMAIN disk PROVE EventsIn(f) \subseteq EventsIn(f)'
  <2>1. \A i \in DOMAIN disk[f] : i \in DOMAIN disk'[f] /\ disk'[f][i] = disk[f][i]
    BY <1>0, <1>1, FlushedFile DEF IInv
  <2> QED BY <2>1 DEF EventsIn
<1>2. OnDisk \subseteq OnDisk' BY <1>0, <1>1 DEF OnDisk
<1>3. streams # <<>> /\ IsSeq(streams)
  BY <1>0, SeqOf DEF Flush, ChannelsKnown, IInv, Typed
<1>4. 1 \in DOMAIN streams BY <1>3, SeqDomain
<1>5. PICK f : f \in Range(streams) BY <1>4 DEF Range
<1>6. Adopted BY DEF Flush, Adopted, IInv, ControlInv, PhaseInv
<1>7. f \in DOMAIN disk BY <1>0, <1>5, <1>6 DEF IInv, NamesInv
<1>8. queue[1].ev \in EventsIn(f)'
  <2>1. Len(disk[f]) + 1 \in DOMAIN disk'[f] /\ disk'[f][Len(disk[f]) + 1].ev = queue[1].ev
    BY <1>0, <1>5, <1>7, FlushedFile DEF IInv
  <2> QED BY <2>1 DEF EventsIn
<1>9. queue[1].ev \in OnDisk' BY <1>0, <1>7, <1>8 DEF OnDisk
<1> QED BY <1>2, <1>9

(***************************************************************************)
(* Unless files may be overwritten, every event with data that was         *)
(* received since the start is on the disk, in the payload queue or in the *)
(* hands of the producer as long as the run goes on without an error, over *)
(* every rotation, empty event and search for a free file name.  (With     *)
(* "Overwrite" this depends on the file number not wrapping round within   *)
(* the run, a bound of the model.)                                         *)
(***************************************************************************)
THEOREM NoEventLost ==
    Spec => [](settings.when_name_conflict # "Overwrite" => NothingLost)
<1> DEFINE There == OnDisk \cup EventNumbers(queue) \cup EventNumbers(held)
<1>1. Init => KeptInv BY DEF Init, KeptInv
<1>2. IInv /\ NewNames /\ ChannelsKnown /\ ProducerInv /\ KeptInv /\ [Next]_vars => KeptInv'
  <2> SUFFICES ASSUME IInv, NewNames, ChannelsKnown, ProducerInv, KeptInv, [Next]_vars, Keeping'
               PROVE  got' \subseteq There'
    BY DEF KeptInv
  <2>0. /\ state \in WriteState /\ IsSeq(queue) /\ IsSeq(held)
        /\ Keeping => got \subseteq There
    BY DEF IInv, Typed, KeptInv
  <2>1. CASE Outside
    <3>1. UNCHANGED <<settings, disk, state, flusher>>
      BY <2>1, OutsideControl DEF IInv, writing
    <3>2. OnDisk' = OnDisk BY <3>1 DEF OnDisk, EventsIn
    <3>3. Keeping
      BY <2>1, <3>1 DEF Keeping, Alive, Outside, Stop, StopWriters, KeepWriteState, Runner,
           RunnerStarts, RunnerReturns, ProducerReceives, ProducerRuns, ProducerEnds,
           ProducerTests, ProducerWrites, ProducerGivesUp, Crash, commands
    <3>4. CASE ProducerReceives
      <4>1. PICK l : held' = <<[ev |-> nextEv, chs |-> l]>>
        BY <3>4 DEF ProducerReceives
      <4>2. got' \subseteq got \cup {nextEv} /\ queue' = queue BY <3>4 DEF ProducerReceives
      <4>3. held = <<>> BY <3>4 DEF ProducerReceives, ProducerInv
      <4>4. EventNumbers(held) = {} BY <4>3, NoneSeq DEF EventNumbers
      <4>5. DOMAIN held' = {1} /\ held'[1] = [ev |-> nextEv, chs |-> l] BY <4>1, OneSeq
      <4>6. nextEv \in EventNumbers(held') BY <4>5 DEF EventNumbers
      <4> QED BY <2>0, <3>2, <3>3, <4>2, <4>4, <4>6
    <3>5. CASE ProducerWrites
      <4>1. queue' = queue \o held /\ got' = got BY <3>5 DEF ProducerWrites
      <4>2. EventNumbers(queue) \cup EventNumbers(held) \subseteq EventNumbers(queue \o held)
        <5>1. \A i \in DOMAIN queue : i \in DOMAIN (queue \o held) /\ (queue \o held)[i] = queue[i]
          BY <2>0, CatSeq
        <5>2. \A i \in DOMAIN held : Len(queue) + i \in DOMAIN (queue \o held)
                                     /\ (queue \o held)[Len(queue) + i] = held[i]
          BY <2>0, CatSeq
        <5> QED BY <5>1, <5>2, Zenon DEF EventNumbers
      <4> QED BY <2>0, <3>2, <3>3, <4>1, <4>2
    <3>6. CASE Outside /\ ~ProducerReceives /\ ~ProducerWrites
      <4>1. got' = got /\ queue' = queue /\ held' = held
        BY <3>6 DEF Keeping, Outside, Stop, StopWriters, KeepWriteState, Runner, RunnerStarts,
             RunnerReturns, ProducerRuns, ProducerEnds, ProducerTests, ProducerGivesUp, Crash,
             commands, producing
      <4> QED BY <2>0, <3>2, <3>3, <4>1
    <3> QED BY <2>1, <3>4, <3>5, <3>6
  <2>2. CASE CommandSteps
    <3>1. got' = {}
      BY <2>2 DEF Keeping, CommandSteps, Start, Unconfigure, ClearContexts, IInv, ControlInv,
                  PhaseInv
    <3> QED BY <3>1
  <2>3. CASE FlusherSteps
    <3>0. /\ mrun /\ Alive /\ settings.when_name_conflict # "Overwrite" /\ ~stopWriters
          /\ got' = got /\ held' = held
      <4>1. UNCHANGED <<settings, commands, producing>> BY <2>3, FlusherQueue DEF IInv
      <4> QED BY <4>1 DEF Keeping, Alive, commands, producing, IInv, ControlInv, PhaseInv
    <3>k. ASSUME Keeping, OnDisk \subseteq OnDisk',
                 got \cap EventNumbers(queue) \subseteq OnDisk' \cup EventNumbers(queue')
          PROVE  got' \subseteq There'
      BY <2>0, <3>0, <3>k
    <3>d. disk' = disk => OnDisk' = OnDisk BY DEF OnDisk, EventsIn
    <3> HIDE DEF There
    <3>q. AtWork => queue # <<>> /\ Head(queue) = queue[1] /\ 1 \in DOMAIN queue
                    /\ EventNumbers(queue) \subseteq EventNumbers(Tail(queue)) \cup {queue[1].ev}
      BY <2>0, TailSeq, SeqDomain, RestOfEvents DEF IInv, ControlInv, FlusherInv
    <3>1. CASE FlusherTests \/ FlusherFindsEvent
      <4>1. disk' = disk /\ queue' = queue /\ state' = state /\ flusher' # "generate"
        BY <3>1 DEF FlusherTests, FlusherFindsEvent
      <4>2. Keeping BY <3>0, <4>1 DEF Keeping
      <4> QED BY <3>k, <3>d, <4>1, <4>2
    <3>2. CASE FlusherStops
      BY <3>0, <3>2 DEF FlusherStops
    <3>3. CASE FlusherSkips
      <4>1. disk' = disk /\ queue' = Tail(queue) /\ state' = state /\ flusher' = "outer"
            /\ flusher = "take" /\ (Head(queue).chs = <<>> \/ state.error_code # "None")
        BY <3>3 DEF FlusherSkips, Skip
      <4>2. Keeping /\ state.error_code = "None" BY <3>0, <4>1 DEF Keeping
      <4>3. queue[1].chs = <<>> /\ 1 \in DOMAIN queue BY <3>q, <4>1, <4>2 DEF AtWork
      <4>4. queue[1].ev \notin got BY <4>1, <4>3 DEF IInv, RawInv
      <4>5. EventNumbers(queue) \subseteq EventNumbers(queue') \cup {queue[1].ev}
        BY <3>q, <4>1 DEF AtWork
      <4> QED BY <3>k, <3>d, <4>1, <4>2, <4>4, <4>5
    <3>4. CASE FlusherTakes
      <4>1. disk' = disk /\ state.error_code = "None" BY <3>4 DEF FlusherTakes
      <4>2. Keeping BY <3>0, <4>1 DEF Keeping
      <4>3. queue # <<>> BY <3>4, <3>q DEF FlusherTakes, AtWork
      <4>4. queue' # Tail(queue) \/ flusher' # "outer"
        BY <3>4 DEF FlusherTakes, NextStep
      <4>5. DOMAIN queue' = DOMAIN queue /\ \A i \in DOMAIN queue : queue'[i].ev = queue[i].ev
        BY <2>3, <4>4, FlusherQueue DEF IInv, Skip
      <4>6. EventNumbers(queue) \subseteq EventNumbers(queue') BY <4>5 DEF EventNumbers
      <4> QED BY <3>k, <3>d, <4>1, <4>2, <4>6
    <3>5. CASE Generate
      <4>1. disk' = disk /\ flusher = "generate" BY <3>5 DEF Generate
      <4>2. Keeping BY <3>0, <4>1 DEF Keeping
      <4>3. queue' = queue
        <5> SUFFICES ASSUME queue' # queue PROVE FALSE
          OBVIOUS
        <5> DEFINE numbered == [state EXCEPT !.filenum = (@ + 1) % FilenumMod]
        <5>1. PICK c : /\ c # "None" /\ flusher' = "outer"
                       /\ state' = [numbered EXCEPT !.error_code = c, !.filenames = <<>>]
          BY <3>5 DEF Generate, Skip
        <5>2. state'.error_code = c BY <2>0, <5>1 DEF WriteState
        <5> QED BY <5>1, <5>2 DEF Keeping
      <4> QED BY <3>k, <3>d, <4>1, <4>2, <4>3
    <3>6. CASE OpenStreams
      <4>1. queue' = queue /\ state' = state /\ flusher' = "write" /\ flusher = "open"
            /\ disk' = Opened(Range(state.filenames), continuing)
        BY <3>6 DEF OpenStreams
      <4>2. Keeping BY <3>0, <4>1 DEF Keeping
      <4>3. \A f \in DOMAIN disk : f \in DOMAIN disk' /\ disk'[f] = disk[f]
        BY <3>0, <4>1 DEF Opened, NewNames
      <4>4. OnDisk \subseteq OnDisk' BY <4>3 DEF OnDisk, EventsIn
      <4> QED BY <3>k, <4>1, <4>2, <4>4
    <3>7. CASE OpenStreamsFails
      <4>1. flusher' = "outer"
            /\ state' = [state EXCEPT !.error_code = "FilestreamsNotOpened", !.filenames = <<>>]
        BY <3>7 DEF OpenStreamsFails, Skip
      <4>2. state'.error_code = "FilestreamsNotOpened" BY <2>0, <4>1 DEF WriteState
      <4> QED BY <4>1, <4>2 DEF Keeping
    <3>8. CASE Flush
      <4>1. flusher = "write" /\ queue' = Tail(queue) BY <3>8 DEF Flush, Skip
      <4>2. Keeping BY <3>0, <4>1 DEF Keeping, IInv, ControlInv, FlusherInv
      <4>3. OnDisk \cup {queue[1].ev} \subseteq OnDisk' BY <3>8, FlushKeeps
      <4>4. EventNumbers(queue) \subseteq EventNumbers(queue') \cup {queue[1].ev}
        BY <3>q, <4>1 DEF AtWork
      <4> QED BY <3>k, <4>2, <4>3, <4>4
    <3> QED BY <2>3, <3>1, <3>2, <3>3, <3>4, <3>5, <3>6, <3>7, <3>8 DEF FlusherSteps, FlusherRuns
  <2>4. CASE UNCHANGED vars
    <3>1. UNCHANGED <<settings, phase, mrun, disk, flusher, state, got, queue, held>>
      BY <2>4 DEF vars, commands, producing, writing
    <3>2. Keeping /\ OnDisk' = OnDisk BY <3>1 DEF Keeping, Alive, OnDisk, EventsIn
    <3> QED BY <2>0, <3>1, <3>2
  <2> QED BY <2>1, <2>2, <2>3, <2>4, Kinds
<1>3. KeptInv => (settings.when_name_conflict # "Overwrite" => NothingLost)
  BY DEF KeptInv, Keeping, NothingLost
<1> QED BY <1>1, <1>2, <1>3, Inductive, NamesAreNew, SetsHaveFiles, ProducerHolds, PTL DEF Spec

-----------------------------------------------------------------------------
(***************************************************************************)
(* Types.  What a file gets of an event is taken from the event by the     *)
(* number of the file in its set, so TypeOK rests on an event having, once *)
(* it is normalised, at least as many channels as the run: normalize_event *)
(* adds those that are missing and removes none.                           *)
(***************************************************************************)

(* Induction over the natural numbers, for a set of them. *)
LEMMA NatSet ==
    ASSUME NEW T \in SUBSET Nat, 0 \in T, \A n \in T : n + 1 \in T
    PROVE  T = Nat
<1> SUFFICES ASSUME Nat \ T # {} PROVE FALSE
  OBVIOUS
<1>0. PICK R : R = OpToRel(<, Nat) OBVIOUS
<1>a. IsWellFoundedOn(R, Nat) BY <1>0, NatLessThanWellFounded, Zenon
<1>1. \E x \in Nat \ T : \A y \in Nat \ T : ~ (<<y, x>> \in R)
  <2> HIDE <1>0
  <2>1. Nat \ T \subseteq Nat OBVIOUS
  <2> QED BY <1>a, <2>1, WFMin, Zenon
<1>2. PICK x \in Nat \ T : \A y \in Nat \ T : ~ (y < x)
  BY <1>0, <1>1 DEF OpToRel
<1>3. x # 0 /\ x - 1 \in Nat /\ x - 1 < x /\ (x - 1) + 1 = x OBVIOUS
<1>4. x - 1 \in T BY <1>2, <1>3
<1> QED BY <1>2, <1>3, <1>4

(* What is in a part of a sequence is in the sequence. *)
LEMMA CatRange ==
    ASSUME NEW A, NEW s \in Seq(A), NEW t \in Seq(A)
    PROVE  s \o t \in Seq(A) /\ Range(s) \subseteq Range(s \o t) /\ Range(t) \subseteq Range(s \o t)
<1>2. PICK cat : cat = s \o t OBVIOUS
<1>3. /\ \A i \in DOMAIN s : i \in DOMAIN cat /\ cat[i] = s[i]
      /\ \A i \in DOMAIN t : Len(s) + i \in DOMAIN cat /\ cat[Len(s) + i] = t[i]
  <2>1. /\ \A i \in DOMAIN s : i \in DOMAIN (s \o t) /\ (s \o t)[i] = s[i]
        /\ \A i \in DOMAIN t : Len(s) + i \in DOMAIN (s \o t) /\ (s \o t)[Len(s) + i] = t[i]
    <3>1. \A i \in DOMAIN s : i \in DOMAIN (s \o t) /\ (s \o t)[i] = s[i]
      OBVIOUS
    <3>2. \A i \in DOMAIN t : Len(s) + i \in DOMAIN (s \o t) /\ (s \o t)[Len(s) + i] = t[i]
      OBVIOUS
    <3> QED BY <3>1, <3>2, Zenon
  <2> QED BY <1>2, <2>1
<1>4. Range(s) \subseteq Range(cat) /\ Range(t) \subseteq Range(cat)
  <2> HIDE <1>2
  <2> QED BY <1>3 DEF Range
<1>5. s \o t \in Seq(A) OBVIOUS
<1> QED BY <1>2, <1>4, <1>5

(* f has what Among has after each of the first m elements. *)
Picked(x, S) == IF x \in S THEN <<x>> ELSE <<>>
AmongTo(f, s, S, m) ==
    f = [n \in 0..m |-> IF n = 0 THEN <<>> ELSE f[n - 1] \o Picked(s[n], S)]

LEMMA AmongExists ==
    ASSUME NEW s, NEW S, NEW m \in Nat
    PROVE  \E f : AmongTo(f, s, S, m)
<1> DEFINE T == {k \in Nat : \E f : AmongTo(f, s, S, k)}
<1>1. 0 \in T
  <2>1. PICK f : f = [n \in 0..0 |-> <<>>] OBVIOUS
  <2>2. AmongTo(f, s, S, 0) BY <2>1 DEF AmongTo
  <2> QED BY <2>2
<1>2. ASSUME NEW k \in T PROVE k + 1 \in T
  <2>1. PICK f : AmongTo(f, s, S, k) OBVIOUS
  <2>2. PICK last : last = f[k] \o Picked(s[k + 1], S) OBVIOUS
  <2>3. PICK g : g = [n \in 0..(k + 1) |-> IF n = k + 1 THEN last ELSE f[n]] OBVIOUS
  <2>4. ASSUME NEW n \in 0..(k + 1)
        PROVE  g[n] = IF n = 0 THEN <<>> ELSE g[n - 1] \o Picked(s[n], S)
    <3>1. CASE n = k + 1
      <4>1. g[n] = last /\ n - 1 = k /\ k \in 0..(k + 1) /\ k # k + 1 /\ n # 0 BY <2>3, <3>1
      <4>2. g[n - 1] = f[k] BY <2>3, <4>1
      <4> QED BY <2>2, <3>1, <4>1, <4>2
    <3>2. CASE n # k + 1
      <4>1. n \in 0..k /\ g[n] = f[n] BY <2>3, <3>2
      <4>2. f[n] = IF n = 0 THEN <<>> ELSE f[n - 1] \o Picked(s[n], S)
        BY <2>1, <4>1 DEF AmongTo
      <4>3. n # 0 => g[n - 1] = f[n - 1] BY <2>3, <4>1
      <4> QED BY <4>1, <4>2, <4>3
    <3> QED BY <3>1, <3>2
  <2>5. g = [n \in 0..(k + 1) |-> IF n = 0 THEN <<>> ELSE g[n - 1] \o Picked(s[n], S)]
    BY <2>3, <2>4
  <2>6. AmongTo(g, s, S, k + 1) BY <2>5 DEF AmongTo
  <2>7. k + 1 \in Nat OBVIOUS
  <2> QED BY <2>6, <2>7
<1>3. T \in SUBSET Nat OBVIOUS
<1>4. T = Nat
  <2> HIDE DEF T
  <2> QED BY <1>1, <1>2, <1>3, NatSet
<1> QED BY <1>4

(* Among is the recursion that it is defined by. *)
LEMMA AmongSteps ==
    ASSUME NEW s, NEW S, Len(s) \in Nat
    PROVE  \E f : /\ f[0] = <<>> /\ Among(s, S) = f[Len(s)]
                  /\ \A n \in 1..Len(s) : f[n] = f[n - 1] \o Picked(s[n], S)
<1>1. PICK f : f = CHOOSE g : AmongTo(g, s, S, Len(s)) OBVIOUS
<1>2. Among(s, S) = f[Len(s)] BY <1>1 DEF Among, AmongTo, Picked
<1>3. AmongTo(f, s, S, Len(s)) BY <1>1, AmongExists
<1>4. 0 \in 0..Len(s) /\ \A n \in 1..Len(s) : n \in 0..Len(s) /\ n # 0 OBVIOUS
<1> QED BY <1>2, <1>3, <1>4 DEF AmongTo

(* It yields a sequence of the elements that are in the set. *)
LEMMA AmongElements ==
    ASSUME NEW A, NEW s \in Seq(A), NEW S
    PROVE  /\ Among(s, S) \in Seq(A)
           /\ \A i \in 1..Len(s) : s[i] \in S => s[i] \in Range(Among(s, S))
<1>0. Len(s) \in Nat /\ \A i \in 1..Len(s) : s[i] \in A OBVIOUS
<1>1. PICK f : /\ f[0] = <<>> /\ Among(s, S) = f[Len(s)]
               /\ \A n \in 1..Len(s) : f[n] = f[n - 1] \o Picked(s[n], S)
  BY <1>0, AmongSteps
<1> DEFINE Ok(k) == f[k] \in Seq(A) /\ \A i \in 1..k : s[i] \in S => s[i] \in Range(f[k])
           T == {k \in Nat : k =< Len(s) => Ok(k)}
<1>2. 0 \in T
  <2>1. f[0] \in Seq(A) /\ 1..0 = {} BY <1>1
  <2> QED BY <2>1
<1>3. ASSUME NEW k \in T PROVE k + 1 \in T
  <2> SUFFICES ASSUME k + 1 =< Len(s) PROVE Ok(k + 1)
    OBVIOUS
  <2>1. Ok(k) /\ k + 1 \in 1..Len(s) /\ (k + 1) - 1 = k BY <1>0
  <2>2. PICK a \in Seq(A) : a = f[k] BY <2>1
  <2>3. PICK x \in A : x = s[k + 1] BY <1>0, <2>1
  <2>4. Picked(x, S) \in Seq(A) /\ (x \in S => x \in Range(Picked(x, S)))
    <3>1. <<>> \in Seq(A) /\ <<x>> \in Seq(A) OBVIOUS
    <3>2. x \in Range(<<x>>) BY OneSeq DEF Range
    <3> QED BY <3>1, <3>2 DEF Picked
  <2>5. PICK b \in Seq(A) : b = Picked(x, S) BY <2>4
  <2>6. f[k + 1] = a \o b BY <1>1, <2>1, <2>2, <2>3, <2>5
  <2>7. f[k + 1] \in Seq(A) BY <2>6
  <2>8. Range(a) \subseteq Range(f[k + 1]) /\ Range(b) \subseteq Range(f[k + 1])
    <3>1. Range(a) \subseteq Range(a \o b) /\ Range(b) \subseteq Range(a \o b) BY CatRange
    <3> QED BY <2>6, <3>1, Zenon
  <2>9. \A i : i \in 1..(k + 1) => i \in 1..k \/ i = k + 1 OBVIOUS
  <2> QED BY <2>1, <2>2, <2>3, <2>4, <2>5, <2>7, <2>8, <2>9
<1>4. T = Nat
  <2> HIDE DEF T
  <2>1. T \in SUBSET Nat BY DEF T
  <2> QED BY <1>2, <1>3, <2>1, NatSet
<1>5. Len(s) \in T BY <1>0, <1>4
<1>6. Ok(Len(s)) BY <1>5
<1> QED BY <1>1, <1>6

(* A sequence without repetition is no longer than one that has all its    *)
(* elements.                                                               *)
LEMMA LongEnough ==
    ASSUME NEW A, NEW s \in Seq(A), IsInjective(s), NEW t \in Seq(A), Range(s) \subseteq Range(t)
    PROVE  Len(s) <= Len(t)
<1>0. /\ Len(s) \in Nat /\ DOMAIN s = 1..Len(s) /\ Len(t) \in Nat /\ DOMAIN t = 1..Len(t)
  OBVIOUS
<1>1. PICK f : f = [i \in 1..Len(s) |-> CHOOSE j \in 1..Len(t) : t[j] = s[i]] OBVIOUS
<1>2. ASSUME NEW i \in 1..Len(s) PROVE f[i] \in 1..Len(t) /\ t[f[i]] = s[i]
  <2>1. \E j \in 1..Len(t) : t[j] = s[i] BY <1>0 DEF Range
  <2> QED BY <1>1, <2>1
<1>3. f \in [1..Len(s) -> 1..Len(t)] BY <1>1, <1>2
<1>4. \A i, j \in 1..Len(s) : f[i] = f[j] => i = j
  <2> SUFFICES ASSUME NEW i \in 1..Len(s), NEW j \in 1..Len(s), f[i] = f[j] PROVE i = j
    OBVIOUS
  <2>1. s[i] = s[j] BY <1>2, Zenon
  <2>2. i \in DOMAIN s /\ j \in DOMAIN s BY <1>0
  <2> QED BY <2>1, <2>2 DEF IsInjective
<1>5. /\ IsFiniteSet(1..Len(s)) /\ Cardinality(1..Len(s)) = Len(s)
      /\ IsFiniteSet(1..Len(t)) /\ Cardinality(1..Len(t)) = Len(t)
  <2>1. ASSUME NEW n \in Nat PROVE IsFiniteSet(1..n) /\ Cardinality(1..n) = n
    <3>1. 1 \in Int /\ n \in Int /\ (1 > n => n = 0) /\ n - 1 + 1 = n OBVIOUS
    <3>2. IsFiniteSet(1..n) /\ Cardinality(1..n) = IF 1 > n THEN 0 ELSE n - 1 + 1
      BY <3>1, FS_Interval
    <3> QED BY <3>1, <3>2
  <2> QED BY <1>0, <2>1
<1>6. ~(Len(t) < Len(s))
  <2> SUFFICES ASSUME Cardinality(1..Len(t)) < Cardinality(1..Len(s)) PROVE FALSE
    BY <1>5
  <2>1. \E i, j \in 1..Len(s) : i # j /\ f[i] = f[j]
    BY <1>3, <1>5, FS_PigeonHole, Zenon
  <2> QED BY <1>4, <2>1
<1> QED BY <1>0, <1>6

(* normalize_event yields channels, and no fewer than the run has. *)
LEMMA Normalized ==
    ASSUME NEW channels \in Seq(CaenChannels), IsInjective(channels), NEW chs \in Seq(CaenChannels)
    PROVE  /\ NormalizeEvent(channels, chs) \in Seq(CaenChannels)
           /\ Len(channels) <= Len(NormalizeEvent(channels, chs))
<1> DEFINE C == CaenChannels
<1>0. channels \in Seq(C) /\ chs \in Seq(C) OBVIOUS
<1>1. PICK added : added = Among(channels, Range(channels) \ Range(chs)) OBVIOUS
<1>2. added \in Seq(C) /\ Range(channels) \subseteq Range(chs) \cup Range(added)
  <2>1. added \in Seq(C) BY <1>1, AmongElements
  <2>2. \A i \in 1..Len(channels) : channels[i] \in Range(channels) \ Range(chs)
                                      => channels[i] \in Range(added)
    BY <1>1, AmongElements
  <2>3. DOMAIN channels = 1..Len(channels) OBVIOUS
  <2> QED BY <2>1, <2>2, <2>3 DEF Range
<1>3. PICK all \in Seq(C) : all = chs \o added BY <1>2, CatRange
<1>4. Range(channels) \subseteq Range(all)
  <2>1. Range(chs) \subseteq Range(chs \o added) /\ Range(added) \subseteq Range(chs \o added)
    BY <1>2, CatRange
  <2>2. Range(chs) \subseteq Range(all) /\ Range(added) \subseteq Range(all)
    BY <1>3, <2>1, Zenon
  <2> QED BY <1>2, <2>2
<1>5. Len(channels) <= Len(all) BY <1>4, LongEnough
<1>6. PICK kept \in Seq(C) : kept = Among(all, Range(channels)) BY AmongElements
<1>7. NormalizeEvent(channels, chs) = kept \o SubSeq(all, Len(kept) + 1, Len(all))
  BY <1>1, <1>3, <1>6 DEF NormalizeEvent
<1> HIDE DEF C
<1>8. PICK rest \in Seq(C) : /\ rest = SubSeq(all, Len(kept) + 1, Len(all))
                             /\ Len(rest) >= Len(all) - Len(kept)
  <2>1. Len(all) \in Nat /\ Len(kept) \in Nat OBVIOUS
  <2>2. SubSeq(all, Len(kept) + 1, Len(all)) \in Seq(C) BY <2>1
  <2>3. Len(SubSeq(all, Len(kept) + 1, Len(all))) >= Len(all) - Len(kept) BY <2>1
  <2> QED BY <2>2, <2>3
<1>9. kept \o rest \in Seq(C) /\ Len(kept \o rest) = Len(kept) + Len(rest) OBVIOUS
<1>10. Len(all) \in Nat /\ Len(kept) \in Nat /\ Len(rest) \in Nat /\ Len(channels) \in Nat
  BY <1>0
<1>11. NormalizeEvent(channels, chs) = kept \o rest BY <1>7, <1>8
<1>12. Len(channels) <= Len(kept \o rest) BY <1>5, <1>8, <1>9, <1>10
<1> QED BY <1>9, <1>11, <1>12 DEF C

(* The channels of the run are those of an event as it was received; a set *)
(* has no more files than there are channels, and a header where the files *)
(* are split so.                                                           *)
NamesFit(st) ==
    /\ st.caen_channels \in ChannelLists \cup {<<>>}
    /\ settings.file_splitting = "FilePerChannel" => Len(st.filenames) <= Len(st.caen_channels)
    /\ settings.file_splitting = "FilePerChannelHead" =>
         Len(st.filenames) <= Len(st.caen_channels) + 1

(* The event in the hands of the flusher has all channels of the run. *)
FitInv ==
    /\ NamesFit(state)
    /\ flusher \in {"generate", "open", "write"} => Len(state.caen_channels) <= Len(queue[1].chs)

EventsTyped == held \in Seq(Event) /\ queue \in Seq(Event) /\ Len(queue) <= QueueCap

DiskTyped == DOMAIN disk \subseteq Name /\ \A f \in DOMAIN disk : disk[f] \in Seq(Entry)

ControlTyped ==
    /\ phase \in {"idle", "running", "joining", "stopping", "clearing",
                  "unconfigured", "crashed"}
    /\ mrun \in BOOLEAN /\ stopWriters \in BOOLEAN /\ continuing \in BOOLEAN
    /\ runner \in {"none", "starting", "up"}
    /\ producer \in {"none", "receiving", "received", "writing", "returned"}
    /\ flusher \in {"none", "outer", "inner", "take", "generate", "open", "write", "returned"}
    /\ starts \in 0..MaxStarts

TypeInv == FitInv /\ EventsTyped /\ DiskTyped /\ ControlTyped

(* The control state keeps its type. *)
LEMMA ControlTypes ==
    ASSUME ControlTyped, [Next]_vars
    PROVE  ControlTyped'
<1> USE DEF ControlTyped
<1>1. CASE Commands
  <2>1. ASSUME NEW r \in RunNumbers, Start(r) PROVE ControlTyped'
    <3>1. starts' \in 0..MaxStarts BY <2>1, WriterAssumption DEF Start
    <3>2. continuing' \in BOOLEAN BY <2>1 DEF Start
    <3> QED BY <2>1, <3>1, <3>2 DEF Start
  <2>2. CASE Stop BY <2>2 DEF Stop, producing, writing
  <2>3. CASE Unconfigure BY <2>3 DEF Unconfigure, producing
  <2> QED BY <1>1, <2>1, <2>2, <2>3 DEF Commands
<1>2. CASE Stopping
  BY <1>2 DEF Stopping, StopWriters, KeepWriteState, ClearContexts, producing, writing
<1>3. CASE Runner
  BY <1>3 DEF Runner, RunnerStarts, RunnerReturns, Looping, commands, writing
<1>4. CASE ProducerReceives \/ ProducerRuns
  BY <1>4 DEF ProducerReceives, ProducerRuns, ProducerEnds, ProducerTests, ProducerWrites,
              ProducerGivesUp, Looping, commands, writing
<1>5. CASE FlusherRuns \/ OpenStreamsFails
  <2>1. UNCHANGED <<commands, producing>> /\ continuing' \in {continuing, FALSE}
    BY <1>5 DEF FlusherRuns, FlusherTests, FlusherFindsEvent, FlusherStops, FlusherSkips,
                FlusherTakes, Generate, OpenStreams, Flush, OpenStreamsFails
  <2>2. flusher' \in {"outer", "inner", "take", "generate", "open", "write", "returned"}
    BY <1>5 DEF FlusherRuns, FlusherTests, FlusherFindsEvent, FlusherStops, FlusherSkips,
                FlusherTakes, Generate, OpenStreams, Flush, OpenStreamsFails, Skip, NextStep
  <2> QED BY <2>1, <2>2 DEF commands, producing
<1>6. CASE Crash
  BY <1>6 DEF Crash, producing, writing
<1>7. CASE UNCHANGED vars
  BY <1>7 DEF vars, commands, producing, writing
<1> QED BY <1>1, <1>2, <1>3, <1>4, <1>5, <1>6, <1>7 DEF Next

(* An event as it is received, and the channel lists. *)
LEMMA Received ==
    ASSUME NEW l \in ChannelLists
    PROVE  l \in Seq(CaenChannels) /\ IsInjective(l) /\ <<>> \in Seq(CaenChannels)
BY WriterAssumption

(* What the flusher does to the first event. *)
LEMMA TakenEvent ==
    ASSUME IInv, FitInv, EventsTyped, FlusherTakes
    PROVE  /\ queue # <<>> /\ Head(queue) = queue[1] /\ 1 \in DOMAIN queue
           /\ queue[1] \in Event /\ queue[1].chs \in ChannelLists
           /\ state.caen_channels # <<>> =>
                \E c \in Seq(CaenChannels) :
                   /\ Len(state.caen_channels) <= Len(c)
                   /\ queue' = [queue EXCEPT ![1] = [ev |-> queue[1].ev, chs |-> c]]
<1>1. queue # <<>> /\ flusher = "take"
  BY DEF FlusherTakes, IInv, ControlInv, FlusherInv, AtWork
<1>2. Head(queue) = queue[1] /\ 1 \in DOMAIN queue
  BY <1>1, TailSeq, SeqDomain DEF IInv, Typed
<1>3. queue[1] \in Event BY <1>1 DEF EventsTyped
<1>4. queue[1].chs \in ChannelLists BY <1>1, <1>2 DEF IInv, RawInv
<1>5. ASSUME state.caen_channels # <<>>
      PROVE  \E c \in Seq(CaenChannels) :
                /\ Len(state.caen_channels) <= Len(c)
                /\ queue' = [queue EXCEPT ![1] = [ev |-> queue[1].ev, chs |-> c]]
  <2>1. state.caen_channels \in ChannelLists BY <1>5 DEF FitInv, NamesFit
  <2>2. PICK c : c = NormalizeEvent(state.caen_channels, queue[1].chs) OBVIOUS
  <2>3. c \in Seq(CaenChannels) /\ Len(state.caen_channels) <= Len(c)
    BY <1>4, <2>1, <2>2, Received, Normalized
  <2>4. queue' = [queue EXCEPT ![1].chs = c]
    BY <1>2, <1>5, <2>2 DEF FlusherTakes
  <2>5. [queue[1] EXCEPT !.chs = c] = [ev |-> queue[1].ev, chs |-> c] BY <1>3 DEF Event
  <2>6. queue' = [queue EXCEPT ![1] = [ev |-> queue[1].ev, chs |-> c]]
    BY <2>4, <2>5
  <2> QED BY <2>3, <2>6
<1> QED BY <1>1, <1>2, <1>3, <1>4, <1>5

(* Events keep their type, and the queue is not overfilled. *)
LEMMA EventTypes ==
    ASSUME IInv, FitInv, EventsTyped, [Next]_vars
    PROVE  EventsTyped'
<1>0. /\ held \in Seq(Event) /\ queue \in Seq(Event) /\ Len(queue) <= QueueCap /\ QueueCap \in Nat
      /\ <<>> \in Seq(Event) /\ Len(<<>>) = 0 /\ Len(held) <= 1
  BY WriterAssumption DEF EventsTyped, IInv, OrderInv
<1>1. CASE ProducerReceives
  <2>1. PICK l \in ChannelLists : held' = <<[ev |-> nextEv, chs |-> l]>>
    BY <1>1 DEF ProducerReceives
  <2>2. [ev |-> nextEv, chs |-> l] \in Event BY Received DEF Event, IInv, Typed
  <2>3. held' \in Seq(Event) BY <2>1, <2>2
  <2> QED BY <1>0, <1>1, <2>3 DEF ProducerReceives, EventsTyped
<1>2. CASE ProducerWrites
  <2>1. queue \o held \in Seq(Event) /\ Len(queue \o held) = Len(queue) + Len(held)
    BY <1>0
  <2>2. Len(queue) < QueueCap BY <1>2 DEF ProducerWrites
  <2>3. Len(queue) \in Nat /\ Len(held) \in Nat BY <1>0
  <2>4. Len(queue \o held) <= QueueCap BY <1>0, <2>1, <2>2, <2>3
  <2>5. queue' = queue \o held /\ held' = <<>> BY <1>2 DEF ProducerWrites
  <2> QED BY <1>0, <2>1, <2>4, <2>5 DEF EventsTyped
<1>3. CASE FlusherTakes
  <2>1. held' = held BY <1>3 DEF FlusherTakes, producing
  <2>2. CASE state.caen_channels = <<>>
    BY <1>0, <1>3, <2>1, <2>2 DEF FlusherTakes, EventsTyped
  <2>3. CASE state.caen_channels # <<>>
    <3>1. PICK c \in Seq(CaenChannels) : queue' = [queue EXCEPT ![1] = [ev |-> queue[1].ev, chs |-> c]]
      BY <1>3, <2>3, TakenEvent
    <3>2. PICK e \in Event : e = [ev |-> queue[1].ev, chs |-> c]
      BY <1>3, TakenEvent DEF Event
    <3>3. queue' = [queue EXCEPT ![1] = e] BY <3>1, <3>2
    <3>4. [queue EXCEPT ![1] = e] \in Seq(Event) /\ Len([queue EXCEPT ![1] = e]) = Len(queue)
      BY <1>0, <1>3, TakenEvent
    <3> QED BY <1>0, <2>1, <3>3, <3>4 DEF EventsTyped
  <2> QED BY <2>2, <2>3
<1>4. CASE Skip /\ queue # <<>> /\ UNCHANGED producing
  <2>1. Tail(queue) \in Seq(Event) /\ Len(Tail(queue)) = Len(queue) - 1 BY <1>0, <1>4
  <2>2. Len(Tail(queue)) <= QueueCap BY <1>0, <2>1
  <2> QED BY <1>0, <1>4, <2>1, <2>2 DEF Skip, producing, EventsTyped
<1>5. CASE held' \in {held, <<>>} /\ queue' \in {queue, <<>>}
  <2>1. PICK none : none = <<>> OBVIOUS
  <2>2. none \in Seq(Event) /\ Len(none) <= QueueCap BY <1>0, <2>1
  <2>3. held' \in {held, none} /\ queue' \in {queue, none} BY <1>5, <2>1
  <2> HIDE <1>5, <2>1
  <2> QED BY <1>0, <2>2, <2>3 DEF EventsTyped
<1>6. AtWork => queue # <<>> BY DEF IInv, ControlInv, FlusherInv
<1>7. CASE Commands \/ Stopping \/ Runner \/ Crash
  BY <1>5, <1>7 DEF Commands, Stopping, Runner, Start, Stop, Unconfigure, StopWriters, KeepWriteState,
                    ClearContexts, RunnerStarts, RunnerReturns, Crash, producing
<1>8. CASE ProducerRuns
  BY <1>2, <1>5, <1>8 DEF ProducerRuns, ProducerEnds, ProducerTests, ProducerGivesUp
<1>9. CASE FlusherRuns \/ OpenStreamsFails
  <2>1. CASE FlusherTests \/ FlusherFindsEvent \/ FlusherStops \/ OpenStreams
    BY <1>5, <2>1 DEF FlusherTests, FlusherFindsEvent, FlusherStops, OpenStreams, producing
  <2>2. CASE FlusherSkips \/ Flush \/ OpenStreamsFails
    BY <1>4, <1>6, <2>2 DEF FlusherSkips, Flush, OpenStreamsFails, AtWork
  <2>3. CASE Generate
    <3>1. UNCHANGED producing /\ (Skip \/ UNCHANGED queue) /\ queue # <<>>
      BY <1>6, <2>3 DEF Generate, AtWork
    <3> QED BY <1>4, <1>5, <3>1 DEF producing
  <2> QED BY <1>3, <1>9, <2>1, <2>2, <2>3 DEF FlusherRuns
<1>10. CASE UNCHANGED vars
  BY <1>5, <1>10 DEF vars, producing
<1> QED BY <1>1, <1>7, <1>8, <1>9, <1>10 DEF Next

(* A write state with the same channels and the same files, or none, fits. *)
LEMMA FitKept ==
    ASSUME NEW st \in WriteState, NamesFit(st), NEW st2, settings' = settings,
           \/ st2.caen_channels = st.caen_channels /\ st2.filenames \in {st.filenames, <<>>}
           \/ st2.caen_channels = <<>> /\ st2.filenames = <<>>
    PROVE  /\ st2.caen_channels \in ChannelLists \cup {<<>>}
           /\ settings'.file_splitting = "FilePerChannel" =>
                Len(st2.filenames) <= Len(st2.caen_channels)
           /\ settings'.file_splitting = "FilePerChannelHead" =>
                Len(st2.filenames) <= Len(st2.caen_channels) + 1
<1>1. PICK n \in Nat, c \in Nat : n = Len(st.filenames) /\ c = Len(st.caen_channels)
  BY DEF WriteState
<1>2. Len(<<>>) = 0 OBVIOUS
<1>3. 0 <= c /\ 0 <= c + 1 /\ 0 <= 0 /\ 0 <= 0 + 1 OBVIOUS
<1>4. CASE st2.caen_channels = st.caen_channels /\ st2.filenames = st.filenames
  BY <1>4 DEF NamesFit
<1>5. CASE st2.caen_channels = st.caen_channels /\ st2.filenames = <<>>
  <2>1. Len(st2.filenames) = 0 /\ Len(st2.caen_channels) = c BY <1>1, <1>2, <1>5
  <2>2. st2.caen_channels \in ChannelLists \cup {<<>>} BY <1>5 DEF NamesFit
  <2> HIDE <1>5
  <2> QED BY <1>3, <2>1, <2>2
<1>6. CASE st2.caen_channels = <<>> /\ st2.filenames = <<>>
  BY <1>2, <1>3, <1>6
<1> QED BY <1>4, <1>5, <1>6

(* There are as many names as the splitting of the files asks for. *)
LEMMA NamesMade ==
    ASSUME IInv
    PROVE  /\ settings.file_splitting = "FilePerChannel" =>
                Len(FileNames) = Len(state.caen_channels)
           /\ settings.file_splitting = "FilePerChannelHead" =>
                Len(FileNames) = Len(state.caen_channels) + 1
<1>0. Typed /\ state \in WriteState BY DEF IInv, Typed
<1>1. PICK c \in Seq(CaenChannels) : c = state.caen_channels BY <1>0 DEF WriteState
<1>2. IsSeq(FileNames) /\ DOMAIN FileNames = DOMAIN FileChannels
  BY <1>0, FileNamesType, SeqOf
<1>3. Len(FileNames) \in Nat /\ DOMAIN FileNames = 1..Len(FileNames) BY <1>2, SeqDomain
<1>4. ASSUME NEW m \in Nat, NEW n \in Nat, 1..m = 1..n PROVE m = n
  <2>1. CASE m < n
    <3>1. n \in 1..n /\ n \notin 1..m BY <2>1
    <3> QED BY <1>4, <3>1
  <2>2. CASE n < m
    <3>1. m \in 1..m /\ m \notin 1..n BY <2>2
    <3> QED BY <1>4, <3>1
  <2> QED BY <2>1, <2>2
<1>5. ASSUME settings.file_splitting = "FilePerChannel"
      PROVE  Len(FileNames) = Len(state.caen_channels)
  <2>1. FileChannels = c BY <1>1, <1>5 DEF FileChannels
  <2>2. DOMAIN c = 1..Len(c) /\ Len(c) \in Nat OBVIOUS
  <2> QED BY <1>1, <1>2, <1>3, <1>4, <2>1, <2>2
<1>6. ASSUME settings.file_splitting = "FilePerChannelHead"
      PROVE  Len(FileNames) = Len(state.caen_channels) + 1
  <2>1. FileChannels = <<"head">> \o c BY <1>1, <1>6 DEF FileChannels
  <2>2. c \in Seq(CaenChannels \cup {"head"}) /\ Len(c) \in Nat
    <3>1. c \in Seq(CaenChannels \cup {"head"}) BY SeqMonotonic
    <3> QED BY <3>1, LenProperties, Zenon
  <2>3. DOMAIN (<<"head">> \o c) = 1..(Len(c) + 1)
    <3>1. <<"head">> \in Seq(CaenChannels \cup {"head"}) /\ Len(<<"head">>) = 1 OBVIOUS
    <3>2. /\ <<"head">> \o c \in Seq(CaenChannels \cup {"head"})
          /\ Len(<<"head">> \o c) = Len(<<"head">>) + Len(c)
      BY <2>2, <3>1, ConcatProperties
    <3>3. DOMAIN (<<"head">> \o c) = 1..Len(<<"head">> \o c) BY <3>2, LenProperties
    <3>4. \A n \in Nat : 1 + n = n + 1 OBVIOUS
    <3>5. 1 + Len(c) = Len(c) + 1 BY <2>2, <3>4, Zenon
    <3> QED BY <3>1, <3>2, <3>3, <3>5, Zenon
  <2>4. 1..Len(FileNames) = 1..(Len(c) + 1) BY <1>2, <1>3, <2>1, <2>3
  <2>5. Len(FileNames) = Len(c) + 1
    <3>1. PICK m \in Nat : m = Len(FileNames) BY <1>3
    <3>2. PICK n \in Nat : n = Len(c) + 1 BY <2>2
    <3>3. 1..m = 1..n BY <2>4, <3>1, <3>2
    <3>4. m = n BY <1>4, <3>3
    <3> QED BY <3>1, <3>2, <3>4
  <2> QED BY <1>1, <2>5
<1> QED BY <1>5, <1>6

(* The files of a set fit the channels, and the event in hand has them. *)
LEMMA FitStep ==
    ASSUME IInv, FitInv, EventsTyped, [Next]_vars
    PROVE  FitInv'
<1>0. Typed /\ state \in WriteState /\ NamesFit(state) BY DEF IInv, Typed, FitInv
<1>s. settings' = settings
  <2>1. CASE Outside BY <2>1, OutsideControl DEF IInv
  <2>2. CASE FlusherSteps BY <2>2, FlusherQueue DEF IInv
  <2>3. CASE CommandSteps BY <2>3 DEF CommandSteps, Start, Unconfigure, ClearContexts
  <2>4. CASE UNCHANGED vars BY <2>4 DEF vars
  <2> QED BY <2>1, <2>2, <2>3, <2>4, Kinds
<1>k. ASSUME NEW st \in WriteState, NamesFit(st),
             \/ state'.caen_channels = st.caen_channels /\ state'.filenames \in {st.filenames, <<>>}
             \/ state'.caen_channels = <<>> /\ state'.filenames = <<>>
      PROVE  NamesFit(state)'
  BY <1>s, <1>k, FitKept DEF NamesFit
<1>1. CASE Outside
  <2>1. UNCHANGED writing BY <1>1, OutsideControl DEF IInv
  <2>2. NamesFit(state)' BY <1>0, <1>k, <2>1 DEF writing
  <2>3. ASSUME flusher \in {"generate", "open", "write"} PROVE queue'[1] = queue[1]
    <3>1. queue # <<>> BY <2>3 DEF IInv, ControlInv, FlusherInv, AtWork
    <3>2. queue' = queue \/ queue' = queue \o held
      BY <1>1 DEF Outside, Runner, ProducerRuns, Stop, StopWriters, KeepWriteState, RunnerStarts,
            RunnerReturns, ProducerReceives, ProducerEnds, ProducerTests, ProducerWrites,
            ProducerGivesUp, Crash
    <3>3. 1 \in DOMAIN queue BY <1>0, <3>1, SeqDomain DEF Typed
    <3>4. (queue \o held)[1] = queue[1] BY <1>0, <3>3, CatSeq DEF Typed
    <3> QED BY <3>2, <3>4
  <2> QED BY <2>1, <2>2, <2>3 DEF FitInv, writing
<1>2. CASE CommandSteps
  <2>1. flusher' \notin {"generate", "open", "write"}
    BY <1>2 DEF CommandSteps, Start, Unconfigure, ClearContexts, IInv, ControlInv, PhaseInv
  <2>2. CASE UNCHANGED state
    <3>1. NamesFit(state)' BY <1>0, <1>k, <2>2
    <3> QED BY <2>1, <3>1 DEF FitInv
  <2>3. ASSUME NEW r \in RunNumbers, Start(r) PROVE FitInv'
    <3>1. state' = NewRun(state, r)
      BY <2>3 DEF Start, IInv, ControlInv, PhaseInv
    <3>2. NewRun(state, r).caen_channels = IF state.run_number # r THEN <<>> ELSE state.caen_channels
      <4> DEFINE x == IF state.run_number # r THEN [FinishRun(state) EXCEPT !.run_number = r] ELSE state
      <4>1. /\ x \in WriteState
            /\ x.caen_channels = IF state.run_number # r THEN <<>> ELSE state.caen_channels
        <5>1. FinishRun(state) \in WriteState BY <1>0, WriteStates
        <5>2. CASE state.run_number # r BY <1>0, <5>1, <5>2 DEF FinishRun, WriteState
        <5>3. CASE state.run_number = r BY <1>0, <5>3
        <5> QED BY <5>2, <5>3
      <4>2. NewRun(state, r) = [x EXCEPT !.error_code = IF @ = "MaxTotalEventsReached" THEN @ ELSE "None"]
        BY DEF NewRun
      <4> HIDE DEF x
      <4> QED BY <4>1, <4>2 DEF WriteState
    <3>3. NewRun(state, r).filenames = IF state.run_number # r THEN <<>> ELSE state.filenames
      BY <1>0, NewRunState
    <3>4. NamesFit(state)' BY <1>0, <1>k, <3>1, <3>2, <3>3
    <3> QED BY <2>1, <3>4 DEF FitInv
  <2> QED BY <1>2, <2>2, <2>3 DEF CommandSteps, Unconfigure, ClearContexts
<1>3. CASE FlusherTakes
  <2>1. CASE state.caen_channels = <<>>
    <3>1. state' = [state EXCEPT !.caen_channels = queue[1].chs] /\ queue' = queue
      BY <1>3, <2>1, TakenEvent DEF FlusherTakes
    <3>2. state'.caen_channels = queue[1].chs /\ state'.filenames = state.filenames
      BY <1>0, <3>1 DEF WriteState
    <3>3. queue[1].chs \in ChannelLists /\ queue[1].chs \in Seq(CaenChannels)
      BY <1>3, TakenEvent, Received
    <3>4. PICK c \in Nat, n \in Nat : c = Len(queue[1].chs) /\ n = Len(state.filenames)
      BY <1>0, <3>3 DEF WriteState
    <3>5. Len(state.caen_channels) = 0 BY <2>1
    <3>6. /\ settings.file_splitting = "FilePerChannel" => n <= c
          /\ settings.file_splitting = "FilePerChannelHead" => n <= c + 1
      <4> HIDE <2>1
      <4> QED BY <1>0, <3>4, <3>5 DEF NamesFit
    <3>7. NamesFit(state)' BY <1>s, <3>2, <3>3, <3>4, <3>6 DEF NamesFit
    <3>8. Len(state'.caen_channels) <= Len(queue'[1].chs)
      <4>1. c <= c OBVIOUS
      <4> QED BY <3>1, <3>2, <3>4, <4>1
    <3> QED BY <3>7, <3>8 DEF FitInv
  <2>2. CASE state.caen_channels # <<>>
    <3>1. state' = state BY <1>3, <2>2 DEF FlusherTakes
    <3>2. NamesFit(state)' BY <1>0, <1>k, <3>1
    <3>3. PICK c \in Seq(CaenChannels) :
            /\ Len(state.caen_channels) <= Len(c)
            /\ queue' = [queue EXCEPT ![1] = [ev |-> queue[1].ev, chs |-> c]]
      BY <1>3, <2>2, TakenEvent
    <3>4. queue'[1].chs = c BY <1>3, <3>3, TakenEvent
    <3> QED BY <3>1, <3>2, <3>3, <3>4 DEF FitInv
  <2> QED BY <2>1, <2>2
<1>4. CASE Generate
  <2> DEFINE numbered == [state EXCEPT !.filenum = (@ + 1) % FilenumMod]
  <2>1. \/ state' = [numbered EXCEPT !.error_code = "None", !.filenames = FileNames]
        \/ state' = [numbered EXCEPT !.error_code = NameConflict(FileNames), !.filenames = <<>>]
        \/ state' = [numbered EXCEPT !.error_code = NameConflict(FileNames)]
        \/ state' = [numbered EXCEPT !.error_code = "FilenamesNotChanged", !.filenames = <<>>]
    BY <1>4 DEF Generate
  <2>2. /\ state'.caen_channels = state.caen_channels
        /\ state'.filenames \in {FileNames, state.filenames, <<>>}
    BY <1>0, <2>1 DEF WriteState
  <2>3. NamesFit(state)'
    <3>1. CASE state'.filenames = FileNames
      <4>1. PICK c \in Nat : c = Len(state.caen_channels) BY <1>0 DEF WriteState
      <4>2. c <= c /\ c + 1 <= c + 1 OBVIOUS
      <4>3. /\ settings.file_splitting = "FilePerChannel" => Len(FileNames) = c
            /\ settings.file_splitting = "FilePerChannelHead" => Len(FileNames) = c + 1
        BY <4>1, NamesMade
      <4> QED BY <1>0, <1>s, <2>2, <3>1, <4>1, <4>2, <4>3 DEF NamesFit
    <3>2. CASE state'.filenames # FileNames BY <1>0, <1>k, <2>2, <3>2
    <3> QED BY <3>1, <3>2
  <2>4. flusher' = "outer" \/ queue' = queue BY <1>4 DEF Generate, Skip
  <2>5. flusher = "generate" BY <1>4 DEF Generate
  <2> QED BY <2>2, <2>3, <2>4, <2>5 DEF FitInv
<1>5. CASE OpenStreams
  <2>1. state' = state /\ queue' = queue /\ flusher = "open" BY <1>5 DEF OpenStreams
  <2>2. NamesFit(state)' BY <1>0, <1>k, <2>1
  <2> QED BY <2>1, <2>2 DEF FitInv
<1>6. CASE FlusherSteps /\ ~FlusherTakes /\ ~Generate /\ ~OpenStreams
  <2>1. flusher' \notin {"generate", "open", "write"}
    BY <1>6 DEF FlusherSteps, FlusherRuns, FlusherTests, FlusherFindsEvent, FlusherStops,
                FlusherSkips, Flush, OpenStreamsFails, Skip
  <2>2. /\ state'.caen_channels = state.caen_channels
        /\ state'.filenames \in {state.filenames, <<>>}
    <3>1. CASE FlusherStops
      <4>1. settings.when_stopped_writing \in StopBehaviors
        BY <1>0, WriterAssumption DEF Typed, Settings
      <4> QED BY <1>0, <3>1, <4>1 DEF FlusherStops, StoppedState, StopBehaviors, WriteState
    <3>2. CASE Flush
      <4>1. PICK a, b, c, d : /\ Counted = [state EXCEPT !.num_events_written = a,
                                  !.num_total_events_written = b, !.filenames = c, !.error_code = d]
                              /\ c \in {state.filenames, <<>>}
        BY <1>0 DEF Counted, WriteState
      <4> QED BY <1>0, <3>2, <4>1 DEF Flush, WriteState
    <3>3. CASE OpenStreamsFails BY <1>0, <3>3 DEF OpenStreamsFails, WriteState
    <3> QED BY <1>6, <3>1, <3>2, <3>3
         DEF FlusherSteps, FlusherRuns, FlusherTests, FlusherFindsEvent, FlusherSkips
  <2>3. NamesFit(state)' BY <1>0, <1>k, <2>2
  <2> QED BY <2>1, <2>3 DEF FitInv
<1>7. CASE UNCHANGED vars
  BY <1>7 DEF vars, writing, FitInv, NamesFit
<1> QED BY <1>1, <1>2, <1>3, <1>4, <1>5, <1>6, <1>7, Kinds

(* What a file gets of the event in hand is a list of channels. *)
LEMMA ShareType ==
    ASSUME IInv, FitInv, EventsTyped, flusher = "write", NEW i \in DOMAIN streams
    PROVE  Share(i, queue[1].chs) \in Seq(CaenChannels)
<1>0. state \in WriteState /\ settings \in Settings
  BY WriterAssumption DEF IInv, Typed
<1>1. queue # <<>> /\ streams = state.filenames
  BY DEF IInv, ControlInv, FlusherInv, AtWork
<1>2. queue[1] \in Event BY <1>1 DEF EventsTyped
<1>3. PICK chs \in Seq(CaenChannels) : chs = queue[1].chs BY <1>2 DEF Event
<1>4. PICK n \in Nat, c \in Nat : n = Len(state.filenames) /\ c = Len(state.caen_channels)
  BY <1>0 DEF WriteState
<1>5. PICK m \in Nat : m = Len(chs) OBVIOUS
<1>6. c <= m BY <1>3, <1>4, <1>5 DEF FitInv
<1>7. i \in 1..n
  <2>1. IsSeq(state.filenames) BY <1>0, SeqOf DEF WriteState
  <2>2. DOMAIN state.filenames = 1..Len(state.filenames) BY <2>1, SeqDomain
  <2> QED BY <1>1, <1>4, <2>2
<1>8. <<>> \in Seq(CaenChannels) /\ \A j \in 1..m : <<chs[j]>> \in Seq(CaenChannels)
  BY <1>5
<1>9. settings.file_splitting = "FilePerChannel" => i \in 1..m
  <2>1. settings.file_splitting = "FilePerChannel" => n <= c BY <1>4 DEF FitInv, NamesFit
  <2> QED BY <1>6, <1>7, <2>1
<1>10. settings.file_splitting = "FilePerChannelHead" /\ i # 1 => i - 1 \in 1..m
  <2>1. settings.file_splitting = "FilePerChannelHead" => n <= c + 1 BY <1>4 DEF FitInv, NamesFit
  <2> QED BY <1>6, <1>7, <2>1
<1>11. settings.file_splitting \in Splittings BY <1>0 DEF Settings
<1>12. Share(i, chs) \in Seq(CaenChannels)
  <2> HIDE <1>5
  <2> QED BY <1>8, <1>9, <1>10, <1>11 DEF Share, Splittings
<1> QED BY <1>3, <1>12

(* The files keep their type. *)
LEMMA DiskTypes ==
    ASSUME IInv, FitInv, EventsTyped, DiskTyped, ControlTyped, [Next]_vars
    PROVE  DiskTyped'
<1>0. state \in WriteState /\ IsSeq(queue) BY DEF IInv, Typed
<1>1. CASE UNCHANGED disk BY <1>1 DEF DiskTyped
<1>2. ASSUME NEW names, disk' = Without(disk, names) PROVE DiskTyped'
  BY <1>2 DEF DiskTyped, Without, Restrict
<1>3. ASSUME NEW names \in SUBSET Name, NEW append \in BOOLEAN, disk' = Opened(names, append)
      PROVE  DiskTyped'
  <2>1. <<>> \in Seq(Entry) OBVIOUS
  <2>2. DOMAIN disk' = DOMAIN disk \cup names BY <1>3 DEF Opened
  <2>3. \A f \in DOMAIN disk' : disk'[f] = <<>> \/ (f \in DOMAIN disk /\ disk'[f] = disk[f])
    BY <1>3 DEF Opened
  <2> HIDE <1>3
  <2> QED BY <2>1, <2>2, <2>3 DEF DiskTyped
<1>n. /\ Range(state.filenames) \subseteq Name
      /\ \A k \in 0..(Len(state.filenames) - 1) :
            Range(SubSeq(state.filenames, 1, k)) \subseteq Name
  <2>1. PICK fs \in Seq(Name) : fs = state.filenames BY <1>0 DEF WriteState
  <2>2. ASSUME NEW s \in Seq(Name) PROVE Range(s) \subseteq Name
    BY DEF Range
  <2>3. ASSUME NEW k \in 0..(Len(fs) - 1) PROVE SubSeq(fs, 1, k) \in Seq(Name)
    OBVIOUS
  <2> QED BY <2>1, <2>2, <2>3
<1>4. CASE Flush
  <2>1. queue # <<>> /\ flusher = "write" /\ Alive
    BY <1>4 DEF Flush, IInv, ControlInv, FlusherInv, AtWork
  <2>2. Head(queue) = queue[1] BY <1>0, <2>1, TailSeq
  <2>3. disk' = Written(queue[1]) BY <1>4, <2>2 DEF Flush
  <2>4. DOMAIN disk' = DOMAIN disk BY <2>3 DEF Written
  <2>5. ASSUME NEW f \in DOMAIN disk PROVE disk'[f] \in Seq(Entry)
    <3>1. disk[f] \in Seq(Entry) BY DEF DiskTyped
    <3>2. CASE f \notin Range(streams)
      <4>1. disk'[f] = disk[f] BY <2>3, <3>2 DEF Written
      <4> QED BY <3>1, <4>1
    <3>3. CASE f \in Range(streams)
      <4>1. PICK i : i = CHOOSE j \in DOMAIN streams : streams[j] = f OBVIOUS
      <4>2. i \in DOMAIN streams BY <3>3, <4>1 DEF Range
      <4>3. disk'[f] = Append(disk[f], [ev |-> queue[1].ev, run |-> state.run_number,
                                        chs |-> Share(i, queue[1].chs)])
        BY <2>3, <3>3, <4>1 DEF Written
      <4>4. Share(i, queue[1].chs) \in Seq(CaenChannels) BY <2>1, <4>2, ShareType
      <4>5. queue[1] \in Event BY <2>1 DEF EventsTyped
      <4>6. queue[1].ev \in Nat /\ state.run_number \in RunNumbers \cup {0}
        BY <1>0, <4>5 DEF Event, WriteState
      <4>7. PICK e \in Entry : e = [ev |-> queue[1].ev, run |-> state.run_number,
                                    chs |-> Share(i, queue[1].chs)]
        BY <4>4, <4>6 DEF Entry
      <4>8. Append(disk[f], e) \in Seq(Entry) BY <3>1, <4>7
      <4> QED BY <4>3, <4>7, <4>8
    <3> QED BY <3>2, <3>3
  <2> QED BY <2>4, <2>5 DEF DiskTyped
<1>5. CASE Commands
  BY <1>1, <1>2, <1>5 DEF Commands, Start, Stop, Unconfigure, writing
<1>6. CASE Stopping \/ Runner \/ ProducerReceives \/ ProducerRuns \/ Crash
  BY <1>1, <1>6 DEF Stopping, Runner, StopWriters, KeepWriteState, ClearContexts, RunnerStarts,
              RunnerReturns, ProducerReceives, ProducerRuns, ProducerEnds, ProducerTests,
              ProducerWrites, ProducerGivesUp, Crash, writing
<1>7. CASE OpenStreams \/ OpenStreamsFails
  <2>1. \E names \in SUBSET Name : disk' = Opened(names, continuing)
    BY <1>7, <1>n DEF OpenStreams, OpenStreamsFails
  <2>2. continuing \in BOOLEAN BY DEF ControlTyped
  <2> QED BY <1>3, <2>1, <2>2, Zenon
<1>8. CASE FlusherStops
  BY <1>1, <1>2, <1>8 DEF FlusherStops
<1>9. CASE FlusherTests \/ FlusherFindsEvent \/ FlusherSkips \/ FlusherTakes \/ Generate
  BY <1>1, <1>9 DEF FlusherTests, FlusherFindsEvent, FlusherSkips, FlusherTakes, Generate
<1>10. CASE UNCHANGED vars
  BY <1>1, <1>10 DEF vars, writing
<1> QED BY <1>4, <1>5, <1>6, <1>7, <1>8, <1>9, <1>10 DEF Next, FlusherRuns

(***************************************************************************)
(* The state keeps its type, for any settings, channel lists and leftover  *)
(* files: the queue never has more than QueueCap events, a channel that a  *)
(* write_event function asks an event for exists, and every entry of every *)
(* file is an event of the run with channels of the device.                *)
(***************************************************************************)
THEOREM TypesKept == Spec => []TypeOK
<1>1. Init => TypeInv
  <2> SUFFICES ASSUME Init PROVE TypeInv
    OBVIOUS
  <2>1. NewWriteState.caen_channels = <<>> /\ NewWriteState.filenames = <<>> BY DEF NewWriteState
  <2>2. Len(<<>>) = 0 /\ 0 <= 0 /\ 0 <= 0 + 1 OBVIOUS
  <2>3. FitInv BY <2>1, <2>2 DEF Init, FitInv, NamesFit
  <2>4. EventsTyped
    <3>1. <<>> \in Seq(Event) /\ 0 <= QueueCap BY WriterAssumption
    <3> QED BY <2>2, <3>1 DEF Init, EventsTyped
  <2>5. DiskTyped
    <3>1. PICK old \in Leftovers : disk = [f \in old |-> <<[ev |-> 0, run |-> 0, chs |-> <<>>]>>]
      BY DEF Init
    <3>0. PICK none \in Seq(CaenChannels) : none = <<>>
      <4>1. <<>> \in Seq(CaenChannels) BY EmptySeq
      <4> QED BY <4>1, Zenon
    <3>2. PICK e \in Entry : e = [ev |-> 0, run |-> 0, chs |-> none]
      BY 0 \in Nat, 0 \in RunNumbers \cup {0} DEF Entry
    <3>3. <<e>> \in Seq(Entry) OBVIOUS
    <3>4. old \subseteq Name BY WriterAssumption
    <3>5. DOMAIN disk = old /\ \A f \in old : disk[f] = <<e>> BY <3>0, <3>1, <3>2
    <3> QED BY <3>3, <3>4, <3>5 DEF DiskTyped
  <2>6. ControlTyped
    <3>1. starts \in 0..MaxStarts BY WriterAssumption DEF Init
    <3>2. mrun \in BOOLEAN /\ stopWriters \in BOOLEAN /\ continuing \in BOOLEAN BY DEF Init
    <3> QED BY <3>1, <3>2 DEF Init, ControlTyped
  <2> QED BY <2>3, <2>4, <2>5, <2>6 DEF TypeInv
<1>2. IInv /\ TypeInv /\ [Next]_vars => TypeInv'
  BY ControlTypes, EventTypes, FitStep, DiskTypes DEF TypeInv
<1>3. IInv /\ TypeInv => TypeOK
  <2> SUFFICES ASSUME IInv, TypeInv PROVE TypeOK
    OBVIOUS
  <2>1. /\ settings \in SettingsSet /\ saved \in WriteState /\ state \in WriteState
        /\ streams \in Seq(Name) /\ nextEv \in 1..(MaxEvents + 1)
    BY DEF IInv, Typed
  <2>2. Len(held) <= 1 BY DEF IInv, OrderInv
  <2>3. got \subseteq 1..MaxEvents
    BY <2>1, WriterAssumption DEF IInv, OrderInv
  <2> QED BY <2>1, <2>2, <2>3 DEF TypeOK, TypeInv, EventsTyped, DiskTyped, ControlTyped
<1> QED BY <1>1, <1>2, <1>3, Inductive, PTL DEF Spec

=============================================================================
