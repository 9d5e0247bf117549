---------------------------- MODULE EventBuilder ----------------------------
(***************************************************************************)
(* EventBuilderModule::runner: the runner thread collects the fragments    *)
(* that arrive on the receiver channels by sequence number; when an event  *)
(* has as many fragments as there are channels, its number goes into the   *)
(* queue complete_seq, and the consumer thread takes it from there, builds *)
(* the event and sends it.                                                 *)
(*                                                                         *)
(* The sources (ReadoutInterfaceModule) count from 0 in every run.  They   *)
(* are started after and stopped before the event builder.  What they sent *)
(* may still be in the connections when the event builder stops, and is    *)
(* then received in the next run, unless the connections are made anew by  *)
(* unconfigure and configure.                                              *)
(***************************************************************************)
EXTENDS Naturals, Sequences, FiniteSets

CONSTANTS
    N,          \* m_nreceivers, the number of receiver channels
    Outputs,    \* kinds of the sender connection, see output
    Cap,        \* capacity of complete_seq
    MaxSeq,     \* bound on the sequence numbers of a run
    MaxRuns     \* bound on the number of runs

ASSUME BuilderAssumption ==
    /\ N \in Nat \ {0}
    /\ Outputs \subseteq {"pair", "other"}
    /\ Cap \in Nat \ {0}
    /\ MaxSeq \in Nat /\ MaxRuns \in Nat

VARIABLES
    run,        \* number of the current or last run
    mrun,       \* DAQProcess::m_run
    active,     \* runner() has been called and has not returned
    src,        \* next sequence number of the source of each channel
    pending,    \* fragments in each connection
    ch,         \* the channel the runner polls next; N: at the loop test
    events,     \* for each sequence number the fragments collected
    complete,   \* complete_seq
    overflow,   \* complete_seq.write() has failed in this run
    cpc,        \* the consumer thread
    seq,        \* the sequence number it has read
    out,        \* the event it is sending
    output,     \* "pair": a ZMQPair without a queue; "other": a sender that returns
    sent        \* the events sent in this run

vars == <<run, mrun, active, src, pending, ch, events, complete, overflow, cpc, seq, out, output, sent>>

Channels == 0..(N - 1)
Seqs == 0..MaxSeq
Runs == 1..MaxRuns
Fragment == [seq : Seqs, run : Runs]
(* A fragment in the map of events: its channel and the run it is from. *)
Part == Channels \X Runs

TypeOK ==
    /\ run \in 0..MaxRuns
    /\ mrun \in BOOLEAN /\ active \in BOOLEAN
    /\ src \in [Channels -> 0..(MaxSeq + 1)]
    /\ pending \in [Channels -> Seq(Fragment)]
    /\ ch \in 0..N
    /\ events \in [Seqs -> SUBSET Part]
    /\ overflow \in BOOLEAN
    /\ complete \in Seq(Seqs) /\ Len(complete) <= Cap
    /\ cpc \in {"read", "check", "send", "blocked", "returned"}
    /\ seq \in Seqs
    /\ out \in SUBSET Part
    /\ output \in Outputs
    /\ sent \in Seq(Seqs \X SUBSET Part)

NoEvents == [s \in Seqs |-> {}]

Init ==
    /\ run = 0 /\ mrun = FALSE /\ active = FALSE
    /\ src = [c \in Channels |-> 0]
    /\ pending = [c \in Channels |-> <<>>]
    /\ ch = N
    /\ events = NoEvents
    /\ complete = <<>> /\ overflow = FALSE
    /\ cpc = "returned" /\ seq = 0 /\ out = {}
    /\ output \in Outputs
    /\ sent = <<>>

-----------------------------------------------------------------------------
(* Start and stop.                                                         *)

(* start() and the beginning of runner(), whose variables are local. *)
Start ==
    /\ ~active /\ run < MaxRuns
    /\ run' = run + 1
    /\ mrun' = TRUE /\ active' = TRUE
    /\ src' = [c \in Channels |-> 0]
    /\ ch' = N
    /\ events' = NoEvents
    /\ complete' = <<>> /\ overflow' = FALSE
    /\ cpc' = "read"
    /\ sent' = <<>>
    /\ UNCHANGED <<pending, seq, out, output>>

(* DAQProcess::stop: m_run = false; then it joins the runner thread. *)
Stop ==
    /\ mrun
    /\ mrun' = FALSE
    /\ UNCHANGED <<run, active, src, pending, ch, events, complete, overflow, cpc, seq, out, output, sent>>

(* consumer.join(), runner() returns. *)
RunnerReturns ==
    /\ active /\ ~mrun /\ ch = N /\ cpc = "returned"
    /\ active' = FALSE
    /\ UNCHANGED <<run, mrun, src, pending, ch, events, complete, overflow, cpc, seq, out, output, sent>>

(* unconfigure and configure: new connections. *)
Reconfigure ==
    /\ ~active
    /\ pending' = [c \in Channels |-> <<>>]
    /\ UNCHANGED <<run, mrun, active, src, ch, events, complete, overflow, cpc, seq, out, output, sent>>

-----------------------------------------------------------------------------
(* The sources and the connections: a fragment may be lost on the way.     *)

Arrive(c) ==
    /\ mrun /\ src[c] <= MaxSeq
    /\ src' = [src EXCEPT ![c] = @ + 1]
    /\ pending' \in {pending,
          [pending EXCEPT ![c] = Append(@, [seq |-> src[c], run |-> run])]}
    /\ UNCHANGED <<run, mrun, active, ch, events, complete, overflow, cpc, seq, out, output, sent>>

-----------------------------------------------------------------------------
(* The runner thread.                                                      *)

(* while (m_run) *)
NextPass ==
    /\ active /\ ch = N /\ mrun
    /\ ch' = 0
    /\ UNCHANGED <<run, mrun, active, src, pending, events, complete, overflow, cpc, seq, out, output, sent>>

(* sleep_receive(ch, b) finds nothing. *)
NothingReceived(c) ==
    /\ active /\ ch = c /\ pending[c] = <<>>
    /\ ch' = ch + 1
    /\ UNCHANGED <<run, mrun, active, src, pending, events, complete, overflow, cpc, seq, out, output, sent>>

(* Mutant: the number is queued one fragment too early. *)
Collect_Early(c) ==
    /\ active /\ ch = c /\ pending[c] # <<>>
    /\ ch' = ch + 1
    /\ LET f == Head(pending[c])
       IN  /\ events' = [events EXCEPT ![f.seq] = @ \cup {<<c, f.run>>}]
           /\ IF Cardinality(events'[f.seq]) + 1 >= N /\ Len(complete) < Cap
              THEN complete' = Append(complete, f.seq)
              ELSE UNCHANGED complete
    /\ pending' = [pending EXCEPT ![c] = Tail(@)]
    /\ UNCHANGED <<run, mrun, active, src, overflow, cpc, seq, out, output, sent>>

(***************************************************************************)
(* sleep_receive(ch, b) succeeds; under the mutex the fragment is stored   *)
(* and complete_seq.write called, whose result is ignored.                 *)
(***************************************************************************)
Collect(c) ==
    /\ active /\ ch = c /\ pending[c] # <<>>
    /\ ch' = ch + 1
    /\ LET f == Head(pending[c])
       IN  /\ events' = [events EXCEPT ![f.seq] = @ \cup {<<c, f.run>>}]
           /\ IF Cardinality(events'[f.seq]) = N
              THEN IF Len(complete) < Cap
                   THEN complete' = Append(complete, f.seq) /\ UNCHANGED overflow
                   ELSE overflow' = TRUE /\ UNCHANGED complete
              ELSE UNCHANGED <<complete, overflow>>
    /\ pending' = [pending EXCEPT ![c] = Tail(@)]
    /\ UNCHANGED <<run, mrun, active, src, cpc, seq, out, output, sent>>

-----------------------------------------------------------------------------
(* The consumer thread.                                                    *)

(* complete_seq.read(seq) succeeds. *)
ConsumerReads ==
    /\ cpc = "read" /\ complete # <<>>
    /\ seq' = Head(complete)
    /\ complete' = Tail(complete)
    /\ cpc' = "check"
    /\ UNCHANGED <<run, mrun, active, src, pending, ch, events, overflow, out, output, sent>>

(* The loop ends, or read() failed and m_run is false. *)
ConsumerEnds ==
    /\ cpc = "read" /\ complete = <<>> /\ ~mrun
    /\ cpc' = "returned"
    /\ UNCHANGED <<run, mrun, active, src, pending, ch, events, complete, overflow, seq, out, output, sent>>

(* if (!m_run) return; *)
ConsumerAbandons ==
    /\ cpc = "check" /\ ~mrun
    /\ cpc' = "returned"
    /\ UNCHANGED <<run, mrun, active, src, pending, ch, events, complete, overflow, seq, out, output, sent>>

(* Mutant: the entry stays in the map. *)
ConsumerBuilds_Keep ==
    /\ cpc = "check" /\ mrun
    /\ out' = events[seq]
    /\ cpc' = "send"
    /\ UNCHANGED <<run, mrun, active, src, pending, ch, events, complete, overflow, seq, output, sent>>

(* Under the mutex: out += every fragment; events.erase(seq). *)
ConsumerBuilds ==
    /\ cpc = "check" /\ mrun
    /\ out' = events[seq]
    /\ events' = [events EXCEPT ![seq] = {}]
    /\ cpc' = "send"
    /\ UNCHANGED <<run, mrun, active, src, pending, ch, complete, overflow, seq, output, sent>>

(* sleep_send returns true; that of a ZMQPair has found room in the socket *)
(* at once, or waited for it in ZMQPairSender::send.                       *)
ConsumerSends ==
    /\ cpc \in {"send", "blocked"}
    /\ sent' = Append(sent, <<seq, out>>)
    /\ cpc' = "read"
    /\ UNCHANGED <<run, mrun, active, src, pending, ch, events, complete, overflow, seq, out, output>>

(* ZMQPairSender::send waits for room in the socket, without a timeout. *)
ConsumerSendBlocks ==
    /\ cpc = "send" /\ output = "pair"
    /\ cpc' = "blocked"
    /\ UNCHANGED <<run, mrun, active, src, pending, ch, events, complete, overflow, seq, out, output, sent>>

(* Mutant: the retry loop does not look at m_run. *)
ConsumerSendFails_Forever ==
    /\ cpc = "send" /\ output = "other"
    /\ out' = {}
    /\ UNCHANGED <<run, mrun, active, src, pending, ch, events, complete, overflow, cpc, seq, output, sent>>

(* sleep_send failed, and has moved the data away: the retry sends none. *)
ConsumerSendFails ==
    /\ cpc = "send" /\ output = "other"
    /\ out' = {}
    /\ cpc' = IF mrun THEN "send" ELSE "read"
    /\ UNCHANGED <<run, mrun, active, src, pending, ch, events, complete, overflow, seq, output, sent>>

-----------------------------------------------------------------------------
Consumer ==
    \/ ConsumerReads \/ ConsumerEnds \/ ConsumerAbandons
    \/ ConsumerBuilds
    \/ ConsumerSends \/ ConsumerSendBlocks \/ ConsumerSendFails

Runner ==
    \/ NextPass \/ RunnerReturns
    \/ \E c \in Channels : Collect(c) \/ NothingReceived(c)

Next ==
    \/ Start \/ Stop \/ Reconfigure
    \/ \E c \in Channels : Arrive(c)
    \/ Runner \/ Consumer

(***************************************************************************)
(* The consumer and the runner thread run.  A send is attempted; whether   *)
(* it ever succeeds, or even returns, is up to the next module, so no      *)
(* fairness asks for that.                                                 *)
(***************************************************************************)
Safety == Init /\ [][Next]_vars
Fairness ==
    /\ WF_vars(ConsumerReads \/ ConsumerEnds \/ ConsumerAbandons \/ ConsumerBuilds)
    /\ WF_vars(ConsumerSendFails) /\ WF_vars(ConsumerSendBlocks)
    /\ WF_vars(Runner)
Spec == Safety /\ Fairness

-----------------------------------------------------------------------------
(* Properties.                                                             *)

Stale(e) == \E p \in e : p[2] # run

(***************************************************************************)
(* An event that holds no fragment of an earlier run has exactly one of    *)
(* every channel, unless a retry of sleep_send emptied it.                 *)
(***************************************************************************)
EventsAreWhole ==
    \A i \in DOMAIN sent : LET e == sent[i][2] IN
        e = {} \/ Stale(e) \/ e = Channels \X {run}

(***************************************************************************)
(* An event is sent once: two events with the same sequence number in one  *)
(* run need fragments of an earlier run.                                   *)
(***************************************************************************)
EventsSentOnce ==
    \A i, j \in DOMAIN sent :
        i # j /\ sent[i][1] = sent[j][1] =>
            \/ Stale(sent[i][2]) \/ Stale(sent[j][2])
            \/ sent[i][2] = {} \/ sent[j][2] = {}

(* A complete event that is neither queued nor in the consumer's hands. *)
Forgotten(s) ==
    /\ Cardinality(events[s]) = N
    /\ ~\E i \in DOMAIN complete : complete[i] = s
    /\ ~(cpc = "check" /\ seq = s)

(***************************************************************************)
(* Unless complete_seq was full, no complete event is forgotten in the map:*)
(* it is queued, or the consumer is about to build it.                     *)
(***************************************************************************)
NoneForgotten == mrun /\ ~overflow => \A s \in Seqs : ~Forgotten(s)

(***************************************************************************)
(* stop() returns, unless the consumer waits in the send of an un-queued   *)
(* ZMQPair for ever: neither the wait for a complete event nor the retries *)
(* of a send that keeps failing hold the join up.                          *)
(***************************************************************************)
StopReturns == active /\ ~mrun ~> ~active \/ [](cpc = "blocked")
=============================================================================
