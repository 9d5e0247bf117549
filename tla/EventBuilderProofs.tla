------------------------- MODULE EventBuilderProofs -------------------------
(* Proofs about EventBuilder, for every number of channels and any capacity *)
(* of complete_seq.                                                         *)
EXTENDS EventBuilder, FiniteSetTheorems, TLAPS

(* TypeOK alone is not inductive: that a fragment which arrives has the     *)
(* number of a run needs that a run has begun.                              *)
IInv == TypeOK /\ (mrun => run \in Runs)

(* Start, stop, new connections and the sources keep the invariant. *)
LEMMA ControlTyped ==
    ASSUME IInv, Start \/ Stop \/ Reconfigure \/ \E c \in Channels : Arrive(c)
    PROVE  IInv'
<1> USE DEF IInv, TypeOK
<1>1. CASE Start
  <2>1. run' \in 0..MaxRuns /\ run' \in Runs
    BY <1>1, BuilderAssumption DEF Start, Runs
  <2>2. src' \in [Channels -> 0..(MaxSeq + 1)]
    <3>1. 0 \in 0..(MaxSeq + 1) BY BuilderAssumption
    <3> QED BY <1>1, <3>1 DEF Start
  <2>3. ch' \in 0..N BY <1>1, BuilderAssumption DEF Start
  <2>4. complete' \in Seq(Seqs) /\ Len(complete') <= Cap
    BY <1>1, BuilderAssumption DEF Start
  <2>5. events' \in [Seqs -> SUBSET Part] BY <1>1 DEF Start, NoEvents
  <2>6. sent' \in Seq(Seqs \X SUBSET Part) BY <1>1 DEF Start
  <2> QED BY <1>1, <2>1, <2>2, <2>3, <2>4, <2>5, <2>6 DEF Start
<1>2. CASE Stop BY <1>2 DEF Stop
<1>3. CASE Reconfigure
  <2>1. pending' \in [Channels -> Seq(Fragment)] BY <1>3 DEF Reconfigure
  <2> QED BY <1>3, <2>1 DEF Reconfigure
<1>4. ASSUME NEW c \in Channels, Arrive(c)
      PROVE  IInv'
  <2>1. src[c] \in Seqs /\ src[c] + 1 \in 0..(MaxSeq + 1)
    <3>1. src[c] \in 0..(MaxSeq + 1) OBVIOUS
    <3> QED BY <1>4, <3>1, BuilderAssumption DEF Arrive, Seqs
  <2>2. src' \in [Channels -> 0..(MaxSeq + 1)] BY <1>4, <2>1 DEF Arrive
  <2>3. [seq |-> src[c], run |-> run] \in Fragment
    BY <1>4, <2>1 DEF Arrive, Fragment
  <2>4. Append(pending[c], [seq |-> src[c], run |-> run]) \in Seq(Fragment)
    BY <2>3
  <2>5. pending' \in [Channels -> Seq(Fragment)] BY <1>4, <2>4 DEF Arrive
  <2> QED BY <1>4, <2>2, <2>5 DEF Arrive
<1> QED BY <1>1, <1>2, <1>3, <1>4

(* The runner thread keeps it: write() refuses a number when complete_seq   *)
(* is full.                                                                 *)
LEMMA RunnerTyped ==
    ASSUME IInv, Runner
    PROVE  IInv'
<1> USE DEF IInv, TypeOK
<1>1. CASE NextPass BY <1>1, BuilderAssumption DEF NextPass
<1>2. CASE RunnerReturns BY <1>2 DEF RunnerReturns
<1>3. ASSUME NEW c \in Channels, Collect(c)
      PROVE  IInv'
  <2> DEFINE f == Head(pending[c])
  <2>1. f \in Fragment /\ Tail(pending[c]) \in Seq(Fragment)
    <3>1. pending[c] \in Seq(Fragment) /\ pending[c] # <<>> BY <1>3 DEF Collect
    <3> QED BY <3>1
  <2>2. f.seq \in Seqs /\ f.run \in Runs BY <2>1 DEF Fragment
  <2>3. pending' \in [Channels -> Seq(Fragment)] BY <1>3, <2>1 DEF Collect
  <2>4. events' \in [Seqs -> SUBSET Part]
    <3>1. <<c, f.run>> \in Part BY <2>2 DEF Part
    <3>2. events[f.seq] \cup {<<c, f.run>>} \in SUBSET Part BY <2>2, <3>1
    <3> QED BY <1>3, <3>2 DEF Collect
  <2>5. complete' \in Seq(Seqs) /\ Len(complete') <= Cap /\ overflow' \in BOOLEAN
    <3>1. \/ complete' = complete
          \/ complete' = Append(complete, f.seq) /\ Len(complete) < Cap
      BY <1>3 DEF Collect
    <3>2. overflow' \in BOOLEAN BY <1>3 DEF Collect
    <3>3. CASE complete' = complete BY <3>2, <3>3
    <3>4. CASE complete' = Append(complete, f.seq) /\ Len(complete) < Cap
      <4> HIDE DEF f
      <4>1. complete \in Seq(Seqs) OBVIOUS
      <4> QED BY <2>2, <3>2, <3>4, <4>1, BuilderAssumption
    <3> QED BY <3>1, <3>3, <3>4
  <2>6. ch' \in 0..N
    <3>1. ch \in 0..(N - 1) /\ ch' = ch + 1 BY <1>3 DEF Collect, Channels
    <3> QED BY <3>1, BuilderAssumption
  <2> QED BY <1>3, <2>3, <2>4, <2>5, <2>6 DEF Collect
<1>4. ASSUME NEW c \in Channels, NothingReceived(c)
      PROVE  IInv'
  <2>1. ch \in 0..(N - 1) /\ ch' = ch + 1 BY <1>4 DEF NothingReceived, Channels
  <2>2. ch' \in 0..N BY <2>1, BuilderAssumption
  <2> QED BY <1>4, <2>2 DEF NothingReceived
<1> QED BY <1>1, <1>2, <1>3, <1>4 DEF Runner

(* The consumer thread keeps it. *)
LEMMA ConsumerTyped ==
    ASSUME IInv, Consumer
    PROVE  IInv'
<1> USE DEF IInv, TypeOK
<1>1. CASE ConsumerReads
  <2>1. /\ Head(complete) \in Seqs
        /\ Tail(complete) \in Seq(Seqs) /\ Len(Tail(complete)) <= Cap
    BY <1>1, BuilderAssumption DEF ConsumerReads
  <2> QED BY <1>1, <2>1 DEF ConsumerReads
<1>2. CASE ConsumerEnds BY <1>2 DEF ConsumerEnds
<1>3. CASE ConsumerAbandons BY <1>3 DEF ConsumerAbandons
<1>4. CASE ConsumerBuilds BY <1>4 DEF ConsumerBuilds
<1>5. CASE ConsumerSends BY <1>5 DEF ConsumerSends
<1>6. CASE ConsumerSendFails BY <1>6 DEF ConsumerSendFails
<1>7. CASE ConsumerSendBlocks BY <1>7 DEF ConsumerSendBlocks
<1> QED BY <1>1, <1>2, <1>3, <1>4, <1>5, <1>6, <1>7 DEF Consumer

(* The first state is typed. *)
LEMMA InitTyped == Init => IInv
<1> SUFFICES ASSUME Init PROVE IInv
  OBVIOUS
<1>1. src \in [Channels -> 0..(MaxSeq + 1)] /\ run \in 0..MaxRuns /\ seq \in Seqs
  <2>1. 0 \in 0..(MaxSeq + 1) /\ 0 \in 0..MaxRuns /\ 0 \in Seqs
    BY BuilderAssumption DEF Seqs
  <2> QED BY <2>1 DEF Init
<1>2. ch \in 0..N BY BuilderAssumption DEF Init
<1>3. complete \in Seq(Seqs) /\ Len(complete) <= Cap BY BuilderAssumption DEF Init
<1>4. pending \in [Channels -> Seq(Fragment)] /\ sent \in Seq(Seqs \X SUBSET Part)
  BY DEF Init
<1>5. events \in [Seqs -> SUBSET Part] /\ out \in SUBSET Part BY DEF Init, NoEvents
<1> QED BY <1>1, <1>2, <1>3, <1>4, <1>5 DEF Init, IInv, TypeOK

(* Every step keeps the types. *)
LEMMA StepTyped == IInv /\ [Next]_vars => IInv'
<1> SUFFICES ASSUME IInv, [Next]_vars
             PROVE  IInv'
  OBVIOUS
<1>1. CASE Start \/ Stop \/ Reconfigure \/ \E c \in Channels : Arrive(c)
  BY <1>1, ControlTyped
<1>2. CASE Runner BY <1>2, RunnerTyped
<1>3. CASE Consumer BY <1>3, ConsumerTyped
<1>4. CASE UNCHANGED vars BY <1>4 DEF IInv, TypeOK, vars
<1> QED BY <1>1, <1>2, <1>3, <1>4 DEF Next

(* The same with the run number, for the proofs that follow. *)
LEMMA Typed == Safety => []IInv
<1>1. Init => IInv BY InitTyped
<1>2. IInv /\ [Next]_vars => IInv' BY StepTyped
<1> QED BY <1>1, <1>2, PTL DEF Safety

(* Type correctness of the event builder; in particular complete_seq never  *)
(* holds more numbers than fit, whatever arrives and however often the      *)
(* builder is started and stopped.                                          *)
THEOREM TypeCorrect == Safety => []TypeOK
<1>1. IInv => TypeOK BY DEF IInv
<1> QED BY <1>1, Typed, PTL

-----------------------------------------------------------------------------
(* The inductive invariant behind the promises about events.                *)

(* The fragment with number s of run r has left the source of channel c, in *)
(* run n where the sources have come to k.                                  *)
BeenBy(n, k, c, s, r) == r < n \/ (r = n /\ s < k[c])
Been(c, s, r) == BeenBy(run, src, c, s, r)

(* What is in a connection has left its source, and only once. *)
PendingFresh ==
    \A c \in Channels : \A i \in DOMAIN pending[c] :
        Been(c, pending[c][i].seq, pending[c][i].run)
PendingOnce ==
    \A c \in Channels : \A i, j \in DOMAIN pending[c] :
        i # j => pending[c][i] # pending[c][j]

(* The fragments with number s that the builder has taken in this run: they *)
(* are in the map, in the consumer's hands or sent.                         *)
Sending == cpc \in {"send", "blocked"}
InHands(s) == IF Sending /\ seq = s THEN out ELSE {}
SentWith(s, i) == IF sent[i][1] = s THEN sent[i][2] ELSE {}
Taken(s, p) ==
    p \in events[s] \/ p \in InHands(s) \/ \E i \in DOMAIN sent : p \in SentWith(s, i)

(* They have left their sources, and the connections hold them no longer. *)
TakenFresh == \A s \in Seqs, p \in Part : Taken(s, p) => Been(p[1], s, p[2])
TakenLeft ==
    \A c \in Channels : \A i \in DOMAIN pending[c] :
        ~Taken(pending[c][i].seq, <<c, pending[c][i].run>>)

(* A fragment is in one place only: never in two events. *)
TakenOnce ==
    \A s \in Seqs :
        /\ events[s] \cap InHands(s) = {}
        /\ \A i \in DOMAIN sent :
              SentWith(s, i) \cap events[s] = {} /\ SentWith(s, i) \cap InHands(s) = {}
        /\ \A i, j \in DOMAIN sent : i # j => SentWith(s, i) \cap SentWith(s, j) = {}

(* A number in complete_seq, or in the consumer's hands, stands for an event *)
(* in the map with a fragment per channel at least, and is there once.       *)
QueuedComplete ==
    /\ \A i \in DOMAIN complete : Cardinality(events[complete[i]]) >= N
    /\ cpc = "check" => Cardinality(events[seq]) >= N
QueuedOnce ==
    /\ \A i, j \in DOMAIN complete : i # j => complete[i] # complete[j]
    /\ cpc = "check" => \A i \in DOMAIN complete : complete[i] # seq

Whole(e) == e = {} \/ Stale(e) \/ e = Channels \X {run}
HandsWhole == Sending => Whole(out)

FragmentsInv == PendingFresh /\ PendingOnce /\ TakenFresh /\ TakenLeft /\ TakenOnce
QueueInv == QueuedComplete /\ QueuedOnce /\ HandsWhole /\ EventsAreWhole

-----------------------------------------------------------------------------
(* Facts about sequences and finite sets.                                   *)

(* Where the items of a sequence are after one more is appended. *)
LEMMA AppendItems ==
    ASSUME NEW S, NEW s \in Seq(S), NEW x \in S
    PROVE  /\ DOMAIN Append(s, x) = DOMAIN s \cup {Len(s) + 1}
           /\ Len(s) + 1 \notin DOMAIN s
           /\ Append(s, x)[Len(s) + 1] = x
           /\ \A i \in DOMAIN s : Append(s, x)[i] = s[i]
OBVIOUS

(* Where they are after the first is taken. *)
LEMMA TailItems ==
    ASSUME NEW S, NEW s \in Seq(S), s # <<>>
    PROVE  /\ Head(s) \in S /\ Tail(s) \in Seq(S)
           /\ 1 \in DOMAIN s /\ s[1] = Head(s)
           /\ \A i \in DOMAIN Tail(s) :
                 i \in Nat /\ i + 1 \in DOMAIN s /\ i + 1 # 1 /\ Tail(s)[i] = s[i + 1]
           /\ \A i \in DOMAIN s : i = 1 \/ \E j \in DOMAIN Tail(s) : Tail(s)[j] = s[i]
<1>1. /\ Head(s) \in S /\ Tail(s) \in Seq(S)
      /\ 1 \in DOMAIN s /\ s[1] = Head(s)
      /\ \A i \in DOMAIN Tail(s) :
            i \in Nat /\ i + 1 \in DOMAIN s /\ i + 1 # 1 /\ Tail(s)[i] = s[i + 1]
  OBVIOUS
<1>2. ASSUME NEW i \in DOMAIN s, i # 1
      PROVE  \E j \in DOMAIN Tail(s) : Tail(s)[j] = s[i]
  <2>1. i - 1 \in DOMAIN Tail(s) /\ Tail(s)[i - 1] = s[i] BY <1>2
  <2> QED BY <2>1
<1> QED BY <1>1, <1>2

(* The set of parts is finite, and the parts of one run are N. *)
LEMMA PartsFinite ==
    /\ \A e \in SUBSET Part : IsFiniteSet(e) /\ Cardinality(e) \in Nat
    /\ \A r \in Runs : Cardinality(Channels \X {r}) = N /\ IsFiniteSet(Channels \X {r})
<1>1. IsFiniteSet(Channels) /\ Cardinality(Channels) = N
  BY FS_Interval, BuilderAssumption DEF Channels
<1>2. IsFiniteSet(Runs) BY FS_Interval, BuilderAssumption DEF Runs
<1>3. IsFiniteSet(Part) BY <1>1, <1>2, FS_Product DEF Part
<1>4. \A e \in SUBSET Part : IsFiniteSet(e) /\ Cardinality(e) \in Nat
  BY <1>3, FS_Subset, FS_CardinalityType
<1>5. ASSUME NEW r \in Runs
      PROVE  Cardinality(Channels \X {r}) = N /\ IsFiniteSet(Channels \X {r})
  <2>1. IsFiniteSet({r}) /\ Cardinality({r}) = 1 BY FS_Singleton
  <2>2. /\ IsFiniteSet(Channels \X {r})
        /\ Cardinality(Channels \X {r}) = Cardinality(Channels) * Cardinality({r})
    BY <1>1, <2>1, FS_Product
  <2> QED BY <1>1, <2>1, <2>2, BuilderAssumption
<1> QED BY <1>4, <1>5

-----------------------------------------------------------------------------
(* A number that is queued stays queued until the consumer takes it. *)
LEMMA NoneForgottenStep == IInv /\ NoneForgotten /\ [Next]_vars => NoneForgotten'
<1> SUFFICES ASSUME IInv, NoneForgotten, [Next]_vars, mrun', ~overflow',
                    NEW s \in Seqs, Forgotten(s)'
             PROVE  FALSE
  BY DEF NoneForgotten
<1>1. /\ complete \in Seq(Seqs) /\ events \in [Seqs -> SUBSET Part]
      /\ pending \in [Channels -> Seq(Fragment)] /\ seq \in Seqs
  BY DEF IInv, TypeOK
<1>2. N # 0 /\ Cardinality({}) = 0 BY BuilderAssumption, FS_EmptySet
<1>3. ASSUME mrun, ~overflow
      PROVE  \/ Cardinality(events[s]) # N
             \/ \E i \in DOMAIN complete : complete[i] = s
             \/ cpc = "check" /\ seq = s
  BY <1>3 DEF NoneForgotten, Forgotten
<1>4. /\ Cardinality(events'[s]) = N
      /\ ~\E i \in DOMAIN complete' : complete'[i] = s
      /\ ~(cpc' = "check" /\ seq' = s)
  BY DEF Forgotten
<1>5. CASE Start
  <2>1. events'[s] = {} BY <1>5 DEF Start, NoEvents
  <2> QED BY <1>2, <1>4, <2>1
<1>6. CASE Stop BY <1>6 DEF Stop
<1>7. CASE Reconfigure BY <1>3, <1>4, <1>7 DEF Reconfigure
<1>8. CASE \E c \in Channels : Arrive(c) BY <1>3, <1>4, <1>8 DEF Arrive
<1>9. CASE NextPass \/ RunnerReturns BY <1>3, <1>4, <1>9 DEF NextPass, RunnerReturns
<1>10. CASE \E c \in Channels : NothingReceived(c)
  BY <1>3, <1>4, <1>10 DEF NothingReceived
<1>11. ASSUME NEW c \in Channels, Collect(c)
       PROVE  FALSE
  <2> DEFINE f == Head(pending[c])
  <2>1. f.seq \in Seqs
    <3>1. pending[c] \in Seq(Fragment) /\ pending[c] # <<>> BY <1>1, <1>11 DEF Collect
    <3>2. f \in Fragment BY <3>1
    <3> QED BY <3>2 DEF Fragment
  <2>2. /\ events' = [events EXCEPT ![f.seq] = @ \cup {<<c, f.run>>}]
        /\ mrun' = mrun /\ cpc' = cpc /\ seq' = seq
    BY <1>11 DEF Collect
  <2>3. /\ ~overflow
        /\ Cardinality(events'[f.seq]) = N => complete' = Append(complete, f.seq)
        /\ Cardinality(events'[f.seq]) # N => complete' = complete
    BY <1>11 DEF Collect
  <2> HIDE DEF f
  <2>4. CASE s = f.seq
    <3>1. complete' = Append(complete, s) BY <1>4, <2>3, <2>4
    <3>2. /\ Len(complete) + 1 \in DOMAIN Append(complete, s)
          /\ Append(complete, s)[Len(complete) + 1] = s
      BY <1>1, AppendItems
    <3> QED BY <1>4, <3>1, <3>2
  <2>5. CASE s # f.seq
    <3>1. events'[s] = events[s] BY <1>1, <2>1, <2>2, <2>5
    <3>2. PICK i \in DOMAIN complete : complete[i] = s BY <1>3, <1>4, <2>2, <2>3, <3>1
    <3>3. i \in DOMAIN complete' /\ complete'[i] = s
      <4>1. CASE complete' = complete BY <3>2, <4>1
      <4>2. CASE complete' = Append(complete, f.seq)
        BY <1>1, <2>1, <3>2, <4>2, AppendItems
      <4> QED BY <2>3, <4>1, <4>2
    <3> QED BY <1>4, <3>3
  <2> QED BY <2>4, <2>5
<1>12. CASE ConsumerReads
  <2>1. /\ complete # <<>> /\ seq' = Head(complete) /\ complete' = Tail(complete)
        /\ cpc = "read" /\ cpc' = "check" /\ events' = events
        /\ mrun' = mrun /\ overflow' = overflow
    BY <1>12 DEF ConsumerReads
  <2>2. PICK i \in DOMAIN complete : complete[i] = s BY <1>3, <1>4, <2>1
  <2>3. i = 1 => seq' = s BY <1>1, <2>1, <2>2, TailItems
  <2>4. i # 1 => \E j \in DOMAIN complete' : complete'[j] = s
    BY <1>1, <2>1, <2>2, TailItems
  <2> QED BY <1>4, <2>1, <2>3, <2>4
<1>13. CASE ConsumerEnds \/ ConsumerAbandons
  BY <1>13 DEF ConsumerEnds, ConsumerAbandons
<1>14. CASE ConsumerBuilds
  <2>1. /\ events' = [events EXCEPT ![seq] = {}] /\ complete' = complete
        /\ mrun' = mrun /\ overflow' = overflow
    BY <1>14 DEF ConsumerBuilds
  <2>2. s # seq BY <1>1, <1>2, <1>4, <2>1
  <2> QED BY <1>1, <1>3, <1>4, <2>1, <2>2
<1>15. CASE ConsumerSends BY <1>3, <1>4, <1>15 DEF ConsumerSends
<1>16. CASE ConsumerSendFails \/ ConsumerSendBlocks
  BY <1>3, <1>4, <1>16 DEF ConsumerSendFails, ConsumerSendBlocks
<1>17. CASE UNCHANGED vars BY <1>3, <1>4, <1>17 DEF vars
<1> QED BY <1>5, <1>6, <1>7, <1>8, <1>9, <1>10, <1>11, <1>12, <1>13, <1>14, <1>15,
           <1>16, <1>17 DEF Next, Runner, Consumer

(* Unless write() has found complete_seq full, a complete event is never    *)
(* forgotten in the map, whatever the runner and the consumer interleave:   *)
(* its number is queued or the consumer is about to build the event.        *)
THEOREM NothingForgotten == Safety => []NoneForgotten
<1>1. Init => NoneForgotten BY DEF Init, NoneForgotten
<1> QED BY <1>1, Typed, NoneForgottenStep, PTL DEF Safety

-----------------------------------------------------------------------------
(* Fragments: none is taken twice.                                          *)

(* What is in the connections are fragments. *)
LEMMA PendingTyped ==
    ASSUME IInv, NEW c \in Channels
    PROVE  /\ pending[c] \in Seq(Fragment)
           /\ \A i \in DOMAIN pending[c] :
                 /\ pending[c][i].seq \in Seqs /\ pending[c][i].run \in Runs
                 /\ <<c, pending[c][i].run>> \in Part
<1>1. pending[c] \in Seq(Fragment) BY DEF IInv, TypeOK
<1>2. \A i \in DOMAIN pending[c] : pending[c][i] \in Fragment BY <1>1
<1> QED BY <1>1, <1>2 DEF Fragment, Part

(* Steps that move no fragment, or only forget some: stop, new connections, *)
(* the loop tests, and the consumer's steps that build and send nothing.    *)
LEMMA QuietFragments ==
    ASSUME IInv, FragmentsInv, run' = run, src' = src, events' = events, sent' = sent,
           \A c \in Channels : pending'[c] \in {pending[c], <<>>},
           \A s \in Seqs : InHands(s)' \in {InHands(s), {}}
    PROVE  FragmentsInv'
<1> USE DEF FragmentsInv
<1>1. \A c, s, r : Been(c, s, r)' <=> Been(c, s, r) BY DEF Been, BeenBy
<1>2. \A s \in Seqs, p \in Part : Taken(s, p)' => Taken(s, p)
  BY DEF Taken, SentWith
<1>3. \A c \in Channels : \A i \in DOMAIN pending'[c] :
         i \in DOMAIN pending[c] /\ pending'[c][i] = pending[c][i]
  <2>1. DOMAIN <<>> = {} OBVIOUS
  <2> QED BY <2>1
<1>4. PendingFresh' BY <1>1, <1>3 DEF PendingFresh
<1>5. PendingOnce' BY <1>3 DEF PendingOnce
<1>6. TakenFresh' BY <1>1, <1>2 DEF TakenFresh
<1>7. TakenLeft' BY <1>2, <1>3, PendingTyped DEF TakenLeft
<1>8. TakenOnce' BY DEF TakenOnce, SentWith
<1> QED BY <1>4, <1>5, <1>6, <1>7, <1>8

(* A new run: the builder's variables are new, and what is left in the      *)
(* connections is of an earlier run.                                        *)
LEMMA StartFragments ==
    ASSUME IInv, FragmentsInv, Start
    PROVE  FragmentsInv'
<1> USE DEF FragmentsInv
<1>1. /\ run' = run + 1 /\ events' = NoEvents /\ sent' = <<>> /\ cpc' = "read"
      /\ pending' = pending /\ run \in Nat
  BY DEF Start, IInv, TypeOK
<1>2. \A s \in Seqs : InHands(s)' = {} /\ events'[s] = {} BY <1>1 DEF InHands, Sending, NoEvents
<1>3. DOMAIN sent' = {} BY <1>1
<1>4. \A s \in Seqs : \A p : ~Taken(s, p)' BY <1>2, <1>3 DEF Taken
<1>5. PendingFresh'
  <2> SUFFICES ASSUME NEW c \in Channels, NEW i \in DOMAIN pending[c]
               PROVE  BeenBy(run', src', c, pending[c][i].seq, pending[c][i].run)
    BY <1>1 DEF PendingFresh, Been
  <2>1. Been(c, pending[c][i].seq, pending[c][i].run) BY DEF PendingFresh
  <2>2. pending[c][i].run \in Runs BY PendingTyped
  <2>3. pending[c][i].run < run + 1 BY <1>1, <2>1, <2>2 DEF Been, BeenBy, Runs
  <2> QED BY <1>1, <2>3 DEF BeenBy
<1>6. PendingOnce' BY <1>1 DEF PendingOnce
<1>7. TakenFresh' BY <1>4 DEF TakenFresh
<1>8. TakenLeft' BY <1>1, <1>4, PendingTyped DEF TakenLeft
<1>9. TakenOnce' BY <1>2, <1>3 DEF TakenOnce
<1> QED BY <1>5, <1>6, <1>7, <1>8, <1>9

(* A source sends its next fragment, which differs from all before it. *)
LEMMA ArriveFragments ==
    ASSUME IInv, FragmentsInv, NEW c \in Channels, Arrive(c)
    PROVE  FragmentsInv'
<1> USE DEF FragmentsInv
<1> DEFINE f == [seq |-> src[c], run |-> run]
<1>1. /\ run' = run /\ events' = events /\ sent' = sent /\ cpc' = cpc /\ seq' = seq
      /\ out' = out /\ src' = [src EXCEPT ![c] = src[c] + 1]
      /\ \/ pending' = pending
         \/ pending' = [pending EXCEPT ![c] = Append(pending[c], f)]
  BY DEF Arrive
<1>2. /\ src \in [Channels -> 0..(MaxSeq + 1)] /\ run \in Nat
      /\ pending \in [Channels -> Seq(Fragment)]
  BY DEF IInv, TypeOK
<1>3. f \in Fragment /\ f.seq = src[c] /\ f.run = run /\ <<c, run>> \in Part
  <2>1. run \in Runs BY DEF Arrive, IInv
  <2>2. src[c] \in Seqs BY <1>2, BuilderAssumption DEF Arrive, Seqs
  <2> QED BY <2>1, <2>2 DEF Fragment, Part
<1>4. src[c] \in Nat /\ src'[c] = src[c] + 1 /\ \A d \in Channels : d # c => src'[d] = src[d]
  BY <1>1, <1>2, BuilderAssumption
<1>5. ASSUME NEW d \in Channels, NEW s \in Seqs, NEW r, Been(d, s, r)
      PROVE  BeenBy(run', src', d, s, r)
  <2>1. s \in Nat BY BuilderAssumption DEF Seqs
  <2> QED BY <1>1, <1>4, <1>5, <2>1 DEF Been, BeenBy
<1>6. \A s, p : Taken(s, p)' <=> Taken(s, p) BY <1>1 DEF Taken, InHands, Sending, SentWith
<1>7. ~Been(c, src[c], run) BY <1>2, <1>4 DEF Been, BeenBy
<1>8. BeenBy(run', src', c, src[c], run) BY <1>1, <1>4 DEF BeenBy
<1> HIDE DEF f
<1>9. ASSUME NEW d \in Channels, NEW i \in DOMAIN pending'[d]
      PROVE  \/ i \in DOMAIN pending[d] /\ pending'[d][i] = pending[d][i]
             \/ d = c /\ i = Len(pending[c]) + 1 /\ pending'[d][i] = f
  <2>1. CASE pending' = pending BY <1>9, <2>1
  <2>2. CASE pending' = [pending EXCEPT ![c] = Append(pending[c], f)]
    <3>1. CASE d # c BY <1>2, <1>9, <2>2, <3>1
    <3>2. CASE d = c
      <4>1. pending'[d] = Append(pending[c], f) /\ pending[c] \in Seq(Fragment)
        BY <1>2, <2>2, <3>2
      <4> QED BY <1>3, <1>9, <3>2, <4>1, AppendItems
    <3> QED BY <3>1, <3>2
  <2> QED BY <1>1, <2>1, <2>2
<1>10. PendingFresh'
  <2> SUFFICES ASSUME NEW d \in Channels, NEW i \in DOMAIN pending'[d]
               PROVE  BeenBy(run', src', d, pending'[d][i].seq, pending'[d][i].run)
    BY DEF PendingFresh, Been
  <2>1. CASE i \in DOMAIN pending[d] /\ pending'[d][i] = pending[d][i]
    <3>1. Been(d, pending[d][i].seq, pending[d][i].run) /\ pending[d][i].seq \in Seqs
      BY <2>1, PendingTyped DEF PendingFresh
    <3> QED BY <1>5, <2>1, <3>1
  <2>2. CASE d = c /\ pending'[d][i] = f BY <1>3, <1>8, <2>2
  <2> QED BY <1>9, <2>1, <2>2
<1>11. PendingOnce'
  <2> SUFFICES ASSUME NEW d \in Channels, NEW i \in DOMAIN pending'[d],
                      NEW j \in DOMAIN pending'[d], i # j
               PROVE  pending'[d][i] # pending'[d][j]
    BY DEF PendingOnce
  <2>1. \A k \in DOMAIN pending[c] : pending[c][k] # f BY <1>3, <1>7 DEF PendingFresh
  <2> QED BY <1>9, <2>1 DEF PendingOnce
<1>12. TakenFresh'
  <2> SUFFICES ASSUME NEW s \in Seqs, NEW p \in Part, Taken(s, p)
               PROVE  BeenBy(run', src', p[1], s, p[2])
    BY <1>6 DEF TakenFresh, Been
  <2>1. Been(p[1], s, p[2]) /\ p[1] \in Channels BY DEF TakenFresh, Part
  <2> QED BY <1>5, <2>1
<1>13. TakenLeft'
  <2> SUFFICES ASSUME NEW d \in Channels, NEW i \in DOMAIN pending'[d],
                      Taken(pending'[d][i].seq, <<d, pending'[d][i].run>>)
               PROVE  FALSE
    BY <1>6 DEF TakenLeft
  <2>1. CASE i \in DOMAIN pending[d] /\ pending'[d][i] = pending[d][i]
    BY <2>1 DEF TakenLeft
  <2>2. CASE d = c /\ pending'[d][i] = f
    <3>1. Taken(src[c], <<c, run>>) /\ src[c] \in Seqs BY <1>3, <2>2 DEF Fragment
    <3> QED BY <1>3, <1>7, <3>1 DEF TakenFresh
  <2> QED BY <1>9, <2>1, <2>2
<1>14. TakenOnce' BY <1>1 DEF TakenOnce, InHands, Sending, SentWith
<1> QED BY <1>10, <1>11, <1>12, <1>13, <1>14

(* The runner takes a fragment from a connection into the map. *)
LEMMA CollectFragments ==
    ASSUME IInv, FragmentsInv, NEW c \in Channels, Collect(c)
    PROVE  FragmentsInv'
<1> USE DEF FragmentsInv
<1> DEFINE f == Head(pending[c])
           q == <<c, f.run>>
           At(d, i) == IF d = c THEN i + 1 ELSE i
<1>1. /\ run' = run /\ src' = src /\ sent' = sent /\ cpc' = cpc /\ seq' = seq
      /\ out' = out /\ pending[c] # <<>>
      /\ pending' = [pending EXCEPT ![c] = Tail(pending[c])]
      /\ events' = [events EXCEPT ![f.seq] = events[f.seq] \cup {q}]
  BY DEF Collect
<1>2. /\ pending \in [Channels -> Seq(Fragment)] /\ pending[c] \in Seq(Fragment)
      /\ events \in [Seqs -> SUBSET Part]
  BY DEF IInv, TypeOK
<1>3. 1 \in DOMAIN pending[c] /\ pending[c][1] = f BY <1>1, <1>2, TailItems
<1>4. /\ f \in Fragment /\ f.seq \in Seqs /\ f.run \in Runs /\ q \in Part
      /\ Been(c, f.seq, f.run) /\ ~Taken(f.seq, q)
  <2>1. f \in Fragment BY <1>1, <1>2, TailItems
  <2>2. f.seq \in Seqs /\ f.run \in Runs /\ q \in Part BY <1>3, PendingTyped
  <2>3. Been(c, f.seq, f.run) BY <1>3 DEF PendingFresh
  <2>4. ~Taken(f.seq, q) BY <1>3 DEF TakenLeft
  <2> QED BY <2>1, <2>2, <2>3, <2>4
<1>5. ASSUME NEW d \in Channels, NEW i \in DOMAIN pending'[d]
      PROVE  /\ At(d, i) \in DOMAIN pending[d] /\ pending'[d][i] = pending[d][At(d, i)]
             /\ d = c => At(d, i) # 1 /\ i \in Nat
  <2>1. CASE d # c BY <1>1, <1>2, <1>5, <2>1
  <2>2. CASE d = c
    <3>1. pending'[d] = Tail(pending[c]) BY <1>1, <1>2, <2>2
    <3> QED BY <1>1, <1>2, <1>5, <2>2, <3>1, TailItems
  <2> QED BY <2>1, <2>2
<1>6. /\ events'[f.seq] = events[f.seq] \cup {q}
      /\ \A s \in Seqs : s # f.seq => events'[s] = events[s]
  BY <1>1, <1>2, <1>4
<1>7. \A s : InHands(s)' = InHands(s) BY <1>1 DEF InHands, Sending
<1>8. \A s, i : SentWith(s, i)' = SentWith(s, i) BY <1>1 DEF SentWith
<1>9. \A s \in Seqs : \A p : Taken(s, p)' => Taken(s, p) \/ (s = f.seq /\ p = q)
  BY <1>1, <1>6, <1>7, <1>8 DEF Taken
<1> HIDE DEF f, q
<1>10. PendingFresh'
  <2> SUFFICES ASSUME NEW d \in Channels, NEW i \in DOMAIN pending'[d]
               PROVE  Been(d, pending'[d][i].seq, pending'[d][i].run)
    BY <1>1 DEF PendingFresh, Been
  <2> QED BY <1>5 DEF PendingFresh
<1>11. PendingOnce'
  <2> SUFFICES ASSUME NEW d \in Channels, NEW i \in DOMAIN pending'[d],
                      NEW j \in DOMAIN pending'[d], i # j
               PROVE  pending'[d][i] # pending'[d][j]
    BY DEF PendingOnce
  <2>1. At(d, i) # At(d, j) BY <1>5
  <2> HIDE DEF At
  <2> QED BY <1>5, <2>1 DEF PendingOnce
<1>12. TakenFresh'
  <2> SUFFICES ASSUME NEW s \in Seqs, NEW p \in Part, Taken(s, p)'
               PROVE  Been(p[1], s, p[2])
    BY <1>1 DEF TakenFresh, Been
  <2>1. CASE Taken(s, p) BY <2>1 DEF TakenFresh
  <2>2. CASE s = f.seq /\ p = q BY <1>4, <2>2 DEF q
  <2> QED BY <1>9, <2>1, <2>2
<1>13. TakenLeft'
  <2> SUFFICES ASSUME NEW d \in Channels, NEW i \in DOMAIN pending'[d],
                      NEW s, NEW p, s = pending'[d][i].seq,
                      p = <<d, pending'[d][i].run>>, Taken(s, p)'
               PROVE  FALSE
    BY DEF TakenLeft
  <2> DEFINE g == pending[d][At(d, i)]
  <2>1. At(d, i) \in DOMAIN pending[d] /\ pending'[d][i] = g BY <1>5
  <2>2. s = g.seq /\ p = <<d, g.run>> BY <2>1
  <2>3. s \in Seqs /\ ~Taken(s, p) BY <2>1, <2>2, PendingTyped DEF TakenLeft
  <2>4. s = f.seq /\ p = q BY <1>9, <2>3
  <2>5. d = c /\ g.run = f.run /\ g.seq = f.seq BY <2>2, <2>4 DEF q
  <2>6. g \in Fragment BY <1>2, <2>1
  <2>7. g = f
    <3> HIDE DEF g
    <3> QED BY <1>4, <2>5, <2>6 DEF Fragment
  <2>8. At(d, i) # 1 BY <1>5, <2>5
  <2> QED BY <1>3, <2>1, <2>5, <2>7, <2>8 DEF PendingOnce
<1>14. TakenOnce'
  <2> SUFFICES ASSUME NEW s \in Seqs
               PROVE  /\ events'[s] \cap InHands(s) = {}
                      /\ \A i \in DOMAIN sent : /\ SentWith(s, i) \cap events'[s] = {}
                                                /\ SentWith(s, i) \cap InHands(s) = {}
                      /\ \A i, j \in DOMAIN sent :
                            i # j => SentWith(s, i) \cap SentWith(s, j) = {}
    BY <1>1, <1>7, <1>8 DEF TakenOnce
  <2>1. CASE s # f.seq BY <1>6, <2>1 DEF TakenOnce
  <2>2. CASE s = f.seq
    <3>1. q \notin InHands(s) /\ \A i \in DOMAIN sent : q \notin SentWith(s, i)
      BY <1>4, <2>2 DEF Taken
    <3> QED BY <1>6, <2>2, <3>1 DEF TakenOnce
  <2> QED BY <2>1, <2>2
<1> QED BY <1>10, <1>11, <1>12, <1>13, <1>14

(* The consumer takes a whole entry of the map into its hands. *)
LEMMA BuildFragments ==
    ASSUME IInv, FragmentsInv, ConsumerBuilds
    PROVE  FragmentsInv'
<1> USE DEF FragmentsInv
<1>1. /\ run' = run /\ src' = src /\ sent' = sent /\ pending' = pending
      /\ cpc = "check" /\ cpc' = "send" /\ seq' = seq /\ out' = events[seq]
      /\ events' = [events EXCEPT ![seq] = {}]
  BY DEF ConsumerBuilds
<1>2. events \in [Seqs -> SUBSET Part] /\ seq \in Seqs BY DEF IInv, TypeOK
<1>3. /\ events'[seq] = {} /\ InHands(seq)' = events[seq]
      /\ \A s \in Seqs : s # seq => events'[s] = events[s] /\ InHands(s)' = {}
      /\ \A s \in Seqs : InHands(s) = {}
  BY <1>1, <1>2 DEF InHands, Sending
<1>4. \A s, i : SentWith(s, i)' = SentWith(s, i) BY <1>1 DEF SentWith
<1>5. \A s \in Seqs : \A p : Taken(s, p)' <=> Taken(s, p)
  BY <1>1, <1>3, <1>4 DEF Taken
<1>6. PendingFresh' /\ PendingOnce' BY <1>1 DEF PendingFresh, PendingOnce, Been
<1>7. TakenFresh' BY <1>1, <1>5 DEF TakenFresh, Been
<1>8. TakenLeft' BY <1>1, <1>5, PendingTyped DEF TakenLeft
<1>9. TakenOnce' BY <1>1, <1>3, <1>4 DEF TakenOnce
<1> QED BY <1>6, <1>7, <1>8, <1>9

(* What the consumer holds becomes a sent event. *)
LEMMA SendFragments ==
    ASSUME IInv, FragmentsInv, ConsumerSends
    PROVE  FragmentsInv'
<1> USE DEF FragmentsInv
<1> DEFINE n == Len(sent) + 1
<1>1. /\ run' = run /\ src' = src /\ pending' = pending /\ events' = events
      /\ Sending /\ cpc' = "read" /\ seq' = seq
      /\ sent' = Append(sent, <<seq, out>>)
  BY DEF ConsumerSends, Sending
<1>2. /\ sent \in Seq(Seqs \X SUBSET Part) /\ <<seq, out>> \in Seqs \X SUBSET Part
  BY DEF IInv, TypeOK
<1>3. /\ DOMAIN sent' = DOMAIN sent \cup {n} /\ n \notin DOMAIN sent
      /\ sent'[n] = <<seq, out>>
      /\ \A i \in DOMAIN sent : sent'[i] = sent[i]
  BY <1>1, <1>2, AppendItems
<1> HIDE DEF n
<1>4. \A s : InHands(s)' = {} BY <1>1 DEF InHands, Sending
<1>5. \A s : \A i \in DOMAIN sent : SentWith(s, i)' = SentWith(s, i)
  BY <1>3 DEF SentWith
<1>6. \A s : (IF sent'[n][1] = s THEN sent'[n][2] ELSE {}) = InHands(s)
  BY <1>1, <1>3 DEF InHands
<1>7. \A s \in Seqs : \A p : Taken(s, p)' <=> Taken(s, p)
  BY <1>1, <1>3, <1>4, <1>5, <1>6 DEF Taken, SentWith
<1>8. PendingFresh' /\ PendingOnce' BY <1>1 DEF PendingFresh, PendingOnce, Been
<1>9. TakenFresh' BY <1>1, <1>7 DEF TakenFresh, Been
<1>10. TakenLeft' BY <1>1, <1>7, PendingTyped DEF TakenLeft
<1>11. TakenOnce' BY <1>1, <1>3, <1>4, <1>5, <1>6 DEF TakenOnce, SentWith
<1> QED BY <1>8, <1>9, <1>10, <1>11

(* Every step keeps each fragment in one place. *)
LEMMA FragmentsStep == IInv /\ FragmentsInv /\ [Next]_vars => FragmentsInv'
<1> SUFFICES ASSUME IInv, FragmentsInv, [Next]_vars
             PROVE  FragmentsInv'
  OBVIOUS
<1>1. pending \in [Channels -> Seq(Fragment)] BY DEF IInv, TypeOK
<1>2. CASE Start BY <1>2, StartFragments
<1>3. ASSUME NEW c \in Channels, Arrive(c) PROVE FragmentsInv' BY <1>3, ArriveFragments
<1>4. ASSUME NEW c \in Channels, Collect(c) PROVE FragmentsInv' BY <1>4, CollectFragments
<1>5. CASE ConsumerBuilds BY <1>5, BuildFragments
<1>6. CASE ConsumerSends BY <1>6, SendFragments
<1>7. ASSUME \/ Stop \/ Reconfigure \/ NextPass \/ RunnerReturns
             \/ \E c \in Channels : NothingReceived(c)
             \/ ConsumerReads \/ ConsumerEnds \/ ConsumerAbandons
             \/ ConsumerSendBlocks \/ ConsumerSendFails \/ UNCHANGED vars
      PROVE  FragmentsInv'
  <2>1. run' = run /\ src' = src /\ events' = events /\ sent' = sent
    BY <1>7 DEF Stop, Reconfigure, NextPass, RunnerReturns, NothingReceived, ConsumerReads,
                ConsumerEnds, ConsumerAbandons, ConsumerSendBlocks, ConsumerSendFails, vars
  <2>2. \A c \in Channels : pending'[c] \in {pending[c], <<>>}
    BY <1>1, <1>7 DEF Stop, Reconfigure, NextPass, RunnerReturns, NothingReceived,
                ConsumerReads, ConsumerEnds, ConsumerAbandons, ConsumerSendBlocks, ConsumerSendFails, vars
  <2>3. \A s \in Seqs : InHands(s)' \in {InHands(s), {}}
    BY <1>7 DEF InHands, Sending, Stop, Reconfigure, NextPass, RunnerReturns, NothingReceived,
                ConsumerReads, ConsumerEnds, ConsumerAbandons, ConsumerSendBlocks, ConsumerSendFails, vars
  <2> QED BY <2>1, <2>2, <2>3, QuietFragments
<1> QED BY <1>2, <1>3, <1>4, <1>5, <1>6, <1>7 DEF Next, Runner, Consumer

-----------------------------------------------------------------------------
(* Events: what is queued is complete, what is built is whole.              *)

(* Steps that leave the map, the queue and the consumer's work alone. *)
LEMMA QuietQueue ==
    ASSUME QueueInv, run' = run, events' = events, complete' = complete,
           seq' = seq, sent' = sent, out' \in {out, {}},
           cpc' = "check" => cpc = "check", Sending' => Sending
    PROVE  QueueInv'
<1> USE DEF QueueInv
<1>1. QueuedComplete' BY DEF QueuedComplete
<1>2. QueuedOnce' BY DEF QueuedOnce
<1>3. HandsWhole' BY DEF HandsWhole, Whole, Stale
<1>4. EventsAreWhole' BY DEF EventsAreWhole, Stale
<1> QED BY <1>1, <1>2, <1>3, <1>4

(* The runner queues the number of an event when its N-th fragment comes,   *)
(* and not again: the fragments that follow make the event larger.          *)
LEMMA CollectQueue ==
    ASSUME IInv, FragmentsInv, QueueInv, NEW c \in Channels, Collect(c)
    PROVE  QueueInv'
<1> USE DEF QueueInv
<1> DEFINE f == Head(pending[c])
           q == <<c, f.run>>
<1>1. /\ run' = run /\ sent' = sent /\ cpc' = cpc /\ seq' = seq /\ out' = out
      /\ pending[c] # <<>>
      /\ events' = [events EXCEPT ![f.seq] = events[f.seq] \cup {q}]
      /\ \/ complete' = complete
         \/ complete' = Append(complete, f.seq) /\ Cardinality(events'[f.seq]) = N
  BY DEF Collect
<1>2. /\ pending[c] \in Seq(Fragment) /\ events \in [Seqs -> SUBSET Part]
      /\ complete \in Seq(Seqs) /\ seq \in Seqs /\ N \in Nat
  BY BuilderAssumption DEF IInv, TypeOK
<1>3. 1 \in DOMAIN pending[c] /\ pending[c][1] = f BY <1>1, <1>2, TailItems
<1>4. f.seq \in Seqs /\ q \in Part /\ q \notin events[f.seq]
  BY <1>3, PendingTyped DEF FragmentsInv, TakenLeft, Taken
<1> HIDE DEF f, q
<1>5. /\ events'[f.seq] = events[f.seq] \cup {q}
      /\ \A s \in Seqs : s # f.seq => events'[s] = events[s]
  BY <1>1, <1>2, <1>4
<1>6. \A s \in Seqs : Cardinality(events[s]) \in Nat BY <1>2, PartsFinite
<1>7. Cardinality(events'[f.seq]) = Cardinality(events[f.seq]) + 1
  <2>1. IsFiniteSet(events[f.seq]) BY <1>2, <1>4, PartsFinite
  <2> QED BY <1>4, <1>5, <2>1, FS_AddElement
<1>8. ASSUME NEW s \in Seqs, Cardinality(events[s]) >= N
      PROVE  Cardinality(events'[s]) >= N
  <2>1. CASE s = f.seq
    <3>1. Cardinality(events[s]) \in Nat /\ Cardinality(events'[s]) = Cardinality(events[s]) + 1
      BY <1>6, <1>7, <2>1
    <3> QED BY <1>2, <1>8, <3>1
  <2>2. CASE s # f.seq BY <1>5, <1>8, <2>2
  <2> QED BY <2>1, <2>2
<1>9. /\ DOMAIN Append(complete, f.seq) = DOMAIN complete \cup {Len(complete) + 1}
      /\ Len(complete) + 1 \notin DOMAIN complete
      /\ Append(complete, f.seq)[Len(complete) + 1] = f.seq
      /\ \A i \in DOMAIN complete :
            complete[i] \in Seqs /\ Append(complete, f.seq)[i] = complete[i]
  BY <1>2, <1>4, AppendItems
<1>10. ASSUME complete' = Append(complete, f.seq), Cardinality(events'[f.seq]) = N
       PROVE  /\ \A i \in DOMAIN complete : complete[i] # f.seq
              /\ cpc = "check" => seq # f.seq
  BY <1>2, <1>4, <1>6, <1>7, <1>10 DEF QueuedComplete
<1>11. QueuedComplete'
  <2>1. ASSUME NEW i \in DOMAIN complete'
        PROVE  Cardinality(events'[complete'[i]]) >= N
    <3>1. CASE i \in DOMAIN complete
      <4>1. complete'[i] = complete[i] /\ complete[i] \in Seqs BY <1>1, <1>9, <3>1
      <4>2. Cardinality(events[complete[i]]) >= N BY <3>1 DEF QueuedComplete
      <4> QED BY <1>8, <4>1, <4>2
    <3>2. CASE i \notin DOMAIN complete
      <4>1. complete'[i] = f.seq /\ Cardinality(events'[f.seq]) = N
        BY <1>1, <1>9, <2>1, <3>2
      <4> QED BY <1>2, <4>1
    <3> QED BY <3>1, <3>2
  <2> QED BY <1>1, <1>2, <1>8, <2>1 DEF QueuedComplete
<1>12. QueuedOnce' BY <1>1, <1>9, <1>10 DEF QueuedOnce
<1>13. HandsWhole' BY <1>1 DEF HandsWhole, Sending, Whole, Stale
<1>14. EventsAreWhole' BY <1>1 DEF EventsAreWhole, Stale
<1> QED BY <1>11, <1>12, <1>13, <1>14

(* The consumer takes a number out of the queue. *)
LEMMA ReadQueue ==
    ASSUME IInv, QueueInv, ConsumerReads
    PROVE  QueueInv'
<1> USE DEF QueueInv
<1>1. /\ run' = run /\ events' = events /\ sent' = sent /\ out' = out
      /\ complete # <<>> /\ seq' = Head(complete) /\ complete' = Tail(complete)
      /\ cpc' = "check"
  BY DEF ConsumerReads
<1>2. complete \in Seq(Seqs) BY DEF IInv, TypeOK
<1>3. /\ 1 \in DOMAIN complete /\ complete[1] = seq'
      /\ \A i \in DOMAIN complete' :
            i \in Nat /\ i + 1 \in DOMAIN complete /\ i + 1 # 1 /\ complete'[i] = complete[i + 1]
  BY <1>1, <1>2, TailItems
<1>4. QueuedComplete' BY <1>1, <1>3 DEF QueuedComplete
<1>5. QueuedOnce' BY <1>1, <1>3 DEF QueuedOnce
<1>6. HandsWhole' BY <1>1 DEF HandsWhole, Sending
<1>7. EventsAreWhole' BY <1>1 DEF EventsAreWhole, Stale
<1> QED BY <1>4, <1>5, <1>6, <1>7

(* A set of at least N parts, all of one run, is one part of every channel. *)
LEMMA WholeEvent ==
    ASSUME NEW e \in SUBSET Part, run \in Runs, Cardinality(e) >= N
    PROVE  Stale(e) \/ e = Channels \X {run}
<1> SUFFICES ASSUME ~Stale(e) PROVE e = Channels \X {run}
  OBVIOUS
<1>1. e \in SUBSET (Channels \X {run}) BY DEF Stale, Part
<1>2. IsFiniteSet(Channels \X {run}) /\ Cardinality(Channels \X {run}) = N BY PartsFinite
<1>3. Cardinality(e) \in Nat /\ N \in Nat BY PartsFinite, BuilderAssumption
<1>4. /\ Cardinality(e) <= Cardinality(Channels \X {run})
      /\ Cardinality(Channels \X {run}) = Cardinality(e) => Channels \X {run} = e
  BY <1>1, <1>2, FS_Subset
<1> QED BY <1>2, <1>3, <1>4

(* The consumer builds the event: no number of it is left in the queue. *)
LEMMA BuildQueue ==
    ASSUME IInv, QueueInv, ConsumerBuilds
    PROVE  QueueInv'
<1> USE DEF QueueInv
<1>1. /\ run' = run /\ sent' = sent /\ complete' = complete /\ mrun
      /\ cpc = "check" /\ cpc' = "send" /\ seq' = seq /\ out' = events[seq]
      /\ events' = [events EXCEPT ![seq] = {}]
  BY DEF ConsumerBuilds
<1>2. /\ events \in [Seqs -> SUBSET Part] /\ seq \in Seqs /\ complete \in Seq(Seqs)
      /\ run \in Runs
  BY <1>1 DEF IInv, TypeOK
<1>3. \A i \in DOMAIN complete : complete[i] \in Seqs /\ complete[i] # seq
  BY <1>1, <1>2 DEF QueuedOnce
<1>4. QueuedComplete' BY <1>1, <1>2, <1>3 DEF QueuedComplete
<1>5. QueuedOnce' BY <1>1 DEF QueuedOnce
<1>6. HandsWhole'
  <2>1. Stale(events[seq]) \/ events[seq] = Channels \X {run}
    BY <1>1, <1>2, WholeEvent DEF QueuedComplete
  <2> QED BY <1>1, <2>1 DEF HandsWhole, Whole, Stale
<1>7. EventsAreWhole' BY <1>1 DEF EventsAreWhole, Stale
<1> QED BY <1>4, <1>5, <1>6, <1>7

(* The consumer sends what it has built. *)
LEMMA SendQueue ==
    ASSUME IInv, QueueInv, ConsumerSends
    PROVE  QueueInv'
<1> USE DEF QueueInv
<1>1. /\ run' = run /\ events' = events /\ complete' = complete
      /\ Sending /\ cpc' = "read" /\ sent' = Append(sent, <<seq, out>>)
  BY DEF ConsumerSends, Sending
<1>2. sent \in Seq(Seqs \X SUBSET Part) /\ <<seq, out>> \in Seqs \X SUBSET Part
  BY DEF IInv, TypeOK
<1>3. /\ DOMAIN sent' = DOMAIN sent \cup {Len(sent) + 1}
      /\ sent'[Len(sent) + 1] = <<seq, out>>
      /\ \A i \in DOMAIN sent : sent'[i] = sent[i]
  BY <1>1, <1>2, AppendItems
<1>4. QueuedComplete' BY <1>1 DEF QueuedComplete
<1>5. QueuedOnce' BY <1>1 DEF QueuedOnce
<1>6. HandsWhole' BY <1>1 DEF HandsWhole, Sending
<1>7. EventsAreWhole'
  <2>1. Whole(out) BY <1>1 DEF HandsWhole
  <2> QED BY <1>1, <1>3, <2>1 DEF EventsAreWhole, Whole, Stale
<1> QED BY <1>4, <1>5, <1>6, <1>7

(* Every step keeps the queue and the events. *)
LEMMA QueueStep == IInv /\ FragmentsInv /\ QueueInv /\ [Next]_vars => QueueInv'
<1> SUFFICES ASSUME IInv, FragmentsInv, QueueInv, [Next]_vars
             PROVE  QueueInv'
  OBVIOUS
<1>1. CASE Start
  <2>1. complete' = <<>> /\ cpc' = "read" /\ sent' = <<>> BY <1>1 DEF Start
  <2> QED BY <2>1 DEF QueueInv, QueuedComplete, QueuedOnce, HandsWhole, Sending, EventsAreWhole
<1>2. ASSUME NEW c \in Channels, Collect(c) PROVE QueueInv' BY <1>2, CollectQueue
<1>3. CASE ConsumerReads BY <1>3, ReadQueue
<1>4. CASE ConsumerBuilds BY <1>4, BuildQueue
<1>5. CASE ConsumerSends BY <1>5, SendQueue
<1>6. ASSUME \/ Stop \/ Reconfigure \/ NextPass \/ RunnerReturns
             \/ \E c \in Channels : NothingReceived(c) \/ Arrive(c)
             \/ ConsumerEnds \/ ConsumerAbandons
             \/ ConsumerSendBlocks \/ ConsumerSendFails \/ UNCHANGED vars
      PROVE  QueueInv'
  <2>1. /\ run' = run /\ events' = events /\ complete' = complete /\ seq' = seq
        /\ sent' = sent /\ out' \in {out, {}} /\ (cpc' = "check" => cpc = "check")
        /\ (Sending' => Sending)
    BY <1>6 DEF Sending, Stop, Reconfigure, NextPass, RunnerReturns, NothingReceived, Arrive,
                ConsumerEnds, ConsumerAbandons, ConsumerSendBlocks, ConsumerSendFails, vars
  <2> QED BY <2>1, QuietQueue
<1> QED BY <1>1, <1>2, <1>3, <1>4, <1>5, <1>6 DEF Next, Runner, Consumer

(* The whole invariant. *)
LEMMA Invariant == Safety => [](IInv /\ FragmentsInv /\ QueueInv)
<1>1. Init => FragmentsInv
  <2> SUFFICES ASSUME Init PROVE FragmentsInv
    OBVIOUS
  <2>1. DOMAIN sent = {} /\ \A c \in Channels : DOMAIN pending[c] = {} BY DEF Init
  <2>2. \A s \in Seqs : events[s] = {} /\ InHands(s) = {} BY DEF Init, NoEvents, InHands, Sending
  <2> QED BY <2>1, <2>2 DEF FragmentsInv, PendingFresh, PendingOnce, TakenFresh, TakenLeft,
                            TakenOnce, Taken
<1>2. Init => QueueInv
  BY DEF Init, QueueInv, QueuedComplete, QueuedOnce, HandsWhole, Sending, EventsAreWhole
<1> QED BY <1>1, <1>2, Typed, FragmentsStep, QueueStep, PTL DEF Safety

(* Every event that is sent, emptied by a failed send, or built with a      *)
(* fragment that an earlier run left in a connection, aside, has exactly    *)
(* one fragment of every channel, all of this run.                          *)
THEOREM WholeEvents == Safety => []EventsAreWhole
<1>1. QueueInv => EventsAreWhole BY DEF QueueInv
<1> QED BY <1>1, Invariant, PTL

(* Such an event is sent once: its fragments are in no other event.         *)
THEOREM SentOnce == Safety => []EventsSentOnce
<1>1. IInv /\ FragmentsInv /\ QueueInv => EventsSentOnce
  <2> SUFFICES ASSUME IInv, FragmentsInv, QueueInv,
                      NEW i \in DOMAIN sent, NEW j \in DOMAIN sent,
                      i # j, sent[i][1] = sent[j][1],
                      ~Stale(sent[i][2]), ~Stale(sent[j][2]), sent[i][2] # {}, sent[j][2] # {}
               PROVE  FALSE
    BY DEF EventsSentOnce
  <2>1. sent[i] \in Seqs \X SUBSET Part BY DEF IInv, TypeOK
  <2>2. sent[i][2] = Channels \X {run} /\ sent[j][2] = Channels \X {run}
    BY DEF QueueInv, EventsAreWhole
  <2>3. sent[i][1] \in Seqs BY <2>1
  <2>4. sent[i][2] \cap sent[j][2] = {} BY <2>3 DEF FragmentsInv, TakenOnce, SentWith
  <2> QED BY <2>2, <2>4
<1> QED BY <1>1, Invariant, PTL
=============================================================================
