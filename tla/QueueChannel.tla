---------------------------- MODULE QueueChannel ----------------------------
(***************************************************************************)
(* One queue-wrapped connection between two modules (Core/Sender.cpp,      *)
(* Core/Receiver.cpp, Core/Queue.cpp, ConnectionSubManager):               *)
(*                                                                         *)
(*   producer -> QueueSender queue -> handler thread -> chained sender     *)
(*     -> transport -> chained receiver -> handler thread                  *)
(*     -> QueueReceiver queue -> consumer                                  *)
(*                                                                         *)
(* The two ends live in two processes or modules, which are started and    *)
(* stopped independently.  ModuleManager starts the connections of a       *)
(* module before its runner thread and stops them after it has joined the  *)
(* runner, so producer and consumer act only while their end is running.   *)
(***************************************************************************)
EXTENDS Naturals, Sequences

CONSTANTS
    Transports,    \* the kinds of transport: "pair", "pub", "local"
    SenderCap,     \* messages that fit in the queue of the QueueSender
    WireCap,       \* messages that fit in the transport
    ReceiverCap,   \* messages that fit in the queue of the QueueReceiver
    MaxMsg         \* bound on the number of messages produced

ASSUME ChannelAssumption ==
    /\ Transports \subseteq {"pair", "pub", "local"}
    /\ SenderCap \in Nat \ {0}
    /\ WireCap \in Nat \ {0}
    /\ ReceiverCap \in Nat \ {0}
    /\ MaxMsg \in Nat

VARIABLES
    transport,  \* the kind of transport of this connection
    sside,      \* the sending end: connection and runner of the module
    frag,       \* <<data>> that the producer is trying to send, or <<>>
    sq,         \* QueueSender::m_queue
    shandler,   \* its handler thread: not there, at the loop test, returned
    sheld,      \* the message that thread has read from the queue
    wire,       \* messages in the transport
    rside,      \* the receiving end
    rhandler,   \* the handler thread of the QueueReceiver
    rheld,      \* the message that thread has received
    rq,         \* QueueReceiver::m_queue
    got,        \* what the consumer has received
    made        \* number of messages produced

senderVars == <<sside, frag, sq, shandler, sheld, made>>
receiverVars == <<rside, rhandler, rheld, rq, got>>
vars == <<transport, senderVars, wire, receiverVars>>

(* The data pointer of a message that has been moved from is null. *)
Empty == 0
Message == 0..MaxMsg

Sides == {"stopped", "running", "joining"}
HandlerStates == {"off", "loop", "receiving", "returned"}
AtMostOne(S) == {<<>>} \cup {<<x>> : x \in S}

TypeOK ==
    /\ transport \in Transports
    /\ sside \in Sides /\ rside \in Sides
    /\ shandler \in HandlerStates /\ rhandler \in HandlerStates
    /\ frag \in AtMostOne(Message)
    /\ sheld \in AtMostOne(Message) /\ rheld \in AtMostOne(Message)
    /\ sq \in Seq(Message) /\ wire \in Seq(Message) /\ rq \in Seq(Message)
    /\ got \in Seq(Message)
    /\ made \in 0..MaxMsg

Init ==
    /\ transport \in Transports
    /\ sside = "stopped" /\ rside = "stopped"
    /\ shandler = "off" /\ rhandler = "off"
    /\ frag = <<>> /\ sheld = <<>> /\ rheld = <<>>
    /\ sq = <<>> /\ wire = <<>> /\ rq = <<>>
    /\ got = <<>>
    /\ made = 0

-----------------------------------------------------------------------------
(* The sending end.                                                        *)

(* QueueSender::start: m_stop_handler = false and a new handler thread. *)
StartSender ==
    /\ sside = "stopped"
    /\ sside' = "running"
    /\ shandler' = "loop"
    /\ UNCHANGED <<frag, sq, sheld, made, wire, receiverVars, transport>>

(* The runner of the producer makes a message. *)
Produce ==
    /\ sside = "running" /\ frag = <<>>
    /\ made < MaxMsg
    /\ made' = made + 1
    /\ frag' = <<made + 1>>
    /\ UNCHANGED <<sside, sq, shandler, sheld, wire, receiverVars, transport>>

(***************************************************************************)
(* while (!m_connections.sleep_send(0, frag) && m_run): sleep_send moves   *)
(* the data into a wrapper before it tries, and the wrapper is destroyed   *)
(* when the queue is full; the next attempt sends what is left.            *)
(***************************************************************************)
SleepSend ==
    /\ sside = "running" /\ frag # <<>>
    /\ \/ /\ Len(sq) < SenderCap
          /\ sq' = sq \o frag
          /\ frag' = <<>>
       \/ /\ Len(sq) >= SenderCap
          /\ frag' = <<Empty>>
          /\ UNCHANGED sq
    /\ UNCHANGED <<sside, shandler, sheld, made, wire, receiverVars, transport>>

(* The runner is joined, then QueueSender::stop: m_stop_handler = true. *)
StopSender ==
    /\ sside = "running"
    /\ sside' = "joining"
    /\ frag' = <<>>
    /\ UNCHANGED <<sq, shandler, sheld, made, wire, receiverVars, transport>>

(* m_handler_thread.join(). *)
JoinSender ==
    /\ sside = "joining" /\ shandler = "returned"
    /\ sside' = "stopped"
    /\ shandler' = "off"
    /\ UNCHANGED <<frag, sq, sheld, made, wire, receiverVars, transport>>

(* The handler: while (!m_stop_handler), sizeGuess and sleep_read. *)
SendHandlerReads ==
    /\ shandler = "loop" /\ sheld = <<>>
    /\ sside = "running"
    /\ sq # <<>>
    /\ sheld' = <<Head(sq)>>
    /\ sq' = Tail(sq)
    /\ UNCHANGED <<sside, frag, shandler, made, wire, receiverVars, transport>>

(* Mutant: a message that was not sent goes back to the end of the queue. *)
SendHandlerSends_Requeue ==
    /\ shandler = "loop" /\ sheld # <<>>
    /\ sheld' = <<>>
    /\ \/ Len(wire) < WireCap /\ wire' = wire \o sheld /\ UNCHANGED sq
       \/ Len(wire) >= WireCap /\ sq' = sq \o sheld /\ UNCHANGED wire
    /\ UNCHANGED <<sside, frag, shandler, made, receiverVars, transport>>

(***************************************************************************)
(* m_chained_sender->send(m_container); its result is ignored.  A ZMQ PAIR *)
(* socket blocks when it is full, LocalSender returns false when the       *)
(* shared queue is full, a PUB socket drops what it cannot deliver.        *)
(***************************************************************************)
SendHandlerSends ==
    /\ shandler = "loop" /\ sheld # <<>>
    /\ \/ Len(wire) < WireCap /\ wire' = wire \o sheld
       \/ transport = "local" /\ Len(wire) >= WireCap /\ UNCHANGED wire
       \/ transport = "pub" /\ UNCHANGED wire
    /\ sheld' = <<>>
    /\ UNCHANGED <<sside, frag, sq, shandler, made, receiverVars, transport>>

SendHandlerReturns ==
    /\ shandler = "loop" /\ sheld = <<>>
    /\ sside = "joining"
    /\ shandler' = "returned"
    /\ UNCHANGED <<sside, frag, sq, sheld, made, wire, receiverVars, transport>>

(***************************************************************************)
(* removeChannel and addSenderChannel: the queue is a new one, what was    *)
(* still in the socket is lost; a local queue is a resource of its own.    *)
(***************************************************************************)
RecreateSender ==
    /\ sside = "stopped"
    /\ sq' = <<>>
    /\ \/ UNCHANGED wire
       \/ transport # "local" /\ \E n \in 0..Len(wire) : wire' = SubSeq(wire, 1, n)
    /\ UNCHANGED <<sside, frag, shandler, sheld, made, receiverVars, transport>>

-----------------------------------------------------------------------------
(* The receiving end.                                                      *)

StartReceiver ==
    /\ rside = "stopped"
    /\ rside' = "running"
    /\ rhandler' = "loop"
    /\ UNCHANGED <<rheld, rq, got, wire, senderVars, transport>>

(* The handler: while (!m_stop_handler); a stop may come right after it. *)
ReceiveHandlerTests ==
    /\ rhandler = "loop" /\ rheld = <<>>
    /\ rside = "running"
    /\ rhandler' = "receiving"
    /\ UNCHANGED <<rside, rheld, rq, got, wire, senderVars, transport>>

(* m_chained_receiver->sleep_receive(m_container), which may find nothing. *)
ReceiveHandlerReceives ==
    /\ rhandler = "receiving"
    /\ rhandler' = "loop"
    /\ \/ wire # <<>> /\ rheld' = <<Head(wire)>> /\ wire' = Tail(wire)
       \/ wire = <<>> /\ UNCHANGED <<rheld, wire>>
    /\ UNCHANGED <<rside, rq, got, senderVars, transport>>

(* Mutant: the write is tried once. *)
ReceiveHandlerGivesUp_Once ==
    /\ rhandler = "loop" /\ rheld # <<>>
    /\ Len(rq) >= ReceiverCap
    /\ rheld' = <<>>
    /\ UNCHANGED <<rside, rhandler, rq, got, wire, senderVars, transport>>

(* Mutant: the write waits for an empty wire as well. *)
ReceiveHandlerWrites_Half ==
    /\ rhandler = "loop" /\ rheld # <<>>
    /\ Len(rq) < ReceiverCap /\ wire = <<>>
    /\ rq' = rq \o rheld
    /\ rheld' = <<>>
    /\ UNCHANGED <<rside, rhandler, got, wire, senderVars, transport>>

(* while (!m_queue->sleep_write(m_container) && !m_stop_handler). *)
ReceiveHandlerWrites ==
    /\ rhandler = "loop" /\ rheld # <<>>
    /\ Len(rq) < ReceiverCap
    /\ rq' = rq \o rheld
    /\ rheld' = <<>>
    /\ UNCHANGED <<rside, rhandler, got, wire, senderVars, transport>>

(* Told to stop, the handler drops the message that does not fit. *)
ReceiveHandlerGivesUp ==
    /\ rhandler = "loop" /\ rheld # <<>>
    /\ Len(rq) >= ReceiverCap
    /\ rside = "joining"
    /\ rheld' = <<>>
    /\ UNCHANGED <<rside, rhandler, rq, got, wire, senderVars, transport>>

(* Mutant: the handler of the receiver waits until its queue is empty. *)
ReceiveHandlerReturns_Drained ==
    /\ rhandler = "loop" /\ rheld = <<>> /\ rq = <<>>
    /\ rside = "joining"
    /\ rhandler' = "returned"
    /\ UNCHANGED <<rside, rheld, rq, got, wire, senderVars, transport>>

ReceiveHandlerReturns ==
    /\ rhandler = "loop" /\ rheld = <<>>
    /\ rside = "joining"
    /\ rhandler' = "returned"
    /\ UNCHANGED <<rside, rheld, rq, got, wire, senderVars, transport>>

(* The runner of the consumer: m_connections.sleep_receive succeeds. *)
Receive ==
    /\ rside = "running"
    /\ rq # <<>>
    /\ got' = Append(got, Head(rq))
    /\ rq' = Tail(rq)
    /\ UNCHANGED <<rside, rhandler, rheld, wire, senderVars, transport>>

StopReceiver ==
    /\ rside = "running"
    /\ rside' = "joining"
    /\ UNCHANGED <<rhandler, rheld, rq, got, wire, senderVars, transport>>

JoinReceiver ==
    /\ rside = "joining" /\ rhandler = "returned"
    /\ rside' = "stopped"
    /\ rhandler' = "off"
    /\ UNCHANGED <<rheld, rq, got, wire, senderVars, transport>>

(* removeChannel and addReceiverChannel. *)
RecreateReceiver ==
    /\ rside = "stopped"
    /\ rq' = <<>>
    /\ wire' = IF transport = "local" THEN wire ELSE <<>>
    /\ UNCHANGED <<rside, rhandler, rheld, got, senderVars, transport>>

-----------------------------------------------------------------------------
SenderNext ==
    \/ StartSender \/ Produce \/ SleepSend \/ StopSender \/ JoinSender
    \/ SendHandlerReads \/ SendHandlerSends \/ SendHandlerReturns
    \/ RecreateSender

ReceiverNext ==
    \/ StartReceiver \/ Receive \/ StopReceiver \/ JoinReceiver
    \/ ReceiveHandlerTests \/ ReceiveHandlerReceives \/ ReceiveHandlerWrites
    \/ ReceiveHandlerGivesUp \/ ReceiveHandlerReturns
    \/ RecreateReceiver

Next == SenderNext \/ ReceiverNext

(***************************************************************************)
(* The threads run: the two handlers, the runner of the consumer, and the  *)
(* command that waits in join().  Nobody has to start or stop anything,    *)
(* and the producer need not produce.                                      *)
(***************************************************************************)
Fairness ==
    /\ WF_vars(SendHandlerReads) /\ WF_vars(SendHandlerSends)
    /\ WF_vars(SendHandlerReturns) /\ WF_vars(JoinSender)
    /\ WF_vars(ReceiveHandlerTests) /\ WF_vars(ReceiveHandlerReceives)
    /\ WF_vars(ReceiveHandlerWrites)
    /\ WF_vars(ReceiveHandlerGivesUp)
    /\ WF_vars(ReceiveHandlerReturns) /\ WF_vars(JoinReceiver)
    /\ WF_vars(Receive)

Safety == Init /\ [][Next]_vars
Spec == Safety /\ Fairness

-----------------------------------------------------------------------------
(* Properties.                                                             *)

(* The messages under way, the oldest first. *)
UnderWay == rq \o rheld \o wire \o sheld \o sq

Elements(s) == {s[i] : i \in DOMAIN s}

(***************************************************************************)
(* The connection keeps what LossyChannel promises, through every stop,    *)
(* restart and re-creation of its ends: two queues and two handler threads *)
(* never reorder or duplicate messages.                                    *)
(***************************************************************************)
Abstract == INSTANCE LossyChannel WITH chan <- UnderWay
IsLossyChannel == Abstract!Spec

(***************************************************************************)
(* Over a transport that blocks (ZMQ PAIR), nothing that send() accepted   *)
(* is lost while the receiving end runs and the sending end is not removed:*)
(* queues that are full slow the sender down instead.  In particular the   *)
(* stop of the sending end loses nothing.                                  *)
(***************************************************************************)
NoLossWhileRunning ==
    [][transport = "pair" /\ rside = "running" /\ sside # "stopped" =>
          \/ (got \o UnderWay)' = got \o UnderWay
          \/ \E x \in Message : (got \o UnderWay)' = Append(got \o UnderWay, x)]_vars

(***************************************************************************)
(* Over such a transport every message under way is delivered unless one   *)
(* of the ends is stopped.                                                 *)
(***************************************************************************)
Delivered ==
    \A x \in 1..MaxMsg :
        transport = "pair" /\ x \in Elements(UnderWay) ~>
            x \in Elements(got) \/ rside # "running" \/ sside # "running"

(***************************************************************************)
(* QueueSender::stop returns, over PAIR provided that the receiving end    *)
(* keeps running; QueueReceiver::stop always returns.                      *)
(***************************************************************************)
StopReturns ==
    /\ sside = "joining" ~>
          sside = "stopped" \/ (transport = "pair" /\ rside # "running")
    /\ rside = "joining" ~> rside = "stopped"

(***************************************************************************)
(* ConnectionManager.hpp, on send: "true when binary file is successfully  *)
(* passed".  The second attempt of a retry loop passes an empty message.   *)
(***************************************************************************)
SentWhole == Empty \notin Elements(sq)
=============================================================================
