------------------------- MODULE QueueChannelProofs -------------------------
(* Proofs about QueueChannel, for every transport and every capacity.       *)
EXTENDS QueueChannel, SequenceTheorems, TLAPS

(* What a thread holds goes to the end of a queue or of the wire. *)
LEMMA Put ==
    ASSUME NEW S, NEW q \in Seq(S), NEW h \in AtMostOne(S)
    PROVE  q \o h \in Seq(S)
<1>1. CASE h = <<>> BY <1>1
<1>2. CASE h # <<>>
  <2>1. PICK x \in S : h = <<x>> BY <1>2 DEF AtMostOne
  <2>2. <<x>> \in Seq(S) OBVIOUS
  <2> QED BY <2>1, <2>2
<1> QED BY <1>1, <1>2

(* What a thread takes is the head of a queue or of the wire. *)
LEMMA Take ==
    ASSUME NEW S, NEW q \in Seq(S), q # <<>>
    PROVE  <<Head(q)>> \in AtMostOne(S) /\ Head(q) \in S /\ Tail(q) \in Seq(S)
<1>1. Head(q) \in S /\ Tail(q) \in Seq(S) OBVIOUS
<1> QED BY <1>1 DEF AtMostOne

(* Held messages: none, an empty one, or one that has just been made. *)
LEMMA Held ==
    /\ <<>> \in AtMostOne(Message) /\ <<Empty>> \in AtMostOne(Message)
    /\ \A n \in 0..MaxMsg : n < MaxMsg => <<n + 1>> \in AtMostOne(Message)
BY ChannelAssumption DEF AtMostOne, Message, Empty

(* The sending end keeps the types: its queue, the message in the handler's *)
(* hands and what it leaves on the wire are messages.                       *)
LEMMA SenderTyped ==
    ASSUME TypeOK, SenderNext
    PROVE  TypeOK'
<1> USE DEF TypeOK, Sides, HandlerStates, senderVars, receiverVars
<1>1. CASE StartSender BY <1>1 DEF StartSender
<1>2. CASE Produce
  <2>1. frag' \in AtMostOne(Message) BY <1>2, Held DEF Produce
  <2>2. made' \in 0..MaxMsg BY <1>2, ChannelAssumption DEF Produce
  <2> QED BY <1>2, <2>1, <2>2 DEF Produce
<1>3. CASE SleepSend
  <2>1. frag' \in AtMostOne(Message) BY <1>3, Held DEF SleepSend
  <2>2. sq \o frag \in Seq(Message) BY Put
  <2>3. sq' \in Seq(Message) BY <1>3, <2>2 DEF SleepSend
  <2> QED BY <1>3, <2>1, <2>3 DEF SleepSend
<1>4. CASE StopSender BY <1>4, Held DEF StopSender
<1>5. CASE JoinSender BY <1>5 DEF JoinSender
<1>6. CASE SendHandlerReads
  <2>1. <<Head(sq)>> \in AtMostOne(Message) /\ Tail(sq) \in Seq(Message)
    BY <1>6, Take DEF SendHandlerReads
  <2> QED BY <1>6, <2>1 DEF SendHandlerReads
<1>7. CASE SendHandlerSends
  <2>1. wire \o sheld \in Seq(Message) BY Put
  <2>2. wire' \in Seq(Message) BY <1>7, <2>1 DEF SendHandlerSends
  <2> QED BY <1>7, <2>2, Held DEF SendHandlerSends
<1>8. CASE SendHandlerReturns BY <1>8 DEF SendHandlerReturns
<1>9. CASE RecreateSender
  <2>1. wire' \in Seq(Message)
    <3>1. CASE UNCHANGED wire BY <3>1
    <3>2. CASE \E n \in 0..Len(wire) : wire' = SubSeq(wire, 1, n)
      <4>1. PICK n \in 0..Len(wire) : wire' = SubSeq(wire, 1, n) BY <3>2
      <4> QED BY <4>1
    <3> QED BY <1>9, <3>1, <3>2 DEF RecreateSender
  <2> QED BY <1>9, <2>1 DEF RecreateSender
<1> QED BY <1>1, <1>2, <1>3, <1>4, <1>5, <1>6, <1>7, <1>8, <1>9 DEF SenderNext

(* So does the receiving end. *)
LEMMA ReceiverTyped ==
    ASSUME TypeOK, ReceiverNext
    PROVE  TypeOK'
<1> USE DEF TypeOK, Sides, HandlerStates, senderVars, receiverVars
<1>1. CASE StartReceiver BY <1>1 DEF StartReceiver
<1>2. CASE Receive
  <2>1. Head(rq) \in Message /\ Tail(rq) \in Seq(Message) BY <1>2, Take DEF Receive
  <2> QED BY <1>2, <2>1 DEF Receive
<1>3. CASE StopReceiver BY <1>3 DEF StopReceiver
<1>4. CASE JoinReceiver BY <1>4 DEF JoinReceiver
<1>5. CASE ReceiveHandlerTests BY <1>5 DEF ReceiveHandlerTests
<1>6. CASE ReceiveHandlerReceives
  <2>1. rheld' \in AtMostOne(Message) /\ wire' \in Seq(Message)
    <3>1. CASE wire = <<>> BY <1>6, <3>1 DEF ReceiveHandlerReceives
    <3>2. CASE wire # <<>>
      <4>1. <<Head(wire)>> \in AtMostOne(Message) /\ Tail(wire) \in Seq(Message)
        BY <3>2, Take
      <4> QED BY <1>6, <3>2, <4>1 DEF ReceiveHandlerReceives
    <3> QED BY <3>1, <3>2
  <2> QED BY <1>6, <2>1 DEF ReceiveHandlerReceives
<1>7. CASE ReceiveHandlerWrites
  <2>1. rq \o rheld \in Seq(Message) BY Put
  <2> QED BY <1>7, <2>1, Held DEF ReceiveHandlerWrites
<1>8. CASE ReceiveHandlerGivesUp BY <1>8, Held DEF ReceiveHandlerGivesUp
<1>9. CASE ReceiveHandlerReturns BY <1>9 DEF ReceiveHandlerReturns
<1>10. CASE RecreateReceiver
  <2>1. <<>> \in Seq(Message) OBVIOUS
  <2> QED BY <1>10, <2>1 DEF RecreateReceiver
<1> QED BY <1>1, <1>2, <1>3, <1>4, <1>5, <1>6, <1>7, <1>8, <1>9, <1>10 DEF ReceiverNext

(* Type correctness of a queued connection through every start, stop and    *)
(* re-creation of its ends: no step of a handler thread puts anything but   *)
(* whole or empty messages into a queue, and the handlers hold at most one. *)
THEOREM TypeCorrect == Safety => []TypeOK
<1>1. Init => TypeOK
  BY ChannelAssumption
  DEF Init, TypeOK, Message, Sides, HandlerStates, AtMostOne
<1>2. TypeOK /\ [Next]_vars => TypeOK'
  <2> SUFFICES ASSUME TypeOK, [Next]_vars
               PROVE  TypeOK'
    OBVIOUS
  <2>1. CASE SenderNext BY <2>1, SenderTyped
  <2>2. CASE ReceiverNext BY <2>2, ReceiverTyped
  <2>3. CASE UNCHANGED vars
    BY <2>3 DEF TypeOK, vars, senderVars, receiverVars
  <2> QED BY <2>1, <2>2, <2>3 DEF Next
<1> QED BY <1>1, <1>2, PTL DEF Safety

-----------------------------------------------------------------------------
(* The handler threads hold a message only between the read that took it    *)
(* and the write that passes it on, and a stopped end has no handler.       *)
HandlersHold ==
    /\ shandler # "loop" => sheld = <<>>
    /\ rhandler # "loop" => rheld = <<>>
    /\ sside = "stopped" => shandler = "off"
    /\ rside = "stopped" => rhandler = "off"

IInv == TypeOK /\ HandlersHold

(* A handler returns with empty hands, and start() makes its thread before  *)
(* anything is read: no message waits in the hands of a stopped end.        *)
LEMMA HandsEmpty == Safety => []IInv
<1>1. Init => HandlersHold BY DEF Init, HandlersHold
<1>2. TypeOK /\ HandlersHold /\ [Next]_vars => HandlersHold'
  <2> SUFFICES ASSUME TypeOK, HandlersHold, [Next]_vars
               PROVE  HandlersHold'
    OBVIOUS
  <2> USE DEF HandlersHold, senderVars, receiverVars
  <2>1. CASE SenderNext
    BY <2>1 DEF SenderNext, StartSender, Produce, SleepSend, StopSender, JoinSender,
                SendHandlerReads, SendHandlerSends, SendHandlerReturns, RecreateSender
  <2>2. CASE ReceiverNext
    BY <2>2 DEF ReceiverNext, StartReceiver, Receive, StopReceiver, JoinReceiver,
                ReceiveHandlerTests, ReceiveHandlerReceives, ReceiveHandlerWrites,
                ReceiveHandlerGivesUp, ReceiveHandlerReturns, RecreateReceiver
  <2>3. CASE UNCHANGED vars BY <2>3 DEF vars
  <2> QED BY <2>1, <2>2, <2>3 DEF Next
<1> QED BY <1>1, <1>2, TypeCorrect, PTL DEF Safety, IInv

-----------------------------------------------------------------------------
(* Facts about concatenation that the refinement needs.  Past this section   *)
(* sequences of messages are only joined with Cat: five of them at once are  *)
(* too many for the provers' own theory of sequences.                        *)
Msgs == Seq(Message)
Cat(s, t) == s \o t

(* What is held is a sequence. *)
LEMMA HeldIsSeq ==
    ASSUME NEW h \in AtMostOne(Message)
    PROVE  h \in Msgs
<1>1. <<>> \in Seq(Message) /\ <<>> \o h = h BY DEF AtMostOne
<1> QED BY <1>1, Put DEF Msgs

(* Concatenation of message sequences is a monoid. *)
LEMMA CatMonoid ==
    /\ <<>> \in Msgs
    /\ \A s \in Msgs : Cat(s, <<>>) = s /\ Cat(<<>>, s) = s
    /\ \A s, t \in Msgs : Cat(s, t) \in Msgs
    /\ \A s, t, u \in Msgs : Cat(Cat(s, t), u) = Cat(s, Cat(t, u))
<1>1. \A s \in Msgs : Cat(s, <<>>) = s /\ Cat(<<>>, s) = s
  BY ConcatEmptySeq DEF Msgs, Cat
<1>2. \A s, t \in Msgs : Cat(s, t) \in Msgs BY DEF Msgs, Cat
<1>3. \A s, t, u \in Msgs : Cat(Cat(s, t), u) = Cat(s, Cat(t, u))
  BY ConcatAssociative DEF Msgs, Cat
<1> QED BY <1>1, <1>2, <1>3 DEF Msgs

(* One message as a sequence, and a message at the end of a sequence. *)
LEMMA CatOne ==
    ASSUME NEW s \in Msgs, NEW x \in Message
    PROVE  <<x>> \in Msgs /\ Append(s, x) = Cat(s, <<x>>)
<1>1. <<x>> \in Seq(Message) OBVIOUS
<1>2. Append(s, x) = s \o <<x>> BY AppendIsConcat DEF Msgs
<1> QED BY <1>1, <1>2 DEF Msgs, Cat

(* A sequence is its head and its tail. *)
LEMMA HeadThenTail ==
    ASSUME NEW s \in Msgs, s # <<>>
    PROVE  /\ Head(s) \in Message /\ Tail(s) \in Msgs
           /\ s = Cat(<<Head(s)>>, Tail(s))
<1> USE DEF Msgs, Cat
<1>1. Head(s) \in Message /\ Tail(s) \in Seq(Message) /\ Len(s) \in Nat \ {0} OBVIOUS
<1>2. <<Head(s)>> \in Seq(Message) /\ Len(<<Head(s)>>) = 1 BY <1>1
<1>3. <<Head(s)>> \o Tail(s) \in Seq(Message) BY <1>1, <1>2
<1>4. Len(<<Head(s)>> \o Tail(s)) = Len(s) BY <1>1, <1>2
<1>5. \A i \in 1..Len(s) : s[i] = (<<Head(s)>> \o Tail(s))[i]
  BY <1>1, <1>2, HeadTailProperties
<1>6. s = <<Head(s)>> \o Tail(s) BY <1>3, <1>4, <1>5, SeqEqual
<1> QED BY <1>1, <1>6

(* The head of a concatenation is the head of its first part. *)
LEMMA HeadOfCat ==
    ASSUME NEW s \in Msgs, NEW t \in Msgs, s # <<>>
    PROVE  /\ Cat(s, t) # <<>>
           /\ Head(Cat(s, t)) = Head(s)
           /\ Tail(Cat(s, t)) = Cat(Tail(s), t)
<1> USE DEF Msgs, Cat
<1>1. s \o t \in Seq(Message) /\ s \o t # <<>> BY ConcatEqualIffEmpty
<1>2. Head(s \o t) = Head(s) BY <1>1
<1>3. Tail(s \o t) = Tail(s) \o t
  <2>1. Tail(s \o t) \in Seq(Message) /\ Tail(s) \o t \in Seq(Message) BY <1>1
  <2>2. Len(Tail(s \o t)) = Len(Tail(s) \o t) BY <1>1
  <2>3. \A i \in 1..Len(Tail(s \o t)) : Tail(s \o t)[i] = (Tail(s) \o t)[i]
    BY <1>1, <2>1, HeadTailProperties, ConcatProperties
  <2> QED BY <2>1, <2>2, <2>3, SeqEqual
<1> QED BY <1>1, <1>2, <1>3

(* A concatenation can be cut where its parts meet. *)
LEMMA CutCat ==
    ASSUME NEW s \in Msgs, NEW t \in Msgs
    PROVE  /\ SubSeq(Cat(s, t), 1, Len(s)) = s
           /\ SubSeq(Cat(s, t), Len(s) + 1, Len(Cat(s, t))) = t
           /\ Len(s) \in Nat /\ Len(t) \in Nat
           /\ Len(Cat(s, t)) = Len(s) + Len(t)
<1> USE DEF Msgs, Cat
<1>1. s \o t \in Seq(Message) /\ Len(s \o t) = Len(s) + Len(t)
      /\ Len(s) \in Nat /\ Len(t) \in Nat
  OBVIOUS
<1>2. SubSeq(s \o t, 1, Len(s)) = s
  <2>1. /\ SubSeq(s \o t, 1, Len(s)) \in Seq(Message)
        /\ Len(SubSeq(s \o t, 1, Len(s))) = Len(s)
    BY <1>1
  <2>2. \A i \in 1..Len(s) : SubSeq(s \o t, 1, Len(s))[i] = s[i]
    BY <1>1
  <2> QED BY <2>1, <2>2, SeqEqual
<1>3. SubSeq(s \o t, Len(s) + 1, Len(s \o t)) = t
  <2>1. /\ SubSeq(s \o t, Len(s) + 1, Len(s \o t)) \in Seq(Message)
        /\ Len(SubSeq(s \o t, Len(s) + 1, Len(s \o t))) = Len(t)
    BY <1>1
  <2>2. \A i \in 1..Len(t) : SubSeq(s \o t, Len(s) + 1, Len(s \o t))[i] = t[i]
    BY <1>1
  <2> QED BY <2>1, <2>2, SeqEqual
<1> QED BY <1>1, <1>2, <1>3

(* A sequence is what a cut leaves on its two sides. *)
LEMMA CatOfCut ==
    ASSUME NEW s \in Msgs, NEW n \in 0..Len(s)
    PROVE  \E t \in Msgs : SubSeq(s, 1, n) \in Msgs /\ s = Cat(SubSeq(s, 1, n), t)
<1> USE DEF Msgs, Cat
<1>1. SubSeq(s, 1, n) \in Seq(Message) /\ SubSeq(s, n + 1, Len(s)) \in Seq(Message)
  OBVIOUS
<1>2. Len(s) \in Nat /\ 1 \in 1..Len(s) + 1 /\ n \in 1 - 1..Len(s) /\ Len(s) \in n..Len(s)
  OBVIOUS
<1>3. SubSeq(s, 1, n) \o SubSeq(s, n + 1, Len(s)) = SubSeq(s, 1, Len(s))
  BY <1>2, ConcatAdjacentSubSeq
<1>4. SubSeq(s, 1, Len(s)) = s BY SubSeqFull
<1> QED BY <1>1, <1>3, <1>4

(* t is s less some neighbouring messages: the step Lose of LossyChannel. *)
Less(s, t) ==
    \E i, j \in 0..Len(s) : t = SubSeq(s, 1, i) \o SubSeq(s, j + 1, Len(s)) /\ i <= j

(* Dropping the middle of a channel is a loss in the sense of LossyChannel. *)
LEMMA DropMiddle ==
    ASSUME NEW a \in Msgs, NEW b \in Msgs, NEW c \in Msgs
    PROVE  Less(Cat(a, Cat(b, c)), Cat(a, c))
<1> DEFINE s == Cat(a, Cat(b, c))
<1>1. Cat(b, c) \in Msgs /\ Cat(a, b) \in Msgs BY CatMonoid
<1>2. s = Cat(Cat(a, b), c) BY CatMonoid
<1>3. SubSeq(s, 1, Len(a)) = a BY <1>1, CutCat
<1>4. SubSeq(s, Len(Cat(a, b)) + 1, Len(s)) = c
  <2> DEFINE ab == Cat(a, b)
  <2>1. ab \in Msgs /\ s = Cat(ab, c) BY <1>1, <1>2
  <2> HIDE DEF ab
  <2>2. SubSeq(Cat(ab, c), Len(ab) + 1, Len(Cat(ab, c))) = c BY <2>1, CutCat, Zenon
  <2> QED BY <2>1, <2>2 DEF ab
<1>5. /\ Len(a) \in Nat /\ Len(b) \in Nat /\ Len(c) \in Nat
      /\ Len(Cat(a, b)) = Len(a) + Len(b)
      /\ Len(s) = Len(Cat(a, b)) + Len(c)
  BY <1>1, <1>2, CutCat
<1>6. Len(a) \in 0..Len(s) /\ Len(Cat(a, b)) \in 0..Len(s) /\ Len(a) <= Len(Cat(a, b))
  BY <1>5
<1>7. Cat(a, c) = SubSeq(s, 1, Len(a)) \o SubSeq(s, Len(Cat(a, b)) + 1, Len(s))
  BY <1>3, <1>4 DEF Cat
<1> QED BY <1>6, <1>7 DEF Less

-----------------------------------------------------------------------------
(* What the steps do to the messages under way.                             *)

(* The places of a message, joined from the other side. *)
LEMMA Joined ==
    ASSUME NEW a \in Msgs, NEW b \in Msgs, NEW c \in Msgs, NEW d \in Msgs, NEW e \in Msgs
    PROVE  /\ Cat(Cat(Cat(Cat(a, b), c), d), e) = Cat(a, Cat(b, Cat(c, Cat(d, e))))
           /\ Cat(d, e) \in Msgs /\ Cat(c, Cat(d, e)) \in Msgs
           /\ Cat(b, Cat(c, Cat(d, e))) \in Msgs
           /\ Cat(a, Cat(b, Cat(c, Cat(d, e)))) \in Msgs
<1>1. Cat(a, b) \in Msgs /\ Cat(d, e) \in Msgs BY CatMonoid
<1>2. Cat(Cat(a, b), c) \in Msgs /\ Cat(c, Cat(d, e)) \in Msgs BY <1>1, CatMonoid
<1>3. Cat(Cat(Cat(Cat(a, b), c), d), e) = Cat(Cat(Cat(a, b), c), Cat(d, e))
  BY <1>2, CatMonoid
<1>4. Cat(Cat(Cat(a, b), c), Cat(d, e)) = Cat(Cat(a, b), Cat(c, Cat(d, e)))
  BY <1>1, CatMonoid
<1>5. Cat(Cat(a, b), Cat(c, Cat(d, e))) = Cat(a, Cat(b, Cat(c, Cat(d, e))))
  BY <1>2, CatMonoid
<1>6. Cat(b, Cat(c, Cat(d, e))) \in Msgs BY <1>2, CatMonoid
<1>7. Cat(a, Cat(b, Cat(c, Cat(d, e)))) \in Msgs BY <1>6, CatMonoid
<1> QED BY <1>1, <1>2, <1>3, <1>4, <1>5, <1>6, <1>7

(* What is before the wire, the wire, and what is behind it. *)
Ahead == Cat(rq, rheld)
Behind == Cat(sheld, sq)

InPlaces ==
    /\ rq \in Msgs /\ rheld \in Msgs /\ wire \in Msgs /\ sheld \in Msgs
    /\ sq \in Msgs /\ got \in Msgs /\ frag \in Msgs
    /\ Ahead \in Msgs /\ Behind \in Msgs
    /\ Cat(wire, Behind) \in Msgs
    /\ UnderWay \in Msgs
    /\ UnderWay = Cat(Ahead, Cat(wire, Behind))

(* A message under way is in one of five places. *)
LEMMA Places == TypeOK => InPlaces
<1> SUFFICES ASSUME TypeOK PROVE InPlaces OBVIOUS
<1>1. rq \in Msgs /\ wire \in Msgs /\ sq \in Msgs /\ got \in Msgs
  BY DEF TypeOK, Msgs
<1>2. rheld \in Msgs /\ sheld \in Msgs /\ frag \in Msgs
  BY HeldIsSeq DEF TypeOK
<1>3. UnderWay = Cat(Cat(Cat(Cat(rq, rheld), wire), sheld), sq)
  BY DEF UnderWay, Cat
<1>4. /\ UnderWay = Cat(rq, Cat(rheld, Cat(wire, Behind)))
      /\ UnderWay \in Msgs /\ Behind \in Msgs /\ Cat(wire, Behind) \in Msgs
  <2>1. Cat(Cat(Cat(Cat(rq, rheld), wire), sheld), sq)
           = Cat(rq, Cat(rheld, Cat(wire, Cat(sheld, sq))))
    BY <1>1, <1>2, Joined
  <2>2. /\ Cat(sheld, sq) \in Msgs /\ Cat(wire, Cat(sheld, sq)) \in Msgs
        /\ Cat(rq, Cat(rheld, Cat(wire, Cat(sheld, sq)))) \in Msgs
    BY <1>1, <1>2, Joined
  <2> QED BY <1>3, <2>1, <2>2 DEF Behind
<1>5. Ahead \in Msgs /\ UnderWay = Cat(Ahead, Cat(wire, Behind))
  BY <1>1, <1>2, <1>4, CatMonoid DEF Ahead
<1> QED BY <1>1, <1>2, <1>4, <1>5 DEF InPlaces

(* So it is after a step. *)
LEMMA PlacesAfter == TypeOK' => InPlaces'
BY Places, PTL

(* What may become of the messages under way in one step. *)
Accepted == /\ \E x \in Message : UnderWay' = Append(UnderWay, x)
            /\ got' = got
HandedOver == /\ UnderWay # <<>>
              /\ UnderWay' = Tail(UnderWay)
              /\ got' = Append(got, Head(UnderWay))
Dropped == /\ \E a, b, c \in Msgs : UnderWay = Cat(a, Cat(b, c)) /\ UnderWay' = Cat(a, c)
           /\ got' = got

(* When the connection may drop what it has accepted: over a transport that *)
(* does not block, or when an end is stopped.                               *)
MayDrop == transport # "pair" \/ rside # "running" \/ sside = "stopped"

Effect == \/ UnderWay' = UnderWay /\ got' = got
          \/ Accepted
          \/ HandedOver
          \/ Dropped /\ MayDrop

(* The sending end adds at the end, and drops only what its handler cannot  *)
(* hand to the transport and what a removed socket and queue still hold.    *)
LEMMA SenderEffect ==
    ASSUME IInv, SenderNext
    PROVE  Effect
<1>1. TypeOK /\ HandlersHold /\ TypeOK' BY SenderTyped DEF IInv
<1>2. /\ UnderWay = Cat(Ahead, Cat(wire, Behind)) /\ UnderWay \in Msgs
      /\ rq \in Msgs /\ wire \in Msgs /\ sheld \in Msgs /\ sq \in Msgs /\ frag \in Msgs
      /\ Ahead \in Msgs /\ Behind \in Msgs /\ Cat(wire, Behind) \in Msgs
  BY <1>1, Places DEF InPlaces
<1>3. UnderWay' = Cat(Ahead', Cat(wire', Behind')) BY <1>1, PlacesAfter DEF InPlaces
<1>4. rq' = rq /\ rheld' = rheld /\ got' = got
  BY DEF SenderNext, StartSender, Produce, SleepSend, StopSender, JoinSender,
         SendHandlerReads, SendHandlerSends, SendHandlerReturns, RecreateSender,
         receiverVars
<1>5. Ahead' = Ahead BY <1>4 DEF Ahead
<1>6. ASSUME wire' = wire, Behind' = Behind PROVE Effect
  BY <1>2, <1>3, <1>4, <1>5, <1>6 DEF Effect
<1>7. ASSUME wire' = wire, sheld' = sheld, sq' = sq PROVE Effect
  BY <1>6, <1>7 DEF Behind
<1>8. CASE StartSender BY <1>7, <1>8 DEF StartSender
<1>9. CASE Produce BY <1>7, <1>9 DEF Produce
<1>10. CASE StopSender BY <1>7, <1>10 DEF StopSender
<1>11. CASE JoinSender BY <1>7, <1>11 DEF JoinSender
<1>12. CASE SendHandlerReturns BY <1>7, <1>12 DEF SendHandlerReturns
<1>13. CASE SleepSend
  <2>1. CASE sq' = sq BY <1>7, <1>13, <2>1 DEF SleepSend
  <2>2. CASE sq' = sq \o frag
    <3>1. sheld' = sheld /\ wire' = wire /\ frag # <<>> BY <1>13 DEF SleepSend
    <3>2. PICK x \in Message : frag = <<x>> BY <1>1, <3>1 DEF TypeOK, AtMostOne
    <3>3. Behind' = Cat(Behind, frag)
      <4>1. sq' = Cat(sq, frag) BY <2>2 DEF Cat
      <4> QED BY <1>2, <3>1, <4>1, CatMonoid DEF Behind
    <3>4. Cat(wire, Behind') = Cat(Cat(wire, Behind), frag) BY <1>2, <3>3, CatMonoid
    <3>5. UnderWay' = Cat(UnderWay, frag)
      BY <1>2, <1>3, <1>5, <3>1, <3>4, CatMonoid
    <3>6. UnderWay' = Append(UnderWay, x) BY <1>2, <3>2, <3>5, CatOne
    <3> QED BY <1>4, <3>6 DEF Effect, Accepted
  <2> QED BY <1>13, <2>1, <2>2 DEF SleepSend
<1>14. CASE SendHandlerReads
  <2>1. /\ sheld = <<>> /\ sq # <<>> /\ wire' = wire
        /\ sheld' = <<Head(sq)>> /\ sq' = Tail(sq)
    BY <1>14 DEF SendHandlerReads
  <2>2. Behind = sq BY <1>2, <2>1, CatMonoid DEF Behind
  <2>3. Behind' = sq BY <1>2, <2>1, HeadThenTail DEF Behind
  <2> QED BY <1>6, <2>1, <2>2, <2>3
<1>15. CASE SendHandlerSends
  <2>1. sheld' = <<>> /\ sq' = sq BY <1>15 DEF SendHandlerSends
  <2>2. Behind' = sq BY <1>2, <2>1, CatMonoid DEF Behind
  <2>3. CASE wire' = wire \o sheld
    <3>1. Cat(wire', Behind') = Cat(wire, Behind)
      <4>1. wire' = Cat(wire, sheld) BY <2>3 DEF Cat
      <4> QED BY <1>2, <2>2, <4>1, CatMonoid DEF Behind
    <3> QED BY <1>2, <1>3, <1>4, <1>5, <3>1 DEF Effect
  <2>4. CASE wire' = wire /\ transport # "pair"
    <3>1. Cat(Ahead, wire) \in Msgs BY <1>2, CatMonoid
    <3>2. UnderWay = Cat(Cat(Ahead, wire), Cat(sheld, sq))
      BY <1>2, CatMonoid DEF Behind
    <3>3. UnderWay' = Cat(Cat(Ahead, wire), sq)
      BY <1>2, <1>3, <1>5, <2>2, <2>4, CatMonoid
    <3>4. Dropped BY <1>2, <1>4, <3>1, <3>2, <3>3 DEF Dropped
    <3> QED BY <2>4, <3>4 DEF Effect, MayDrop
  <2> QED BY <1>15, <2>3, <2>4 DEF SendHandlerSends
<1>16. CASE RecreateSender
  <2>1. sside = "stopped" /\ sq' = <<>> /\ sheld' = sheld BY <1>16 DEF RecreateSender
  <2>2. sheld = <<>> BY <1>1, <2>1 DEF HandlersHold
  <2>3. Behind = sq /\ Behind' = <<>> BY <1>2, <2>1, <2>2, CatMonoid DEF Behind
  <2>4. \E t \in Msgs : wire' \in Msgs /\ wire = Cat(wire', t)
    <3>1. CASE wire' = wire BY <1>2, <3>1, CatMonoid
    <3>2. CASE \E n \in 0..Len(wire) : wire' = SubSeq(wire, 1, n)
      BY <1>2, <3>2, CatOfCut
    <3> QED BY <1>16, <3>1, <3>2 DEF RecreateSender
  <2>5. PICK t \in Msgs : wire' \in Msgs /\ wire = Cat(wire', t) BY <2>4
  <2>6. Cat(Ahead, wire') \in Msgs /\ Cat(t, sq) \in Msgs BY <1>2, <2>5, CatMonoid
  <2>7. UnderWay' = Cat(Cat(Ahead, wire'), <<>>)
    BY <1>2, <1>3, <1>5, <2>3, <2>5, <2>6, CatMonoid
  <2>8. Cat(wire, sq) = Cat(wire', Cat(t, sq)) BY <1>2, <2>5, CatMonoid
  <2>9. UnderWay = Cat(Cat(Ahead, wire'), Cat(t, sq))
    BY <1>2, <2>3, <2>5, <2>6, <2>8, CatMonoid
  <2>10. Cat(t, sq) = Cat(Cat(t, sq), <<>>) BY <2>6, CatMonoid
  <2>11. UnderWay = Cat(Cat(Ahead, wire'), Cat(Cat(t, sq), <<>>)) BY <2>9, <2>10
  <2>12. Dropped BY <1>4, <2>6, <2>7, <2>11, CatMonoid DEF Dropped
  <2> QED BY <2>1, <2>12 DEF Effect, MayDrop
<1> QED BY <1>8, <1>9, <1>10, <1>11, <1>12, <1>13, <1>14, <1>15, <1>16 DEF SenderNext

(* The receiving end hands over the oldest message, and drops only what its *)
(* handler holds when it is told to stop and what a removed queue and       *)
(* socket still hold.                                                       *)
LEMMA ReceiverEffect ==
    ASSUME IInv, ReceiverNext
    PROVE  Effect
<1>1. TypeOK /\ HandlersHold /\ TypeOK' BY ReceiverTyped DEF IInv
<1>2. /\ UnderWay = Cat(Ahead, Cat(wire, Behind)) /\ UnderWay \in Msgs
      /\ rq \in Msgs /\ rheld \in Msgs /\ wire \in Msgs
      /\ Ahead \in Msgs /\ Behind \in Msgs /\ Cat(wire, Behind) \in Msgs
  BY <1>1, Places DEF InPlaces
<1>3. /\ UnderWay' = Cat(Ahead', Cat(wire', Behind'))
      /\ rq' \in Msgs /\ rheld' \in Msgs /\ wire' \in Msgs
  BY <1>1, PlacesAfter DEF InPlaces
<1>4. sheld' = sheld /\ sq' = sq
  BY DEF ReceiverNext, StartReceiver, Receive, StopReceiver, JoinReceiver,
         ReceiveHandlerTests, ReceiveHandlerReceives, ReceiveHandlerWrites,
         ReceiveHandlerGivesUp, ReceiveHandlerReturns, RecreateReceiver, senderVars
<1>5. Behind' = Behind BY <1>4 DEF Behind
<1>6. ASSUME wire' = wire, Ahead' = Ahead, got' = got PROVE Effect
  BY <1>2, <1>3, <1>5, <1>6 DEF Effect
<1>7. ASSUME wire' = wire, rheld' = rheld, rq' = rq, got' = got PROVE Effect
  BY <1>6, <1>7 DEF Ahead
<1>8. CASE StartReceiver BY <1>7, <1>8 DEF StartReceiver
<1>9. CASE StopReceiver BY <1>7, <1>9 DEF StopReceiver
<1>10. CASE JoinReceiver BY <1>7, <1>10 DEF JoinReceiver
<1>11. CASE ReceiveHandlerTests BY <1>7, <1>11 DEF ReceiveHandlerTests
<1>12. CASE ReceiveHandlerReturns BY <1>7, <1>12 DEF ReceiveHandlerReturns
<1>13. CASE Receive
  <2>1. /\ rq # <<>> /\ rq' = Tail(rq) /\ got' = Append(got, Head(rq))
        /\ rheld' = rheld /\ wire' = wire
    BY <1>13 DEF Receive
  <2> DEFINE rest == Cat(rheld, Cat(wire, Behind))
  <2>2. rest \in Msgs BY <1>2, CatMonoid
  <2>3. UnderWay = Cat(rq, rest) BY <1>2, CatMonoid DEF Ahead
  <2>4. UnderWay' = Cat(Tail(rq), rest)
    BY <1>2, <1>3, <1>5, <2>1, CatMonoid DEF Ahead
  <2> HIDE DEF rest
  <2>5. /\ Cat(rq, rest) # <<>> /\ Head(Cat(rq, rest)) = Head(rq)
        /\ Tail(Cat(rq, rest)) = Cat(Tail(rq), rest)
    BY <1>2, <2>1, <2>2, HeadOfCat
  <2> QED BY <2>1, <2>3, <2>4, <2>5 DEF Effect, HandedOver
<1>14. CASE ReceiveHandlerReceives
  <2>1. rq' = rq /\ got' = got /\ rheld = <<>>
    BY <1>1, <1>14 DEF ReceiveHandlerReceives, HandlersHold
  <2>2. CASE wire = <<>> BY <1>7, <1>14, <2>1, <2>2 DEF ReceiveHandlerReceives
  <2>3. CASE wire # <<>>
    <3>1. rheld' = <<Head(wire)>> /\ wire' = Tail(wire)
      BY <1>14, <2>3 DEF ReceiveHandlerReceives
    <3>2. wire = Cat(rheld', wire') BY <1>2, <2>3, <3>1, HeadThenTail
    <3>3. Ahead = rq /\ Ahead' = Cat(rq, rheld') BY <1>2, <2>1, CatMonoid DEF Ahead
    <3>4. Cat(wire, Behind) = Cat(rheld', Cat(wire', Behind))
      BY <1>2, <1>3, <3>2, CatMonoid
    <3>5. Cat(wire', Behind) \in Msgs BY <1>2, <1>3, CatMonoid
    <3>6. UnderWay' = Cat(rq, Cat(rheld', Cat(wire', Behind)))
      BY <1>2, <1>3, <1>5, <3>3, <3>5, CatMonoid
    <3> QED BY <1>2, <2>1, <3>3, <3>4, <3>6 DEF Effect
  <2> QED BY <2>2, <2>3
<1>15. CASE ReceiveHandlerWrites
  <2>1. /\ rheld' = <<>> /\ wire' = wire /\ got' = got /\ rq' = Cat(rq, rheld)
    BY <1>15 DEF ReceiveHandlerWrites, Cat
  <2>2. Ahead' = Ahead BY <1>2, <1>3, <2>1, CatMonoid DEF Ahead
  <2> QED BY <1>6, <2>1, <2>2
<1>16. CASE ReceiveHandlerGivesUp
  <2>1. /\ rheld' = <<>> /\ wire' = wire /\ got' = got /\ rq' = rq
        /\ rside = "joining"
    BY <1>16 DEF ReceiveHandlerGivesUp
  <2>2. UnderWay = Cat(rq, Cat(rheld, Cat(wire, Behind))) BY <1>2, CatMonoid DEF Ahead
  <2>3. Ahead' = rq BY <1>2, <2>1, CatMonoid DEF Ahead
  <2>4. UnderWay' = Cat(rq, Cat(wire, Behind)) BY <1>3, <1>5, <2>1, <2>3
  <2>5. Dropped BY <1>2, <2>1, <2>2, <2>4 DEF Dropped
  <2> QED BY <2>1, <2>5 DEF Effect, MayDrop
<1>17. CASE RecreateReceiver
  <2>1. /\ rside = "stopped" /\ rq' = <<>> /\ rheld' = rheld /\ got' = got
        /\ wire' = wire \/ wire' = <<>>
    BY <1>17 DEF RecreateReceiver
  <2>2. rheld = <<>> BY <1>1, <2>1 DEF HandlersHold
  <2>3. Ahead = rq /\ Ahead' = <<>> BY <1>2, <2>1, <2>2, CatMonoid DEF Ahead
  <2>4. <<>> \in Msgs BY CatMonoid
  <2>5. CASE wire' = wire
    <3>1. UnderWay = Cat(<<>>, Cat(rq, Cat(wire, Behind))) BY <1>2, <2>3, CatMonoid
    <3>2. UnderWay' = Cat(<<>>, Cat(wire, Behind)) BY <1>3, <1>5, <2>3, <2>5
    <3>3. Dropped BY <1>2, <2>1, <2>4, <3>1, <3>2 DEF Dropped
    <3> QED BY <2>1, <3>3 DEF Effect, MayDrop
  <2>6. CASE wire' = <<>>
    <3>1. Cat(rq, wire) \in Msgs BY <1>2, CatMonoid
    <3>2. UnderWay = Cat(Cat(rq, wire), Behind) BY <1>2, <2>3, CatMonoid
    <3>3. UnderWay = Cat(<<>>, Cat(Cat(rq, wire), Behind)) BY <1>2, <3>2, CatMonoid
    <3>4. UnderWay' = Cat(<<>>, Behind) BY <1>2, <1>3, <1>5, <2>3, <2>6, CatMonoid
    <3>5. Dropped BY <1>2, <2>1, <2>4, <3>1, <3>3, <3>4 DEF Dropped
    <3> QED BY <2>1, <3>5 DEF Effect, MayDrop
  <2> QED BY <2>1, <2>5, <2>6
<1> QED BY <1>8, <1>9, <1>10, <1>11, <1>12, <1>13, <1>14, <1>15, <1>16, <1>17
        DEF ReceiverNext

(* Every step of the connection. *)
LEMMA StepEffect ==
    ASSUME IInv, [Next]_vars
    PROVE  Effect
<1>1. CASE UNCHANGED vars
  BY <1>1 DEF vars, senderVars, receiverVars, Effect, UnderWay
<1> QED BY <1>1, SenderEffect, ReceiverEffect DEF Next

-----------------------------------------------------------------------------
(* A queued connection implements the lossy channel: whatever the order of  *)
(* the starts, stops and re-creations of its ends and of the steps of its   *)
(* handler threads, what the consumer receives is what the producer sent,   *)
(* in that order and none twice, less what was dropped on the way.  It      *)
(* holds for every capacity and every transport.                            *)
THEOREM Refinement == Safety => IsLossyChannel
<1>1. Init => Abstract!Init
  <2>1. <<>> \o <<>> \o <<>> \o <<>> \o <<>> = <<>> OBVIOUS
  <2> QED BY <2>1 DEF Init, Abstract!Init, UnderWay
<1>2. IInv /\ [Next]_vars => [Abstract!Next]_(Abstract!vars)
  <2> SUFFICES ASSUME IInv, [Next]_vars
               PROVE  [Abstract!Next]_(Abstract!vars)
    OBVIOUS
  <2>1. CASE UnderWay' = UnderWay /\ got' = got BY <2>1 DEF Abstract!vars
  <2>2. CASE Accepted BY <2>2 DEF Accepted, Abstract!Next, Abstract!Send
  <2>3. CASE HandedOver BY <2>3 DEF HandedOver, Abstract!Next, Abstract!Deliver
  <2>4. CASE Dropped
    <3>1. PICK a, b, c \in Msgs :
             UnderWay = Cat(a, Cat(b, c)) /\ UnderWay' = Cat(a, c)
      BY <2>4 DEF Dropped
    <3>2. Less(Cat(a, Cat(b, c)), Cat(a, c)) BY DropMiddle
    <3>3. Less(UnderWay, UnderWay') BY <3>1, <3>2
    <3> QED BY <2>4, <3>3 DEF Less, Dropped, Abstract!Next, Abstract!Lose
  <2> QED BY <2>1, <2>2, <2>3, <2>4, StepEffect DEF Effect
<1> QED BY <1>1, <1>2, HandsEmpty, PTL DEF Safety, IsLossyChannel, Abstract!Spec

(* Over a transport that blocks, while the receiving end runs and the       *)
(* sending end is not removed, a step neither drops nor reorders what was   *)
(* accepted or delivered: it only adds at the end.                          *)
THEOREM NoLoss == Safety => NoLossWhileRunning
<1>1. IInv /\ [Next]_vars =>
        [transport = "pair" /\ rside = "running" /\ sside # "stopped" =>
          \/ (got \o UnderWay)' = got \o UnderWay
          \/ \E x \in Message : (got \o UnderWay)' = Append(got \o UnderWay, x)]_vars
  <2> SUFFICES ASSUME IInv, [Next]_vars,
                      transport = "pair", rside = "running", sside # "stopped"
               PROVE  \/ Cat(got', UnderWay') = Cat(got, UnderWay)
                      \/ \E x \in Message : Cat(got', UnderWay') = Append(Cat(got, UnderWay), x)
    BY DEF Cat
  <2>1. got \in Msgs /\ UnderWay \in Msgs BY Places DEF IInv, InPlaces
  <2>2. Cat(got, UnderWay) \in Msgs BY <2>1, CatMonoid
  <2>3. CASE UnderWay' = UnderWay /\ got' = got BY <2>3
  <2>4. CASE Accepted
    <3>1. PICK x \in Message : UnderWay' = Append(UnderWay, x) /\ got' = got
      BY <2>4 DEF Accepted
    <3>2. <<x>> \in Msgs /\ UnderWay' = Cat(UnderWay, <<x>>) BY <2>1, <3>1, CatOne
    <3>3. Cat(got, UnderWay') = Cat(Cat(got, UnderWay), <<x>>)
      BY <2>1, <3>2, CatMonoid
    <3>4. Cat(got', UnderWay') = Append(Cat(got, UnderWay), x)
      BY <2>2, <3>1, <3>3, CatOne
    <3> QED BY <3>4
  <2>5. CASE HandedOver
    <3>1. UnderWay # <<>> /\ UnderWay' = Tail(UnderWay) /\ got' = Append(got, Head(UnderWay))
      BY <2>5 DEF HandedOver
    <3>2. /\ Head(UnderWay) \in Message /\ Tail(UnderWay) \in Msgs
          /\ UnderWay = Cat(<<Head(UnderWay)>>, Tail(UnderWay))
      BY <2>1, <3>1, HeadThenTail
    <3>3. <<Head(UnderWay)>> \in Msgs /\ got' = Cat(got, <<Head(UnderWay)>>)
      BY <2>1, <3>1, <3>2, CatOne
    <3>4. Cat(got', UnderWay') = Cat(Cat(got, <<Head(UnderWay)>>), Tail(UnderWay))
      BY <3>1, <3>3
    <3>5. Cat(Cat(got, <<Head(UnderWay)>>), Tail(UnderWay))
             = Cat(got, Cat(<<Head(UnderWay)>>, Tail(UnderWay)))
      BY <2>1, <3>2, <3>3, CatMonoid
    <3>6. Cat(got', UnderWay') = Cat(got, UnderWay) BY <3>2, <3>4, <3>5
    <3> QED BY <3>6
  <2> QED BY <2>3, <2>4, <2>5, StepEffect DEF Effect, MayDrop
<1> QED BY <1>1, HandsEmpty, PTL DEF Safety, NoLossWhileRunning
=============================================================================
