---------------------------- MODULE LossyChannel ----------------------------
(***************************************************************************)
(* What a DAQling connection promises to the modules at its two ends: the  *)
(* messages that are delivered come in the order in which they were sent   *)
(* and none twice; a message may be lost.                                  *)
(***************************************************************************)
EXTENDS Naturals, Sequences

CONSTANT Message

VARIABLES
    chan,   \* messages under way
    got     \* messages delivered

vars == <<chan, got>>

Init == chan = <<>> /\ got = <<>>

Send == (\E x \in Message : chan' = Append(chan, x)) /\ UNCHANGED got

Deliver ==
    /\ chan # <<>>
    /\ chan' = Tail(chan)
    /\ got' = Append(got, Head(chan))

(* Neighbouring messages under way disappear. *)
Lose ==
    /\ \E i, j \in 0..Len(chan) :
          chan' = SubSeq(chan, 1, i) \o SubSeq(chan, j + 1, Len(chan)) /\ i <= j
    /\ UNCHANGED got

Next == Send \/ Deliver \/ Lose

Spec == Init /\ [][Next]_vars
=============================================================================
