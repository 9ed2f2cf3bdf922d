--------------------------------- MODULE Pipe ---------------------------------
(***************************************************************************)
(* A reliable channel of unbounded capacity: everything sent is received,  *)
(* once and in the order it was sent.  AgentTurn takes its channels to be  *)
(* of this kind, HostChannels shows what of it the bounded ones keep.      *)
(***************************************************************************)
EXTENDS Naturals, Sequences

CONSTANT Message

VARIABLES sent, received

Init == sent = <<>> /\ received = <<>>

Send ==
  /\ \E m \in Message : sent' = Append(sent, m)
  /\ UNCHANGED received

Receive ==
  /\ Len(received) < Len(sent)
  /\ received' = Append(received, sent[Len(received) + 1])
  /\ UNCHANGED sent

Next == Send \/ Receive

Spec == Init /\ [][Next]_<<sent, received>>
=============================================================================
