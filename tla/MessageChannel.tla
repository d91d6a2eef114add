--------------------------- MODULE MessageChannel ---------------------------
(***************************************************************************)
(* What a pair of sockets promises for one direction: messages are         *)
(* received in the order in which they were sent, each once at most and    *)
(* whole.  There is no medium, and a message may never be received.        *)
(***************************************************************************)
EXTENDS Integers, Sequences

VARIABLES
  sent,         \* the messages sent so far
  received      \* the messages received so far

Init == sent = <<>> /\ received = <<>>

Send ==
  /\ Len(sent') = Len(sent) + 1 /\ SubSeq(sent', 1, Len(sent)) = sent
  /\ UNCHANGED received

Receive ==
  /\ Len(received) < Len(sent)
  /\ received' = Append(received, sent[Len(received) + 1])
  /\ UNCHANGED sent

Next == Send \/ Receive

Spec == Init /\ [][Next]_<<sent, received>>
=============================================================================
