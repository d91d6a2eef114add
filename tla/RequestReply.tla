---------------------------- MODULE RequestReply ----------------------------
(***************************************************************************)
(* What an asynchronous call promises its caller: a call that was asked is *)
(* answered at most once, nothing else is answered, answers may overtake   *)
(* each other, and an answer, once given, stands.                          *)
(***************************************************************************)
EXTENDS Sequences

CONSTANT Call

VARIABLES
  unasked, open,   \* the calls not made yet; the calls waiting for an answer
  answers          \* the calls answered, in the order of their answers

vars == <<unasked, open, answers>>

Init == unasked = Call /\ open = {} /\ answers = <<>>

Ask(c) ==
  /\ c \in unasked
  /\ unasked' = unasked \ {c}
  /\ open' = open \cup {c}
  /\ UNCHANGED answers

Answer(c) ==
  /\ c \in open
  /\ open' = open \ {c}
  /\ answers' = Append(answers, c)
  /\ UNCHANGED unasked

Next == \E c \in Call : Ask(c) \/ Answer(c)

Spec == Init /\ [][Next]_vars
=============================================================================
