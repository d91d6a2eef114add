----------------------------- MODULE EditorFeed -----------------------------
(***************************************************************************)
(* What CollabEditor promises a receiver of its changesets: the receiver's *)
(* copy of the document is always something the document has been, it only *)
(* ever moves to what the document is, and it gets there.                  *)
(***************************************************************************)
CONSTANTS Text, EmptyText

VARIABLES
  content,      \* the document
  mirror        \* the receiver's copy

vars == <<content, mirror>>

Init == content = EmptyText /\ mirror = EmptyText

Edit == content' \in Text /\ UNCHANGED mirror

Sync == mirror' = content /\ UNCHANGED content

Next == Edit \/ Sync

Spec == Init /\ [][Next]_vars

FairSpec == Spec /\ WF_vars(Sync)
=============================================================================
