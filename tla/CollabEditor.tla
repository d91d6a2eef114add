---------------------------- MODULE CollabEditor ----------------------------
(***************************************************************************)
(* CollabEditor (lib/collabeditor.cpp) and a receiver of its changesets    *)
(* (TestController, guitest/editor_test.cpp).  The user edits the document *)
(* at will; a timer compares it with what the last tick saw and emits the  *)
(* changeset in between.  The signal is a direct call: the receiver has    *)
(* applied the changeset to its own text when the tick ends.               *)
(***************************************************************************)
EXTENDS Changeset

CONSTANT Text           \* what the document can hold (toPlainText())

VARIABLES
  content,              \* the document
  lastContent,          \* CollabEditor::lastContent_
  mirror                \* TestController::text_

vars == <<content, lastContent, mirror>>

\* The widget starts empty, and so do the two default-constructed QStrings.
Init ==
  /\ content = <<>>
  /\ lastContent = <<>>
  /\ mirror = <<>>

\* Any edit, of any size, between two ticks.
Edit ==
  /\ content' \in Text
  /\ UNCHANGED <<lastContent, mirror>>

\* TestController::newChangeset.
NewChangeset(set) == mirror' = ApplyChangeset(mirror, set)

\* Mutant of Tick: lastContent_ is not updated.
TickForgets ==
  /\ content # lastContent
  /\ NewChangeset(CreateChangeset(lastContent, content))
  /\ UNCHANGED <<content, lastContent>>

\* Mutant of Tick: the changeset leads back.
TickSwapped ==
  /\ content # lastContent
  /\ lastContent' = content
  /\ NewChangeset(CreateChangeset(content, lastContent))
  /\ UNCHANGED content

\* The slot CollabEditor::createChangeset; a tick that finds the document
\* unchanged does nothing.
Tick ==
  /\ content # lastContent
  /\ lastContent' = content
  /\ NewChangeset(CreateChangeset(lastContent, content))
  /\ UNCHANGED content

Next == Edit \/ Tick

Spec == Init /\ [][Next]_vars

\* The 250 ms timer never stops (collabeditor.cpp:10-12).  Only a Tick changes
\* lastContent, so fairness is stated of its effect.
FairSpec == Spec /\ WF_lastContent(lastContent' = content)

----------------------------------------------------------------------------
\* The document and both copies of it are texts of the document.
TypeOK == content \in Text /\ lastContent \in Text /\ mirror \in Text

\* Whatever the user typed between the ticks, the receiver, which knows only
\* the changesets, holds what the editor compares with next time
\* (collabeditor.cpp:20-22); a difference would never go away again.
MirrorInSync == mirror = lastContent

\* The editor keeps the promise of EditorFeed.
Feed == INSTANCE EditorFeed WITH EmptyText <- <<>>

FeedKept == Feed!Spec

\* The receiver catches up with the document over and over, although the user
\* may edit between any two ticks (the timer of collabeditor.cpp:10-12).
MirrorCatchesUp == []<>(mirror = content)
=============================================================================
