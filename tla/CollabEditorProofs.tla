-------------------------- MODULE CollabEditorProofs --------------------------
(***************************************************************************)
(* Theorems about CollabEditor, for every set of texts between which       *)
(* createChangeset and applyChangeset do not lose a character.             *)
(***************************************************************************)
EXTENDS CollabEditor, TLAPS

\* The document starts empty.
ASSUME EmptyIsText == <<>> \in Text

\* Module ChangesetCreation shows for which texts this holds and for which
\* it does not.
ASSUME TextsRoundTrip ==
  \A o, n \in Text : ApplyChangeset(o, CreateChangeset(o, n)) = n

IInv == TypeOK /\ MirrorInSync

\* The initial state: three empty texts.
LEMMA InitEstablishes == Init => IInv
BY EmptyIsText DEF Init, IInv, TypeOK, MirrorInSync

\* A tick takes the receiver from the text the editor saw last to the text it
\* sees now, because the two were equal before (this is why the induction
\* needs MirrorInSync even for the type of mirror).
LEMMA TickSyncs ==
  ASSUME IInv, Tick
  PROVE  mirror' = content /\ lastContent' = content /\ content' = content
<1>1. mirror' = ApplyChangeset(mirror, CreateChangeset(lastContent, content))
  BY DEF Tick, NewChangeset
<1>2. mirror' = content
  BY <1>1, TextsRoundTrip DEF IInv, TypeOK, MirrorInSync
<1> QED
  BY <1>2 DEF Tick

\* Every step preserves the invariant.
LEMMA NextPreserves == IInv /\ [Next]_vars => IInv'
<1> SUFFICES ASSUME IInv, [Next]_vars PROVE IInv'
  OBVIOUS
<1>1. CASE Edit
  BY <1>1 DEF IInv, TypeOK, MirrorInSync, Edit
<1>2. CASE Tick
  BY <1>2, TickSyncs DEF IInv, TypeOK, MirrorInSync
<1>3. CASE UNCHANGED vars
  BY <1>3 DEF IInv, TypeOK, MirrorInSync, vars
<1> QED
  BY <1>1, <1>2, <1>3 DEF Next

\* The document, what the last tick saw of it and the receiver's copy are
\* always texts the document can hold.
THEOREM TypeCorrect == Spec => []TypeOK
<1>1. IInv => TypeOK
  BY DEF IInv
<1> QED
  BY InitEstablishes, NextPreserves, <1>1, PTL DEF Spec

\* The receiver of the changesets always holds what the editor saw last,
\* whatever was typed between the ticks (CollabEditor::createChangeset and
\* TestController::newChangeset together).
THEOREM ReceiverInSync == Spec => []MirrorInSync
<1>1. IInv => MirrorInSync
  BY DEF IInv
<1> QED
  BY InitEstablishes, NextPreserves, <1>1, PTL DEF Spec

\* The editor implements EditorFeed: the receiver's copy moves only to what
\* the document is at that moment.
THEOREM EditorImplementsFeed == Spec => FeedKept
<1>1. Init => Feed!Init
  BY DEF Init, Feed!Init
<1>2. IInv /\ [Next]_vars => [Feed!Next]_(Feed!vars)
  <2> SUFFICES ASSUME IInv, [Next]_vars PROVE [Feed!Next]_(Feed!vars)
    OBVIOUS
  <2>1. CASE Edit
    BY <2>1 DEF Edit, Feed!Next, Feed!Edit
  <2>2. CASE Tick
    BY <2>2, TickSyncs DEF Feed!Next, Feed!Sync
  <2>3. CASE UNCHANGED vars
    BY <2>3 DEF vars, Feed!vars
  <2> QED
    BY <2>1, <2>2, <2>3 DEF Next
<1> QED
  BY InitEstablishes, NextPreserves, <1>1, <1>2, PTL DEF Spec, FeedKept, Feed!Spec
=============================================================================
