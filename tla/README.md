# etherpadcpp in TLA+

A verification project for etherpadcpp, a C++/Qt client library for Etherpad: it
turns edits of a text into changesets, calls Etherpad's HTTP API, and has a
WebSocket client.  The modules here are translated from `src/lib`; TLC checks
them on small instances, TLAPS proves the theorems listed below.

Line numbers in comments and in `PROJECT.json` refer to `src/`.

## 1. The system

| Part | Source | State it keeps | Operations |
|---|---|---|---|
| Changesets | `lib/changeset.cpp`, `.h` | none (values) | `createChangeset`, `applyChangeset`; under them `JS::diff`, `JS::createChangeset`, `JS::collapse`, `JS::optimize`, `JS::optimizeChangeset` |
| Text format | `changeset.cpp` 32-125, `utils.cpp` 52-70 | none | `toString`, `fromString`, base36 |
| AttributePool | `changeset.cpp` 11-30 | number → attribute | `fromJSON`, look-ups |
| Merge | `changeset.cpp` 469-696 | none | `mergeChangeset` (unfinished, behind a merge marker) |
| CollabEditor | `lib/collabeditor.cpp`, `guitest/editor_test.cpp` | the document, `lastContent_`; the receiver's `text_` | timer slot, `newChangeset` |
| EtherPadApi | `lib/etherpadapi.cpp`, `datatypes.h`, `utils.cpp` | one `QNetworkReply` per request in flight | some thirty calls, `doRequest`, `handleNetworkReply` |
| QWsSocket | `lib/websocket.cpp` | its state and that of `tcpSocket`, the two closing-handshake flags, the response read so far, the frame reader | `connectToHost`, `disconnectFromHost`, `abort`, `close`, `write`, `ping`, and slots for TCP's events and data |
| Log | `lib/log.cpp` | level, file | `LOG_*` |

**How they interact.**  `CollabEditor::createChangeset` (a 250 ms timer) calls
`::createChangeset` on the text it saw last and the text it sees, and emits the
result; a receiver (`TestController`) applies it to its own copy.  `EtherPadApi`
and `QWsSocket` stand alone: nothing in the repository joins them to the editor
yet.  Everything runs on one thread with Qt's event loop, so a handler is atomic;
what interleaves is handlers, user calls, and what the network does in between.

**What is hard.**

- *Changesets*: four rewriting steps each of which must keep the text, with
  indices, lengths, line counts and a character bank that must move together; a
  loop without a bound; a receiver that can never recover from one bad changeset.
- *API*: requests overtake each other, share signals, and fail on the way, where
  a missing `code` reads as success.
- *WebSocket*: two state machines (`state()` and `tcpSocket->state()`) and two
  flags, driven by user calls and network events in any order, over several
  connections of one object; handlers that call each other (`close()` runs inside
  the slot for TCP's `ClosingState` and inside the reader) and emit signals in the
  middle, whose slots may call back.
- *WebSocket frames*: a reader that can be cut off at any byte and keeps its state
  over several events and several connections; frames inside messages; loops
  without a bound; lengths of up to 63 bits.

**What makes each part correct.**

- *Changesets*: applying the result to the old text yields the new one; every
  pass keeps that; operations count the lines they cover; the loop ends.
- *Text format*: what is written is read back; reading ends on any string.
- *CollabEditor*: the receiver's copy follows the document.
- *EtherPadApi*: a request is answered once, by its own reply, with the server's
  verdict, under its own signal.
- *QWsSocket*: flags and state agree; nothing of a connection reaches the next;
  no Close frame, handshake or `disconnected()` too many; closing ends.  What the
  reader reports does not depend on how TCP cuts the bytes; what one socket writes
  the other reads, in order; the reader returns.

`PROJECT.json` lists the hazards behind these, each at its line.

## 2. Modules

| Module | Models |
|---|---|
| `Changeset` | the algorithms as operators; texts are sequences of which only the space and the line break are told apart |
| `ChangesetCreation` | one call of `createChangeset`, one action per pass of the loop |
| `MCText`, `MCChangesetCreation` | bounded sets of texts for TLC |
| `ChangesetString`, `MCChangesetString` | `toString`, base36, and the loop of `fromString`, over characters |
| `ChangesetCreationProofs` | the raw changeset, collapse, optimize, the lengths, the bank, the rounds and the result of the loop, for all texts |
| `ChangesetStringProofs` | the types of `fromString`, and that its loop ends |
| `EditorFeed` | abstract: the receiver's copy only ever moves to what the document is |
| `CollabEditor`, `MCCollabEditor`, `CollabEditorProofs` | editor, timer, receiver; refines `EditorFeed` |
| `RequestReply` | abstract: an asynchronous call is answered at most once, answers may overtake each other |
| `EtherPadApi`, `EtherPadApiProofs` | requests in flight, server, network, reply handler; refines `RequestReply` |
| `WsConnection`, `WsConnectionProofs` | the life of a `QWsSocket` over many connections, with a server |
| `WsSlots`, `WsSlotsProofs` | the same handlers cut at the signals they emit, with the slots of the user |
| `WsFrames` | what a `QWsSocket` writes: frames as bytes |
| `WsReader` | a `QWsSocket` on an open connection, as operators on a record: reader, `write`, `close` |
| `FrameReader`, `MCFrameReader` | one such socket, and the bytes of a server; its theorems are in `FramePeersProofs` |
| `MessageChannel` | abstract: messages are received in the order in which they were sent, each once at most |
| `FramePeers`, `MCFramePeers`, `FramePeersProofs` | two such sockets and TCP between them; refines `MessageChannel` in both directions, and each end refines `WsConnection` |
| `SequenceLemmas` | what several proofs need of numbers, sequences, recursion and folds |

### Changeset and ChangesetCreation

`Diff`, `RawChangeset`, `Collapse`, `Optimize` and `ApplyChangeset` are the
functions of the same names.  A loop of the source is a fold (`MatchDown`,
`MatchUp`, `OptimizeOp`, `ApplyOp`) or, where its result has a shape, that shape:
`CommonSuffix` is the number the `while` of `optimize` counts to; `Couple` says
which operations of a run are merged, `Second` which are skipped and `Piece` what
is left of each (a `Couple` is no `Second`: in a run of three the third stays
alone); an operation waits in `potentialOps`
until a later word writes something, so those `written` are those with such a
word at or after them.  Odd corners are kept: `DiffOutData::isValid` tests for
row 1, `newlines` is -1 for none and takes part in sums, `optimize` does not move
past a kept suffix.  `Mid`, `Left`, `QStringInsert` and `QStringRemove` do what
Qt's QString does at and beyond the ends.

`ChangesetCreation` has the locals of `createChangeset` and `optimizeChangeset`
as variables (`cs` is `result`, then `newChangeset`) and a program counter.

### ChangesetString

Here characters matter, so a string is a sequence of one-letter strings.
`toString` and base36 are operators; `fromString` is a state machine with the
function's locals and one action per iteration, since what can go wrong is the
position it carries from one to the next.  `source` is history: the changeset the
string was written from, which the properties compare the reading with.  `Garbage`
are strings `toString` does not write.  What `\w` takes for a letter and `strtoul`
does not is represented by the underscore.

Numbers keep their widths.  A `quint64` is four words of 16 bits (`Quint64`; TLC's
own integers have 32 bits), `strtoul` saturates at its range (`AddDigit`), and what
it returns is cut to an `int` (`ToInt`, 88-89 and 104); an `int` handed to
`base36enc` is extended with its sign (`ToQuint64`).  Sums and differences of ints
wrap (`Plus`, `Minus`): in C++ an overflow is undefined, and the build wraps.  So
`+zzzzzz` is read as an operation of negative length, and toString writes it back
with thirteen digits.  `unsigned long` is taken to have 64 bits.

### CollabEditor

`Edit` puts any text into the document; `Tick` is the slot together with the
receiver's slot, which Qt calls directly.  A tick that finds nothing new is a
stutter.  The recursive function in `OptimizeChangeset` is the loop of
`ChangesetCreation` in one step.

### EtherPadApi

A request is named by its reply object.  `ServerAnswers` lets the server carry a
call out, refuse it with a code, or something else on the way answer with a page
that is no JSON; `NetworkFails` ends the request before or after the server acted.
Both end in `finished()`, since the slot `error()` only logs.  `verdict` records
what the server did, for the properties; the code does not see it.  Payloads are
left out.

### WsConnection

`sock` holds the state of both sockets, the flags, what was read of the
handshake response, whether the frame reader was thrown off, and history for the
properties (`greeted`, `refused`, `closeFrames`, `disconnects`).  Handlers are
functions from a socket to a socket because the code's call each other; an action
is a user call or an event.  `connectToHost(QString)` makes a `QHostAddress` of
its argument, which is empty for a name: then `tcpSocket` looks up an empty name
and fails (`HostLookup`).  While `tcpSocket` is busy it ignores the call, but the
response read so far is cleared.  Calls to one socket come between two events
here; `WsSlots` has the slots.

The server is modelled from what the client must expect: it answers an opening
handshake once (accepting or refusing, in one piece or two), may send a Close
frame at any time after accepting and nothing after it, may hang up or vanish at
any time.  Data frames do not change the state and are left out; that this changes
nothing is checked by `FramePeers` (`LivesAsConnection`).

### WsSlots

`close()` and `processTcpStateChanged()` emit signals in the middle, Qt calls the
user's slots there, and the slots may call `connectToHost()` and
`disconnectFromHost()`.  `stack` is what is still to be done before the event is
handled: steps of the socket and of `tcpSocket`, each the code from one signal to
the next, and the signals whose slots run in between.  A call in a slot pushes its
steps; the steps below go on with what the code had read before.  What
`tcpSocket` does between its own signals (`TcpDisconnects`, `TcpEnds`,
`TcpReports`, ...) is what QAbstractSocket does: `disconnectFromHost()` waits for
bytes that are still to be written (`unsent`) and is over at once otherwise.
`HostLookupState` is taken together with `ConnectingState`.  `abort()` comes
between two events only.  `before` is history: which calls were made with which
steps still to come.

### WsFrames, WsReader, FrameReader and FramePeers

`WsFrames` is `composeHeader`, `composeFrames`, `serializeInt`, `mask` and the
Close frame.  `WsReader` is the socket on an open connection: `IterateV4` is one
iteration of `processDataV4`'s loop, `IterateV0` one call of the recursion of
`processDataV0`; `Dispatch` is what a frame that ends a message does, `Close` what
`close()` does.  A slot may run where an iteration ended with a signal (`slot`).
`payloadLength` is split into what the cast to 32 bits sees and the rest.

`FrameReader` gives the socket bytes a server may send: `Conforms` is the order
RFC 6455 allows, `ServerFrame` the frames as the server writes them, of which
`FramesAreWritten` assumes what is true of any frame that can be written (the length
is that of the payload unless it is beyond 31 bits, a text has no byte 255).  `Arrive` cuts them
anywhere.  Between two connections everything is one step (`Reconnect`), since
what matters is what the reader takes along: `readingState`, the header's fields
and `currentFrame`, none of which is reset.  `FramePeers` connects two sockets:
the output of one is what the other has not received yet.

`MessagesInOrder` is about messages of one frame, because longer ones are lost
(`MessagesArrive`); those lost ones may stand between the others.  `Only` picks
the messages a property is about, in their order.
`LivesAsConnection` maps an end of `FramePeers` to `WsConnection`, with the other
end as its server.  Together with `BothEnd` it discharges for two QWsSockets what
`WsConnection` assumes of its server: that it answers a Close frame and hangs up.

## 3. Runs

| Run | Instance | Shows |
|---|---|---|
| `ChangesetCreation.cfg` | all couples of texts of at most three words out of five (common beginnings, common ends, a line break, the empty word) | the passes keep what they must, the loop ends |
| `RoundTripInOrder.cfg` | the same | violation: two replacements |
| `ChangesetString.cfg` | up to two of 36 operations (numbers of one and two digits, with and without line breaks and attribute), banks of up to two characters of the format itself; single operations with the ends of an int and negative numbers; twelve strings nobody wrote, three of them with numbers beyond 32 and 64 bits | what is written is read back, reading ends |
| `CollabEditor.cfg` | 52 texts: one word of up to three of a, b and the line break; texts of up to four words that keep their order | receiver in sync, refinement, liveness |
| `EtherPadApi.cfg` | three replies, six calls of four shared or own signals, two codes | answered once, with the verdict |
| `CheckTokenOkMeansValid.cfg` | two replies | violation: no answer is taken for a valid token |
| `WsConnection.cfg` | no parameters; the state is finite, any number of connections | all invariants, action properties and the end of closing |
| `WsSlots.cfg` | up to three calls of slots in one event, any number of events and connections | what an event leaves behind is in order, with three exceptions that are named; when a reconnect is lost |
| `FrameReader.cfg` | versions 0 and 13; three of eleven frames: every width of a length, with and without a mask, a message in two frames, Ping, Pong, Close with and without a body, a length of 2 GB and a byte | independence of the cuts, control frames answered, the loop returns |
| `MaskedBodyIsRead.cfg` | version 13 | violation: a masked Close frame cut behind its mask |
| `FramePeers.cfg` | two calls of `write` and `ping` on either side, with a message that fits a frame and one that fills it; any closing, aborting, breaking | messages in order, two refinements, nothing behind `disconnected()`, both end |
| `MessagesArrive.cfg` | the same | violation: a message that fills a frame is dropped |

**Properties of ChangesetCreation.**  `RawYieldsNewText`, `CollapseKeepsText` and
`OptimizeKeepsText` split the question "does the changeset lead to the new text"
over the steps.  The first and the last hold only under conditions that are part
of their statement and that `MovedWordIsMisplaced` and `RoundTripInOrder` show to
be needed: no word moved; the operations stay inside the old text
(`FitsOldText`, which `LengthsBalance` gives if no word moved) and replace in one
place at most.  `CollapseKeepsText` holds without any.
`LengthsBalance`, `BankMatchesInsertions` and `RawCountsNewlines` relate the parts
of a changeset to each other and to the text.  `EveryRoundShrinks` is why the
do-while ends: a round that changes something leaves less to insert and delete,
or as much in fewer operations, and both are natural numbers.
`ResultIsCompact` says what the end is good for, for all texts and however many
words moved: the characters a couple stands for are found by summing over the
operations before it, which is where `optimize` has moved to if it cut nothing.

**Properties of ChangesetString.**  `PassedIsRead` is the loop's invariant: what
was read and what is pending, written again, is the part of the string the search
has passed.  `ReadsBack` is the round trip: a changeset is read as it was written
exactly if nothing in its bank looks like an operation.  That holds for every int a
changeset may contain, since 64 bits and back leave it as it was.  "As it was written" leaves out what
is lost anyway: a count of line breaks that is 0 (which merging produces) is not
written.  `ReadingAdvances` is why the loop ends.  `TypeOK` says of any string that
the numbers read are ints, and no more: that a length is not negative is not true.

**Properties of WsSlots.**  `Settled` repeats what `WsConnection` says of a
connection (nothing left over, one Close frame, one `disconnected()`) and adds
that no open `tcpSocket` is left under a socket that shows Unconnected.  Slots
break three of the four, each in one way, which is part of the statement and which
TLC shows to be needed: a reconnect in a slot of `error()` is overwritten by the
state set behind that signal (547); a connection begun and given up in slots of
the last signals has its flags cleared behind it (551), so that the next `close()`
sends a second Close frame; a `close()` in a slot of `close()` announces the end
twice.  `ReconnectHonoured` says that a reconnect in a slot of `disconnected()` is
lost in one case only, behind the two Close frames, where `close()` emits the
signal before it hangs up (168-169).

**Properties of FrameReader.**  `WholeFramesReported` compares the signals with
the frames whose last byte has arrived, for any cuts.  `Readable` is what the
reader needs: a connection that was not preceded by one that ended within a frame,
lengths below 2 GB, no mask on a Close frame.  `ControlFramesAnswered` counts the
answers to Pings and leaves their form open (see 5.10).  `ReaderReturns` needs the last
only, and in version 0 that no segment ends within a text.

**Bounds.**  Two operations are enough for an attribute or line breaks to reach
the wrong one, and lengths of one and three digits to be written on either side of
`>` and `<`; single operations have the ends of an int and negative numbers besides,
and the strings numbers beyond 32 and 64 bits and sums that overflow; two characters are enough for an operation in a bank.  Three words are enough for a word before, between and after others,
for two words to cross, and for two replacements with a kept word between them;
the vocabulary has words that share a first or a last character, which is when
`optimize` finds a prefix or a suffix.  Each violation needs no more.  `MaxWords`
is the only bound of that model.  In `EtherPadApi` each reply is used once; three
are enough for one to overtake two others.  In `WsConnection`, `Counted` stops
counting at 3, one more than `TypeOK` allows a connection's `disconnected()`; no
other bound is needed.
`MaxNested = 3` calls in the slots of one event are enough for a call in a slot of
a call in a slot, and for the reconnect, the closing and the second closing that
`OneCloseFrame` needs.  In `FrameReader`, three frames are a message in two pieces
with a control frame between them, or a frame cut off and two on the next
connection.  `MaxBytesPerFrame = 3` stands for 1400: messages of 1 and of 3 bytes
are below the limit and at it.  `MaxCalls = 2` messages are enough for one to
overtake the other or to get lost before it.

Deadlock is not checked where the system really stops: `createChangeset` returns,
`fromString` returns, all requests are answered, the socket is
destroyed, the server has sent all it may, both ends are unconnected.  The editor never stops, nor
does the socket of `WsSlots`, and deadlock is checked there.

**Fairness.**

- `CollabEditor`: the timer never stops, so a difference between document and
  `lastContent_` is seen in the end: `WF_lastContent(lastContent' = content)`.
  Only `Tick` changes `lastContent`, so this is weak fairness of `Tick` by its
  effect (and cheap to evaluate).  The user owes nothing.
- `WsConnection`: `tcpSocket` writes out what it holds when closing
  (`TcpFlushed`); a server that accepted answers a Close frame with one of its
  own, and hangs up when both are sent.  The last two are RFC 6455's duties of
  the server and not the client's; `ClosingEnds` says that on such a server the
  client needs no timeout, except when its reader has been thrown off.  Without
  them `close()` may wait for ever: the code has no timeout.
- `FrameReader`, `FramePeers`: a loop that runs goes on (`ProcessData`,
  `ProcessDataV4`), TCP delivers what was sent (`Arrive`), writes out what is left
  and tells an end that the other is gone (`TcpFlushed`, `TcpHangsUp`): event loop
  and TCP, nothing of the users.
- `ChangesetCreation`, `ChangesetString`, `WsSlots`: none.  That their loops end is stated by
  action properties (a measure, a position that moves), which need no fairness.
- `EtherPadApi`: none.  A request without an answer stays pending, as in the code.

Every property of a passing run has a mutant in `PROJECT.json`: a plausible bug in
a mapped definition under which TLC finds the property violated.  The mutants
stand beside the definitions they change.

## 4. Proofs

| Module | Theorem | For every |
|---|---|---|
| `CollabEditorProofs` | `TypeCorrect`, `ReceiverInSync`, `EditorImplementsFeed` | set of texts that contains the empty one and between which changesets are exact |
| `ChangesetCreationProofs` | `TypeCorrect`, `BankCorrect`, `RoundsShrink`, `EndsCompact`, `RawCorrect`, `RawCounts`, `LengthsCorrect`, `CollapseCorrect`, `OptimizeCorrect` | set of texts; `OptimizedPairInsertsSame` for every couple of sequences |
| `ChangesetStringProofs` | `TypeCorrect`, `ReadingEnds` | set of changesets written, set of strings read |
| `EtherPadApiProofs` | `TypeCorrect`, `VerdictCorrect`, `ApiAnswersOnce` | set of replies, calls and codes |
| `WsConnectionProofs` | `TypeCorrect`, `CleanStart`, `FlagsCorrect`, `ClosesOnce`, `AnnouncedOnce`, `GivenUpForGood`, `OpensCorrectly` | run of the model, any number of connections |
| `WsSlotsProofs` | `TypeCorrect`, `EverySettles`, `ReconnectIsHonoured` | number of calls inside each other (`MaxNested`) |
| `FramePeersProofs` | `TypeCorrect`, `ImplementsConnection`, `FlightLasts`, `MessagesKeepOrder`, `NothingBehindDisconnected` | set of messages of bytes, size of a frame that is an `int`, number of calls |
| | of `FrameReader`: `ReaderTypes`, `ReaderReports`, `ReaderAnswers` | set of frames that can be written, set of versions, number of frames |

- **CollabEditor.**  Assumptions `EmptyIsText` and `TextsRoundTrip`.  The second is
  a real restriction: `RoundTripInOrder` shows texts that do not meet it.  What is proved
  is that editor, timer and receiver add no error to those of `createChangeset`:
  if one changeset is exact, so is the feed.  The invariant is type correctness
  and `MirrorInSync` together: a tick applies a changeset made from `lastContent`
  to `mirror`, so even the type of `mirror` depends on the two being equal.  TLC
  evaluates both assumptions on the texts of `MCCollabEditor`.
- **ChangesetCreation.**  Assumption `TextsAreSequences`.  `EveryRoundShrinks` and
  `ResultIsCompact` speak of a whole round at its last step, so the invariant says
  what `cs` is in the middle of one, in terms of `beforeOptimizing`; and every
  changeset in it is `Balanced` (its bank is as long as what its '+' operations
  insert), without which `optimize` could run out of bank in the middle and cut the two
  sides differently.  Three facts carry the step.  `CreatedType`: the raw changeset
  is balanced, although operations held back at the end are dropped, because
  those insert nothing.  `CollapseFacts`: collapse keeps the sums; if it writes as
  many operations as it read, it changed nothing and there was nothing to merge.
  `OptimizeFacts`: optimize takes as much from either side; if it takes nothing,
  it writes no more than it read; if it writes as many, it changed nothing, and it
  has compared every couple where `Covered` looks.  For the last one, `Reached`
  follows the scan from operation to operation: `bank` and `rest` are the bank cut
  in two, and the text is where the operations before it end (`Untouched`).
  A round that saves nothing and shortens nothing has therefore changed nothing,
  which is `RoundsShrink`, and found nothing to do, which is `EndsCompact`.
  `OptimizedPairInsertsSame`: what optimize keeps of a '-' and a '+' at both ends
  never overlaps in either text, although the prefix is taken of what the suffix left,
  and prefix, rest of the insertion and suffix are the insertion.
  `CollapseCorrect` needs only the types: two operations of one kind do what the
  merged one does (`MergeApplies`), even where an insertion runs out of bank or
  begins beyond the text; so applying what collapse has written so far leads to
  the state applying the original leads to, one operation later behind the first
  of a couple (`CollapseApplies`).  Only a dropped '=' leads to another position,
  and behind it comes nothing.

  `OptimizeCorrect` needs to know where a list of operations leads as long as it
  stays inside the old text: to a text that is new in front of the position and
  the old one's rest behind it, with the bank used up (`Leads`; one lemma for each kind of
  operation).  What optimize has written leads, iteration by iteration, to the
  same as what it has read (`Alike`).  For a couple that is
  `OptimizedPairInsertsSame`, and it needs `rest` to begin where the operations
  read so far end in the old text (`InPlace`).  A couple with a common suffix
  breaks that, since `optimize` does not move `rest` past the suffix it keeps
  (`changeset.cpp:410`).  So the first couple is compared with the characters it
  stands for and a second one may not be, which is where the limit of one
  replacement comes from.

  `RawCorrect`, `RawCounts` and `LengthsCorrect` follow the words, in texts of which
  no word moved.  The words of a text, each with its space but for the last, are
  that text again (`WordsJoined`), and so they split it in front of every word
  (`Splits`).  What `JS::diff` pairs are equal words, each with one at most
  (`Matched`): the words that occur once in either text first (`UniqueMatched`),
  then their neighbours.  That no word moved says that the pairs are in the same
  order in both texts (`Aligned`).  The invariant of the walk through the new
  words is `Reach`, with the next paired old word `Pending`: the operations so far
  have written the new text up to the word, have passed the old text up to the
  pending one, and count the line breaks of what they cover.  Each new word
  (`WordStep`: inserted; or kept, its space kept, inserted or deleted, and the old
  words up to the next paired one deleted) goes from one to the next.  Operations held back at the end (`HeldParts`) insert nothing, and what they
  keep follows by itself when `applyChangeset` appends the rest of the old text.
  So the raw changeset `Makes` the new text, and all three theorems begin there:
  `MakesText` is the text, `MakesCounted` the line breaks, `MakesFits` the two
  lengths.  The lengths are an invariant (`BalanceInv`, relative to the one above)
  because collapse changes no sum but that of a trailing '=' it drops
  (`CollapseBalances`), and optimize takes as much from '-' as from '+' and adds it
  to '=' (`OptimizeBalances`).
  So `CollapseCorrect`, `OptimizeCorrect` and `RawCorrect` together say which texts
  the whole of `createChangeset` is exact for: those of which no word moved and whose
  changeset replaces in one place at most whenever `optimize` gets it.
- **ChangesetStringProofs.**  Assumption `StringsAreTexts`: what is read is a
  sequence of characters (for the changesets written this is stated and not derived,
  because base36 is a recursive function).  What the search finds begins at or
  behind the position and has an operator and a character of a number at least
  (`FirstOpFound`), and `\w+` ends within the string (`WordEndFound`, by
  `LeastMember`): so the position grows by two at least, and by no more than
  the length behind it.  What is read of it is a number of 64 bits, because what the
  search finds behind an operator are letters (`NumberFound`), of which those in
  front of an underscore are digits (`NumberType`, along the fold, one `AddDigitType`
  each); 32 of the bits are an int (`ToIntType`), and so is a sum that wraps
  (`SumType`).  `TypeCorrect` says no more than that: a number of six digits is
  enough for a negative length.
- **EtherPadApi.**  Assumption `RefusalsAreCodes`.  The invariant adds
  `BodyTellsVerdict` (a body that is JSON carries the server's verdict, and stays
  as it is) and `ResponsesMatchBodies` (a signal was computed from the body of its
  own reply); `VerdictReported` relates signals to verdicts and is not inductive
  without them.  Refinement maps the replies unused, sent or finished, and handled to
  calls unasked, open and answered.
- **WsConnection.**  The invariant adds `SentRemembered` (while a connection lasts,
  a Close frame that went out is remembered) and `StateWhileOpen` (a socket whose
  TCP connection delivers data is not Unconnected).  Without the first,
  `OneCloseFrame` is not inductive; without the second a Close frame could arrive
  at an Unconnected socket, be recorded and never be answered.  The proof is by
  handler (`CloseConsistent`, `UnconnectedConsistent`, ...), since actions are
  compositions of them.  `OpensInOrder` needs `AnswersInOrder` besides: the server's
  answer and the socket's `greeted` and `refused` follow each other, because no
  handler touches them and `ConnectToHost` resets all three together
  (`HandlersWind`).

- **WsSlots.**  Assumption `MaxNestedIsNat`.  The stack of steps and slots may be of any
  height, so the invariant does not list stacks: `Ordered` says which step may be
  on top of which, `Agrees` relates the socket to the step on top and to the set of
  those on the stack (`Control`: the states a step finds; `Remains`: which step
  puts right what is out of order; `Heard`: behind the server's Close frame
  `close()` is on its way to its end; `Counts`: Close frames and `disconnected()`,
  and the calls that explain a second one), and `Nested` that no third `close()`
  is under way.  `Settled` speaks of the empty stack only and says nothing of a
  step on the way to it.  A step of the model takes one entry off and puts a few
  on; the rest of the stack is a set to the proof.
- **FramePeers.**  Assumptions `MessagesAreBytes`, `MaxCallsIsNat` and those of
  `WsFrames`.  The invariant is `PeersOK`, of each socket: its type down to the
  bytes it holds, `Life` (states, flags and counters fit together, and know whether
  the other's Close frame was read) and `Turn` (where the reader stands).
  Every operator of `WsFrames` and `WsReader` keeps it, and what it makes of the
  connection is a step of `WsConnection` or none (`Lives`), whatever the bytes:
  one lemma each.  `Shown` is the refinement mapping, the other end being
  `WsConnection`'s server.

  The messages need more: what is under way.  `Flight` says of either direction
  (`InFlight`) that what the reader has in its buffer, what the writer still has to
  send, and what was lost with a writer that is gone, are together a stream of
  frames, of the first of which the reader may have taken a part (`Pending`,
  `Midway`).  A stream (`Flows`) is a sequence of bytes with the messages it
  stands for, whether it begins within a message and whether it has a Close frame;
  streams of any number of frames are had without recursion, as members of a set
  in which every stream but the empty one has a first frame and a rest in the set
  (`Sound`).  The messages of one frame that were written are those reported and
  those of the stream (`Way`).  For `NothingAfterDisconnected` the stream is strict
  as long as the writer is not `late`: nothing stands behind a Close frame, and a
  reader that has read one finds nothing more.  Every operation of a writer puts a
  stream behind (`Puts`) or ends the writer (`Drops`), every iteration of the
  reader takes a part of a frame or the messages of one (`Took`): the first two
  bytes say which of three forms the length has, and the digits of each make up
  that length again (`HeaderRead`, `LengthRead`, `BigLengthRead`).  The last needs
  `MaxBytesAreInt`, and that is what `maxBytesPerFrame` is in the code: a frame of
  2 GB would have a length the reader takes for negative.  So a step appends one
  message to what was sent, or to what was received the first of those that were
  not, or neither: `MessagesKeepOrder` says this of `Spec`, with `MessageChannel`
  as the abstract specification.

- **FrameReader** (the second half of `FramePeersProofs`, as an instance `Reader`,
  since both specifications drive the same operators: `SameOperators`).
  Assumptions `ServerFramesAreWritten`, `VersionsAreNats`, `MaxFramesIsNat`.  The
  invariant is that on a connection it was ready for, and with frames it copes
  with, the reader keeps up (`KeepsUp`): there is a number k such that it has reported
  and answered the first k frames of the connection (`Told`), and what it has in its
  buffer and what has not arrived are together the frames behind those, but for
  what it has already taken of the next one (`Stands`).  In version 4 and later
  (`PlaceV4`) that is nothing or its header, and then the fields of the reader are
  those of the header (`Knows`) and `Still` is what is left of the frame in this state.  In
  version 0 (`PlaceV0`) it is nothing, or the first byte of a Close frame, for a
  discarded frame is taken whether or not its second byte has arrived; that byte, a
  zero, is then read as the beginning of a text whose end never comes, which is why
  `ReaderReturns` asks version 0 for texts only.  A reader that returns waits (`Waits`) for
  bytes of the frame it is in (`WaitsBetween`), so the k frames are just those of
  which every byte has arrived (`WholeIsReported`), and both properties follow.
  `IterationStands` and `IterationStandsV0` are the steps: one iteration takes a
  part of the next frame, or its rest, and then reports it.  `PlainLongLength` shows
  that eight bytes of a length are that length if the first four are zero and the
  fifth is below 128, `MaskBack` that a mask applied twice is none, and `TextGone`
  that the first 255 in the buffer is the end of the text, since a text has none.

What the proofs have changed in the model: `CollapseOps` was a CASE whose arms
overlapped in a run of three, and only TLC's choice of the first one made it right;
recursions that the provers cannot see through became folds (`Words`,
`AddToWords`, `Number`), and so did a `SelectSeq` (`Only`), while those of
`FrameReader` became quantifiers and concatenations (`MessageOpen`, `Signals`,
`Pings`).  And a condition was too weak: `Ordinary` allowed a length of eight bytes
of which the first four are not zero, which is more than 31 bits, as long as the
fifth is below 128.  No frame of the run had one.

**Model-checked only.**  Liveness (`MirrorCatchesUp`, `ClosingEnds`,
`ReaderReturns`, `BothEnd`): TLAPS has no rules for ENABLED.
`PassedIsRead` and `ReadsBack` (what base36 writes, base36 reads: induction over
numbers).  The frames the reader of `FrameReader` does not cope with (a masked
Close frame, a length beyond 31 bits, data of version 0 that are no text) are in the
run, and no theorem says what becomes of them but `ReaderTypes`.

## 5. Disagreements with the source's own words

The first four are runs that TLC must find violated; `PROJECT.json` quotes the
line.

1. `RoundTripInOrder` (`changeset.cpp:132`): "a b a" to "ba b ba" gives `+1 =5 +1`,
   which yields "ba b aa".
2. `CheckTokenOkMeansValid` (`etherpadapi.h:66`): a failed request reports ok.
3. `MaskedBodyIsRead` (`websocket.cpp:427`): a masked Close frame whose body comes
   in the next segment is never read, and `processDataV4()` does not return.
4. `MessagesArrive` (`websocket.h:87`): a message of `maxBytesPerFrame` bytes or
   more is dropped by the receiver.

The others are assumptions that TLC evaluates, conditions in a property that
holds, or can be read off the model:

5. `MovedWordIsMisplaced` in `MCChangesetCreation` (`changeset.cpp:132`): " a" to
   "a " gives the empty changeset.
6. `MergeLosesLineBreak` in `MCChangesetCreation` (`test/changeset_test.cpp:54`):
   "+1" and "|1+2" merge to "+3" without its line break.
7. `ReadsBack` (`test/changeset_test.cpp:96`): `+_` in a bank is read as an
   operation and lost from the bank.
8. `SignalOf` (`etherpadapi.h:89`): `getHtmlResponse` is never emitted; `getHTML`
   is answered by `getTextResponse`.
9. `ResponseEnds` in `WsConnection` (`websocket.cpp:254`): a refused handshake does
   not abort the connection.
10. `Dispatch` in `WsReader` (`websocket.cpp:466`, `websocket.h:100`): the answer to
   a Ping is the header of a Pong, sent as a binary message, so a peer never emits
   `pong()`.  No property depends on that form: `ControlFramesAnswered` asks for an
   answer.

## 6. Not modelled, and the plan

Changesets, their text, the editor, the API and the WebSocket client are modelled.
What could still be added, in this order:

1. A proof that `createChangeset` is exact for one-word texts, which discharges
   `TextsRoundTrip` there.
2. `abort()` and the destructor in slots.

Left out for good: `AttributePool` (`changeset.cpp` 11-30: one function that fills
a map, which nothing calls), the payload conversions of `utils.cpp` and
`datatypes.h` (pure, without state; their defects are in the hazard list), `Log`
(no property depends on it), `mergeChangeset` (unfinished, behind an unresolved
merge marker at `changeset.cpp:469`), the text of the opening handshake and its
check value (`HandshakeEnds` takes the verdict), the reason in a Close frame (only
`abort()` and the destructor give one, and they discard the frame), tests and
build files.
