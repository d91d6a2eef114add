----------------------------- MODULE FramePeers -----------------------------
(***************************************************************************)
(* Two QWsSockets, each built on one end of an open TCP connection, from   *)
(* there to the end of both.  The output of one is what has not reached    *)
(* the other yet; TCP delivers it in segments cut anywhere, or the         *)
(* connection breaks.  The users write, ping, close and abort, between two *)
(* events or in a slot of their own socket.                                *)
(***************************************************************************)
EXTENDS WsReader

CONSTANTS
  Message,      \* what write() is given: [data, asBinary]
  MaxCalls      \* bound: calls of write() and ping() in one behaviour

ASSUME MessagesAreBytes == \A m \in Message : m.data \in Seq(Byte) /\ m.asBinary \in BOOLEAN
ASSUME MaxCallsIsNat == MaxCalls \in Nat

VARIABLES
  socks,        \* [Peer -> a socket of WsReader]
  told,         \* [Peer -> the Close frame of the other has been read]
  calls

vars == <<socks, told, calls>>

Peer == {"a", "b"}

Other(p) == CHOOSE q \in Peer : q # p

Init ==
  /\ socks = [p \in Peer |-> NewSocket(13)]
  /\ told = [p \in Peer |-> FALSE] /\ calls = 0

----------------------------------------------------------------------------
(* The users.                                                              *)

UserWrites(p) ==
  /\ UserRuns(socks[p]) /\ socks[p].tcp # "Unconnected" /\ calls < MaxCalls
  /\ \E message \in Message :
       socks' = [socks EXCEPT ![p] = Write(@, message.data, message.asBinary)]
  /\ calls' = calls + 1
  /\ UNCHANGED told

UserPings(p) ==
  /\ UserRuns(socks[p]) /\ socks[p].tcp # "Unconnected" /\ calls < MaxCalls
  /\ socks' = [socks EXCEPT ![p] = Ping(@)]
  /\ calls' = calls + 1
  /\ UNCHANGED told

DisconnectFromHost(p) ==
  /\ UserRuns(socks[p])
  /\ socks' = [socks EXCEPT ![p] = Close(@, NoCloseStatusCode)]
  /\ UNCHANGED <<told, calls>>

UserAborts(p) ==
  /\ UserRuns(socks[p])
  /\ socks' = [socks EXCEPT ![p] = Abort(@)]
  /\ UNCHANGED <<told, calls>>

----------------------------------------------------------------------------
(* Event loop and TCP.                                                     *)

Arrive(p) ==
  /\ socks[p].tcp = "Connected" /\ ~socks[p].running
  /\ LET flight == socks[Other(p)].output
     IN  \E n \in 1 .. Len(flight) :
           socks' = [socks EXCEPT ![p] = Receive(@, SubSeq(flight, 1, n)),
                                  ![Other(p)].output = Behind(flight, n)]
  /\ UNCHANGED <<told, calls>>

ProcessDataV4(p) ==
  /\ socks[p].running
  /\ socks' = [socks EXCEPT ![p] = Iterate(@)]
  /\ told' = [told EXCEPT ![p] = @ \/ socks'[p].received]
  /\ UNCHANGED calls

\* All is sent, or there is nobody left to read it.
TcpFlushed(p) ==
  /\ socks[p].tcp = "Closing" /\ ~socks[p].running
  /\ socks[p].output = <<>> \/ socks[Other(p)].tcp # "Connected"
  /\ socks' = [socks EXCEPT ![p] = TcpUnconnected(@)]
  /\ UNCHANGED <<told, calls>>

\* The other end is gone, and what it had sent has arrived.
TcpHangsUp(p) ==
  /\ socks[p].tcp = "Connected" /\ ~socks[p].running
  /\ socks[Other(p)].tcp = "Unconnected"
  /\ socks' = [socks EXCEPT ![p] = TcpClosing(@)]
  /\ UNCHANGED <<told, calls>>

TcpBreaks(p) ==
  /\ socks[p].tcp # "Unconnected" /\ ~socks[p].running
  /\ socks' = [socks EXCEPT ![p] = TcpUnconnected(@)]
  /\ UNCHANGED <<told, calls>>

Next ==
  \E p \in Peer :
    \/ UserWrites(p) \/ UserPings(p) \/ DisconnectFromHost(p) \/ UserAborts(p)
    \/ Arrive(p) \/ ProcessDataV4(p) \/ TcpFlushed(p) \/ TcpHangsUp(p) \/ TcpBreaks(p)

Spec == Init /\ [][Next]_vars

\* Both event loops run, and TCP delivers while both ends are there.
FairSpec ==
  /\ Spec
  /\ \A p \in Peer :
       WF_vars(Arrive(p)) /\ WF_vars(ProcessDataV4(p)) /\ WF_vars(TcpFlushed(p)) /\ WF_vars(TcpHangsUp(p))

----------------------------------------------------------------------------
TypeOK ==
  /\ \A p \in Peer :
       /\ socks[p].readingState \in ReadingStates
       /\ socks[p].buffer \in Seq(Byte) /\ socks[p].output \in Seq(Byte)
       /\ socks[p].closeFrames <= 1 /\ socks[p].disconnects <= 1
  /\ told \in [Peer -> BOOLEAN] /\ calls \in 0 .. MaxCalls

\* Those of the messages that are wanted, in their order.
Only(messages, wanted) ==
  FoldLeft(LAMBDA kept, m : IF m \in wanted THEN Append(kept, m) ELSE kept, <<>>, messages)

\* What write() is given, and what frameReceived() reports.
Reported == [kind : {"text", "binary"}, data : Seq(Byte)]

Fitting == {m \in Reported : Len(m.data) < MaxBytesPerFrame}

Sent(p) == Only(socks[p].written, Fitting)

Received(p) == Only(socks[p].emitted, Reported)

\* Messages of one frame arrive as MessageChannel promises, in both directions
\* and whatever else is going on: longer ones in between, which get lost, pings,
\* closing and aborting, segments cut anywhere (173-201, 351-501, 612-658).
ToA == INSTANCE MessageChannel WITH sent <- Sent("b"), received <- Received("a")

ToB == INSTANCE MessageChannel WITH sent <- Sent("a"), received <- Received("b")

MessagesInOrder == ToA!Spec /\ ToB!Spec

\* Seen from one end, and without the bytes, the other end and TCP behave like
\* the server and the network of WsConnection: what is left out there changes
\* nothing of the connection's life.
EndOfA == INSTANCE WsConnection WITH
  sock <- [ws |-> socks["a"].ws, tcp |-> socks["a"].tcp,
           sent |-> socks["a"].sent, received |-> socks["a"].received,
           closeFrames |-> socks["a"].closeFrames, disconnects |-> socks["a"].disconnects,
           response |-> "none", misread |-> FALSE, alive |-> TRUE,
           greeted |-> FALSE, refused |-> FALSE],
  peer <- [answer |-> "accepts", closed |-> told["a"]]

LivesAsConnection == EndOfA!Spec

\* Nothing is reported behind disconnected(), unless the other side has written
\* behind its Close frame, as write() lets it, and the answer to a Ping
\* (480, 466, 173-201).
NothingAfterDisconnected ==
  [][\A p \in Peer :
       socks[p].ws = "Unconnected" /\ socks[p]'.emitted # socks[p].emitted =>
         socks[Other(p)].late]_vars

\* Two sockets need no timeout to close: once one of them is closing or gone,
\* both end up unconnected.
BothEnd ==
  \A p \in Peer : socks[p].ws # "Connected" ~> \A q \in Peer : socks[q].ws = "Unconnected"

----------------------------------------------------------------------------
(* What the header says and the code does not do.                          *)

\* An open connection on which nothing is under way.
Quiet ==
  \A p \in Peer :
    socks[p].ws = "Connected" /\ socks[p].output = <<>> /\ ~socks[p].running

\* websocket.h:87: write() is for "data as text", of any size.
MessagesArrive == Quiet => \A p \in Peer : Received(Other(p)) = socks[p].written
=============================================================================
