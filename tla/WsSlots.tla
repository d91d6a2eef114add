------------------------------- MODULE WsSlots -------------------------------
(***************************************************************************)
(* The signals of a QWsSocket (lib/websocket.cpp) and the user's slots,    *)
(* which Qt calls where a signal is emitted: in the middle of close() and  *)
(* of processTcpStateChanged().  A slot may call connectToHost() and       *)
(* disconnectFromHost(); what was read before the signal is then used      *)
(* after it.  Abort is called between two events only.                     *)
(*                                                                         *)
(* stack holds what is still to be done before the event is handled, the   *)
(* next step first.  A step is the code from one signal to the next; a     *)
(* signal on top means that its slot is running.  The steps of tcpSocket   *)
(* are what QAbstractSocket does between signals of its own.               *)
(***************************************************************************)
EXTENDS Integers, Sequences, Functions

CONSTANT MaxNested      \* bound: calls made by slots in one event

ASSUME MaxNestedIsNat == MaxNested \in Nat

VARIABLES
  sock,
  stack,
  calls                 \* calls made by slots in this event

vars == <<sock, stack, calls>>

Signal == {"error", "stateChanged", "aboutToClose", "connected", "disconnected"}

Step ==
  {"close", "closeEnds",
   "tcpIsConnecting", "tcpIsConnected", "tcpIsClosing", "goesClosing",
   "tcpIsUnconnected", "goesUnconnected", "clearFlags",
   "tcpReports", "tcpDisconnects", "tcpWritesOut", "tcpEnds", "tcpIsGone", "tcpAborts"}

(***************************************************************************)
(* ws, tcp            state() of the QWsSocket and of tcpSocket            *)
(* sent, received     closingHandshakeSent, closingHandshakeReceived       *)
(* unsent             tcpSocket has not written out a Close frame yet      *)
(* and, for the connection that tcpSocket has now or had last:             *)
(* greeted, open      the opening handshake was written, was accepted      *)
(* closeFrames        Close frames written                                 *)
(* disconnects        disconnected() emitted                               *)
(* before             which calls slots made with which steps still to be *)
(*                    done, the one that began the connection included     *)
(***************************************************************************)
NewSocket ==
  [ws |-> "Unconnected", tcp |-> "Unconnected", sent |-> FALSE, received |-> FALSE,
   unsent |-> FALSE, greeted |-> FALSE, open |-> FALSE,
   closeFrames |-> 0, disconnects |-> 0, before |-> {}]

OneMore(n) == IF n < 3 THEN n + 1 ELSE n        \* 3 stands for more, too

Init == sock = NewSocket /\ stack = <<>> /\ calls = 0

At(step) == stack # <<>> /\ Head(stack) = step

\* The step on top is done, and these are to be done next.
Continue(steps) == stack' = steps \o Tail(stack) /\ UNCHANGED calls

Idle == stack = <<>>

\* An event, with what it sets off.
Event(steps) == Idle /\ stack' = steps /\ calls' = 0

----------------------------------------------------------------------------
(* close().                                                                *)

\* Mutant of Close: each call writes a Close frame.
CloseAgain ==
  /\ At("close")
  /\ \/ sock.ws = "Unconnected" /\ Continue(<<>>) /\ UNCHANGED sock
     \/ /\ sock.ws # "Unconnected"
        /\ LET written == sock.tcp # "Unconnected"
           IN  sock' = [sock EXCEPT !.ws = "Closing", !.sent = TRUE, !.unsent = @ \/ written,
                                    !.closeFrames = IF written THEN OneMore(@) ELSE @]
        /\ Continue(IF sock.ws = "Closing" THEN <<"closeEnds">>
                    ELSE <<"stateChanged", "aboutToClose", "closeEnds">>)

Close ==
  /\ At("close")
  /\ \/ sock.ws = "Unconnected" /\ Continue(<<>>) /\ UNCHANGED sock
     \/ /\ sock.ws # "Unconnected"
        /\ LET written == ~sock.sent /\ sock.tcp # "Unconnected"
           IN  sock' = [sock EXCEPT !.ws = "Closing", !.sent = TRUE, !.unsent = @ \/ written,
                                    !.closeFrames = IF written THEN OneMore(@) ELSE @]
        /\ Continue(IF sock.ws = "Closing" THEN <<"closeEnds">>
                    ELSE <<"stateChanged", "aboutToClose", "closeEnds">>)

\* Mutant of CloseEnds: tcpSocket is left open.
CloseEndsOpen ==
  /\ At("closeEnds")
  /\ \/ /\ sock.sent /\ sock.received
        /\ sock' = [sock EXCEPT !.ws = "Unconnected", !.disconnects = OneMore(@)]
        /\ Continue(<<"stateChanged", "disconnected">>)
     \/ ~(sock.sent /\ sock.received) /\ Continue(<<>>) /\ UNCHANGED sock

CloseEnds ==
  /\ At("closeEnds")
  /\ \/ /\ sock.sent /\ sock.received
        /\ sock' = [sock EXCEPT !.ws = "Unconnected", !.disconnects = OneMore(@)]
        /\ Continue(<<"stateChanged", "disconnected", "tcpDisconnects">>)
     \/ ~(sock.sent /\ sock.received) /\ Continue(<<>>) /\ UNCHANGED sock

----------------------------------------------------------------------------
(* processTcpStateChanged().                                               *)

TcpIsConnecting ==
  /\ At("tcpIsConnecting")
  /\ sock' = [sock EXCEPT !.ws = "Connecting"]
  /\ Continue(<<"stateChanged">>)

TcpIsConnected ==
  /\ At("tcpIsConnected")
  /\ sock' = [sock EXCEPT !.greeted = sock.ws = "Connecting"]
  /\ Continue(<<>>)

\* Mutant of TcpIsClosing: disconnected() does not wait for tcpSocket.
TcpIsClosingDone ==
  /\ At("tcpIsClosing")
  /\ Continue(IF sock.ws = "Connected" THEN <<"close", "goesClosing", "disconnected">> ELSE <<>>)
  /\ UNCHANGED sock

TcpIsClosing ==
  /\ At("tcpIsClosing")
  /\ Continue(IF sock.ws = "Connected" THEN <<"close", "goesClosing">> ELSE <<>>)
  /\ UNCHANGED sock

GoesClosing ==
  /\ At("goesClosing")
  /\ sock' = [sock EXCEPT !.ws = "Closing"]
  /\ Continue(<<"stateChanged", "aboutToClose">>)

\* The state was read before error() is emitted.
TcpIsUnconnected ==
  /\ At("tcpIsUnconnected")
  /\ Continue(IF sock.ws = "Unconnected" THEN <<"clearFlags">>
              ELSE <<"error", "goesUnconnected", "clearFlags">>)
  /\ UNCHANGED sock

GoesUnconnected ==
  /\ At("goesUnconnected")
  /\ sock' = [sock EXCEPT !.ws = "Unconnected", !.disconnects = OneMore(@)]
  /\ Continue(<<"stateChanged", "disconnected">>)

ClearFlags ==
  /\ At("clearFlags")
  /\ sock' = [sock EXCEPT !.sent = FALSE, !.received = FALSE]
  /\ Continue(<<>>)

----------------------------------------------------------------------------
(* tcpSocket.                                                              *)

\* stateChanged() behind the error() of a refused connection, with the state
\* tcpSocket has by then.
TcpReports ==
  /\ At("tcpReports")
  /\ Continue(IF sock.tcp = "Unconnected" THEN <<"tcpIsUnconnected">> ELSE <<"tcpIsConnecting">>)
  /\ UNCHANGED sock

\* disconnectFromHost()
TcpDisconnects ==
  /\ At("tcpDisconnects") /\ sock.tcp \in {"Connected", "Closing"}
  /\ sock' = [sock EXCEPT !.tcp = "Closing"]
  /\ Continue(IF sock.tcp = "Closing" THEN <<"tcpWritesOut">>
              ELSE <<"tcpIsClosing", "tcpWritesOut">>)

\* With something to write out it waits for TcpFlushed.
TcpWritesOut ==
  /\ At("tcpWritesOut")
  /\ \/ sock.unsent /\ Continue(<<>>) /\ UNCHANGED sock
     \/ /\ ~sock.unsent
        /\ sock' = [sock EXCEPT !.tcp = "Unconnected"]
        /\ Continue(<<"tcpIsUnconnected">>)

\* The other side is gone: nothing is written out any more.
TcpEnds ==
  /\ At("tcpEnds")
  /\ sock' = [sock EXCEPT !.tcp = "Closing"]
  /\ Continue(<<"tcpIsClosing", "tcpIsGone">>)

TcpIsGone ==
  /\ At("tcpIsGone")
  /\ sock' = [sock EXCEPT !.tcp = "Unconnected", !.unsent = FALSE]
  /\ Continue(<<"tcpIsUnconnected">>)

TcpAborts ==
  /\ At("tcpAborts")
  /\ \/ sock.tcp = "Unconnected" /\ Continue(<<>>) /\ UNCHANGED sock
     \/ /\ sock.tcp # "Unconnected"
        /\ sock' = [sock EXCEPT !.tcp = "Unconnected", !.unsent = FALSE]
        /\ Continue(<<"tcpIsUnconnected">>)

----------------------------------------------------------------------------
(* The user, between two events or in a slot.                              *)

MayCall == ~Idle => Head(stack) \in Signal /\ calls < MaxNested

Call(steps) == stack' = steps \o stack /\ calls' = IF Idle THEN 0 ELSE calls + 1

Noted(call) ==
  {<<call, step>> : step \in {"closeEnds", "goesUnconnected", "clearFlags"} \cap Range(stack)}

DisconnectFromHost ==
  /\ MayCall
  /\ sock' = [sock EXCEPT !.before = @ \cup Noted("disconnectFromHost")]
  /\ Call(<<"close">>)

\* A tcpSocket that is not Unconnected ignores the call.
ConnectToHost ==
  /\ MayCall
  /\ \/ /\ sock.tcp = "Unconnected"
        /\ sock' = [NewSocket EXCEPT
                      !.ws = sock.ws, !.tcp = "Connecting",
                      !.sent = sock.sent, !.received = sock.received,
                      !.before = Noted("connectToHost")]
        /\ Call(<<"tcpIsConnecting">>)
     \/ /\ sock.tcp # "Unconnected"
        /\ sock' = [sock EXCEPT !.before = @ \cup Noted("connectToHost")]
        /\ Call(<<>>)

Abort == Event(<<"close", "tcpAborts">>) /\ UNCHANGED sock

SlotReturns ==
  /\ ~Idle /\ Head(stack) \in Signal
  /\ Continue(<<>>)
  /\ UNCHANGED sock

----------------------------------------------------------------------------
(* The events.                                                             *)

TcpConnects ==
  /\ sock.tcp = "Connecting"
  /\ sock' = [sock EXCEPT !.tcp = "Connected"]
  /\ Event(<<"tcpIsConnected">>)

TcpRefused ==
  /\ sock.tcp = "Connecting"
  /\ sock' = [sock EXCEPT !.tcp = "Unconnected", !.unsent = FALSE]
  /\ Event(<<"error", "tcpReports">>)

\* The end of processHandshake().
HandshakeAccepted ==
  /\ sock.tcp = "Connected" /\ sock.greeted /\ sock.ws = "Connecting"
  /\ sock' = [sock EXCEPT !.ws = "Connected", !.open = TRUE]
  /\ Event(<<"stateChanged", "connected">>)

\* The server sends one.
CloseFrameArrives ==
  /\ sock.tcp = "Connected" /\ sock.open /\ ~sock.received
  /\ sock' = [sock EXCEPT !.received = TRUE]
  /\ Event(<<"close">>)

TcpWrites ==
  /\ Idle /\ sock.tcp = "Connected" /\ sock.unsent
  /\ sock' = [sock EXCEPT !.unsent = FALSE]
  /\ UNCHANGED <<stack, calls>>

TcpFlushed ==
  /\ sock.tcp = "Closing"
  /\ sock' = [sock EXCEPT !.tcp = "Unconnected", !.unsent = FALSE]
  /\ Event(<<"tcpIsUnconnected">>)

\* The server closes the connection, or it breaks.
TcpHangsUp ==
  /\ sock.tcp = "Connected"
  /\ Event(<<"error", "tcpEnds">>)
  /\ UNCHANGED sock

Next ==
  \/ Close \/ CloseEnds
  \/ TcpIsConnecting \/ TcpIsConnected \/ TcpIsClosing \/ GoesClosing
  \/ TcpIsUnconnected \/ GoesUnconnected \/ ClearFlags
  \/ TcpReports \/ TcpDisconnects \/ TcpWritesOut \/ TcpEnds \/ TcpIsGone \/ TcpAborts
  \/ DisconnectFromHost \/ ConnectToHost \/ Abort \/ SlotReturns
  \/ TcpConnects \/ TcpRefused \/ HandshakeAccepted \/ CloseFrameArrives
  \/ TcpWrites \/ TcpFlushed \/ TcpHangsUp

Spec == Init /\ [][Next]_vars

----------------------------------------------------------------------------
TypeOK ==
  /\ sock.ws \in {"Unconnected", "Connecting", "Connected", "Closing"}
  /\ sock.tcp \in {"Unconnected", "Connecting", "Connected", "Closing"}
  /\ sock.closeFrames \in 0 .. 2 /\ sock.disconnects \in 0 .. 2
  /\ stack \in Seq(Step \cup Signal) /\ calls \in 0 .. MaxNested

NothingLeftOver ==
  sock.tcp = "Unconnected" => sock.ws = "Unconnected" /\ ~sock.sent /\ ~sock.received

NotAbandoned ==
  sock.ws = "Unconnected" =>
    \/ sock.tcp \in {"Unconnected", "Closing"}
    \/ <<"connectToHost", "goesUnconnected">> \in sock.before

OneCloseFrame ==
  \/ sock.closeFrames <= 1
  \/ {<<"connectToHost", "clearFlags">>, <<"disconnectFromHost", "clearFlags">>}
        \subseteq sock.before

DisconnectedOnce ==
  sock.disconnects <= 1 \/ <<"disconnectFromHost", "closeEnds">> \in sock.before

\* Whatever the slots called while an event was handled, what it leaves behind
\* is in order: nothing of a connection that is over; no open tcpSocket under a
\* socket that shows Unconnected, unless a slot of error() reconnected before
\* the old state was overwritten (546-547); one Close frame on a connection,
\* unless the flags of one begun and given up in slots were cleared behind it
\* (548-552); one disconnected(), unless close() was called again before the
\* first call came to its end (160-168).
Settled == Idle => NothingLeftOver /\ NotAbandoned /\ OneCloseFrame /\ DisconnectedOnce

\* A slot of disconnected() can connect again at once.  Only behind the two
\* Close frames is its connectToHost() lost on a tcpSocket that is still busy
\* with the old connection: close() hangs up after the signal (168-169).
ReconnectHonoured ==
  [][At("disconnected") /\ ConnectToHost /\ sock.tcp \in {"Connected", "Closing"} =>
       sock.sent /\ sock.received]_vars
=============================================================================
