---------------------------- MODULE WsConnection ----------------------------
(***************************************************************************)
(* The life of a QWsSocket (lib/websocket.cpp): the state it shows, the    *)
(* state of the QTcpSocket underneath, the two flags of the closing        *)
(* handshake, and a server that may accept, refuse, close or vanish.       *)
(*                                                                         *)
(* The socket is one record, because the code's handlers call each other:  *)
(* close() runs inside processTcpStateChanged() and inside                 *)
(* processDataV4(), whose bytes are modelled by what they end up doing to  *)
(* the connection.  Slots of the user run between the events.              *)
(*                                                                         *)
(* The server keeps to the protocol: it answers an opening handshake once, *)
(* and sends one Close frame at most and nothing after it.                 *)
(***************************************************************************)
EXTENDS Integers

VARIABLES
  sock,     \* the QWsSocket
  peer      \* the server

vars == <<sock, peer>>

SocketState == {"Unconnected", "HostLookup", "Connecting", "Connected", "Closing"}

(***************************************************************************)
(* ws, tcp            state() of the QWsSocket and of tcpSocket            *)
(* sent, received     closingHandshakeSent, closingHandshakeReceived       *)
(* response           handshakeResponse: nothing, the first lines of a     *)
(*                    response, or a response that was refused             *)
(* misread            the frame reader is not at the start of a frame      *)
(* alive              not destroyed                                        *)
(* and, for the connection that tcpSocket has now or had last:             *)
(* greeted            the opening handshake was written                    *)
(* refused            processHandshake() emitted error()                   *)
(* closeFrames        Close frames written                                 *)
(* disconnects        disconnected() emitted                               *)
(***************************************************************************)
Counted == 0 .. 3                       \* 3 stands for more, too

OneMore(n) == IF n + 1 \in Counted THEN n + 1 ELSE n

NewSocket(state) ==
  [ws |-> state, tcp |-> state, sent |-> FALSE, received |-> FALSE,
   response |-> "none", misread |-> FALSE, alive |-> TRUE,
   greeted |-> FALSE, refused |-> FALSE, closeFrames |-> 0, disconnects |-> 0]

\* What the server has said: no answer, the first lines of one, its verdict;
\* and whether it has sent its Close frame.
NewPeer(answer) == [answer |-> answer, closed |-> FALSE]

\* The constructor takes over the state of the socket it is given: a new one,
\* or one whose opening handshake is over.
Init ==
  \/ sock = NewSocket("Unconnected") /\ peer = NewPeer("none")
  \/ sock = NewSocket("Connected") /\ peer = NewPeer("accepts")

----------------------------------------------------------------------------
(***************************************************************************)
(* The handlers, as functions from a socket to a socket.                   *)
(***************************************************************************)
\* Mutant of Close: a second call sends a second Close frame.
CloseAgain(s) ==
  IF s.ws = "Unconnected" THEN s
  ELSE LET c == [s EXCEPT !.sent = TRUE, !.ws = "Closing",
                          !.closeFrames = OneMore(s.closeFrames)]
       IN  IF c.received
           THEN [c EXCEPT !.ws = "Unconnected", !.tcp = "Closing",
                          !.disconnects = OneMore(c.disconnects)]
           ELSE c

\* Mutant of Close: the flag is set without a state to go with it.
CloseKeepsState(s) ==
  IF s.ws = "Unconnected" THEN s
  ELSE [s EXCEPT !.sent = TRUE,
                 !.closeFrames = IF s.sent THEN s.closeFrames ELSE OneMore(s.closeFrames)]

\* Mutant of Close: disconnected() does not wait for the server's Close frame.
CloseAnnounces(s) ==
  IF s.ws = "Unconnected" THEN s
  ELSE LET c == [s EXCEPT !.sent = TRUE, !.ws = "Closing",
                          !.closeFrames = IF s.sent THEN @ ELSE OneMore(@),
                          !.disconnects = OneMore(@)]
       IN  IF c.received THEN [c EXCEPT !.ws = "Unconnected", !.tcp = "Closing"] ELSE c

\* close(): sends a Close frame unless one was sent; the second of the two
\* Close frames ends the connection.
Close(s) ==
  IF s.ws = "Unconnected" THEN s
  ELSE LET c == [s EXCEPT !.sent = TRUE, !.ws = "Closing",
                          !.closeFrames = IF s.sent THEN @ ELSE OneMore(@)]
       IN  IF c.received
           THEN [c EXCEPT !.ws = "Unconnected", !.tcp = "Closing",
                          !.disconnects = OneMore(@)]
           ELSE c

\* processTcpStateChanged(ClosingState)
TcpClosing(s) ==
  LET t == [s EXCEPT !.tcp = "Closing"]
  IN  IF s.ws = "Connected" THEN [Close(t) EXCEPT !.ws = "Closing"] ELSE t

\* Mutants of TcpUnconnected: the flags survive the connection; disconnected()
\* is emitted although close() has done it; a connection that is lost while it
\* is being closed goes unnoticed.
FlagsSurvive(s) ==
  [s EXCEPT !.tcp = "Unconnected", !.ws = "Unconnected",
            !.disconnects = IF s.ws # "Unconnected" THEN OneMore(@) ELSE @]

DisconnectedAgain(s) ==
  [s EXCEPT !.tcp = "Unconnected", !.ws = "Unconnected",
            !.sent = FALSE, !.received = FALSE,
            !.disconnects = OneMore(@)]

DropUnnoticed(s) ==
  [s EXCEPT !.tcp = "Unconnected",
            !.ws = IF s.ws = "Closing" THEN @ ELSE "Unconnected",
            !.sent = FALSE, !.received = FALSE,
            !.disconnects = IF s.ws \notin {"Unconnected", "Closing"} THEN OneMore(@) ELSE @]

\* processTcpStateChanged(UnconnectedState)
TcpUnconnected(s) ==
  [s EXCEPT !.tcp = "Unconnected", !.ws = "Unconnected",
            !.sent = FALSE, !.received = FALSE,
            !.disconnects = IF s.ws # "Unconnected" THEN OneMore(@) ELSE @]

\* tcpSocket->abort()
TcpAborted(s) == IF s.tcp = "Unconnected" THEN s ELSE TcpUnconnected(s)

\* The end of the opening handshake, as processHandshake() reads it: lines
\* that were cleared in between are missing.
HandshakeEnds(s, verdict) ==
  IF s.response = "half" /\ verdict = "accepts"
  THEN [s EXCEPT !.ws = "Connected"]
  ELSE [s EXCEPT !.refused = TRUE, !.response = "bad"]

----------------------------------------------------------------------------
(* The user.                                                               *)

\* With the literal of an address tcpSocket goes through HostLookupState to
\* ConnectingState at once; anything else is no QHostAddress and is looked up
\* as an empty name.  While tcpSocket is busy it ignores the call.
ConnectToHost ==
  /\ sock.alive
  /\ \/ /\ sock.tcp = "Unconnected"
        /\ \E state \in {"HostLookup", "Connecting"} :
             sock' = [NewSocket(state) EXCEPT
                        !.sent = sock.sent, !.received = sock.received,
                        !.misread = sock.misread]
        /\ peer' = NewPeer("none")
     \/ /\ sock.tcp # "Unconnected"
        /\ sock' = [sock EXCEPT !.response = "none"]
        /\ UNCHANGED peer

DisconnectFromHost ==
  /\ sock.alive
  /\ sock' = Close(sock)
  /\ UNCHANGED peer

Abort ==
  /\ sock.alive
  /\ sock' = TcpAborted(Close(sock))
  /\ UNCHANGED peer

\* ~QWsSocket(): the handler of tcpSocket's abort() and the destructor each
\* emit disconnected().
Destroy ==
  /\ sock.alive
  /\ sock' = IF sock.ws = "Unconnected" THEN [sock EXCEPT !.alive = FALSE]
             ELSE [TcpAborted(Close(sock)) EXCEPT
                     !.alive = FALSE, !.disconnects = OneMore(@)]
  /\ UNCHANGED peer

----------------------------------------------------------------------------
(* The TCP connection.                                                     *)

LookupFails ==
  /\ sock.alive /\ sock.tcp = "HostLookup"
  /\ sock' = TcpUnconnected(sock)
  /\ UNCHANGED peer

\* Mutant of TcpConnected: the opening handshake is sent in any state.
GreetAlways ==
  /\ sock.alive /\ sock.tcp = "Connecting"
  /\ sock' = [sock EXCEPT !.tcp = "Connected", !.greeted = TRUE]
  /\ UNCHANGED peer

\* processTcpStateChanged(ConnectedState)
TcpConnected ==
  /\ sock.alive /\ sock.tcp = "Connecting"
  /\ sock' = [sock EXCEPT !.tcp = "Connected", !.greeted = sock.ws = "Connecting"]
  /\ UNCHANGED peer

\* The server closes the TCP connection.
TcpHangsUp ==
  /\ sock.alive /\ sock.tcp = "Connected"
  /\ sock' = TcpClosing(sock)
  /\ UNCHANGED peer

\* What was still to be written is written.
TcpFlushed ==
  /\ sock.alive /\ sock.tcp = "Closing"
  /\ sock' = TcpUnconnected(sock)
  /\ UNCHANGED peer

\* The connection breaks, or is refused.
TcpBreaks ==
  /\ sock.alive /\ sock.tcp \in {"Connecting", "Connected", "Closing"}
  /\ sock' = TcpUnconnected(sock)
  /\ UNCHANGED peer

----------------------------------------------------------------------------
(* The server's answers, as processDataV4() takes them.                    *)

Listening == sock.alive /\ sock.tcp = "Connected"

\* The first lines of the response.  If the user has called close() in the
\* meantime they are read as frames: no byte of them has the top bit that
\* ends a message, and the reader does not find the next frame any more.
ResponseStarts ==
  /\ Listening /\ sock.greeted /\ peer.answer = "none"
  /\ peer' = [peer EXCEPT !.answer = "half"]
  /\ sock' = IF sock.ws = "Connecting" THEN [sock EXCEPT !.response = "half"]
             ELSE [sock EXCEPT !.misread = TRUE]

\* Mutant of ResponseEnds: the handshake is completed whatever the state.
HandshakeAnytime ==
  /\ Listening /\ peer.answer = "half"
  /\ \E verdict \in {"accepts", "refuses"}, behind \in BOOLEAN :
       /\ behind => verdict = "accepts"
       /\ peer' = [answer |-> verdict, closed |-> behind]
       /\ sock' = HandshakeEnds(sock, verdict)

\* The rest of it.  A Close frame right behind it in the same segment stays in
\* the buffer: processHandshake() returns, and no more data will come.
ResponseEnds ==
  /\ Listening /\ peer.answer = "half"
  /\ \E verdict \in {"accepts", "refuses"}, behind \in BOOLEAN :
       /\ behind => verdict = "accepts"
       /\ peer' = [answer |-> verdict, closed |-> behind]
       /\ sock' = IF sock.ws = "Connecting" THEN HandshakeEnds(sock, verdict)
                  ELSE [sock EXCEPT !.misread = TRUE]

\* A Close frame, the server's own or its reply.
CloseFrameArrives ==
  /\ Listening /\ peer.answer = "accepts" /\ ~peer.closed
  /\ peer' = [peer EXCEPT !.closed = TRUE]
  /\ \/ /\ sock.ws # "Connecting"
        /\ sock' = Close([sock EXCEPT !.received = TRUE])
     \/ /\ sock.misread \/ sock.ws = "Connecting"
        /\ UNCHANGED sock

Next ==
  \/ ConnectToHost \/ DisconnectFromHost \/ Abort \/ Destroy
  \/ LookupFails \/ TcpConnected \/ TcpHangsUp \/ TcpFlushed \/ TcpBreaks
  \/ ResponseStarts \/ ResponseEnds \/ CloseFrameArrives

Spec == Init /\ [][Next]_vars

(***************************************************************************)
(* tcpSocket writes out what it has.  A server that has accepted answers a *)
(* Close frame with one of its own, and hangs up when both are sent.       *)
(***************************************************************************)
FairSpec ==
  /\ Spec
  /\ WF_vars(TcpFlushed)
  /\ WF_vars(sock.sent /\ CloseFrameArrives)
  /\ WF_vars(sock.sent /\ peer.closed /\ TcpHangsUp)

----------------------------------------------------------------------------
(* Invariants.                                                             *)

\* The end of a connection is never announced a third time: the destructor
\* repeats what the handler of tcpSocket's abort() has said (42-47, 541-554).
TypeOK ==
  /\ sock \in [ws : SocketState, tcp : SocketState,
               sent : BOOLEAN, received : BOOLEAN,
               response : {"none", "half", "bad"}, misread : BOOLEAN,
               alive : BOOLEAN, greeted : BOOLEAN, refused : BOOLEAN,
               closeFrames : Counted, disconnects : 0 .. 2]
  /\ peer \in [answer : {"none", "half", "accepts", "refuses"}, closed : BOOLEAN]

\* A connection starts with the flags of the last one cleared, whichever way
\* that one ended: else its first close() would not send a Close frame, or
\* would not wait for the server's (processTcpStateChanged, 541-554).
NothingLeftOver ==
  sock.tcp = "Unconnected" => sock.ws = "Unconnected" /\ ~sock.sent /\ ~sock.received

\* The flags tell no more than the state shows: whoever has sent a Close frame
\* is closing or closed, and the server's is answered at once (close(), 83-171,
\* and its caller, 471-474).
FlagsMatchState ==
  /\ sock.sent => sock.ws \in {"Closing", "Unconnected"}
  /\ sock.received => sock.sent
  /\ sock.sent /\ sock.received => sock.ws = "Unconnected"

\* However close(), abort() and the events of tcpSocket follow each other, one
\* Close frame at most goes out on a connection (88-155).
OneCloseFrame == sock.closeFrames <= 1

\* A connection that is over has been announced by one disconnected(): by
\* close() or by processTcpStateChanged(), not by both (164-170, 543-550).
DisconnectedOnce ==
  sock.alive =>
    /\ sock.disconnects <= 1
    /\ sock.ws # "Unconnected" => sock.disconnects = 0

----------------------------------------------------------------------------
(* Action and liveness properties.                                         *)

\* A connection the user has given up before TCP was up is not opened after
\* all: no opening handshake follows the Close frame (520-529).
NoHandshakeAfterClose ==
  [][sock'.greeted /\ ~sock.greeted => sock.closeFrames = 0]_vars

\* The socket is never Connected without having been Connecting, and never
\* goes back from Closing to an open connection (processDataV4,
\* 353-358, and processHandshake, 203-277).
OpensInOrder ==
  [][sock.ws' = "Connected" /\ sock.ws # "Connected" =>
       sock.ws = "Connecting" /\ sock.greeted /\ ~sock.refused]_vars

\* On a connection the server accepted, closing ends, unless the frame reader
\* was thrown off (close() during the opening handshake).
ClosingEnds ==
  sock.ws = "Closing" /\ peer.answer = "accepts" /\ ~sock.misread ~>
    sock.ws = "Unconnected" \/ ~sock.alive
=============================================================================
