------------------------- MODULE WsConnectionProofs -------------------------
(***************************************************************************)
(* Theorems about WsConnection, over any number of connections.  The state *)
(* has no parameter; what the proofs add to the run is the reason: which   *)
(* facts about one connection keep each other true.                        *)
(***************************************************************************)
EXTENDS WsConnection, TLAPS

\* No Close frame goes out that closingHandshakeSent does not remember while
\* the connection lasts.
SentRemembered == sock.ws # "Unconnected" /\ ~sock.sent => sock.closeFrames = 0

\* There is no TCP connection, or none that still delivers, without a state.
StateWhileOpen == sock.ws = "Unconnected" => sock.tcp \in {"Closing", "Unconnected"}

IInv ==
  /\ TypeOK
  /\ NothingLeftOver
  /\ FlagsMatchState
  /\ SentRemembered
  /\ StateWhileOpen
  /\ OneCloseFrame
  /\ DisconnectedOnce

----------------------------------------------------------------------------
(* The handlers.  What IInv says of sock, said of any socket s.            *)

SocketType ==
  [ws : SocketState, tcp : SocketState, sent : BOOLEAN, received : BOOLEAN,
   response : {"none", "half", "bad"}, misread : BOOLEAN,
   alive : BOOLEAN, greeted : BOOLEAN, refused : BOOLEAN,
   closeFrames : Counted, disconnects : 0 .. 2]

\* Everything but NothingLeftOver and the rule that a Close frame received is
\* answered at once, which do not hold between two calls of one handler.
Consistent(s) ==
  /\ s \in SocketType
  /\ s.sent => s.ws \in {"Closing", "Unconnected"}
  /\ s.ws # "Unconnected" /\ ~s.sent => s.closeFrames = 0
  /\ s.closeFrames <= 1
  /\ s.ws = "Unconnected" => s.tcp \in {"Closing", "Unconnected"}
  /\ s.alive => s.disconnects <= 1 /\ (s.ws # "Unconnected" => s.disconnects = 0)

\* A Close frame is answered; no connection, no state.
Settled(s) ==
  /\ s.received => s.sent
  /\ s.sent /\ s.received => s.ws = "Unconnected"
  /\ s.tcp = "Unconnected" => s.ws = "Unconnected" /\ ~s.sent /\ ~s.received

LEMMA InvariantOfSocket ==
  IInv <=> /\ Consistent(sock) /\ Settled(sock)
           /\ peer \in [answer : {"none", "half", "accepts", "refuses"}, closed : BOOLEAN]
BY DEF IInv, Consistent, Settled, SocketType, TypeOK, NothingLeftOver,
       FlagsMatchState, SentRemembered, StateWhileOpen, OneCloseFrame, DisconnectedOnce

\* One more is still a count.
LEMMA OneMoreType == OneMore(0) = 1 /\ \A n \in 0 .. 1 : OneMore(n) \in 1 .. 2
BY DEF Counted, OneMore

\* close() leaves the socket consistent, and settled if there is a connection
\* to send the frame on.
LEMMA CloseConsistent ==
  ASSUME NEW s, Consistent(s), s.alive,
         s.tcp = "Unconnected" => s.ws = "Unconnected" /\ ~s.sent /\ ~s.received,
         s.ws = "Unconnected" /\ s.received => s.sent
  PROVE  Consistent(Close(s)) /\ Settled(Close(s)) /\ Close(s).alive
<1>1. CASE s.ws = "Unconnected"
  BY <1>1 DEF Close, Consistent, Settled
<1>2. CASE s.ws # "Unconnected"
  <2> DEFINE n == IF s.sent THEN s.closeFrames ELSE OneMore(s.closeFrames)
             c == [s EXCEPT !.sent = TRUE, !.ws = "Closing", !.closeFrames = n]
             d == [c EXCEPT !.ws = "Unconnected", !.tcp = "Closing",
                            !.disconnects = OneMore(c.disconnects)]
  <2>1. s \in SocketType /\ s.disconnects = 0 /\ s.alive = TRUE
    BY <1>2 DEF Consistent, SocketType
  <2>2. n \in Counted /\ n <= 1
    BY <1>2, <2>1, OneMoreType DEF Consistent, SocketType, Counted
  <2> HIDE DEF n
  <2>3. /\ c \in SocketType /\ c.sent = TRUE /\ c.ws = "Closing" /\ c.closeFrames = n
        /\ c.received = s.received /\ c.tcp = s.tcp /\ c.alive = TRUE
        /\ c.disconnects = 0
    BY <2>1, <2>2 DEF SocketType, SocketState
  <2>4. Close(s) = IF c.received THEN d ELSE c
    BY <1>2 DEF Close, n
  <2> HIDE DEF c
  <2>5. OneMore(c.disconnects) \in 0 .. 2 /\ OneMore(c.disconnects) = 1
    BY <2>3, OneMoreType
  <2>6. /\ d \in SocketType /\ d.sent = TRUE /\ d.ws = "Unconnected"
        /\ d.closeFrames = n /\ d.tcp = "Closing" /\ d.alive = TRUE
        /\ d.disconnects = 1
    BY <2>3, <2>5 DEF SocketType, SocketState
  <2> HIDE DEF d
  <2>7. CASE s.received
    <3>1. Close(s) = d
      BY <2>3, <2>4, <2>7
    <3> QED
      BY <2>2, <2>6, <3>1 DEF Consistent, Settled
  <2>8. CASE ~s.received
    BY <1>2, <2>2, <2>3, <2>4, <2>8 DEF Consistent, Settled
  <2> QED
    BY <2>7, <2>8
<1> QED
  BY <1>1, <1>2

\* The end of the TCP connection settles everything.
LEMMA UnconnectedConsistent ==
  ASSUME NEW s, Consistent(s), s.alive
  PROVE  Consistent(TcpUnconnected(s)) /\ Settled(TcpUnconnected(s))
<1> DEFINE n == IF s.ws # "Unconnected" THEN OneMore(s.disconnects) ELSE s.disconnects
           t == [s EXCEPT !.tcp = "Unconnected", !.ws = "Unconnected",
                          !.sent = FALSE, !.received = FALSE, !.disconnects = n]
<1>1. s \in SocketType /\ s.closeFrames <= 1
  BY DEF Consistent
<1>2. n \in 0 .. 2 /\ n <= 1
  BY <1>1, OneMoreType DEF Consistent, SocketType, Counted
<1>3. TcpUnconnected(s) = t
  BY DEF TcpUnconnected
<1> HIDE DEF n
<1>4. /\ t \in SocketType /\ t.ws = "Unconnected" /\ t.tcp = "Unconnected"
      /\ ~t.sent /\ ~t.received /\ t.disconnects = n /\ t.closeFrames = s.closeFrames
  BY <1>1, <1>2 DEF SocketType, SocketState
<1> HIDE DEF t
<1> QED
  BY <1>1, <1>2, <1>3, <1>4 DEF Consistent, Settled

LEMMA AbortedConsistent ==
  ASSUME NEW s, Consistent(s), Settled(s), s.alive
  PROVE  Consistent(TcpAborted(s)) /\ Settled(TcpAborted(s))
BY UnconnectedConsistent DEF TcpAborted

\* The beginning of its end closes an open connection first.
LEMMA ClosingConsistent ==
  ASSUME NEW s, Consistent(s), Settled(s), s.alive, s.tcp = "Connected"
  PROVE  Consistent(TcpClosing(s)) /\ Settled(TcpClosing(s))
<1> DEFINE t == [s EXCEPT !.tcp = "Closing"]
<1>1. Consistent(t) /\ Settled(t) /\ t.alive /\ t.ws = s.ws /\ t.received = s.received
  BY DEF Consistent, Settled, SocketType, SocketState
<1>2. CASE s.ws = "Connected"
  <2>1. ~s.received
    BY <1>2 DEF Consistent, Settled, SocketType
  <2>2. Close(t) \in SocketType
    BY <1>1, CloseConsistent DEF Consistent, Settled
  <2> HIDE DEF t
  <2>3. Close(t).ws = "Closing"
    BY <1>1, <1>2, <2>1 DEF Close, Consistent, SocketType
  <2>4. TcpClosing(s) = Close(t)
    BY <1>2, <2>2, <2>3 DEF TcpClosing, SocketType, t
  <2> QED
    BY <1>1, <2>4, CloseConsistent DEF Settled
<1>3. CASE s.ws # "Connected"
  BY <1>1, <1>3 DEF TcpClosing
<1> QED
  BY <1>2, <1>3

----------------------------------------------------------------------------
(* The invariant.                                                          *)

\* A socket starts without a connection, or with one taken over.
LEMMA InitEstablishes == Init => IInv
<1> SUFFICES ASSUME Init PROVE IInv
  OBVIOUS
<1>1. \A state \in {"Unconnected", "Connected"} : NewSocket(state) \in SocketType
  BY DEF NewSocket, SocketType, SocketState, Counted
<1>2. sock \in SocketType /\ (sock = NewSocket("Unconnected") \/ sock = NewSocket("Connected"))
  BY <1>1 DEF Init
<1>3. Consistent(sock) /\ Settled(sock)
  <2>1. CASE sock = NewSocket("Unconnected")
    BY <1>2, <2>1 DEF NewSocket, Consistent, Settled
  <2>2. CASE sock = NewSocket("Connected")
    <3>1. /\ sock.ws = "Connected" /\ sock.tcp = "Connected" /\ sock.sent = FALSE
          /\ sock.received = FALSE /\ sock.closeFrames = 0 /\ sock.disconnects = 0
      BY <2>2 DEF NewSocket
    <3> QED
      BY <1>2, <3>1 DEF Consistent, Settled
  <2> QED
    BY <1>2, <2>1, <2>2
<1>4. peer = NewPeer("none") \/ peer = NewPeer("accepts")
  BY DEF Init
<1>5. peer \in [answer : {"none", "half", "accepts", "refuses"}, closed : BOOLEAN]
  <2>1. \A answer \in {"none", "accepts"} :
          NewPeer(answer) \in [answer : {"none", "half", "accepts", "refuses"}, closed : BOOLEAN]
    BY DEF NewPeer
  <2> QED
    BY <1>4, <2>1
<1> QED
  BY <1>3, <1>5, InvariantOfSocket

\* Every step preserves the invariant.
LEMMA NextPreserves == IInv /\ [Next]_vars => IInv'
<1> DEFINE PeerType == [answer : {"none", "half", "accepts", "refuses"}, closed : BOOLEAN]
<1> SUFFICES ASSUME IInv, [Next]_vars
             PROVE  Consistent(sock') /\ Settled(sock') /\ peer' \in PeerType
  BY DEF IInv, Consistent, Settled, SocketType, TypeOK, NothingLeftOver,
         FlagsMatchState, SentRemembered, StateWhileOpen, OneCloseFrame, DisconnectedOnce
<1>0. Consistent(sock) /\ Settled(sock) /\ peer \in PeerType
  BY InvariantOfSocket
<1>1. CASE ConnectToHost
  <2>1. CASE sock.tcp = "Unconnected"
    <3>1. PICK state \in {"HostLookup", "Connecting"} :
            sock' = [NewSocket(state) EXCEPT
                       !.sent = sock.sent, !.received = sock.received,
                       !.misread = sock.misread]
      BY <1>1, <2>1 DEF ConnectToHost
    <3>2. ~sock.sent /\ ~sock.received /\ sock \in SocketType
      BY <1>0, <2>1 DEF Consistent, Settled
    <3>3. sock.sent = FALSE /\ sock.received = FALSE /\ sock.misread \in BOOLEAN
      BY <3>2 DEF SocketType
    <3>4. NewSocket(state) \in SocketType
      BY DEF NewSocket, SocketType, SocketState, Counted
    <3>5. /\ sock' \in SocketType
          /\ sock'.ws = NewSocket(state).ws /\ sock'.tcp = NewSocket(state).tcp
          /\ sock'.sent = FALSE /\ sock'.received = FALSE
          /\ sock'.closeFrames = NewSocket(state).closeFrames
          /\ sock'.disconnects = NewSocket(state).disconnects
      BY <3>1, <3>3, <3>4 DEF SocketType
    <3>6. Consistent(sock') /\ Settled(sock')
      BY <3>5 DEF NewSocket, Consistent, Settled
    <3>7. peer' = NewPeer("none")
      BY <1>1, <2>1 DEF ConnectToHost
    <3> QED
      BY <3>6, <3>7 DEF NewPeer
  <2>2. CASE sock.tcp # "Unconnected"
    <3>1. sock' = [sock EXCEPT !.response = "none"] /\ peer' = peer
      BY <1>1, <2>2 DEF ConnectToHost
    <3> QED
      BY <1>0, <3>1 DEF Consistent, Settled, SocketType
  <2> QED
    BY <2>1, <2>2
<1>2. CASE DisconnectFromHost
  BY <1>0, <1>2, CloseConsistent DEF DisconnectFromHost, Settled
<1>3. CASE Abort
  BY <1>0, <1>3, CloseConsistent, AbortedConsistent DEF Abort, Settled
<1>4. CASE Destroy
  <2>1. CASE sock.ws = "Unconnected"
    BY <1>0, <1>4, <2>1 DEF Destroy, Consistent, Settled, SocketType
  <2>2. CASE sock.ws # "Unconnected"
    <3> DEFINE t == TcpAborted(Close(sock))
    <3> DEFINE c == Close(sock)
    <3>0. Consistent(c) /\ Settled(c) /\ c.alive
      BY <1>0, <1>4, CloseConsistent DEF Destroy, Settled
    <3>1. Consistent(t) /\ Settled(t) /\ t.alive
      <4> HIDE DEF c
      <4>1. Consistent(TcpAborted(c)) /\ Settled(TcpAborted(c))
        BY <3>0, AbortedConsistent
      <4>2. TcpAborted(c).alive
        BY <3>0 DEF TcpAborted, TcpUnconnected, Consistent, SocketType
      <4> QED BY <4>1, <4>2 DEF c
    <3>2. sock' = [t EXCEPT !.alive = FALSE, !.disconnects = OneMore(@)]
      BY <1>4, <2>2 DEF Destroy
    <3> HIDE DEF t, c
    <3>3. OneMore(t.disconnects) \in 0 .. 2 /\ t \in SocketType
      BY <3>1, OneMoreType DEF Consistent, SocketType
    <3>4. /\ sock' \in SocketType /\ ~sock'.alive /\ sock'.ws = t.ws /\ sock'.tcp = t.tcp
          /\ sock'.sent = t.sent /\ sock'.received = t.received
          /\ sock'.closeFrames = t.closeFrames
      BY <3>2, <3>3 DEF SocketType
    <3>5. Consistent(sock') /\ Settled(sock')
      BY <3>1, <3>4 DEF Consistent, Settled
    <3> QED
      BY <1>0, <1>4, <3>5 DEF Destroy
  <2> QED
    BY <2>1, <2>2
<1>5. CASE LookupFails \/ TcpFlushed \/ TcpBreaks
  BY <1>0, <1>5, UnconnectedConsistent DEF LookupFails, TcpFlushed, TcpBreaks
<1>6. CASE TcpConnected
  BY <1>0, <1>6 DEF TcpConnected, Consistent, Settled, SocketType, SocketState
<1>7. CASE TcpHangsUp
  BY <1>0, <1>7, ClosingConsistent DEF TcpHangsUp
<1>8. CASE ResponseStarts
  BY <1>0, <1>8 DEF ResponseStarts, Listening, Consistent, Settled, SocketType
<1>9. CASE ResponseEnds
  <2>1. sock.tcp = "Connected" /\ sock.ws # "Unconnected"
    BY <1>0, <1>9 DEF ResponseEnds, Listening, Consistent
  <2>2. PICK verdict \in {"accepts", "refuses"}, behind \in BOOLEAN :
          /\ peer' = [answer |-> verdict, closed |-> behind]
          /\ sock' = IF sock.ws = "Connecting" THEN HandshakeEnds(sock, verdict)
                     ELSE [sock EXCEPT !.misread = TRUE]
    BY <1>9 DEF ResponseEnds
  <2>3. peer' \in PeerType
    BY <2>2
  <2>4. CASE sock.ws = "Connecting" /\ sock.response = "half" /\ verdict = "accepts"
    <3>1. sock' = [sock EXCEPT !.ws = "Connected"]
      BY <2>2, <2>4 DEF HandshakeEnds
    <3> QED
      BY <1>0, <2>1, <2>3, <2>4, <3>1 DEF Consistent, Settled, SocketType, SocketState
  <2>5. CASE sock.ws = "Connecting" /\ ~(sock.response = "half" /\ verdict = "accepts")
    <3>1. sock' = [sock EXCEPT !.refused = TRUE, !.response = "bad"]
      BY <2>2, <2>5 DEF HandshakeEnds
    <3> QED
      BY <1>0, <2>3, <3>1 DEF Consistent, Settled, SocketType
  <2>6. CASE sock.ws # "Connecting"
    <3>1. sock' = [sock EXCEPT !.misread = TRUE]
      BY <2>2, <2>6
    <3> QED
      BY <1>0, <2>3, <3>1 DEF Consistent, Settled, SocketType
  <2> QED
    BY <2>4, <2>5, <2>6
<1>10. CASE CloseFrameArrives
  <2>1. peer' \in PeerType
    BY <1>0, <1>10 DEF CloseFrameArrives
  <2>2. CASE sock' = sock
    BY <1>0, <2>1, <2>2
  <2>3. CASE sock' = Close([sock EXCEPT !.received = TRUE])
    <3> DEFINE t == [sock EXCEPT !.received = TRUE]
    <3>1. Consistent(t) /\ t.alive
      BY <1>0, <1>10 DEF CloseFrameArrives, Listening, Consistent, SocketType
    <3>2. t.tcp = "Connected" /\ t.ws = sock.ws /\ t.sent = sock.sent
      BY <1>0, <1>10 DEF CloseFrameArrives, Listening, Consistent, SocketType
    <3>3. t.ws # "Unconnected"
      BY <1>0, <1>10, <3>2 DEF CloseFrameArrives, Listening, Consistent
    <3> HIDE DEF t
    <3> QED
      BY <2>1, <2>3, <3>1, <3>2, <3>3, CloseConsistent DEF t
  <2> QED
    BY <1>10, <2>2, <2>3 DEF CloseFrameArrives
<1>11. CASE UNCHANGED vars
  BY <1>0, <1>11 DEF vars
<1> QED
  BY <1>1, <1>2, <1>3, <1>4, <1>5, <1>6, <1>7, <1>8, <1>9, <1>10, <1>11 DEF Next
----------------------------------------------------------------------------
(* The theorems.                                                           *)

\* The socket's state, its TCP connection, the flags and the counts keep their
\* types through every handler.
THEOREM TypeCorrect == Spec => []TypeOK
<1>1. IInv => TypeOK
  BY DEF IInv
<1> QED
  BY InitEstablishes, NextPreserves, <1>1, PTL DEF Spec

\* Whatever ended a connection, nothing of it is left when the next one starts
\* (processTcpStateChanged, 541-554).
THEOREM CleanStart == Spec => []NothingLeftOver
<1>1. IInv => NothingLeftOver
  BY DEF IInv
<1> QED
  BY InitEstablishes, NextPreserves, <1>1, PTL DEF Spec

\* closingHandshakeSent and closingHandshakeReceived agree with state() between
\* any two events (close(), 83-171).
THEOREM FlagsCorrect == Spec => []FlagsMatchState
<1>1. IInv => FlagsMatchState
  BY DEF IInv
<1> QED
  BY InitEstablishes, NextPreserves, <1>1, PTL DEF Spec

\* At most one Close frame goes out on a connection: an open one remembers
\* what it sent (SentRemembered), a finished one does not send (close(), 85-88).
THEOREM ClosesOnce == Spec => []OneCloseFrame
<1>1. IInv => OneCloseFrame
  BY DEF IInv
<1> QED
  BY InitEstablishes, NextPreserves, <1>1, PTL DEF Spec

\* Of close() and processTcpStateChanged() one announces the end of a
\* connection, and only after the end (164-170, 543-550).
THEOREM AnnouncedOnce == Spec => []DisconnectedOnce
<1>1. IInv => DisconnectedOnce
  BY DEF IInv
<1> QED
  BY InitEstablishes, NextPreserves, <1>1, PTL DEF Spec

\* What the handlers may do to a connection: end it, a little or altogether.
\* They do not touch the opening handshake.
Winds(s, t) ==
  /\ DOMAIN t = DOMAIN s
  /\ t.greeted = s.greeted /\ t.refused = s.refused
  /\ t.tcp \in {s.tcp, "Closing", "Unconnected"}
  /\ t.ws \in {s.ws, "Closing", "Unconnected"}

LEMMA HandlersWind ==
  ASSUME NEW s \in SocketType
  PROVE  /\ Winds(s, Close(s))
         /\ Winds(s, TcpUnconnected(s))
         /\ Winds(s, TcpClosing(s))
         /\ Winds(s, TcpAborted(Close(s)))
<1>1. ASSUME NEW t, DOMAIN t = DOMAIN s
      PROVE  Winds(t, Close(t)) /\ Winds(t, TcpUnconnected(t))
  <2>1. Winds(t, Close(t))
    <3> DEFINE n == IF t.sent THEN t.closeFrames ELSE OneMore(t.closeFrames)
               c == [t EXCEPT !.sent = TRUE, !.ws = "Closing", !.closeFrames = n]
               d == [c EXCEPT !.ws = "Unconnected", !.tcp = "Closing",
                              !.disconnects = OneMore(c.disconnects)]
    <3>1. Close(t) = IF t.ws = "Unconnected" THEN t ELSE IF c.received THEN d ELSE c
      BY DEF Close
    <3>2. Winds(t, t) /\ Winds(t, c)
      BY <1>1 DEF SocketType, Winds
    <3>3. Winds(c, d)
      BY <1>1, <3>2 DEF SocketType, Winds
    <3> HIDE DEF c, d
    <3> QED
      BY <3>1, <3>2, <3>3 DEF Winds
  <2>2. Winds(t, TcpUnconnected(t))
    BY <1>1 DEF TcpUnconnected, SocketType, Winds
  <2> QED
    BY <2>1, <2>2
<1> DEFINE t == [s EXCEPT !.tcp = "Closing"]
<1>2. DOMAIN t = DOMAIN s /\ Winds(s, t) /\ t.ws = s.ws
  BY DEF SocketType, Winds
<1>3. Winds(s, TcpClosing(s))
  <2>1. TcpClosing(s) = IF s.ws = "Connected" THEN [Close(t) EXCEPT !.ws = "Closing"] ELSE t
    BY DEF TcpClosing
  <2> HIDE DEF t
  <2>2. Winds(t, Close(t)) /\ DOMAIN Close(t) = DOMAIN s
    BY <1>1, <1>2 DEF Winds
  <2> DEFINE c == Close(t)
             e == [c EXCEPT !.ws = "Closing"]
  <2>3. Winds(c, e)
    BY <2>2 DEF SocketType, Winds
  <2> HIDE DEF c, e
  <2>4. TcpClosing(s) = IF s.ws = "Connected" THEN e ELSE t
    BY <2>1 DEF c, e
  <2>5. Winds(t, c)
    BY <2>2 DEF c
  <2> QED
    BY <1>2, <2>3, <2>4, <2>5 DEF Winds
<1>4. Winds(s, TcpAborted(Close(s)))
  <2>1. Winds(s, Close(s)) /\ DOMAIN Close(s) = DOMAIN s
    BY <1>1 DEF Winds
  <2>2. Winds(Close(s), TcpAborted(Close(s)))
    BY <1>1, <2>1 DEF TcpAborted, Winds
  <2> QED
    BY <2>1, <2>2 DEF Winds
<1> QED
  BY <1>1, <1>3, <1>4

\* A connection that was given up before TCP was up is not opened after all:
\* the handshake is sent in Connecting only, and a Close frame ends Connecting
\* (520-529).
THEOREM GivenUpForGood == Spec => NoHandshakeAfterClose
<1>1. IInv /\ [Next]_vars => [sock'.greeted /\ ~sock.greeted => sock.closeFrames = 0]_vars
  <2> SUFFICES ASSUME IInv, Next, sock'.greeted, ~sock.greeted
               PROVE  sock.closeFrames = 0
    OBVIOUS
  <2>1. Consistent(sock) /\ sock \in SocketType
    BY InvariantOfSocket DEF Consistent
  <2>2. CASE TcpConnected
    <3>1. sock'.greeted = (sock.ws = "Connecting")
      BY <2>1, <2>2 DEF TcpConnected, SocketType
    <3> QED
      BY <2>1, <3>1 DEF Consistent
  <2>3. CASE ConnectToHost
    BY <2>1, <2>3 DEF ConnectToHost, NewSocket, SocketType
  <2>4. CASE DisconnectFromHost \/ Abort \/ TcpHangsUp
    BY <2>1, <2>4, HandlersWind DEF Winds, DisconnectFromHost, Abort, TcpHangsUp
  <2>5. CASE Destroy
    BY <2>1, <2>5, HandlersWind DEF Winds, Destroy, SocketType
  <2>6. CASE LookupFails \/ TcpFlushed \/ TcpBreaks
    BY <2>1, <2>6, HandlersWind DEF Winds, LookupFails, TcpFlushed, TcpBreaks
  <2>7. CASE ResponseStarts \/ ResponseEnds
    BY <2>1, <2>7 DEF ResponseStarts, ResponseEnds, HandshakeEnds, SocketType
  <2>8. CASE CloseFrameArrives
    <3> DEFINE t == [sock EXCEPT !.received = TRUE]
    <3>1. t \in SocketType /\ t.greeted = sock.greeted
      BY <2>1 DEF SocketType
    <3>2. Close(t).greeted = sock.greeted
      BY <3>1, HandlersWind DEF Winds
    <3> QED
      BY <2>8, <3>2 DEF CloseFrameArrives
  <2> QED
    BY <2>2, <2>3, <2>4, <2>5, <2>6, <2>7, <2>8 DEF Next
<1> QED
  BY InitEstablishes, NextPreserves, <1>1, PTL DEF Spec, NoHandshakeAfterClose

\* What the server has said and how far the connection is: an answer comes after
\* the opening handshake, a refusal after the answer.
AnswersInOrder ==
  /\ sock.tcp \in {"HostLookup", "Connecting"} => peer.answer = "none"
  /\ peer.answer = "half" => sock.greeted
  /\ sock.refused => peer.answer \in {"accepts", "refuses"}

LEMMA AnswersInOrderInvariant == Spec => []AnswersInOrder
<1>1. Init => AnswersInOrder
  BY DEF Init, NewSocket, NewPeer, AnswersInOrder
<1>2. IInv /\ AnswersInOrder /\ [Next]_vars => AnswersInOrder'
  <2> SUFFICES ASSUME IInv, AnswersInOrder, [Next]_vars
               PROVE  AnswersInOrder'
    OBVIOUS
  <2>1. sock \in SocketType /\ peer \in [answer : {"none", "half", "accepts", "refuses"}, closed : BOOLEAN]
    BY InvariantOfSocket DEF Consistent
  <2>2. ASSUME Winds(sock, sock'), peer'.answer = peer.answer
        PROVE  AnswersInOrder'
    BY <2>2 DEF AnswersInOrder, Winds
  <2>3. CASE ConnectToHost
    <3>1. CASE sock.tcp = "Unconnected"
      <4>1. peer' = NewPeer("none")
        BY <2>3, <3>1 DEF ConnectToHost
      <4>2. PICK state \in {"HostLookup", "Connecting"} :
              sock' = [NewSocket(state) EXCEPT
                         !.sent = sock.sent, !.received = sock.received,
                         !.misread = sock.misread]
        BY <2>3, <3>1 DEF ConnectToHost
      <4>3. sock'.refused = FALSE
        BY <4>2 DEF NewSocket
      <4> QED
        BY <4>1, <4>3 DEF NewPeer, AnswersInOrder
    <3>2. CASE sock.tcp # "Unconnected"
      BY <2>1, <2>2, <2>3, <3>2 DEF ConnectToHost, Winds, SocketType
    <3> QED
      BY <3>1, <3>2
  <2>4. CASE DisconnectFromHost \/ Abort \/ TcpHangsUp
    BY <2>1, <2>2, <2>4, HandlersWind DEF DisconnectFromHost, Abort, TcpHangsUp
  <2>5. CASE Destroy
    <3>1. CASE sock.ws = "Unconnected"
      BY <2>1, <2>2, <2>5, <3>1 DEF Destroy, Winds, SocketType
    <3>2. CASE sock.ws # "Unconnected"
      <4> DEFINE t == TcpAborted(Close(sock))
                 d == [t EXCEPT !.alive = FALSE, !.disconnects = OneMore(t.disconnects)]
      <4>1. Winds(sock, t)
        BY <2>1, HandlersWind
      <4>2. sock' = d /\ peer' = peer
        BY <2>5, <3>2 DEF Destroy
      <4> HIDE DEF t
      <4>3. Winds(t, d)
        BY <2>1, <4>1 DEF Winds, SocketType
      <4> HIDE DEF d
      <4> QED
        BY <2>2, <4>1, <4>2, <4>3 DEF Winds
    <3> QED
      BY <3>1, <3>2
  <2>6. CASE LookupFails \/ TcpFlushed \/ TcpBreaks
    BY <2>1, <2>2, <2>6, HandlersWind DEF LookupFails, TcpFlushed, TcpBreaks
  <2>7. CASE TcpConnected
    BY <2>1, <2>7 DEF TcpConnected, AnswersInOrder, SocketType
  <2>8. CASE ResponseStarts
    BY <2>1, <2>8 DEF ResponseStarts, Listening, AnswersInOrder, SocketType
  <2>9. CASE ResponseEnds
    BY <2>1, <2>9 DEF ResponseEnds, Listening, HandshakeEnds, AnswersInOrder, SocketType
  <2>10. CASE CloseFrameArrives
    <3> DEFINE t == [sock EXCEPT !.received = TRUE]
    <3>1. t \in SocketType /\ Winds(sock, t) /\ Winds(sock, sock)
      BY <2>1 DEF Winds, SocketType
    <3>2. Winds(t, Close(t))
      BY <3>1, HandlersWind
    <3>3. peer'.answer = peer.answer /\ (sock' = sock \/ sock' = Close(t))
      BY <2>1, <2>10 DEF CloseFrameArrives
    <3> HIDE DEF t
    <3> QED
      BY <2>2, <3>1, <3>2, <3>3 DEF Winds
  <2>11. CASE UNCHANGED vars
    BY <2>11 DEF vars, AnswersInOrder
  <2> QED
    BY <2>3, <2>4, <2>5, <2>6, <2>7, <2>8, <2>9, <2>10, <2>11 DEF Next
<1> QED
  BY InitEstablishes, NextPreserves, <1>1, <1>2, PTL DEF Spec

\* Only an accepted handshake opens the connection: none that was not sent, none
\* that was refused, and none after close() (203-277, 353-358).
THEOREM OpensCorrectly == Spec => OpensInOrder
<1>1. IInv /\ AnswersInOrder /\ [Next]_vars =>
        [sock.ws' = "Connected" /\ sock.ws # "Connected" =>
           sock.ws = "Connecting" /\ sock.greeted /\ ~sock.refused]_vars
  <2> SUFFICES ASSUME IInv, AnswersInOrder, Next,
                      sock'.ws = "Connected", sock.ws # "Connected"
               PROVE  sock.ws = "Connecting" /\ sock.greeted /\ ~sock.refused
    OBVIOUS
  <2>1. sock \in SocketType
    BY InvariantOfSocket DEF Consistent
  <2>2. ~Winds(sock, sock')
    BY DEF Winds
  <2>3. CASE ResponseEnds
    BY <2>1, <2>3 DEF ResponseEnds, HandshakeEnds, AnswersInOrder, SocketType
  <2>4. CASE ConnectToHost
    BY <2>1, <2>4 DEF ConnectToHost, NewSocket, SocketType
  <2>5. CASE TcpConnected \/ ResponseStarts
    BY <2>1, <2>5 DEF TcpConnected, ResponseStarts, SocketType
  <2>6. CASE DisconnectFromHost \/ Abort \/ TcpHangsUp \/ LookupFails \/ TcpFlushed \/ TcpBreaks
    BY <2>1, <2>2, <2>6, HandlersWind
    DEF DisconnectFromHost, Abort, TcpHangsUp, LookupFails, TcpFlushed, TcpBreaks
  <2>7. CASE Destroy
    <3> DEFINE t == TcpAborted(Close(sock))
    <3>1. Winds(sock, t)
      BY <2>1, HandlersWind
    <3> HIDE DEF t
    <3>2. sock' = [sock EXCEPT !.alive = FALSE]
          \/ sock' = [t EXCEPT !.alive = FALSE, !.disconnects = OneMore(t.disconnects)]
      BY <2>7 DEF Destroy, t
    <3> QED
      BY <2>1, <3>1, <3>2 DEF Winds, SocketType
  <2>8. CASE CloseFrameArrives
    <3> DEFINE t == [sock EXCEPT !.received = TRUE]
    <3>1. t \in SocketType /\ t.ws = sock.ws
      BY <2>1 DEF SocketType
    <3>2. Winds(t, Close(t))
      BY <3>1, HandlersWind
    <3>3. sock' = sock \/ sock' = Close(t)
      BY <2>8 DEF CloseFrameArrives
    <3> HIDE DEF t
    <3> QED
      BY <3>1, <3>2, <3>3 DEF Winds
  <2> QED
    BY <2>3, <2>4, <2>5, <2>6, <2>7, <2>8 DEF Next
<1> QED
  BY InitEstablishes, NextPreserves, AnswersInOrderInvariant, <1>1, PTL DEF Spec, OpensInOrder
=============================================================================
