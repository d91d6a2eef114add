-------------------------- MODULE EtherPadApiProofs --------------------------
(***************************************************************************)
(* Theorems about EtherPadApi, for any number of requests in flight.       *)
(***************************************************************************)
EXTENDS EtherPadApi, TLAPS, SequenceTheorems

\* Only a reply that has finished has a body, and a body the server wrote
\* tells its verdict.
BodyTellsVerdict ==
  \A r \in Reply :
    body[r] # NoJson =>
      /\ stage[r] \in {"finished", "handled"}
      /\ body[r] = 0 <=> verdict[r] = "carried out"

\* A signal stays true to the body it was made from: its reply is not touched
\* again.
ResponsesMatchBodies ==
  \A k \in DOMAIN responses :
    /\ stage[responses[k].reply] = "handled"
    /\ responses[k].code = ResponseCode(body[responses[k].reply])

IInv == TypeOK /\ BodyTellsVerdict /\ ResponsesMatchBodies

\* Nothing is in flight at the start.
LEMMA InitEstablishes == Init => IInv
BY DEF Init, IInv, TypeOK, BodyTellsVerdict, ResponsesMatchBodies

\* A signal is a value its type allows.
LEMMA ResponseType ==
  ASSUME TypeOK, NEW r \in Reply
  PROVE  Response(r) \in ResponseSet
<1>1. SignalOf(apiCall[r]) \in {SignalOf(c) : c \in CallName \cup {"unset"}}
  BY DEF TypeOK
<1>2. ResponseCode(body[r]) \in {0} \cup RefusalCode
  BY DEF TypeOK, ResponseCode
<1> QED
  BY <1>1, <1>2 DEF Response, ResponseSet

\* Every signal belongs to a reply.
LEMMA ResponseHasReply ==
  ASSUME TypeOK, NEW k \in DOMAIN responses
  PROVE  responses[k].reply \in Reply
<1>1. responses \in Seq(ResponseSet)
  BY DEF TypeOK
<1>2. responses[k] \in ResponseSet
  BY <1>1, LenProperties, ElementOfSeq
<1> QED
  BY <1>2 DEF ResponseSet

\* The replies of a longer list of signals are those of the shorter one and
\* the new one's.
LEMMA RepliesOfAppend ==
  ASSUME NEW S, NEW s \in Seq(S), NEW x \in S
  PROVE  Replies(Append(s, x)) = Append(Replies(s), x.reply)
<1> DEFINE T   == {y.reply : y \in S}
           old == Replies(s)
           new == Replies(Append(s, x))
           app == Append(old, x.reply)
           n   == Len(s)
<1>0. n \in Nat
  OBVIOUS
<1>1. /\ n \in Nat /\ DOMAIN s = 1 .. n /\ \A k \in 1 .. n : s[k] \in S
  BY LenProperties, ElementOfSeq
<1>2. /\ Append(s, x) \in Seq(S) /\ DOMAIN Append(s, x) = 1 .. n + 1
      /\ \A k \in 1 .. n : Append(s, x)[k] = s[k]
      /\ Append(s, x)[n + 1] = x
  BY <1>1
<1> HIDE DEF n
<1>3. /\ old \in [1 .. n -> T]
      /\ \A k \in 1 .. n : old[k] = s[k].reply
  BY <1>1 DEF Replies
<1>4. /\ new \in [1 .. n + 1 -> T]
      /\ \A k \in 1 .. n : new[k] = s[k].reply
      /\ new[n + 1] = x.reply
  BY <1>1, <1>2 DEF Replies
<1> HIDE DEF old, new
<1>5. /\ old \in Seq(T) /\ Len(old) = n /\ x.reply \in T
  BY <1>1, <1>3
<1> HIDE DEF T
<1>6. /\ app \in [1 .. n + 1 -> T]
      /\ \A k \in 1 .. n : app[k] = old[k]
      /\ app[n + 1] = x.reply
  <2>1. /\ app \in Seq(T) /\ Len(app) = n + 1
        /\ \A k \in 1 .. n : app[k] = old[k]
        /\ app[n + 1] = x.reply
    BY <1>5, AppendProperties
  <2> HIDE DEF app
  <2> QED BY <2>1, LenProperties
<1> HIDE DEF app
<1>7. \A k \in 1 .. n + 1 : new[k] = app[k]
  <2> SUFFICES ASSUME NEW k \in 1 .. n + 1 PROVE new[k] = app[k]
    OBVIOUS
  <2>1. CASE k = n + 1
    BY <2>1, <1>4, <1>6
  <2>2. CASE k \in 1 .. n
    BY <2>2, <1>3, <1>4, <1>6
  <2>3. k = n + 1 \/ k \in 1 .. n
    BY <1>0
  <2> QED BY <2>1, <2>2, <2>3
<1>8. new = app
  <2> DEFINE D == 1 .. n + 1
  <2>1. new \in [D -> T] /\ app \in [D -> T] /\ \A k \in D : new[k] = app[k]
    BY <1>4, <1>6, <1>7
  <2> HIDE DEF D
  <2> QED BY <2>1
<1> QED BY <1>8 DEF old, new, app

\* Appending a signal changes none of the earlier ones.
LEMMA Appended ==
  ASSUME TypeOK, NEW x, responses' = Append(responses, x)
  PROVE  /\ DOMAIN responses' = 1 .. Len(responses) + 1
         /\ DOMAIN responses = 1 .. Len(responses)
         /\ Len(responses) \in Nat
         /\ \A k \in DOMAIN responses : responses'[k] = responses[k]
         /\ responses'[Len(responses) + 1] = x
<1>1. responses \in Seq(ResponseSet)
  BY DEF TypeOK
<1> QED
  BY <1>1

\* Every step preserves the invariant.
LEMMA NextPreserves == IInv /\ [Next]_vars => IInv'
<1> SUFFICES ASSUME IInv, [Next]_vars PROVE IInv'
  OBVIOUS
<1> USE DEF IInv
<1>1. ASSUME NEW r \in Reply, NEW call \in CallName, DoRequest(r, call) PROVE IInv'
  <2>1. TypeOK'
    <3>1. responses' \in Seq(ResponseSet)
      BY <1>1 DEF TypeOK, DoRequest
    <3> QED
      BY <1>1, <3>1 DEF TypeOK, DoRequest
  <2>2. BodyTellsVerdict'
    BY <1>1 DEF TypeOK, DoRequest, BodyTellsVerdict
  <2>3. ResponsesMatchBodies'
    <3>1. \A k \in DOMAIN responses : responses[k].reply \in Reply
      BY ResponseHasReply
    <3>2. responses' = responses
      BY <1>1 DEF DoRequest
    <3> QED
      BY <1>1, <3>1, <3>2 DEF TypeOK, DoRequest, ResponsesMatchBodies
  <2> QED BY <2>1, <2>2, <2>3
<1>2. ASSUME NEW r \in Reply, ServerAnswers(r) PROVE IInv'
  <2>1. TypeOK'
    <3>1. responses' \in Seq(ResponseSet)
      BY <1>2 DEF TypeOK, ServerAnswers
    <3> QED
      BY <1>2, <3>1 DEF TypeOK, ServerAnswers
  <2>2. BodyTellsVerdict'
    BY <1>2, RefusalsAreCodes DEF TypeOK, ServerAnswers, BodyTellsVerdict
  <2>3. ResponsesMatchBodies'
    <3>1. \A k \in DOMAIN responses : responses[k].reply \in Reply
      BY ResponseHasReply
    <3>2. responses' = responses
      BY <1>2 DEF ServerAnswers
    <3>3. \A q \in Reply : stage[q] = "handled" => stage'[q] = "handled" /\ body'[q] = body[q]
      BY <1>2 DEF TypeOK, ServerAnswers
    <3> QED
      BY <3>1, <3>2, <3>3 DEF ResponsesMatchBodies
  <2> QED BY <2>1, <2>2, <2>3
<1>3. ASSUME NEW r \in Reply, NetworkFails(r) PROVE IInv'
  <2>1. TypeOK'
    <3>1. responses' \in Seq(ResponseSet)
      BY <1>3 DEF TypeOK, NetworkFails
    <3> QED
      BY <1>3, <3>1 DEF TypeOK, NetworkFails
  <2>2. BodyTellsVerdict'
    BY <1>3 DEF TypeOK, NetworkFails, BodyTellsVerdict
  <2>3. ResponsesMatchBodies'
    <3>1. \A k \in DOMAIN responses : responses[k].reply \in Reply
      BY ResponseHasReply
    <3>2. responses' = responses
      BY <1>3 DEF NetworkFails
    <3> QED
      BY <1>3, <3>1, <3>2 DEF TypeOK, NetworkFails, ResponsesMatchBodies
  <2> QED BY <2>1, <2>2, <2>3
<1>4. ASSUME NEW r \in Reply, HandleNetworkReply(r) PROVE IInv'
  <2>1. TypeOK'
    <3>1. responses' \in Seq(ResponseSet)
      BY <1>4, ResponseType, AppendProperties DEF TypeOK, HandleNetworkReply
    <3> QED
      BY <1>4, <3>1 DEF TypeOK, HandleNetworkReply
  <2>2. BodyTellsVerdict'
    BY <1>4 DEF TypeOK, HandleNetworkReply, BodyTellsVerdict
  <2>3. ResponsesMatchBodies'
    <3>1. Response(r).reply = r /\ Response(r).code = ResponseCode(body[r])
      BY DEF Response
    <3>2. responses' = Append(responses, Response(r))
      BY <1>4 DEF HandleNetworkReply
    <3>3. SUFFICES ASSUME NEW k \in DOMAIN responses'
                   PROVE  /\ stage'[responses'[k].reply] = "handled"
                          /\ responses'[k].code = ResponseCode(body'[responses'[k].reply])
      BY DEF ResponsesMatchBodies
    <3>4. CASE k \in DOMAIN responses
      <4>1. responses'[k] = responses[k] /\ responses[k].reply \in Reply
        BY <3>2, <3>4, Appended, ResponseHasReply
      <4> QED
        BY <1>4, <3>4, <4>1 DEF TypeOK, HandleNetworkReply, ResponsesMatchBodies
    <3>5. CASE k \notin DOMAIN responses
      <4>1. responses'[k] = Response(r)
        BY <3>2, <3>5, Appended
      <4> QED
        BY <1>4, <3>1, <4>1 DEF TypeOK, HandleNetworkReply
    <3> QED BY <3>4, <3>5
  <2> QED BY <2>1, <2>2, <2>3
<1>5. CASE UNCHANGED vars
  BY <1>5 DEF vars, TypeOK, BodyTellsVerdict, ResponsesMatchBodies
<1> QED
  BY <1>1, <1>2, <1>3, <1>4, <1>5 DEF Next

\* Every variable keeps its type.
THEOREM TypeCorrect == Spec => []TypeOK
<1>1. IInv => TypeOK
  BY DEF IInv
<1> QED
  BY InitEstablishes, NextPreserves, <1>1, PTL DEF Spec

\* Whatever overtakes what, a signal made from what the server sent tells the
\* server's verdict on that very call (handleNetworkReply).
THEOREM VerdictCorrect == Spec => []VerdictReported
<1>1. IInv => VerdictReported
  <2> SUFFICES ASSUME IInv, NEW k \in DOMAIN responses,
                      body[responses[k].reply] # NoJson
               PROVE  Ok(responses[k]) <=> verdict[responses[k].reply] = "carried out"
    BY DEF VerdictReported
  <2>1. responses[k].reply \in Reply
    BY ResponseHasReply DEF IInv
  <2>2. responses[k].code = body[responses[k].reply]
    BY DEF IInv, ResponsesMatchBodies, ResponseCode
  <2> QED
    BY <2>1, <2>2 DEF IInv, BodyTellsVerdict, Ok
<1> QED
  BY InitEstablishes, NextPreserves, <1>1, PTL DEF Spec

\* EtherPadApi implements RequestReply: each call is answered at most once.
THEOREM ApiAnswersOnce == Spec => CallsAnswered
<1>1. Init => Answered!Init
  BY DEF Init, Answered!Init, Replies
<1>2. IInv /\ [Next]_vars => [Answered!Next]_(Answered!vars)
  <2> SUFFICES ASSUME IInv, [Next]_vars PROVE [Answered!Next]_(Answered!vars)
    OBVIOUS
  <2> USE DEF IInv, TypeOK
  <2>1. ASSUME NEW r \in Reply, NEW call \in CallName, DoRequest(r, call)
        PROVE  Answered!Ask(r)
    BY <2>1 DEF DoRequest, Answered!Ask, Replies
  <2>2. ASSUME NEW r \in Reply, ServerAnswers(r) \/ NetworkFails(r)
        PROVE  UNCHANGED Answered!vars
    BY <2>2 DEF ServerAnswers, NetworkFails, Answered!vars, Replies
  <2>3. ASSUME NEW r \in Reply, HandleNetworkReply(r)
        PROVE  Answered!Answer(r)
    <3>1. responses' = Append(responses, Response(r)) /\ Response(r).reply = r
      BY <2>3 DEF HandleNetworkReply, Response
    <3>2. responses \in Seq(ResponseSet) /\ Response(r) \in ResponseSet
      BY ResponseType
    <3>3. Replies(Append(responses, Response(r)))
            = Append(Replies(responses), Response(r).reply)
      BY <3>2, RepliesOfAppend, Zenon
    <3>4. Replies(responses)' = Append(Replies(responses), r)
      <4>1. Replies(responses)' = Replies(responses')
        BY DEF Replies
      <4> QED BY <3>1, <3>3, <4>1
    <3> QED
      BY <2>3, <3>4 DEF HandleNetworkReply, Answered!Answer
  <2>4. CASE UNCHANGED vars
    BY <2>4 DEF vars, Answered!vars, Replies
  <2> QED
    BY <2>1, <2>2, <2>3, <2>4 DEF Next, Answered!Next
<1> QED
  BY InitEstablishes, NextPreserves, <1>1, <1>2, PTL DEF Spec, CallsAnswered, Answered!Spec
=============================================================================
