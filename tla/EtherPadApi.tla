----------------------------- MODULE EtherPadApi -----------------------------
(***************************************************************************)
(* EtherPadApi (lib/etherpadapi.cpp): every call is an HTTP GET through a  *)
(* QNetworkAccessManager; when the reply finishes, whatever has become of  *)
(* it, its JSON is turned into one signal.  Any number of requests is in   *)
(* flight and they finish in any order.                                    *)
(*                                                                         *)
(* A request is named by its QNetworkReply.  The server and the network    *)
(* are modelled from what the code must expect of them.  A signal          *)
(* fooResponse is written "foo".                                           *)
(***************************************************************************)
EXTENDS Integers, Sequences, SequencesExt

CONSTANTS
  Reply,          \* the QNetworkReply objects of one run
  CallName,       \* the calls made: names of the enumerators of ApiCall
  RefusalCode,    \* the codes (not 0) with which the server refuses a call
  NoJson          \* a body without JSON: none at all, or an error page

ASSUME RefusalsAreCodes == RefusalCode \subseteq Int \ {0} /\ NoJson \notin Int

VARIABLES
  stage,          \* [Reply -> where the request is]
  apiCall,        \* [Reply -> the QNetworkRequest::User attribute]
  body,           \* [Reply -> what readAll() returns once it has finished]
  verdict,        \* [Reply -> what the server decided]
  responses       \* the signals emitted, with the reply each belongs to

vars == <<stage, apiCall, body, verdict, responses>>

Init ==
  /\ stage = [r \in Reply |-> "unused"]
  /\ apiCall = [r \in Reply |-> "unset"]
  /\ body = [r \in Reply |-> NoJson]
  /\ verdict = [r \in Reply |-> "none"]
  /\ responses = <<>>

\* The switch of handleNetworkReply.
SignalOf(call) ==
  CASE call \in {"createGroup", "createGroupIfNotExistsFor"}   -> "createGroup"
    [] call \in {"createAuthor", "createAuthorIfNotExistsFor"} -> "createAuthor"
    [] call \in {"getText", "getHTML"}                         -> "getText"
    [] call = "createPad"                                      -> "createPadContent"
    [] OTHER                                                   -> call

\* Mutants of ResponseCode: every answer is a success; a value that is not
\* there is passed on.
AlwaysOk(data) == 0

NoDefault(data) == data

\* jsonObj.value("code").toDouble(): 0 where there is no such value.
ResponseCode(data) == IF data = NoJson THEN 0 ELSE data

\* ApiResponse::ok.
Ok(response) == response.code = 0

\* Any of the calls, and doRequest.
DoRequest(r, call) ==
  /\ stage[r] = "unused"
  /\ stage' = [stage EXCEPT ![r] = "sent"]
  /\ apiCall' = [apiCall EXCEPT ![r] = call]
  /\ UNCHANGED <<body, verdict, responses>>

\* The server carries the call out or refuses it, and says so, or something
\* between it and the client answers with a page of its own.
ServerAnswers(r) ==
  /\ stage[r] = "sent"
  /\ stage' = [stage EXCEPT ![r] = "finished"]
  /\ \/ /\ verdict' = [verdict EXCEPT ![r] = "carried out"]
        /\ body' = [body EXCEPT ![r] = 0]
     \/ /\ verdict' = [verdict EXCEPT ![r] = "refused"]
        /\ \E code \in RefusalCode : body' = [body EXCEPT ![r] = code]
     \/ UNCHANGED <<verdict, body>>
  /\ UNCHANGED <<apiCall, responses>>

\* No connection, or one that broke before or after the server acted.  The
\* slot error() only logs; finished() follows.
NetworkFails(r) ==
  /\ stage[r] = "sent"
  /\ stage' = [stage EXCEPT ![r] = "finished"]
  /\ \E v \in {"none", "carried out", "refused"} : verdict' = [verdict EXCEPT ![r] = v]
  /\ UNCHANGED <<apiCall, body, responses>>

Response(r) ==
  [signal |-> SignalOf(apiCall[r]), code |-> ResponseCode(body[r]), reply |-> r]

\* Mutant of HandleNetworkReply: the reply stays connected and finishes again.
HandleTwice(r) ==
  /\ stage[r] = "finished"
  /\ Len(responses) < 5
  /\ responses' = Append(responses, Response(r))
  /\ UNCHANGED <<stage, apiCall, body, verdict>>

\* The slot connected to finished().
HandleNetworkReply(r) ==
  /\ stage[r] = "finished"
  /\ stage' = [stage EXCEPT ![r] = "handled"]
  /\ responses' = Append(responses, Response(r))
  /\ UNCHANGED <<apiCall, body, verdict>>

Next ==
  \E r \in Reply :
    \/ \E call \in CallName : DoRequest(r, call)
    \/ ServerAnswers(r)
    \/ NetworkFails(r)
    \/ HandleNetworkReply(r)

Spec == Init /\ [][Next]_vars

----------------------------------------------------------------------------
ResponseSet ==
  [signal : {SignalOf(c) : c \in CallName \cup {"unset"}},
   code : {0} \cup RefusalCode, reply : Reply]

TypeOK ==
  /\ stage \in [Reply -> {"unused", "sent", "finished", "handled"}]
  /\ apiCall \in [Reply -> CallName \cup {"unset"}]
  /\ body \in [Reply -> {0, NoJson} \cup RefusalCode]
  /\ verdict \in [Reply -> {"none", "carried out", "refused"}]
  /\ responses \in Seq(ResponseSet)

\* A refusal that reaches the client as the server sent it is never reported
\* as a success, and a success never as a refusal, however the replies
\* overtake each other (handleNetworkReply, 307-431).
VerdictReported ==
  \A k \in DOMAIN responses :
    LET r == responses[k].reply
    IN  body[r] # NoJson => (Ok(responses[k]) <=> verdict[r] = "carried out")

Replies(list) == [k \in DOMAIN list |-> list[k].reply]

\* The calls are answered as RequestReply promises: each at most once, by the
\* reply that belongs to it (the connections doRequest makes, 284-293).
Answered == INSTANCE RequestReply WITH
  Call    <- Reply,
  unasked <- {r \in Reply : stage[r] = "unused"},
  open    <- {r \in Reply : stage[r] \in {"sent", "finished"}},
  answers <- Replies(responses)

CallsAnswered == Answered!Spec

----------------------------------------------------------------------------
(* What the header says and the code does not do.                          *)

\* etherpadapi.h:66: "returns ok when the current api token is valid".
CheckTokenOkMeansValid ==
  \A k \in DOMAIN responses :
    responses[k].signal = "checkToken" /\ Ok(responses[k]) =>
      verdict[responses[k].reply] = "carried out"
=============================================================================
