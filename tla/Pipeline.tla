------------------------------ MODULE Pipeline ------------------------------
(***************************************************************************)
(* The life of a request: handle_request, admin_middleware and the         *)
(* transport helpers of src/src/core/gateway.rs, with the middleware chain *)
(* (logging, auth, rate limit) of src/src/core/middleware.                 *)
(*                                                                         *)
(* Each action is the handler's code from one .await to the next.  Between *)
(* two of them other requests run, and hyper drops the handler when its    *)
(* client disconnects.  The rate limiter appears as the budget it leaves   *)
(* each client; RateLimit.tla is the limiter itself, Gateway.tla puts it   *)
(* in, and Metrics.tla is what one record consists of.                     *)
(***************************************************************************)
EXTENDS Naturals, Sequences, FiniteSets, GrpcFrames

CONSTANTS
    Requests,
    Clients,      \* remote IPs, the keys of the rate limiter
    Inputs,       \* what clients may send, see Input
    GrpcReplies,  \* what gRPC upstreams may answer, see GrpcReply
    Limit         \* requests_per_window

Transports == {"http", "graphql", "grpc", "zmq_req", "zmq_push", "zmq_pub",
               "mqtt", "amqp", "ws"}

(* path: where routing sends the request, admin requests with a JSON body  *)
(* apart; valid: the protocol encoder accepts the body (graphql, grpc),    *)
(* the method is known to reqwest (http), the upgrade headers are there    *)
(* (ws), axum extracts the query or the body (admin); body: within 10 MB,  *)
(* over it by its Content-Length, or over it as only reading it shows;     *)
(* cred: the auth middleware accepts its Authorization header.             *)
Input == [client : Clients, kind : Transports,
          path : {"traversal", "unmatched", "route", "admin", "admin_body"},
          valid : BOOLEAN, body : {"fits", "declared_large", "large"}, cred : BOOLEAN]

(* The messages of a gRPC upstream's answer, and how many of the bytes at  *)
(* its end are missing.                                                    *)
GrpcReply == [msgs : Seq(Message), missing : Nat]
Wire(u) == LET all == Frames(u.msgs) IN SubSeq(all, 1, Len(all) - u.missing)

ASSUME PipelineAssumption ==
    /\ Inputs \subseteq Input
    /\ \A u \in GrpcReplies : u \in GrpcReply /\ u.missing <= Len(Frames(u.msgs))
    /\ Limit \in Nat \ {0}

Zmq == {"zmq_req", "zmq_push", "zmq_pub"}

VARIABLES
    pc,         \* where each handler is
    input,      \* the request
    status,     \* the status chosen for the response, 0 before
    records,    \* the statuses handed to MetricsStore::record_request
    budget,     \* requests the rate limiter would still let through, per client
    charged,    \* requests that used up one of them
    touched,    \* requests the upstream has acted on
    sent,       \* gRPC: the upstream's answer, once it has arrived
    got         \* gRPC: the response body made of it

bodies == <<sent, got>>
vars == <<pc, input, status, records, budget, charged, touched, bodies>>

Stage == {"idle", "received", "body", "chain", "extract", "dispatch", "connect",
          "send", "recv", "call", "record", "finalize", "respond", "session",
          "done", "dropped"}

(* The handler has returned its response. *)
Answered == {"respond", "session", "done"}

(* The type invariant.  It bounds the budget: the check for free budget and *)
(* the charge are one step under the limiter's lock.                        *)
TypeOK ==
    /\ pc \in [Requests -> Stage]
    /\ input \in [Requests -> Input]
    /\ status \in [Requests -> Nat]
    /\ records \in [Requests -> Seq(Nat)]
    /\ budget \in [Clients -> 0..Limit]
    /\ charged \subseteq Requests /\ touched \subseteq Requests
    /\ sent \in [Requests -> {<<>>} \cup {<<u>> : u \in GrpcReplies}]
    /\ got \in [Requests -> Seq(Byte)]

Init ==
    /\ pc = [r \in Requests |-> "idle"]
    /\ input \in [Requests -> Inputs]
    /\ status = [r \in Requests |-> 0]
    /\ records = [r \in Requests |-> <<>>]
    /\ budget = [k \in Clients |-> Limit]
    /\ charged = {} /\ touched = {}
    /\ sent = [r \in Requests |-> <<>>]
    /\ got = [r \in Requests |-> <<>>]

IsAdmin(r) == input[r].path \in {"admin", "admin_body"}
Goto(r, p) == pc' = [pc EXCEPT ![r] = p]
Continue(r, p) == Goto(r, p) /\ status' = status

(* Every exit of handle_request and its helpers records, finalizes and     *)
(* returns; admin_middleware finalizes only.  The slip forgets the record  *)
(* of a refused request.                                                   *)
AnswerUnrecorded(r, s) ==
    /\ Goto(r, IF IsAdmin(r) \/ s \in {401, 429} THEN "finalize" ELSE "record")
    /\ status' = [status EXCEPT ![r] = s]
Answer(r, s) ==
    /\ Goto(r, IF IsAdmin(r) THEN "finalize" ELSE "record")
    /\ status' = [status EXCEPT ![r] = s]

-----------------------------------------------------------------------------
(* handle_request up to the dispatch *)

(* RequestBodyLimitLayer refuses a body that is too large by its           *)
(* Content-Length before any handler runs: nothing is recorded.  The axum  *)
(* router then tells /admin/* from the rest.                               *)
RefusedByLayer(r) == input[r].body = "declared_large"

Arrive(r) ==
    /\ pc[r] = "idle"
    /\ IF RefusedByLayer(r)
       THEN Goto(r, "respond") /\ status' = [status EXCEPT ![r] = 413]
       ELSE Continue(r, IF IsAdmin(r) THEN "chain" ELSE "received")
    /\ UNCHANGED <<input, records, budget, charged, touched, bodies>>

(* Traversal guard, router, WebSocket upgrade: all before the body is read *)
(* and before the middleware chain.  The session itself begins once the    *)
(* 101 is out, see WsConnected.                                            *)
Route(r) ==
    /\ pc[r] = "received"
    /\ CASE input[r].path = "traversal" -> Answer(r, 400)
         [] input[r].path = "unmatched" -> Answer(r, 404)
         [] input[r].path = "route" /\ input[r].kind = "ws" ->
              Answer(r, IF input[r].valid THEN 101 ELSE 426)
         [] OTHER -> Continue(r, "body")
    /\ UNCHANGED <<input, records, budget, charged, touched, bodies>>

ReadBody(r) ==
    /\ pc[r] = "body"
    /\ IF input[r].body = "fits" THEN Continue(r, "chain") ELSE Answer(r, 413)
    /\ UNCHANGED <<input, records, budget, charged, touched, bodies>>

(* The limiter's key is the peer address of the socket. *)
Charge(r) ==
    /\ budget' = [budget EXCEPT ![input[r].client] = @ - 1]
    /\ charged' = charged \cup {r}

(* build_middleware_chain, and a slip that adds the limiter before auth. *)
MiddlewareOrderLimitFirst == <<"logging", "rate_limit", "auth">>
MiddlewareOrder == <<"logging", "auth", "rate_limit">>

(* Each middleware's handle_request; logging lets everything pass.  The    *)
(* slip is a limiter that charges without looking whether anything is left.*)
RefusesAuthOnly(m, r) == m = "auth" /\ ~input[r].cred
Refuses(m, r) ==
    \/ m = "auth" /\ ~input[r].cred
    \/ m = "rate_limit" /\ budget[input[r].client] = 0

(* MiddlewareChain::handle_request: how many middlewares let the request   *)
(* pass before the first that refuses it.                                  *)
Passed(r) ==
    LET refusing == {i \in DOMAIN MiddlewareOrder : Refuses(MiddlewareOrder[i], r)}
    IN CHOOSE n \in 0..Len(MiddlewareOrder) :
          /\ refusing \cap 1..n = {}
          /\ n = Len(MiddlewareOrder) \/ n + 1 \in refusing

(* Unauthorized and RateLimited, for proxied and for admin requests. *)
RefusalStatus(m) == IF m = "auth" THEN 401 ELSE 429

RunChain(r) ==
    LET n == Passed(r)
    IN /\ pc[r] = "chain"
       /\ IF n = Len(MiddlewareOrder)
          THEN Continue(r, IF input[r].path = "admin_body" THEN "extract" ELSE "dispatch")
          ELSE Answer(r, RefusalStatus(MiddlewareOrder[n + 1]))
       /\ IF \E i \in 1..n : MiddlewareOrder[i] = "rate_limit"
          THEN Charge(r)
          ELSE UNCHANGED <<budget, charged>>
       /\ UNCHANGED <<input, records, touched, bodies>>

(* Time passes: timestamps of any clients leave the limiter's window. *)
Refill ==
    /\ \E after \in [Clients -> 0..Limit] :
          /\ \A k \in Clients : after[k] >= budget[k]
          /\ budget' = after
    /\ UNCHANGED <<pc, input, status, records, charged, touched, bodies>>

-----------------------------------------------------------------------------
(* The admin handlers and the transport helpers *)

(* axum's Json extractor reads the body of an admin request to its end.    *)
AdminBody(r) ==
    /\ pc[r] = "extract"
    /\ CASE input[r].body # "fits" -> Answer(r, 413)
         [] input[r].body = "fits" /\ ~input[r].valid -> Answer(r, 422)
         [] OTHER -> Continue(r, "dispatch")
    /\ UNCHANGED <<input, records, budget, charged, touched, bodies>>

(* The slip: a payload that cannot be encoded is answered after it is sent. *)
DispatchUnchecked(r) ==
    /\ pc[r] = "dispatch"
    /\ Continue(r, IF input[r].kind \in Zmq THEN "connect" ELSE "call")
    /\ UNCHANGED <<input, records, budget, charged, touched, bodies>>

(* The admin handler answers, or its query does not parse; any other       *)
(* request is encoded for its transport: 400 for GraphQL and gRPC, 405 for *)
(* HTTP, when that is not possible.                                        *)
Dispatch(r) ==
    /\ pc[r] = "dispatch"
    /\ CASE IsAdmin(r) -> Answer(r, IF input[r].valid THEN 200 ELSE 400)
         [] ~IsAdmin(r) /\ ~input[r].valid /\ input[r].kind \in {"graphql", "grpc"} ->
              Answer(r, 400)
         [] ~IsAdmin(r) /\ ~input[r].valid /\ input[r].kind = "http" -> Answer(r, 405)
         [] OTHER -> Continue(r, IF input[r].kind \in Zmq THEN "connect" ELSE "call")
    /\ UNCHANGED <<input, records, budget, charged, touched, bodies>>

(* ZmqGateway: a fresh socket connects and sends; neither has a timeout. *)
ZmqConnected(r) ==
    /\ pc[r] = "connect"
    /\ Continue(r, "send")
    /\ UNCHANGED <<input, records, budget, charged, touched, bodies>>

(* The peer can have the message from here on.  PUSH and PUB are done.     *)
ZmqSent(r) ==
    /\ pc[r] = "send"
    /\ touched' = touched \cup {r}
    /\ IF input[r].kind = "zmq_req" THEN Continue(r, "recv") ELSE Answer(r, 202)
    /\ UNCHANGED <<input, records, budget, charged, bodies>>

(* One exchange under one timeout: the upstream acts on the request ...    *)
UpstreamActs(r) ==
    /\ pc[r] = "call"
    /\ r \notin touched
    /\ touched' = touched \cup {r}
    /\ UNCHANGED <<pc, input, status, records, budget, charged, bodies>>

(* What each transport's answer becomes.  Any status of an HTTP upstream   *)
(* is passed on (its own 401 and 500 among them).                          *)
HttpStatus == {200, 401, 500}
GraphqlStatus == HttpStatus
GrpcStatus == HttpStatus
Success == 200..299

ZmqReplyStatus == {200}
PublishStatus == {202}

Reply(kind) ==
    CASE kind = "http" -> HttpStatus
      [] kind = "graphql" -> GraphqlStatus
      [] kind = "zmq_req" -> ZmqReplyStatus
      [] kind \in {"mqtt", "amqp"} -> PublishStatus

(* GrpcProtocol::decode, and the slip that decodes one frame only. *)
DecodeFirst(data) == decode_grpc_frame(data)
Decode(data) == decode_grpc_frames(data)

(* handle_grpc: the frames of a 2xx answer are unpacked, and 502 replaces  *)
(* the status if they do not add up; any other body is passed on as it is. *)
GrpcAnswer(r) ==
    \E s \in GrpcStatus, u \in GrpcReplies :
        LET decoded == IF s \in Success THEN Decode(Wire(u))
                                        ELSE [ok |-> TRUE, out |-> Wire(u)]
        IN /\ Answer(r, IF decoded.ok THEN s ELSE 502)
           /\ sent' = [sent EXCEPT ![r] = <<u>>]
           /\ got' = [got EXCEPT ![r] = decoded.out]

(* ... and its answer comes back. *)
UpstreamReplies(r) ==
    /\ pc[r] \in {"call", "recv"}
    /\ r \in touched
    /\ \/ input[r].kind = "grpc" /\ GrpcAnswer(r)
       \/ /\ input[r].kind # "grpc"
          /\ \E s \in Reply(input[r].kind) : Answer(r, s)
          /\ UNCHANGED bodies
    /\ UNCHANGED <<input, records, budget, charged, touched>>

(* A connection, protocol or broker error, before or after the upstream    *)
(* acted on the request.                                                   *)
UpstreamFails(r) ==
    /\ pc[r] \in {"connect", "send", "recv", "call"}
    /\ Answer(r, 502)
    /\ UNCHANGED <<input, records, budget, charged, touched, bodies>>

(* Slip: an HTTP, MQTT or AMQP exchange is awaited without its timeout. *)
UpstreamTimesOutRecvOnly(r) ==
    /\ pc[r] = "recv"
    /\ Answer(r, 502)
    /\ UNCHANGED <<input, records, budget, charged, touched, bodies>>

(* The per-route timeout: reqwest's for http, graphql and grpc, Tokio's    *)
(* around the whole of an mqtt or amqp publish, and around recv for zmq.   *)
UpstreamTimesOut(r) ==
    /\ pc[r] \in {"recv", "call"}
    /\ Answer(r, 502)
    /\ UNCHANGED <<input, records, budget, charged, touched, bodies>>

-----------------------------------------------------------------------------
Record(r) ==
    /\ pc[r] = "record"
    /\ records' = [records EXCEPT ![r] = Append(@, status[r])]
    /\ Goto(r, "finalize")
    /\ UNCHANGED <<input, status, budget, charged, touched, bodies>>

(* finalize_response: the chain's response side changes no status.  The    *)
(* handler returns, and hyper writes the response ...                      *)
Finalize(r) ==
    /\ pc[r] = "finalize"
    /\ Goto(r, "respond")
    /\ UNCHANGED <<input, status, records, budget, charged, touched, bodies>>

(* ... to its end, if its client reads it and the body has one: that of    *)
(* /admin/events does not.  After a 101, on_upgrade runs proxy_websocket.  *)
Respond(r) ==
    /\ pc[r] = "respond"
    /\ Goto(r, IF status[r] = 101 THEN "session" ELSE "done")
    /\ UNCHANGED <<input, status, records, budget, charged, touched, bodies>>

(* proxy_websocket, in a task of its own, reaches the route's backend; the *)
(* request never was at the middleware chain.                              *)
WsConnected(r) ==
    /\ pc[r] = "session"
    /\ r \notin touched
    /\ touched' = touched \cup {r}
    /\ UNCHANGED <<pc, input, status, records, budget, charged, bodies>>

(* proxy_websocket returns: no connection to the backend, or WsProxy's end.*)
WsSessionEnds(r) ==
    /\ pc[r] = "session"
    /\ Goto(r, "done")
    /\ UNCHANGED <<input, status, records, budget, charged, touched, bodies>>

(* The client is gone: the handler is dropped at the .await it is in, the  *)
(* response unread, or the session ends.                                   *)
Disconnect(r) ==
    /\ pc[r] \notin {"idle", "done", "dropped"}
    /\ Goto(r, "dropped")
    /\ UNCHANGED <<input, status, records, budget, charged, touched, bodies>>

(* The process exits, as after main's timeout around stop(): every handler *)
(* is dropped where it is, and what has not arrived never will.            *)
Exit ==
    /\ pc' = [r \in Requests |-> IF pc[r] = "done" THEN "done" ELSE "dropped"]
    /\ UNCHANGED <<input, status, records, budget, charged, touched, bodies>>

HandlerStep(r) ==
    \/ Arrive(r) \/ Route(r) \/ ReadBody(r) \/ RunChain(r) \/ AdminBody(r)
    \/ Dispatch(r)
    \/ ZmqConnected(r) \/ ZmqSent(r) \/ UpstreamActs(r) \/ UpstreamReplies(r)
    \/ UpstreamFails(r) \/ UpstreamTimesOut(r)
    \/ Record(r) \/ Finalize(r) \/ Respond(r)
    \/ WsConnected(r) \/ WsSessionEnds(r) \/ Disconnect(r)

Next == Refill \/ Exit \/ \E r \in Requests : HandlerStep(r)

Spec == Init /\ [][Next]_vars

(* The gateway's own steps are taken and its timers fire; clients, the     *)
(* sending of their bodies, their reading of responses, and upstreams      *)
(* promise nothing.                                                        *)
Fairness ==
    \A r \in Requests :
        /\ WF_vars(Route(r)) /\ WF_vars(RunChain(r)) /\ WF_vars(Dispatch(r))
        /\ WF_vars(UpstreamTimesOut(r)) /\ WF_vars(Record(r)) /\ WF_vars(Finalize(r))

FairSpec == Spec /\ Fairness

-----------------------------------------------------------------------------
(* Properties *)

(* Metrics tell the truth: a request that handle_request answers is        *)
(* recorded exactly once, with the status the client got; one whose client *)
(* left is recorded at most once; an admin request, or one that the body   *)
(* limit layer refuses, never.                                             *)
RecordedOnceAsAnswered ==
    \A r \in Requests :
        /\ pc[r] \in Answered =>
              records[r] = IF IsAdmin(r) \/ RefusedByLayer(r) THEN <<>> ELSE <<status[r]>>
        /\ Len(records[r]) <= 1

(* The request can be put on the wire of its transport: only HTTP, GraphQL *)
(* and gRPC look at it first.                                              *)
Encodable(r) == input[r].valid \/ input[r].kind \notin {"http", "graphql", "grpc"}

(* The request passed everything that handle_request puts before an        *)
(* exchange: body limit, credentials, rate limit and encoder.              *)
Admitted(r) ==
    input[r].body = "fits" /\ input[r].cred /\ r \in charged /\ Encodable(r)

(* The request is a WebSocket upgrade that was answered 101 and recorded   *)
(* so.                                                                     *)
UpgradeAnswered(r) ==
    /\ input[r].kind = "ws" /\ input[r].valid
    /\ pc[r] \in Answered \cup {"dropped"} /\ records[r] = <<101>>

(* An upstream acts only on requests that were routed to it and that were  *)
(* admitted.  The exception is the backend of a WebSocket route: it is     *)
(* reached for every well-formed upgrade, without credentials and outside  *)
(* every budget, but never before the 101 is recorded and sent.  A relayed *)
(* 401 or 429 is the upstream's own; the gateway's means that no upstream  *)
(* saw the request.                                                        *)
UpstreamOnlyWhenAdmitted ==
    \A r \in touched :
        /\ input[r].path = "route" /\ ~RefusedByLayer(r)
        /\ IF input[r].kind = "ws" THEN UpgradeAnswered(r) ELSE Admitted(r)

(* What is used of a client's budget was used by requests of that client   *)
(* that carry credentials and get as far as the chain: neither a request   *)
(* without credentials, nor an unroutable or oversized one, nor another    *)
(* client's, can use up what a client may send.                            *)
OnlyAdmittedAreCharged ==
    /\ \A k \in Clients :
          Limit - budget[k] <= Cardinality({r \in charged : input[r].client = k})
    /\ \A r \in charged :
          /\ input[r].cred
          /\ ~RefusedByLayer(r)
          /\ IsAdmin(r) \/ (input[r].path = "route" /\ input[r].kind # "ws" /\ input[r].body = "fits")

(* Once the body is in, the handler answers or its client leaves.  The     *)
(* ways out of this are the body of an admin request, read after the chain *)
(* and without a timeout, and a ZMQ connect or send: zmq.rs awaits both    *)
(* without a timeout, though a comment in DefaultGateway::start counts zmq *)
(* among the transports that have one.                                     *)
AnsweredOrGone ==
    \A r \in Requests :
        pc[r] \in {"chain", "dispatch", "call", "recv", "record", "finalize"}
            ~> pc[r] \in Answered \cup {"dropped", "extract", "connect", "send"}

(* A gRPC client whose status is 2xx has the payload of every frame that   *)
(* arrived, and what arrived was whole, uncompressed frames: nothing left  *)
(* out after the first frame, no header or compressed bytes passed on.  An *)
(* answer cut off inside a frame is turned into 502, where                 *)
(* docs/protocols.md promises an empty body under the upstream's status;   *)
(* one cut off between two frames cannot be told from a shorter answer     *)
(* (handle_grpc does not look at trailers) and is passed on as it is.      *)
GrpcComplete ==
    \A r \in Requests :
        sent[r] # <<>> /\ status[r] \in Success =>
            \E n \in 0..Len(sent[r][1].msgs) :
                LET whole == SubSeq(sent[r][1].msgs, 1, n)
                IN /\ Wire(sent[r][1]) = Frames(whole)
                   /\ \A i \in 1..n : whole[i].flag = 0
                   /\ got[r] = Payloads(whole)

=============================================================================
