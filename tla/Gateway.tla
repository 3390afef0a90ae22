------------------------------ MODULE Gateway ------------------------------
(***************************************************************************)
(* The parts of DefaultGateway put together: the handlers of Pipeline, the *)
(* limiter of RateLimit inside their middleware chain, and the server that *)
(* start() spawns and stop() drains (src/src/core/gateway.rs).             *)
(*                                                                         *)
(* Pipeline stands the limiter in for a budget per client.  Here the       *)
(* budget is what RateLimit's timestamps leave, and the composition is     *)
(* shown to implement Pipeline.  Lifecycle takes it as given which of a    *)
(* draining server's connections end; here they are requests, and it is    *)
(* shown which do.  The middleware chain belongs to the gateway, not to a  *)
(* run of its server: a restart keeps the limiter.                         *)
(***************************************************************************)
EXTENDS Integers, Sequences, FiniteSets

CONSTANTS
    Requests, Clients, Inputs, GrpcReplies,         \* see Pipeline
    Limit, Window, MaxTracked, MaxTime, MaxGrants   \* see RateLimit

VARIABLES
    pc, input, status, records, charged, touched, sent, got,   \* see Pipeline
    now, tracked, stamps, grants, issued, reply,               \* see RateLimit
    phase       \* of the server task, and of the process

handlers == <<pc, input, status, records, charged, touched, sent, got>>
limiter == <<now, tracked, stamps, grants, issued, reply>>
vars == <<handlers, limiter, phase>>

L == INSTANCE RateLimit

(* What the limiter would still let through, were the client to ask now. *)
Budget == [k \in Clients |-> Limit - Cardinality(L!Live(stamps[k]))]

P == INSTANCE Pipeline WITH budget <- Budget

ASSUME GatewayAssumption == P!PipelineAssumption /\ L!RateLimitAssumption

(* "draining": the socket is closed and open connections are served;       *)
(* "stopped": stop() has returned; "exited": main's timeout ended it all.  *)
Phase == {"serving", "draining", "stopped", "exited"}

Init ==
    /\ L!Init
    /\ P!Init
    /\ phase = "serving"

-----------------------------------------------------------------------------
(* Handlers *)

Quiet == UNCHANGED <<limiter, phase>>

(* Only a serving gateway accepts connections; a draining one has hyper    *)
(* close each of them after the response under way.                        *)
Arrive(r) == phase = "serving" /\ Quiet /\ P!Arrive(r)

(* The peer address of the socket, and the slip of one key for all. *)
ClientShared(r) == CHOOSE k \in Clients : TRUE
Client(r) == input[r].client

(* The chain with the limiter itself: auth refuses, or is_rate_limited     *)
(* decides under its mutex and records the request it lets through.        *)
RunChain(r) ==
    /\ pc[r] = "chain"
    /\ \/ /\ ~input[r].cred
          /\ P!Answer(r, 401)
          /\ UNCHANGED <<charged, limiter>>
       \/ /\ input[r].cred
          /\ L!Reject(Client(r))
          /\ P!Answer(r, 429)
          /\ charged' = charged
       \/ /\ input[r].cred
          /\ L!Allow(Client(r))
          /\ P!Continue(r, IF input[r].path = "admin_body" THEN "extract" ELSE "dispatch")
          /\ charged' = charged \cup {r}
    /\ UNCHANGED <<input, records, touched, sent, got, phase>>

(* Slip: no exchange with an upstream has a timeout. *)
OwnStepUntimed(r) ==
    /\ Quiet
    /\ P!Route(r) \/ P!Dispatch(r) \/ P!Record(r) \/ P!Finalize(r)

(* The steps of a handler that its gateway takes, or its timer ... *)
OwnStep(r) ==
    /\ Quiet
    /\ \/ P!Route(r) \/ P!Dispatch(r) \/ P!UpstreamTimesOut(r)
       \/ P!Record(r) \/ P!Finalize(r)

(* ... and those that wait for a client, a peer or an upstream. *)
OthersStep(r) ==
    /\ Quiet
    /\ \/ P!ReadBody(r) \/ P!AdminBody(r)
       \/ P!ZmqConnected(r) \/ P!ZmqSent(r)
       \/ P!UpstreamActs(r) \/ P!UpstreamReplies(r) \/ P!UpstreamFails(r)
       \/ P!Respond(r) \/ P!WsConnected(r) \/ P!WsSessionEnds(r)
       \/ P!Disconnect(r)

Tick == L!Tick /\ UNCHANGED <<handlers, phase>>

-----------------------------------------------------------------------------
(* The server *)

(* The server still serves the request: its handler runs, or its response  *)
(* is not written to the end.  An upgraded session is a task of its own.   *)
InFlight(r) == pc[r] \notin {"idle", "session", "done", "dropped"}

Stop ==
    /\ phase = "serving"
    /\ phase' = "draining"
    /\ UNCHANGED <<handlers, limiter>>

(* Every response is written or has lost its client: the server task ends. *)
Drained ==
    /\ phase = "draining"
    /\ \A r \in Requests : ~InFlight(r)
    /\ phase' = "stopped"
    /\ UNCHANGED <<handlers, limiter>>

(* Slip: each start() builds its middleware anew. *)
StartAfresh ==
    /\ phase = "stopped"
    /\ phase' = "serving"
    /\ tracked' = {}
    /\ stamps' = [k \in Clients |-> {}]
    /\ UNCHANGED <<handlers, now, grants, issued, reply>>

(* start() again: the AppState it builds shares the old middleware. *)
Start ==
    /\ phase = "stopped"
    /\ phase' = "serving"
    /\ UNCHANGED <<handlers, limiter>>

(* main's timeout around stop(): the process exits with handlers open. *)
Exit ==
    /\ phase = "draining"
    /\ phase' = "exited"
    /\ UNCHANGED limiter
    /\ P!Exit

HandlerStep(r) == Arrive(r) \/ RunChain(r) \/ OwnStep(r) \/ OthersStep(r)

Next ==
    \/ \E r \in Requests : HandlerStep(r)
    \/ Tick \/ Stop \/ Drained \/ Start \/ Exit

Spec == Init /\ [][Next]_vars

(* The gateway runs its handlers, its timers fire, and the server task     *)
(* ends when its connections have; clients, peers and upstreams promise    *)
(* nothing, and main's timeout is not counted on.                          *)
Fairness ==
    /\ \A r \in Requests : WF_vars(RunChain(r)) /\ WF_vars(OwnStep(r))
    /\ WF_vars(Drained)

FairSpec == Spec /\ Fairness

-----------------------------------------------------------------------------
(* Properties *)

(* The handlers with the real limiter do what Pipeline says, with the      *)
(* budget computed from the limiter's timestamps: a sweep for one client's *)
(* sake gives no other client a request more or less, in the middle of     *)
(* whatever the other handlers, a drain or a restart do.                   *)
ImplementsPipeline == P!Spec

(* The window holds across restarts: no client is let through more than    *)
(* Limit times in any Window, however the gateway is stopped and started   *)
(* in between.                                                             *)
WindowAcrossRestarts == L!WindowBound

(* Where a request may wait for ever: the body is read without a timeout   *)
(* (by handle_request, or after the chain by an admin handler), a ZMQ      *)
(* socket connects and sends without one, and a response is written only   *)
(* as fast as its client reads; that of /admin/events has no end at all.   *)
Unbounded == {"body", "extract", "connect", "send", "respond"}

(* A drain ends, unless one request stays for ever in a stage that no      *)
(* timer bounds.  Upgraded WebSocket sessions do not hold it up: they      *)
(* outlive the server that accepted them.                                  *)
StopDrains ==
    phase = "draining" ~>
        \/ phase # "draining"
        \/ \E r \in Requests : [](pc[r] \in Unbounded)

=============================================================================
