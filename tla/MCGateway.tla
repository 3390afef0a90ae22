----------------------------- MODULE MCGateway -----------------------------
(* Gateway for TLC: two clients, and the requests that meet the limiter.   *)
EXTENDS Gateway, TLC

Plain(c, k) == [client |-> c, path |-> "route", kind |-> k, valid |-> TRUE,
                body |-> "fits", cred |-> TRUE]

Mixed ==
    {Plain("a", "http"), Plain("b", "http"), Plain("a", "zmq_req"), Plain("a", "ws"),
     [Plain("a", "http") EXCEPT !.path = "admin_body"],
     [Plain("b", "http") EXCEPT !.cred = FALSE]}

=============================================================================
