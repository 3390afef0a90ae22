----------------------------- MODULE MCPipeline -----------------------------
(* Pipeline for TLC: the inputs of the configuration. *)
EXTENDS Pipeline, TLC

Plain(k) == [client |-> "a", path |-> "route", kind |-> k, valid |-> TRUE,
             body |-> "fits", cred |-> TRUE]

(* One request of each kind that takes a path of its own through the code. *)
AllPaths ==
    {Plain(k) : k \in {"http", "grpc", "zmq_req", "zmq_push", "amqp", "ws"}}
    \cup {[Plain(k) EXCEPT !.valid = FALSE] : k \in {"http", "graphql", "ws"}}
    \cup {[Plain("http") EXCEPT !.path = p] : p \in {"traversal", "unmatched", "admin"}}
    \cup {[Plain("http") EXCEPT !.body = b] : b \in {"declared_large", "large"}}
    \cup {[Plain("http") EXCEPT !.cred = FALSE],
          [Plain("http") EXCEPT !.path = "admin", !.cred = FALSE],
          [Plain("http") EXCEPT !.path = "admin_body"],
          [Plain("http") EXCEPT !.path = "admin_body", !.valid = FALSE],
          [Plain("http") EXCEPT !.path = "admin_body", !.body = "large"],
          [Plain("http") EXCEPT !.client = "b"]}

Plainly(p) == [flag |-> 0, payload |-> p]

(* No message, two of them, whole or cut off in the second one's payload,  *)
(* in its header or between the two, and a compressed second message.      *)
AllReplies ==
    {[msgs |-> <<>>, missing |-> 0],
     [msgs |-> <<Plainly(<<7>>), [flag |-> 1, payload |-> <<8>>]>>, missing |-> 0]}
    \cup {[msgs |-> <<Plainly(<<7>>), Plainly(<<8>>)>>, missing |-> n] : n \in {0, 1, 3, 6}}

=============================================================================
