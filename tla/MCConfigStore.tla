--------------------------- MODULE MCConfigStore ---------------------------
(* ConfigStore for TLC: the callers are interchangeable. *)
EXTENDS ConfigStore, TLC

CallerSymmetry == Permutations(Callers)

Route(t, s) == [path |-> "absolute", type |-> t, timeout |-> 30, scheme |-> s,
                address |-> TRUE, name |-> "n", topic |-> TRUE, qos |-> 1]
Listener(t, s) == [type |-> t, scheme |-> s, address |-> TRUE, name |-> "n",
                   topics |-> <<"t">>, topic |-> TRUE, qos |-> 1, forward |-> "http"]

(* One of everything, and nothing wrong with it. *)
Good == [host |-> "localhost", port |-> 8080, limited |-> TRUE, limit |-> 1, window |-> 1,
         routes |-> <<Route("http", "http"), Route("graphql", "https"),
                      Route("grpc", "http"), Route("websocket", "ws"),
                      Route("mqtt", "mqtts"), Route("amqp", "amqp"), Route("zmq", "none")>>,
         listeners |-> <<Listener("zmq_pull", "none"), Listener("mqtt_sub", "ssl"),
                         Listener("amqp_consume", "amqps")>>,
         protocols |-> TRUE]

(* One thing wrong in each, and at the end some with what validate lets    *)
(* pass, good or not.                                                      *)
BadRoutes(i) ==
    LET r == Good.routes[i]
    IN {[r EXCEPT !.path = "empty"], [r EXCEPT !.path = "relative"], [r EXCEPT !.timeout = 0]}
       \cup (IF r.type = "zmq" THEN {} ELSE {[r EXCEPT !.scheme = s] : s \in {"none", "other"}})
       \cup (IF r.type \in {"mqtt", "amqp", "zmq"} THEN {[r EXCEPT !.name = ""]} ELSE {})
       \cup (IF r.type = "mqtt" THEN {[r EXCEPT !.qos = 3]} ELSE {})

BadListeners(i) ==
    LET l == Good.listeners[i]
    IN {[l EXCEPT !.forward = "none"]}
       \cup (IF l.type = "mqtt_sub"
              THEN {[l EXCEPT !.topics = <<>>], [l EXCEPT !.topics = <<"t", "">>],
                    [l EXCEPT !.qos = 3]}
              ELSE {[l EXCEPT !.name = ""]})
       \cup (IF l.type = "zmq_pull" THEN {} ELSE {[l EXCEPT !.scheme = "other"]})

AllFiles ==
    {Good,
     [Good EXCEPT !.host = ""], [Good EXCEPT !.port = 0],
     [Good EXCEPT !.limit = 0], [Good EXCEPT !.window = 0],
     [Good EXCEPT !.protocols = FALSE]}
    \cup UNION {{[Good EXCEPT !.routes[i] = r] : r \in BadRoutes(i)} : i \in 1..7}
    \cup UNION {{[Good EXCEPT !.listeners[i] = l] : l \in BadListeners(i)} : i \in 1..3}
    \cup {[Good EXCEPT !.limited = FALSE, !.limit = 0],
          [Good EXCEPT !.routes[4].scheme = "https"],
          [Good EXCEPT !.routes[5].address = FALSE],
          [Good EXCEPT !.routes[5].topic = FALSE],
          [Good EXCEPT !.listeners[2].address = FALSE],
          [Good EXCEPT !.routes = <<>>, !.listeners = <<>>]}

(* Each variable unset, of use, or of no use. *)
AllEnvironments ==
    [port : {<<>>, <<0>>, <<65536>>}, host : {<<>>, <<"::">>, <<"">>}]

(* Saved at run time: one configuration that is valid, one that is not,    *)
(* and one that is valid though no gateway could be built from it.         *)
SomeDrafts ==
    {[Good EXCEPT !.port = 9090], [Good EXCEPT !.limit = 0], [Good EXCEPT !.protocols = FALSE]}

=============================================================================
