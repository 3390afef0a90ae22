------------------------------- MODULE Config -------------------------------
(***************************************************************************)
(* A gateway configuration, GatewayConfig::validate with its helpers       *)
(* (src/src/config/mod.rs), and what the parts that are handed one ask of  *)
(* it when they run.                                                       *)
(*                                                                         *)
(* Of a URL the scheme is kept ("none": blank or without one), of a route  *)
(* path whether it is empty, relative or absolute, and of a string that is *)
(* only tested for being blank, whether it is "".  One shape serves every  *)
(* type of transport and listener: `name` is the topic, routing key,       *)
(* address, queue or bind address; `address` tells whether the client can  *)
(* parse the whole address and not only its scheme (of an MQTT broker URL: *)
(* just a host and a port follow), `topic` whether the MQTT client takes   *)
(* the topic (no wildcard to publish on) or the topic filters.             *)
(***************************************************************************)
EXTENDS Naturals, Sequences

HttpSchemes == {"http", "https"}
WsSchemes == HttpSchemes \cup {"ws", "wss"}
MqttSchemes == {"mqtt", "mqtts", "tcp", "ssl"}
AmqpSchemes == {"amqp", "amqps"}
Schemes == WsSchemes \cup MqttSchemes \cup AmqpSchemes \cup {"none", "other"}

RouteTypes == {"http", "graphql", "grpc", "websocket", "mqtt", "amqp", "zmq"}
ListenerTypes == {"zmq_pull", "mqtt_sub", "amqp_consume"}

U8 == 0..255
U16 == 0..65535

Routes == [path : {"empty", "relative", "absolute"}, type : RouteTypes,
           timeout : Nat, scheme : Schemes, address : BOOLEAN, name : STRING,
           topic : BOOLEAN, qos : U8]
Listeners == [type : ListenerTypes, scheme : Schemes, address : BOOLEAN,
              name : STRING, topics : Seq(STRING), topic : BOOLEAN, qos : U8,
              forward : Schemes]

(* protocols: whether build_protocols knows every enabled entry. *)
Configs == [host : STRING, port : U16,
            limited : BOOLEAN, limit : Nat, window : Nat,
            routes : Seq(Routes), listeners : Seq(Listeners), protocols : BOOLEAN]

-----------------------------------------------------------------------------
(* validate.  It looks neither at `address` nor at `topic` nor at          *)
(* `protocols`.                                                            *)

ValidRoute(r) ==
    /\ r.path = "absolute"
    /\ r.timeout # 0
    /\ CASE r.type \in {"http", "graphql", "grpc"} -> r.scheme \in HttpSchemes
         [] r.type = "websocket" -> r.scheme \in WsSchemes
         [] r.type = "mqtt" -> r.scheme \in MqttSchemes /\ r.name # "" /\ r.qos <= 2
         [] r.type = "amqp" -> r.scheme \in AmqpSchemes /\ r.name # ""
         [] r.type = "zmq" -> r.name # ""

ValidListener(l) ==
    /\ l.forward \in HttpSchemes
    /\ CASE l.type = "zmq_pull" -> l.name # ""
         [] l.type = "mqtt_sub" ->
              /\ l.scheme \in MqttSchemes
              /\ l.topics # <<>> /\ \A i \in DOMAIN l.topics : l.topics[i] # ""
              /\ l.qos <= 2
         [] l.type = "amqp_consume" -> l.scheme \in AmqpSchemes /\ l.name # ""

(* A limiter that is off may have any settings. *)
Validate(c) ==
    /\ c.host # "" /\ c.port # 0
    /\ c.limited => c.limit # 0 /\ c.window # 0
    /\ \A i \in DOMAIN c.routes : ValidRoute(c.routes[i])
    /\ \A i \in DOMAIN c.listeners : ValidListener(c.listeners[i])

(* A string from the environment that is to be a u16. *)
ParsePort(n) == IF n \in U16 THEN <<n>> ELSE <<>>

(* IRON_BABEL_PORT and IRON_BABEL_HOST, each set or not; a port that is    *)
(* not a number is like one that is too large.                             *)
Settings == {env \in [port : Seq(Nat), host : Seq(STRING)] :
                Len(env.port) <= 1 /\ Len(env.host) <= 1}

(* apply_env_overrides: a port that does not parse is ignored. *)
Override(c, env) ==
    LET port == IF env.port = <<>> THEN <<>> ELSE ParsePort(env.port[1])
    IN [c EXCEPT !.port = IF port = <<>> THEN @ ELSE port[1],
                 !.host = IF env.host = <<>> THEN @ ELSE env.host[1]]

-----------------------------------------------------------------------------
(* The consumers *)

(* The scheme normalize_ws_url of gateway/ws.rs makes of a backend URL. *)
NormalizeWsUrl(scheme) ==
    CASE scheme \in {"ws", "wss"} -> scheme
      [] scheme \in {"http", "none"} -> "ws"
      [] scheme = "https" -> "wss"
      [] OTHER -> "error"

(* qos_from_u8, and whether parse_broker_url finds TLS or not; both of     *)
(* gateway/mqtt.rs.                                                        *)
QosFromU8(q) == IF q \in 0..2 THEN <<q>> ELSE <<>>
ParseBrokerUrl(scheme, address) ==
    CASE address /\ scheme \in {"mqtt", "tcp"} -> <<FALSE>>
      [] address /\ scheme \in {"mqtts", "ssl"} -> <<TRUE>>
      [] OTHER -> <<>>

(* HttpGateway, GraphQLGateway and GrpcGateway refuse any other target. *)
Proxies(scheme) == scheme \in {"http", "https"}

(* A request on this route gets as far as the upstream, with a timeout     *)
(* that leaves it time; the router matches absolute paths only.            *)
RouteServes(r) ==
    /\ r.path = "absolute" /\ r.timeout > 0 /\ r.address
    /\ r.type \in {"http", "graphql", "grpc"} => Proxies(r.scheme)
    /\ r.type = "websocket" => NormalizeWsUrl(r.scheme) # "error"
    /\ r.type = "mqtt" =>
          /\ ParseBrokerUrl(r.scheme, r.address) # <<>>
          /\ QosFromU8(r.qos) # <<>> /\ r.topic

(* A listener's task does not return at once, a session has something to   *)
(* receive, and its POSTs have somewhere to go.                            *)
ListenerServes(l) ==
    /\ l.address
    /\ l.type = "mqtt_sub" =>
          /\ ParseBrokerUrl(l.scheme, l.address) # <<>>
          /\ QosFromU8(l.qos) # <<>> /\ l.topics # <<>> /\ l.topic
    /\ Proxies(l.forward)

(* The faults of a route or a listener that pass validate, put right.  A   *)
(* request to a route whose address or publish topic its client refuses    *)
(* answers 502 (a WebSocket route has answered 101 by then); an mqtt_sub   *)
(* listener with a broker URL that does not parse returns as soon as it is *)
(* started; any other session that cannot bind, connect or subscribe is    *)
(* tried again every five seconds, for ever.                               *)
Righted(x) == [x EXCEPT !.address = TRUE, !.topic = TRUE]

(* All that the parts ask for, but for the rest of an address behind its   *)
(* scheme and the wildcards of a topic.  RateLimit assumes a limit and a   *)
(* window, TcpListener::bind a fixed port.  Not part of it is what         *)
(* build_protocols asks for, which validate leaves to create_gateway.      *)
Usable(c) ==
    /\ c.host # "" /\ c.port > 0
    /\ c.limited => c.limit > 0 /\ c.window > 0
    /\ \A i \in DOMAIN c.routes : RouteServes(Righted(c.routes[i]))
    /\ \A i \in DOMAIN c.listeners : ListenerServes(Righted(c.listeners[i]))

=============================================================================
