----------------------------- MODULE MCPublish -----------------------------
(* Publish for TLC: the routes of each configuration.                      *)
EXTENDS Publish, TLC

MqttRoute(q, shared) == [kind |-> "mqtt", qos |-> q, mandatory |-> FALSE,
                         sharedId |-> shared, routable |-> TRUE]
AmqpRoute(m, r) == [kind |-> "amqp", qos |-> 0, mandatory |-> m,
                    sharedId |-> FALSE, routable |-> r]

AllRoutes == {MqttRoute(0, FALSE), MqttRoute(1, FALSE), MqttRoute(1, TRUE)}
             \cup {AmqpRoute(m, r) : m, r \in BOOLEAN}

=============================================================================
