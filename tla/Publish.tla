------------------------------ MODULE Publish ------------------------------
(***************************************************************************)
(* Publishing a request body to a broker: MqttGateway::publish and         *)
(* AmqpGateway::publish of src/src/gateway/{mqtt,amqp}.rs.  Each publish   *)
(* opens a connection of its own, and one timeout runs over all of it, the *)
(* closing handshake included.  The result decides between 202 and 502.    *)
(*                                                                         *)
(* The brokers are external.  An MQTT broker that sees a client id again   *)
(* drops the connection that had it, so publishes of a route with a        *)
(* configured client_id disturb each other.                                *)
(***************************************************************************)
EXTENDS Naturals, FiniteSets

CONSTANTS
    Publishes,
    Routes       \* the transport configurations in use

(* qos: for mqtt; mandatory: for amqp; sharedId: the mqtt client_id is     *)
(* configured; routable: some amqp queue is bound to the routing key.      *)
RouteType == [kind : {"mqtt", "amqp"}, qos : 0..2, mandatory : BOOLEAN,
              sharedId : BOOLEAN, routable : BOOLEAN]

ASSUME PublishAssumption == Routes \subseteq RouteType

VARIABLES
    route,     \* of each publish
    stage,     \* how far its async block has come
    confirm,   \* what the broker has sent back: "none", "ack", "nack", "returned"
    taken,     \* publishes the broker has taken responsibility for
    result     \* "none", "ok" or "error"

publishVars == <<route, stage, confirm, taken, result>>

Stage == {"start", "connected", "ready", "sent", "closing", "broken", "over"}

(* The type invariant: a publish has a result exactly when it is over. *)
PublishTypeOK ==
    /\ route \in [Publishes -> RouteType]
    /\ stage \in [Publishes -> Stage]
    /\ confirm \in [Publishes -> {"none", "ack", "nack", "returned"}]
    /\ taken \subseteq Publishes
    /\ result \in [Publishes -> {"none", "ok", "error"}]
    /\ \A p \in Publishes : result[p] = "none" <=> stage[p] # "over"

PublishInit ==
    /\ route \in [Publishes -> Routes]
    /\ stage = [p \in Publishes |-> "start"]
    /\ confirm = [p \in Publishes |-> "none"]
    /\ taken = {}
    /\ result = [p \in Publishes |-> "none"]

Mqtt(p) == route[p].kind = "mqtt"
Goto(p, s) == stage' = [stage EXCEPT ![p] = s] /\ result' = result
Finish(p, r) ==
    /\ stage' = [stage EXCEPT ![p] = "over"]
    /\ result' = [result EXCEPT ![p] = r]

-----------------------------------------------------------------------------
(* The gateway *)

(* The other MQTT connections that use the same client id. *)
Displaced(p) ==
    {q \in Publishes \ {p} :
        /\ Mqtt(p) /\ route[p].sharedId /\ route[q] = route[p]
        /\ stage[q] \in {"connected", "ready", "sent", "closing"}}

OpenConnection(p) ==
    /\ stage[p] = "start"
    /\ stage' = [q \in Publishes |->
                    CASE q = p -> IF Mqtt(p) THEN "ready" ELSE "connected"
                      [] q \in Displaced(p) ->
                            IF stage[q] = "closing" THEN "closing" ELSE "broken"
                      [] OTHER -> stage[q]]
    /\ UNCHANGED <<route, confirm, taken, result>>

(* AMQP: the channel is opened and put in confirm mode. *)
Prepare(p) ==
    /\ stage[p] = "connected"
    /\ Goto(p, "ready")
    /\ UNCHANGED <<route, confirm, taken>>

(* Slip: the DISCONNECT is queued right behind the PUBLISH. *)
SendHasty(p) ==
    /\ stage[p] = "ready"
    /\ Goto(p, IF Mqtt(p) THEN "closing" ELSE "sent")
    /\ UNCHANGED <<route, confirm, taken>>

(* The message is written.  At QoS 0 that is all there is to wait for.     *)
Send(p) ==
    /\ stage[p] = "ready"
    /\ Goto(p, IF Mqtt(p) /\ route[p].qos = 0 THEN "closing" ELSE "sent")
    /\ UNCHANGED <<route, confirm, taken>>

(* PubAck or PubComp for MQTT; for AMQP the confirmation is looked at: a   *)
(* nack and a returned message are errors.                                 *)
ReadConfirm(p) ==
    /\ stage[p] = "sent" /\ confirm[p] # "none"
    /\ IF confirm[p] = "ack" THEN Goto(p, "closing") ELSE Finish(p, "error")
    /\ UNCHANGED <<route, confirm, taken>>

CloseConnection(p) ==
    /\ stage[p] = "closing"
    /\ Finish(p, "ok")
    /\ UNCHANGED <<route, confirm, taken>>

(* Closing fails: MQTT logs it, AMQP reports it. *)
CloseFails(p) ==
    /\ stage[p] = "closing"
    /\ Finish(p, IF Mqtt(p) THEN "ok" ELSE "error")
    /\ UNCHANGED <<route, confirm, taken>>

(* Connecting, opening the channel, publishing or waiting fails, or the    *)
(* connection has been taken away.                                         *)
Fails(p) ==
    /\ stage[p] \in {"start", "connected", "ready", "sent", "broken"}
    /\ Finish(p, "error")
    /\ UNCHANGED <<route, confirm, taken>>

(* Slip: the timeout covers the wait for the confirmation only. *)
TimesOutSent(p) ==
    /\ stage[p] = "sent"
    /\ Finish(p, "error")
    /\ UNCHANGED <<route, confirm, taken>>

TimesOut(p) ==
    /\ stage[p] # "over"
    /\ Finish(p, "error")
    /\ UNCHANGED <<route, confirm, taken>>

-----------------------------------------------------------------------------
(* The broker, for messages that have been written *)

(* Takes the message and says so; an AMQP broker with no queue for it      *)
(* returns it if it is mandatory, and otherwise confirms and discards it.  *)
BrokerAnswers(p) ==
    /\ stage[p] = "sent" /\ confirm[p] = "none"
    /\ LET lost == ~Mqtt(p) /\ ~route[p].routable
       IN /\ taken' = IF lost THEN taken ELSE taken \cup {p}
          /\ confirm' = [confirm EXCEPT ![p] =
                            IF lost /\ route[p].mandatory THEN "returned" ELSE "ack"]
    /\ UNCHANGED <<route, stage, result>>

BrokerNacks(p) ==
    /\ stage[p] = "sent" /\ confirm[p] = "none" /\ ~Mqtt(p)
    /\ confirm' = [confirm EXCEPT ![p] = "nack"]
    /\ UNCHANGED <<route, stage, taken, result>>

(* A QoS 0 message arrives, perhaps after its connection is closed. *)
BrokerTakesQos0(p) ==
    /\ Mqtt(p) /\ route[p].qos = 0 /\ stage[p] = "closing" /\ p \notin taken
    /\ taken' = taken \cup {p}
    /\ UNCHANGED <<route, stage, confirm, result>>

Step(p) ==
    \/ OpenConnection(p) \/ Prepare(p) \/ Send(p) \/ ReadConfirm(p)
    \/ CloseConnection(p) \/ CloseFails(p) \/ Fails(p) \/ TimesOut(p)
    \/ BrokerAnswers(p) \/ BrokerNacks(p) \/ BrokerTakesQos0(p)

PublishNext == \E p \in Publishes : Step(p)

PublishSpec == PublishInit /\ [][PublishNext]_publishVars

(* Only the timer is relied on. *)
FairPublishSpec == PublishSpec /\ \A p \in Publishes : WF_publishVars(TimesOut(p))

-----------------------------------------------------------------------------
(* Properties *)

(* 202 is not given away: where the protocol has an acknowledgement, and   *)
(* the message a queue or the mandatory flag, success means the broker has *)
(* taken the message, whatever other publishes do to the connection.       *)
OkMeansTaken ==
    \A p \in Publishes :
        result[p] = "ok" =>
            \/ p \in taken
            \/ Mqtt(p) /\ route[p].qos = 0
            \/ ~Mqtt(p) /\ ~route[p].mandatory /\ ~route[p].routable

(* A publish comes to an end even if the broker never answers. *)
EveryPublishEnds == \A p \in Publishes : <>(stage[p] = "over")

=============================================================================
