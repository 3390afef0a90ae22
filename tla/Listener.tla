------------------------------ MODULE Listener ------------------------------
(***************************************************************************)
(* The background listeners: run_consumer_listener of                      *)
(* src/src/gateway/amqp.rs, run_sub_listener of src/src/gateway/mqtt.rs    *)
(* and run_pull_listener of src/src/gateway/zmq.rs, with their sessions.   *)
(* Each POSTs what it receives to a webhook, one message at a time.  The   *)
(* three differ in who answers for a message: an AMQP consumer without     *)
(* auto_ack settles it by the webhook's answer, the others never look back.*)
(*                                                                         *)
(* The broker is external.  An AMQP broker pushes messages without a       *)
(* prefetch limit (basic_qos is never called), keeps what it pushed as     *)
(* unacked, and when the connection goes it puts all of that back, marked  *)
(* redelivered, whether or not the listener had looked at it.  With        *)
(* auto_ack, an MQTT clean session or a ZMQ peer, a message is no longer   *)
(* the sender's once it is sent.  (rumqttc acknowledges QoS 1 and 2 before *)
(* poll() returns the message.  A message is one sending of it: a retained *)
(* one is sent again to every new subscription.)  The listener finds out   *)
(* later that a connection is gone: until then it goes on with the         *)
(* deliveries it has buffered.                                             *)
(***************************************************************************)
EXTENDS Naturals, Sequences, FiniteSets

CONSTANTS
    Messages,
    Kinds,        \* the kinds of listener to consider
    TopicCounts,  \* lengths of the topic list of an MQTT listener
    RequestCap,   \* requests its client takes before the event loop runs: 100
    MaxLosses     \* bound: how often connections fail or are refused

(* ListenerConfig; "amqp_auto" is an AMQP consumer with auto_ack. *)
Kind == {"amqp", "amqp_auto", "mqtt", "zmq"}

ASSUME ListenerAssumption ==
    /\ Kinds \subseteq Kind
    /\ TopicCounts \subseteq Nat \ {0}
    /\ RequestCap \in Nat
    /\ MaxLosses \in Nat

VARIABLES
    kind,         \* the kind of this listener; never changes
    topics,       \* how many topics it subscribes to, 0 unless it is MQTT
    queued,       \* SUBSCRIBE requests waiting for its event loop
    session,      \* "backoff", "up" or, after shutdown, "exited"
    connected,    \* the session's connection, or bound socket, is intact
    ready,        \* broker: messages in the queue, or not sent yet
    unacked,      \* broker: pushed on this connection and not settled
    redelivered,  \* broker: messages it has put back
    fate,         \* broker: "pending"; "acked", by the listener or by being
                  \* sent; "dropped"; "missed", sent to nobody
    buffer,       \* deliveries received and not looked at
    current,      \* the delivery being handled, a sequence of at most one
    answer,       \* what the webhook POST of it came to
    attempts,     \* POSTs per message
    failures,     \* failed POSTs per message
    forwarded,    \* messages the webhook has answered with 2xx
    losses

config == <<kind, topics>>
vars == <<config, queued, session, connected, ready, unacked, redelivered, fate,
          buffer, current, answer, attempts, failures, forwarded, losses>>
broker == <<connected, ready, unacked, redelivered, fate>>
counts == <<attempts, failures, forwarded>>

Delivery == [msg : Messages, redelivered : BOOLEAN]

(* The type invariant.  The broker holds an unsettled message in one place *)
(* and a settled one in none, and a listener handles one delivery at a     *)
(* time: each awaits its POST before it receives again (zmq.rs 215-240,    *)
(* mqtt.rs 174-208, amqp.rs 195-262).  docs/protocols.md:349 says of the   *)
(* ZMQ listener that it "forwards each frame in a separate spawned task";  *)
(* the code does not, and this is what the code does.                      *)
TypeOK ==
    /\ kind \in Kind /\ topics \in Nat /\ queued \in 0..RequestCap
    /\ session \in {"backoff", "up", "exited"} /\ connected \in BOOLEAN
    /\ ready \cap unacked = {}
    /\ ready \cup unacked = {m \in Messages : fate[m] = "pending"}
    /\ redelivered \subseteq Messages
    /\ fate \in [Messages -> {"pending", "acked", "dropped", "missed"}]
    /\ buffer \in Seq(Delivery)
    /\ current \in Seq(Delivery) /\ Len(current) <= 1
    /\ answer \in {"none", "ok", "failed"}
    /\ attempts \in [Messages -> Nat] /\ failures \in [Messages -> Nat]
    /\ forwarded \subseteq Messages
    /\ losses \in 0..MaxLosses

Init ==
    /\ kind \in Kinds
    /\ topics \in IF kind = "mqtt" THEN TopicCounts ELSE {0}
    /\ queued = 0
    /\ session = "backoff" /\ connected = FALSE
    /\ ready = Messages /\ unacked = {} /\ redelivered = {}
    /\ fate = [m \in Messages |-> "pending"]
    /\ buffer = <<>> /\ current = <<>> /\ answer = "none"
    /\ attempts = [m \in Messages |-> 0] /\ failures = [m \in Messages |-> 0]
    /\ forwarded = {}
    /\ losses = 0

-----------------------------------------------------------------------------
(* Connecting *)

(* The listener answers for a message until its webhook has answered. *)
Manual == kind = "amqp"

(* The session's loop runs, on a connection that is intact. *)
Listening == session = "up" /\ connected

(* An MQTT session first queues a SUBSCRIBE per topic.  Nothing takes them *)
(* out of the client's channel before the event loop runs, so the          *)
(* subscribe() that finds it full never returns.                           *)
Subscribe ==
    /\ session = "backoff"
    /\ queued < topics /\ queued < RequestCap
    /\ queued' = queued + 1
    /\ UNCHANGED <<session, broker, buffer, current, answer, counts, losses, config>>

(* Connect, open a channel and subscribe; or bind: a session begins.  The  *)
(* MQTT session begins when its event loop connects, at the first poll().  *)
Connect ==
    /\ session = "backoff" /\ queued = topics
    /\ session' = "up" /\ connected' = TRUE
    /\ queued' = 0
    /\ UNCHANGED <<ready, unacked, redelivered, fate, buffer, current, answer,
                   counts, losses, config>>

(* One of these fails: the session function returns, and the listener      *)
(* waits RECONNECT_DELAY.                                                  *)
ConnectFails ==
    /\ session = "backoff" /\ queued = topics /\ losses < MaxLosses
    /\ losses' = losses + 1
    /\ queued' = 0
    /\ UNCHANGED <<session, broker, buffer, current, answer, counts, config>>

(* Broker: what was pushed and not settled is put back. *)
RequeueUnacked ==
    /\ connected' = FALSE
    /\ ready' = ready \cup unacked
    /\ redelivered' = redelivered \cup unacked
    /\ unacked' = {}
    /\ fate' = fate

ConnectionLost ==
    /\ Listening /\ losses < MaxLosses
    /\ RequeueUnacked
    /\ losses' = losses + 1
    /\ UNCHANGED <<session, buffer, current, answer, counts, config, queued>>

Forget == buffer' = <<>> /\ current' = <<>> /\ answer' = "none"

(* next(), poll() or recv() yields the error, next() perhaps the end of    *)
(* the stream.  What was received and not handled is lost with the session.*)
SessionEnds ==
    /\ session = "up" /\ ~connected /\ current = <<>>
    /\ session' = "backoff"
    /\ Forget
    /\ UNCHANGED <<broker, counts, losses, config, queued>>

(* The select! of the listener sees the signal: the session is dropped at  *)
(* the .await it is in, and its connection with it.                        *)
ShutDown ==
    /\ session # "exited"
    /\ session' = "exited"
    /\ RequeueUnacked
    /\ Forget
    /\ queued' = 0
    /\ UNCHANGED <<counts, losses, config>>

-----------------------------------------------------------------------------
(* Deliveries *)

(* Broker or peer: push a message. *)
Push(m) ==
    /\ Listening /\ m \in ready
    /\ buffer' = Append(buffer, [msg |-> m, redelivered |-> m \in redelivered])
    /\ ready' = ready \ {m}
    /\ IF Manual
       THEN unacked' = unacked \cup {m} /\ UNCHANGED fate
       ELSE fate' = [fate EXCEPT ![m] = "acked"] /\ UNCHANGED unacked
    /\ UNCHANGED <<session, connected, redelivered, current, answer, counts, losses, config, queued>>

(* MQTT broker: a message is published while a clean session has no        *)
(* connection, and so no subscription.                                     *)
Miss(m) ==
    /\ kind = "mqtt" /\ ~Listening /\ m \in ready
    /\ ready' = ready \ {m}
    /\ fate' = [fate EXCEPT ![m] = "missed"]
    /\ UNCHANGED <<session, connected, unacked, redelivered, buffer, current, answer,
                   counts, losses, config, queued>>

(* Slip: a delivery is taken up while another one is being handled. *)
TakeConcurrently ==
    /\ session = "up" /\ buffer # <<>>
    /\ current' = Append(current, Head(buffer)) /\ buffer' = Tail(buffer)
    /\ attempts' = [attempts EXCEPT ![Head(buffer).msg] = @ + 1]
    /\ UNCHANGED <<session, broker, answer, failures, forwarded, losses, config, queued>>

(* next(), poll() or recv() yields a message, and its POST is sent. *)
Take ==
    /\ session = "up" /\ current = <<>> /\ buffer # <<>>
    /\ current' = <<Head(buffer)>> /\ buffer' = Tail(buffer)
    /\ attempts' = [attempts EXCEPT ![Head(buffer).msg] = @ + 1]
    /\ UNCHANGED <<session, broker, answer, failures, forwarded, losses, config, queued>>

Posting == session = "up" /\ current # <<>> /\ answer = "none"

PostSucceeds ==
    /\ Posting
    /\ answer' = "ok"
    /\ forwarded' = forwarded \cup {current[1].msg}
    /\ UNCHANGED <<session, broker, buffer, current, attempts, failures, losses, config, queued>>

(* Slip: a webhook that fails ends the session. *)
PostFailsEndsSession ==
    /\ Posting
    /\ session' = "backoff"
    /\ RequeueUnacked /\ Forget
    /\ failures' = [failures EXCEPT ![current[1].msg] = @ + 1]
    /\ UNCHANGED <<attempts, forwarded, losses, config, queued>>

(* Not 2xx, no connection, or no answer within the client's 30 seconds.    *)
PostFails ==
    /\ Posting
    /\ answer' = "failed"
    /\ failures' = [failures EXCEPT ![current[1].msg] = @ + 1]
    /\ UNCHANGED <<session, broker, buffer, current, attempts, forwarded, losses, config, queued>>

(* Slip: a failed message is put back every time. *)
SettledAlwaysRequeued(d) == IF answer = "ok" THEN "acked" ELSE "pending"
(* Slip: a failed message is dropped at its first failure. *)
SettledNeverRequeued(d) == IF answer = "ok" THEN "acked" ELSE "dropped"

(* ack on success; nack with requeue = !redelivered otherwise. *)
Settled(d) ==
    CASE answer = "ok" -> "acked"
      [] answer # "ok" /\ ~d.redelivered -> "pending"
      [] answer # "ok" /\ d.redelivered -> "dropped"

(* Slip: a failed message is logged and not nacked. *)
SettleForgetsNack ==
    /\ session = "up" /\ current # <<>> /\ answer # "none"
    /\ current' = <<>> /\ answer' = "none"
    /\ IF ~Manual \/ ~connected \/ answer = "failed"
       THEN UNCHANGED broker
       ELSE /\ fate' = [fate EXCEPT ![current[1].msg] = "acked"]
            /\ unacked' = unacked \ {current[1].msg}
            /\ UNCHANGED <<connected, ready, redelivered>>
    /\ UNCHANGED <<session, buffer, counts, losses, config, queued>>

(* Of the POST's result only an AMQP consumer without auto_ack tells its   *)
(* broker; on a lost connection ack and nack fail, which is only logged;   *)
(* else the broker settles the message, or puts it back.                   *)
Settle ==
    /\ session = "up" /\ current # <<>> /\ answer # "none"
    /\ current' = <<>> /\ answer' = "none"
    /\ LET m == current[1].msg
           f == Settled(current[1])
       IN IF ~Manual \/ ~connected
          THEN UNCHANGED broker
          ELSE /\ fate' = [fate EXCEPT ![m] = f]
               /\ unacked' = unacked \ {m}
               /\ IF f = "pending"
                  THEN ready' = ready \cup {m} /\ redelivered' = redelivered \cup {m}
                  ELSE UNCHANGED <<ready, redelivered>>
               /\ UNCHANGED connected
    /\ UNCHANGED <<session, buffer, counts, losses, config, queued>>

Done ==
    \/ session = "exited"
    \/ (\A m \in Messages : fate[m] # "pending") /\ buffer = <<>> /\ current = <<>>

(* The listener waits for messages, or is no more. *)
Idle == Done /\ UNCHANGED vars

Next ==
    \/ Subscribe \/ Connect \/ ConnectFails \/ ConnectionLost \/ SessionEnds \/ ShutDown
    \/ \E m \in Messages : Push(m) \/ Miss(m)
    \/ Take \/ PostSucceeds \/ PostFails \/ Settle
    \/ Idle

Spec == Init /\ [][Next]_vars

(* The listener takes its own steps and retries, the POST ends by its      *)
(* timeout at the latest, a lost connection is noticed, and a broker that  *)
(* is connected pushes what it has.                                        *)
Fairness ==
    /\ WF_vars(Subscribe) /\ WF_vars(Connect) /\ WF_vars(SessionEnds) /\ WF_vars(Take)
    /\ WF_vars(PostSucceeds \/ PostFails) /\ WF_vars(Settle)
    /\ \A m \in Messages : WF_vars(Push(m))

FairSpec == Spec /\ Fairness

-----------------------------------------------------------------------------
(* Properties *)

(* An AMQP consumer without auto_ack loses nothing: the broker lets go of  *)
(* a message only after the webhook has answered it with 2xx, or after a   *)
(* POST of a redelivered one has failed, through lost connections, lost    *)
(* acks, deliveries handled after their connection is gone, and shutdown.  *)
(* While the connections hold, two POSTs have failed before it is dropped  *)
(* (amqp.rs 219).  A lost connection can cost it that second chance: the   *)
(* broker marks what it had pushed as redelivered, posted or not.          *)
NothingLost ==
    Manual =>
        \A m \in Messages :
            /\ fate[m] = "acked" => m \in forwarded
            /\ fate[m] = "dropped" =>
                  /\ m \in redelivered /\ failures[m] > 0
                  /\ losses = 0 => failures[m] = 2

(* The others lose only what was in the buffer of a session that ended     *)
(* with its connection, or of the gateway when it shut down: a webhook     *)
(* that fails costs no message but its own (the match on the POST of       *)
(* run_sub_session and run_pull_session only logs), and a message that was *)
(* received is posted sooner or later.  Once a connection has been lost,   *)
(* nothing is said any more: a loss excuses every untried message, not     *)
(* only those that were in the buffer then.                                *)
UntriedOnlyWhenLost ==
    \A m \in Messages :
        fate[m] = "acked" /\ attempts[m] = 0 =>
            \/ \E i \in DOMAIN buffer : buffer[i].msg = m
            \/ losses > 0 \/ session = "exited"

(* A webhook sees a message at most twice, and once more for every lost    *)
(* connection: a message that keeps failing cannot loop (amqp.rs 214-218). *)
(* The other listeners post a message at most once, whatever fails.        *)
AttemptsBounded ==
    \A m \in Messages : attempts[m] <= IF Manual THEN 2 + losses ELSE 1

(* If connections fail only so often, every message is settled in the end  *)
(* and every one received is handled, unless the gateway shuts down.  Only *)
(* an MQTT listener with more topics than its client's channel holds gets  *)
(* no message at all: it waits for itself.                                 *)
QueueDrains ==
    topics <= RequestCap => <>Done

=============================================================================
