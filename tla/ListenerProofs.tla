--------------------------- MODULE ListenerProofs ---------------------------
(***************************************************************************)
(* Proofs about the two sides of the brokers: about Listener, for any      *)
(* messages, kinds of listener, topic lists and number of lost             *)
(* connections; and, at the end, about Publish, for any publishes and      *)
(* routes.                                                                 *)
(***************************************************************************)
EXTENDS Listener, Publish, SequenceTheorems, TLAPS

(***************************************************************************)
(* The inductive invariant.  It relates where the broker has a message to  *)
(* where the listener has it, in a session whose connection is intact and  *)
(* in one that goes on with the deliveries of a connection that is gone.   *)
(***************************************************************************)

(* A session holds deliveries, and only a lost connection strands them. *)
Sessions ==
    /\ session # "up" => ~connected /\ buffer = <<>> /\ current = <<>>
    /\ current = <<>> => answer = "none"
    /\ ~connected \/ ~Manual => unacked = {}
    /\ session = "up" /\ ~connected => losses > 0

(* On an intact connection, a delivery an AMQP consumer has to settle is   *)
(* one the broker waits for, with the flag the broker has for it; on a     *)
(* lost one, it is one the broker has put back.                            *)
Awaited(d) ==
    /\ Manual /\ connected =>
          d.msg \in unacked /\ (d.redelivered <=> d.msg \in redelivered)
    /\ Manual /\ ~connected => d.msg \in redelivered

Buffered ==
    \A i \in DOMAIN buffer :
        /\ Awaited(buffer[i])
        /\ ~Manual => buffer[i].msg \notin ready /\ attempts[buffer[i].msg] = 0
        /\ \A j \in DOMAIN buffer : buffer[i].msg = buffer[j].msg => i = j

InBuffer(m) == \E i \in DOMAIN buffer : buffer[i].msg = m
Handled(m) == current # <<>> /\ current[1].msg = m

Handling ==
    current # <<>> =>
        /\ Awaited(current[1])
        /\ attempts[current[1].msg] > 0
        /\ answer = "ok" => current[1].msg \in forwarded
        /\ answer = "failed" => failures[current[1].msg] > 0
        /\ ~InBuffer(current[1].msg)

(* The POSTs of a message: the broker's flag allows one more, and so does  *)
(* each lost connection.                                                   *)
Posts(m) ==
    /\ ~Manual => attempts[m] <= 1 /\ (m \in ready => attempts[m] = 0)
    /\ Manual =>
        /\ attempts[m] <= 2 + losses
        /\ session # "exited" /\ m \in ready => attempts[m] <= 1 + losses
        /\ InBuffer(m) => attempts[m] <= losses + IF connected THEN 1 ELSE 0
        /\ m \notin redelivered => attempts[m] <= 1
        /\ m \notin redelivered /\ (m \in ready \/ InBuffer(m)) => attempts[m] = 0

(* While the connections hold, the broker's flag counts the failed POSTs. *)
FailedOnce(m) == IF m \in redelivered THEN 1 ELSE 0
FailedNow(m) == IF Handled(m) /\ answer = "failed" THEN 1 ELSE 0
Failed(m) ==
    Manual /\ losses = 0 /\ session # "exited" /\ fate[m] = "pending" =>
        failures[m] = FailedOnce(m) + FailedNow(m)

Inv ==
    /\ TypeOK /\ Sessions /\ Buffered /\ Handling
    /\ \A m \in Messages : Posts(m) /\ Failed(m)
    /\ NothingLost /\ UntriedOnlyWhenLost

-----------------------------------------------------------------------------
(* What Take and Push do to the buffer. *)
LEMMA HeadTail ==
    ASSUME NEW s \in Seq(Delivery), s # <<>>
    PROVE  /\ Head(s) = s[1] /\ Head(s) \in Delivery /\ 1 \in DOMAIN s
           /\ Tail(s) \in Seq(Delivery)
           /\ \A i \in DOMAIN Tail(s) : i + 1 \in DOMAIN s /\ Tail(s)[i] = s[i + 1]
           /\ \A i \in DOMAIN s : i # 1 => i - 1 \in DOMAIN Tail(s) /\ Tail(s)[i - 1] = s[i]
OBVIOUS

LEMMA Appended ==
    ASSUME NEW s \in Seq(Delivery), NEW d \in Delivery
    PROVE  /\ Append(s, d) \in Seq(Delivery)
           /\ DOMAIN Append(s, d) = DOMAIN s \cup {Len(s) + 1} /\ Len(s) + 1 \notin DOMAIN s
           /\ Append(s, d)[Len(s) + 1] = d
           /\ \A i \in DOMAIN s : Append(s, d)[i] = s[i]
OBVIOUS

LEMMA InvHolds == Spec => []Inv
<1> USE ListenerAssumption DEF ListenerAssumption
<1>1. Init => Inv
  <2> SUFFICES ASSUME Init PROVE Inv
    OBVIOUS
  <2> USE DEF Init
  <2>1. topics \in Nat
    <3>1. CASE kind = "mqtt"
      BY <3>1
    <3>2. CASE kind # "mqtt"
      BY <3>2
    <3>3. QED
      BY <3>1, <3>2
  <2>1a. TypeOK
    <3>1. kind \in Kind
      OBVIOUS
    <3>2. ready \cup unacked = {m \in Messages : fate[m] = "pending"}
      OBVIOUS
    <3>3. /\ fate \in [Messages -> {"pending", "acked", "dropped", "missed"}]
          /\ attempts \in [Messages -> Nat] /\ failures \in [Messages -> Nat]
      OBVIOUS
    <3>4. buffer \in Seq(Delivery) /\ current \in Seq(Delivery) /\ Len(current) <= 1
      OBVIOUS
    <3>5. /\ queued \in 0..RequestCap /\ losses \in 0..MaxLosses
          /\ session \in {"backoff", "up", "exited"}
          /\ answer \in {"none", "ok", "failed"}
          /\ ready \cap unacked = {} /\ redelivered \subseteq Messages
          /\ forwarded \subseteq Messages
      OBVIOUS
    <3>6. connected \in BOOLEAN
      BY Zenon
    <3>7. QED
      BY <2>1, <3>1, <3>2, <3>3, <3>4, <3>5, <3>6 DEF TypeOK
  <2>2. Sessions /\ Buffered /\ Handling
    BY DEF Sessions, Buffered, Handling
  <2>3. \A m \in Messages : Posts(m) /\ Failed(m)
    BY DEF Posts, Failed, FailedOnce, FailedNow, Handled, InBuffer
  <2>4. NothingLost /\ UntriedOnlyWhenLost
    BY DEF NothingLost, UntriedOnlyWhenLost
  <2>5. QED
    BY <2>1a, <2>2, <2>3, <2>4 DEF Inv
<1>2. Inv /\ [Next]_vars => Inv'
  <2> SUFFICES ASSUME Inv, [Next]_vars PROVE Inv'
    OBVIOUS
  <2> USE DEF config, broker, counts
  <2>0. /\ ready \subseteq Messages /\ unacked \subseteq Messages
        /\ current # <<>> =>
              /\ current = <<current[1]>> /\ current[1] \in Delivery
              /\ current[1].msg \in Messages
    <3>1. ready \subseteq Messages /\ unacked \subseteq Messages
      BY DEF Inv, TypeOK
    <3>2. ASSUME current # <<>>
          PROVE  current = <<current[1]>> /\ current[1] \in Delivery
      <4>1. current \in Seq(Delivery) /\ Len(current) <= 1
        BY DEF Inv, TypeOK
      <4>2. Len(current) = 1
        <5> DEFINE n == Len(current)
        <5>1. n \in Nat /\ n # 0 /\ n <= 1
          BY <3>2, <4>1, EmptySeq
        <5> HIDE DEF n
        <5>2. n = 1
          BY <5>1
        <5>3. QED
          BY <5>2 DEF n
      <4>3. QED
        BY <4>1, <4>2
    <3>3. QED
      BY <3>1, <3>2 DEF Delivery
  <2>1. CASE Subscribe
    BY <2>1 DEF Subscribe, Inv, TypeOK, Sessions, Buffered, Handling, Awaited, Posts, Failed,
       FailedOnce, FailedNow, Handled, InBuffer, Manual, NothingLost, UntriedOnlyWhenLost
  <2>2. CASE Connect
    BY <2>2 DEF Connect, Inv, TypeOK, Sessions, Buffered, Handling, Awaited, Posts, Failed,
       FailedOnce, FailedNow, Handled, InBuffer, Manual, NothingLost, UntriedOnlyWhenLost
  <2>3. CASE ConnectFails
    BY <2>3 DEF ConnectFails, Inv, TypeOK, Sessions, Buffered, Handling, Awaited, Posts, Failed,
       FailedOnce, FailedNow, Handled, InBuffer, Manual, NothingLost, UntriedOnlyWhenLost
  <2>4. CASE ConnectionLost
    <3>1. TypeOK'
      <4>1. /\ (ready \cap unacked = {})'
            /\ (ready \cup unacked = {m \in Messages : fate[m] = "pending"})'
            /\ (redelivered \subseteq Messages)'
        BY <2>0, <2>4 DEF ConnectionLost, Listening, RequeueUnacked, Inv, TypeOK
      <4>2. /\ (kind \in Kind /\ topics \in Nat /\ queued \in 0..RequestCap)'
            /\ (session \in {"backoff", "up", "exited"} /\ losses \in 0..MaxLosses)'
        BY <2>4 DEF ConnectionLost, Listening, RequeueUnacked, Inv, TypeOK
      <4>2a. connected' \in BOOLEAN
        BY <2>4, Zenon DEF ConnectionLost, Listening, RequeueUnacked
      <4>3. /\ fate' \in [Messages -> {"pending", "acked", "dropped", "missed"}]
            /\ (attempts \in [Messages -> Nat] /\ failures \in [Messages -> Nat])'
            /\ (forwarded \subseteq Messages)'
        BY <2>4 DEF ConnectionLost, Listening, RequeueUnacked, Inv, TypeOK
      <4>4. /\ (buffer \in Seq(Delivery) /\ current \in Seq(Delivery) /\ Len(current) <= 1)'
            /\ (answer \in {"none", "ok", "failed"})'
        BY <2>4 DEF ConnectionLost, Listening, RequeueUnacked, Inv, TypeOK
      <4>5. QED
        BY <4>1, <4>2, <4>2a, <4>3, <4>4 DEF TypeOK
    <3>2. Sessions'
      BY <2>4 DEF ConnectionLost, Listening, RequeueUnacked, Inv, TypeOK, Sessions, Manual
    <3>3. Buffered'
      BY <2>4 DEF ConnectionLost, Listening, RequeueUnacked, Inv, TypeOK, Sessions, Buffered, Awaited, Manual
    <3>4. Handling'
      BY <2>4 DEF ConnectionLost, Listening, RequeueUnacked, Inv, TypeOK, Sessions, Handling, Awaited, InBuffer, Manual
    <3>5. \A q \in Messages : Posts(q)'
      BY <2>4 DEF ConnectionLost, Listening, RequeueUnacked, Inv, TypeOK, Sessions, Posts, InBuffer, Manual
    <3>6. \A q \in Messages : Failed(q)'
      BY <2>4 DEF ConnectionLost, Listening, RequeueUnacked, Inv, TypeOK, Sessions, Failed, FailedOnce, FailedNow, Handled, Manual
    <3>7. NothingLost'
      BY <2>4 DEF ConnectionLost, Listening, RequeueUnacked, Inv, TypeOK, NothingLost, Manual
    <3>8. UntriedOnlyWhenLost'
      BY <2>4 DEF ConnectionLost, Listening, RequeueUnacked, Inv, TypeOK, Sessions, UntriedOnlyWhenLost
    <3>9. QED
      BY <3>1, <3>2, <3>3, <3>4, <3>5, <3>6, <3>7, <3>8 DEF Inv
  <2>5. CASE SessionEnds
    BY <2>5 DEF SessionEnds, Forget, Inv, TypeOK, Sessions, Buffered, Handling, Awaited, Posts,
       Failed, FailedOnce, FailedNow, Handled, InBuffer, Manual, NothingLost, UntriedOnlyWhenLost
  <2>6. CASE ShutDown
    <3>1. TypeOK'
      <4>1. /\ (ready \cap unacked = {})'
            /\ (ready \cup unacked = {m \in Messages : fate[m] = "pending"})'
            /\ (redelivered \subseteq Messages)'
        BY <2>0, <2>6 DEF ShutDown, RequeueUnacked, Forget, Inv, TypeOK
      <4>2. /\ (kind \in Kind /\ topics \in Nat /\ queued \in 0..RequestCap)'
            /\ (session \in {"backoff", "up", "exited"} /\ losses \in 0..MaxLosses)'
        BY <2>6 DEF ShutDown, RequeueUnacked, Forget, Inv, TypeOK
      <4>2a. connected' \in BOOLEAN
        BY <2>6, Zenon DEF ShutDown, RequeueUnacked, Forget
      <4>3. /\ fate' \in [Messages -> {"pending", "acked", "dropped", "missed"}]
            /\ (attempts \in [Messages -> Nat] /\ failures \in [Messages -> Nat])'
            /\ (forwarded \subseteq Messages)'
        BY <2>6 DEF ShutDown, RequeueUnacked, Forget, Inv, TypeOK
      <4>4. /\ (buffer \in Seq(Delivery) /\ current \in Seq(Delivery) /\ Len(current) <= 1)'
            /\ (answer \in {"none", "ok", "failed"})'
        BY <2>6 DEF ShutDown, RequeueUnacked, Forget, Inv, TypeOK
      <4>5. QED
        BY <4>1, <4>2, <4>2a, <4>3, <4>4 DEF TypeOK
    <3>2. Sessions'
      BY <2>6 DEF ShutDown, RequeueUnacked, Forget, Inv, TypeOK, Sessions, Manual
    <3>3. Buffered'
      BY <2>6 DEF ShutDown, RequeueUnacked, Forget, Inv, TypeOK, Sessions, Buffered, Awaited, Manual
    <3>4. Handling'
      BY <2>6 DEF ShutDown, RequeueUnacked, Forget, Inv, TypeOK, Sessions, Handling, Awaited, InBuffer, Manual
    <3>5. \A q \in Messages : Posts(q)'
      BY <2>6 DEF ShutDown, RequeueUnacked, Forget, Inv, TypeOK, Sessions, Posts, InBuffer, Manual
    <3>6. \A q \in Messages : Failed(q)'
      BY <2>6 DEF ShutDown, RequeueUnacked, Forget, Inv, TypeOK, Sessions, Failed, FailedOnce, FailedNow, Handled, Manual
    <3>7. NothingLost'
      BY <2>6 DEF ShutDown, RequeueUnacked, Forget, Inv, TypeOK, NothingLost, Manual
    <3>8. UntriedOnlyWhenLost'
      BY <2>6 DEF ShutDown, RequeueUnacked, Forget, Inv, TypeOK, Sessions, UntriedOnlyWhenLost
    <3>9. QED
      BY <3>1, <3>2, <3>3, <3>4, <3>5, <3>6, <3>7, <3>8 DEF Inv
  <2>7. ASSUME NEW m \in Messages, Push(m) PROVE Inv'
    <3> DEFINE d0 == [msg |-> m, redelivered |-> m \in redelivered]
               n == Len(buffer) + 1
    <3>1. /\ session = "up" /\ connected /\ m \in ready
          /\ buffer' = Append(buffer, d0) /\ ready' = ready \ {m}
          /\ \/ Manual /\ unacked' = unacked \cup {m} /\ fate' = fate
             \/ ~Manual /\ fate' = [fate EXCEPT ![m] = "acked"] /\ unacked' = unacked
          /\ UNCHANGED <<session, connected, redelivered, current, answer, counts, losses,
                         config, queued>>
      BY <2>7 DEF Push, Listening
    <3>2. d0 \in Delivery /\ d0.msg = m /\ (d0.redelivered <=> m \in redelivered)
      <4>1. CASE m \in redelivered
        <5>1. (m \in redelivered) = TRUE
          BY <4>1
        <5>2. QED
          BY <4>1, <5>1 DEF Delivery
      <4>2. CASE m \notin redelivered
        <5>1. (m \in redelivered) = FALSE
          BY <4>2
        <5>2. QED
          BY <4>2, <5>1 DEF Delivery
      <4>3. QED
        BY <4>1, <4>2
    <3> HIDE DEF d0
    <3>3. /\ buffer' \in Seq(Delivery)
          /\ DOMAIN buffer' = DOMAIN buffer \cup {n} /\ n \notin DOMAIN buffer
          /\ buffer'[n] = d0
          /\ \A i \in DOMAIN buffer : buffer'[i] = buffer[i]
      BY <3>1, <3>2, Appended DEF Inv, TypeOK
    <3> HIDE DEF n
    <3>4. Manual' = Manual
      BY <3>1 DEF Manual
    <3>5. m \notin unacked /\ ~InBuffer(m)
      BY <3>1 DEF Inv, TypeOK, Buffered, Awaited, InBuffer
    <3>6. ~Handled(m)
      BY <3>1, <3>5 DEF Inv, Handling, Awaited, Handled, Posts
    <3>7. TypeOK'
      <4>1. /\ (ready \cap unacked = {})'
            /\ (ready \cup unacked = {q \in Messages : fate[q] = "pending"})'
            /\ fate' \in [Messages -> {"pending", "acked", "dropped", "missed"}]
        <5>1. CASE Manual
          BY <2>0, <3>1, <3>5, <5>1 DEF Inv, TypeOK
        <5>2. CASE ~Manual
          <6>1. /\ fate \in [Messages -> {"pending", "acked", "dropped", "missed"}]
                /\ fate' = [fate EXCEPT ![m] = "acked"]
                /\ ready' = ready \ {m} /\ unacked' = unacked
            BY <3>1, <5>2 DEF Inv, TypeOK
          <6>2. /\ fate' \in [Messages -> {"pending", "acked", "dropped", "missed"}]
                /\ fate'[m] = "acked" /\ \A q \in Messages : q # m => fate'[q] = fate[q]
            BY <6>1
          <6>3. QED
            BY <2>0, <3>5, <6>1, <6>2 DEF Inv, TypeOK
        <5>3. QED
          BY <5>1, <5>2
      <4>2. QED
        BY <3>1, <3>3, <4>1 DEF Inv, TypeOK
    <3>8. Sessions'
      BY <3>1, <3>4 DEF Inv, Sessions
    <3>9. Buffered'
      <4> SUFFICES ASSUME NEW i \in DOMAIN buffer'
                   PROVE  /\ Awaited(buffer[i])'
                          /\ (~Manual => buffer[i].msg \notin ready /\ attempts[buffer[i].msg] = 0)'
                          /\ \A j \in DOMAIN buffer' : buffer'[i].msg = buffer'[j].msg => i = j
        BY DEF Buffered
      <4>1. CASE i = n
        BY <3>1, <3>2, <3>3, <3>4, <3>5, <4>1 DEF Awaited, InBuffer, Inv, Posts
      <4>2. CASE i \in DOMAIN buffer
        BY <3>1, <3>2, <3>3, <3>4, <3>5, <4>2 DEF Awaited, InBuffer, Inv, Buffered
      <4>3. QED
        BY <3>3, <4>1, <4>2
    <3>10. Handling'
      BY <3>1, <3>2, <3>3, <3>4, <3>6 DEF Inv, Handling, Handled, Awaited, InBuffer
    <3>11. \A q \in Messages : InBuffer(q)' <=> InBuffer(q) \/ q = m
      BY <3>2, <3>3 DEF InBuffer
    <3>12. \A q \in Messages : Posts(q)'
      BY <3>1, <3>4, <3>11 DEF Inv, TypeOK, Posts
    <3>13. \A q \in Messages : Failed(q)'
      BY <3>1, <3>4 DEF Inv, TypeOK, Failed, FailedOnce, FailedNow, Handled
    <3>14. NothingLost'
      BY <3>1, <3>4 DEF Inv, NothingLost
    <3>15. UntriedOnlyWhenLost'
      BY <3>1, <3>11, ZenonT(60) DEF Inv, TypeOK, UntriedOnlyWhenLost, InBuffer
    <3>16. QED
      BY <3>7, <3>8, <3>9, <3>10, <3>12, <3>13, <3>14, <3>15 DEF Inv
  <2>8. ASSUME NEW m \in Messages, Miss(m) PROVE Inv'
    BY <2>8 DEF Miss, Listening, Inv, TypeOK, Sessions, Buffered, Handling,
       Awaited, Posts, Failed,
       FailedOnce, FailedNow, Handled, InBuffer, Manual, NothingLost, UntriedOnlyWhenLost
  <2>9. CASE Take
    <3>0. PICK d0 : d0 = Head(buffer)
      OBVIOUS
    <3>1. /\ session = "up" /\ current = <<>> /\ buffer # <<>> /\ answer = "none"
          /\ current' = <<d0>> /\ buffer' = Tail(buffer)
          /\ attempts' = [attempts EXCEPT ![d0.msg] = @ + 1]
          /\ UNCHANGED <<session, broker, answer, failures, forwarded, losses, config, queued>>
      BY <2>9, <3>0 DEF Take, Inv, Sessions
    <3>2. buffer \in Seq(Delivery) /\ attempts \in [Messages -> Nat]
      BY DEF Inv, TypeOK
    <3>3. /\ d0 = buffer[1] /\ d0 \in Delivery /\ 1 \in DOMAIN buffer
          /\ buffer' \in Seq(Delivery)
          /\ \A i \in DOMAIN buffer' : i + 1 \in DOMAIN buffer /\ buffer'[i] = buffer[i + 1]
          /\ \A i \in DOMAIN buffer : i # 1 =>
                i - 1 \in DOMAIN buffer' /\ buffer'[i - 1] = buffer[i]
      BY <3>0, <3>1, <3>2, HeadTail
    <3>4. d0.msg \in Messages
      BY <3>3 DEF Delivery
    <3>5. /\ attempts' \in [Messages -> Nat] /\ attempts'[d0.msg] = attempts[d0.msg] + 1
          /\ \A q \in Messages : q # d0.msg => attempts'[q] = attempts[q]
      BY <3>1, <3>2, <3>4
    <3>6. Manual' = Manual /\ DOMAIN buffer \subseteq Nat /\ DOMAIN buffer' \subseteq Nat
      BY <3>1, <3>2, <3>3 DEF Manual
    <3>7. \A q \in Messages : InBuffer(q) <=> InBuffer(q)' \/ q = d0.msg
      BY <3>3 DEF InBuffer
    <3>8. \A i, j \in DOMAIN buffer : buffer[i].msg = buffer[j].msg => i = j
      BY DEF Inv, Buffered
    <3>9. ~InBuffer(d0.msg)'
      BY <3>3, <3>6, <3>8 DEF InBuffer
    <3>10. TypeOK'
      <4>1. current' \in Seq(Delivery) /\ Len(current') <= 1
        BY <3>1, <3>3
      <4>2. QED
        BY <3>1, <3>3, <3>5, <4>1 DEF Inv, TypeOK
    <3>11. Sessions'
      BY <3>1, <3>6 DEF Inv, Sessions
    <3>12. Buffered'
      <4> SUFFICES ASSUME NEW i \in DOMAIN buffer'
                   PROVE  /\ Awaited(buffer[i])'
                          /\ (~Manual => buffer[i].msg \notin ready /\ attempts[buffer[i].msg] = 0)'
                          /\ \A j \in DOMAIN buffer' : buffer'[i].msg = buffer'[j].msg => i = j
        BY DEF Buffered
      <4>1. buffer'[i].msg # d0.msg /\ buffer'[i] = buffer[i + 1] /\ i + 1 \in DOMAIN buffer
        BY <3>3, <3>9 DEF InBuffer
      <4>2. buffer'[i].msg \in Messages
        <5>1. buffer'[i] \in Delivery
          BY <3>3
        <5>2. QED
          BY <5>1 DEF Delivery
      <4>3. Awaited(buffer[i])'
        BY <3>1, <3>6, <4>1 DEF Awaited, Inv, Buffered
      <4>4. (~Manual => buffer[i].msg \notin ready /\ attempts[buffer[i].msg] = 0)'
        BY <3>1, <3>5, <3>6, <4>1, <4>2 DEF Inv, Buffered
      <4>5. \A j \in DOMAIN buffer' : buffer'[i].msg = buffer'[j].msg => i = j
        BY <3>3, <3>6, <3>8
      <4>6. QED
        BY <4>3, <4>4, <4>5
    <3>13. Handling'
      <4>1. Awaited(d0)'
        BY <3>1, <3>3, <3>6 DEF Awaited, Inv, Buffered
      <4>2. attempts'[d0.msg] > 0
        BY <3>2, <3>4, <3>5
      <4>3. current'[1] = d0 /\ answer' = "none"
        BY <3>1
      <4>4. QED
        BY <3>9, <4>1, <4>2, <4>3 DEF Handling
    <3>14. \A q \in Messages : Posts(q)'
      <4> SUFFICES ASSUME NEW q \in Messages PROVE Posts(q)'
        OBVIOUS
      <4>1. CASE q = d0.msg
        <5>1. /\ ~Manual => attempts[q] = 0 /\ q \notin ready
              /\ Manual /\ connected => q \in unacked /\ q \notin ready
          BY <3>3, <4>1 DEF Inv, TypeOK, Buffered, Awaited
        <5>2. InBuffer(q) /\ attempts[q] \in Nat
          BY <3>2, <3>7, <4>1
        <5>3. Posts(q) /\ attempts'[q] = attempts[q] + 1 /\ losses \in Nat /\ ~InBuffer(q)'
          BY <3>5, <3>9, <4>1 DEF Inv, TypeOK
        <5>4. CASE ~Manual
          BY <3>1, <3>6, <5>1, <5>2, <5>3, <5>4 DEF Posts
        <5>5. CASE Manual /\ connected
          BY <3>1, <3>6, <5>1, <5>2, <5>3, <5>5 DEF Posts
        <5>6. CASE Manual /\ ~connected
          <6>1. q \in redelivered
            BY <3>3, <4>1, <5>6 DEF Inv, Buffered, Awaited
          <6>2. QED
            BY <3>1, <3>6, <5>1, <5>2, <5>3, <5>6, <6>1 DEF Posts
        <5>7. QED
          BY <5>4, <5>5, <5>6
      <4>2. CASE q # d0.msg
        BY <3>1, <3>5, <3>6, <3>7, <4>2 DEF Inv, Posts
      <4>3. QED
        BY <4>1, <4>2
    <3>15. \A q \in Messages : Failed(q)'
      BY <3>1, <3>6 DEF Inv, Failed, FailedOnce, FailedNow, Handled
    <3>16. NothingLost'
      BY <3>1, <3>6 DEF Inv, NothingLost
    <3>17. UntriedOnlyWhenLost'
      <4> SUFFICES ASSUME NEW q \in Messages, fate'[q] = "acked", attempts'[q] = 0
                   PROVE  InBuffer(q)' \/ losses' > 0 \/ session' = "exited"
        BY DEF UntriedOnlyWhenLost, InBuffer
      <4>1. q # d0.msg
        BY <3>2, <3>4, <3>5
      <4>2. QED
        BY <3>1, <3>5, <3>7, <4>1 DEF Inv, UntriedOnlyWhenLost, InBuffer
    <3>18. QED
      BY <3>10, <3>11, <3>12, <3>13, <3>14, <3>15, <3>16, <3>17 DEF Inv
  <2>10. CASE PostSucceeds
    <3>1. TypeOK'
      BY <2>0, <2>10 DEF PostSucceeds, Posting, Inv, TypeOK
    <3>2. Sessions'
      BY <2>10 DEF PostSucceeds, Posting, Inv, TypeOK, Sessions, Manual
    <3>3. Buffered'
      BY <2>10 DEF PostSucceeds, Posting, Inv, TypeOK, Sessions, Buffered, Awaited, Manual
    <3>4. Handling'
      BY <2>10 DEF PostSucceeds, Posting, Inv, TypeOK, Sessions, Handling, Awaited, InBuffer, Manual
    <3>5. \A q \in Messages : Posts(q)'
      BY <2>10 DEF PostSucceeds, Posting, Inv, TypeOK, Sessions, Posts, InBuffer, Manual
    <3>6. \A q \in Messages : Failed(q)'
      BY <2>10 DEF PostSucceeds, Posting, Inv, TypeOK, Sessions, Failed, FailedOnce, FailedNow, Handled, Manual
    <3>7. NothingLost'
      BY <2>10 DEF PostSucceeds, Posting, Inv, TypeOK, NothingLost, Manual
    <3>8. UntriedOnlyWhenLost'
      BY <2>10 DEF PostSucceeds, Posting, Inv, TypeOK, Sessions, UntriedOnlyWhenLost
    <3>9. QED
      BY <3>1, <3>2, <3>3, <3>4, <3>5, <3>6, <3>7, <3>8 DEF Inv
  <2>11. CASE PostFails
    <3>1. TypeOK'
      <4>1. failures \in [Messages -> Nat]
        BY DEF Inv, TypeOK
      <4>2. failures' \in [Messages -> Nat]
        BY <2>0, <2>11, <4>1 DEF PostFails, Posting
      <4>3. QED
        BY <2>11, <4>2 DEF PostFails, Inv, TypeOK
    <3>2. Sessions'
      BY <2>11 DEF PostFails, Posting, Inv, TypeOK, Sessions, Manual
    <3>3. Buffered'
      BY <2>11 DEF PostFails, Posting, Inv, TypeOK, Sessions, Buffered, Awaited, Manual
    <3>4. Handling'
      <4>1. failures'[current[1].msg] > 0
        BY <2>0, <2>11 DEF PostFails, Posting, Inv, TypeOK
      <4>2. QED
        BY <2>11, <4>1 DEF PostFails, Posting, Inv, Handling, Awaited, InBuffer, Manual
    <3>5. \A q \in Messages : Posts(q)'
      BY <2>11 DEF PostFails, Posting, Inv, TypeOK, Sessions, Posts, InBuffer, Manual
    <3>6. \A q \in Messages : Failed(q)'
      BY <2>11 DEF PostFails, Posting, Inv, TypeOK, Sessions, Failed, FailedOnce, FailedNow, Handled, Manual
    <3>7. NothingLost'
      <4>1. SUFFICES ASSUME Manual, NEW m \in Messages, fate[m] = "dropped"
                     PROVE  failures'[m] > 0 /\ (losses = 0 => failures'[m] = 2)
        BY <2>11 DEF PostFails, Inv, NothingLost, Manual
      <4>2. failures[m] \in Nat /\ failures[m] > 0 /\ (losses = 0 => failures[m] = 2)
        BY <4>1 DEF Inv, TypeOK, NothingLost
      <4>3. CASE m = current[1].msg
        <5>1. losses # 0
          BY <2>0, <2>11, <4>1, <4>3
             DEF PostFails, Posting, Inv, TypeOK, Sessions, Handling, Awaited
        <5>2. failures'[m] = failures[m] + 1
          BY <2>0, <2>11, <4>3 DEF PostFails, Posting, Inv, TypeOK
        <5>3. QED
          BY <4>2, <5>1, <5>2
      <4>4. CASE m # current[1].msg
        BY <2>11, <4>2, <4>4 DEF PostFails, Inv, TypeOK
      <4>5. QED
        BY <4>3, <4>4
    <3>8. UntriedOnlyWhenLost'
      BY <2>11 DEF PostFails, Posting, Inv, TypeOK, Sessions, UntriedOnlyWhenLost
    <3>9. QED
      BY <3>1, <3>2, <3>3, <3>4, <3>5, <3>6, <3>7, <3>8 DEF Inv
  <2>12. CASE Settle
    <3> DEFINE d0 == current[1]
               m == d0.msg
               f == Settled(d0)
    <3>1. /\ session = "up" /\ current # <<>> /\ answer \in {"ok", "failed"}
          /\ current' = <<>> /\ answer' = "none"
          /\ UNCHANGED <<session, buffer, counts, losses, config, queued>>
      BY <2>12 DEF Settle, Inv, TypeOK
    <3>2. d0 \in Delivery /\ m \in Messages /\ Handled(m)
      BY <2>0, <3>1 DEF Handled
    <3>3. Manual' = Manual
      BY <3>1 DEF Manual
    <3>4. CASE (~Manual \/ ~connected) /\ UNCHANGED broker
      <4>1. TypeOK'
        <5>1. current' \in Seq(Delivery) /\ Len(current') <= 1
          BY <3>1
        <5>2. QED
          BY <3>1, <3>4, <5>1 DEF Inv, TypeOK
      <4>2. Sessions' /\ Handling'
        BY <3>1, <3>3, <3>4 DEF Inv, Sessions, Handling
      <4>3. Buffered'
        BY <3>1, <3>3, <3>4 DEF Inv, Buffered, Awaited
      <4>4. \A q \in Messages : Posts(q)'
        BY <3>1, <3>3, <3>4 DEF Inv, Posts, InBuffer
      <4>5. \A q \in Messages : Failed(q)'
        <5>1. Manual => ~connected /\ losses # 0
          BY <3>1, <3>4 DEF Inv, TypeOK, Sessions
        <5>2. QED
          BY <3>1, <3>3, <3>4, <5>1 DEF Failed
      <4>6. NothingLost' /\ UntriedOnlyWhenLost'
        BY <3>1, <3>3, <3>4 DEF Inv, NothingLost, UntriedOnlyWhenLost
      <4>7. QED
        BY <4>1, <4>2, <4>3, <4>4, <4>5, <4>6 DEF Inv
    <3>5. CASE Manual /\ connected
      <4>1. /\ fate' = [fate EXCEPT ![m] = f] /\ unacked' = unacked \ {m}
            /\ connected' = connected
            /\ \/ f = "pending" /\ ready' = ready \cup {m} /\ redelivered' = redelivered \cup {m}
               \/ f # "pending" /\ ready' = ready /\ redelivered' = redelivered
        BY <2>12, <3>5 DEF Settle
      <4>2. /\ m \in unacked /\ m \notin ready /\ fate[m] = "pending"
            /\ ~InBuffer(m) /\ attempts[m] > 0
            /\ (d0.redelivered <=> m \in redelivered)
        BY <2>0, <3>1, <3>5 DEF Inv, TypeOK, Handling, Awaited
      <4>3. \/ f = "acked" /\ answer = "ok" /\ m \in forwarded
            \/ f = "pending" /\ answer = "failed" /\ m \notin redelivered
            \/ f = "dropped" /\ answer = "failed" /\ m \in redelivered
        BY <3>1, <4>2 DEF Settled, Inv, Handling
      <4>4. answer = "failed" => failures[m] > 0
        BY <3>1 DEF Inv, Handling
      <4> HIDE DEF f, m, d0
      <4>5. /\ fate'[m] = f /\ \A q \in Messages : q # m => fate'[q] = fate[q]
            /\ fate' \in [Messages -> {"pending", "acked", "dropped", "missed"}]
        BY <3>2, <4>1, <4>3 DEF Inv, TypeOK
      <4>6. TypeOK'
        <5>1. /\ (ready \cap unacked = {})'
              /\ (ready \cup unacked = {q \in Messages : fate[q] = "pending"})'
              /\ (redelivered \subseteq Messages)'
          BY <2>0, <3>2, <4>1, <4>2, <4>3, <4>5 DEF Inv, TypeOK
        <5>2. current' \in Seq(Delivery) /\ Len(current') <= 1
          BY <3>1
        <5>3. QED
          BY <3>1, <4>1, <4>5, <5>1, <5>2 DEF Inv, TypeOK
      <4>7. Sessions' /\ Handling'
        BY <3>1, <3>3, <3>5, <4>1 DEF Inv, Sessions, Handling
      <4>8. Buffered'
        BY <3>1, <3>3, <3>5, <4>1, <4>2 DEF Inv, Buffered, Awaited, InBuffer
      <4>9. \A q \in Messages : Posts(q)'
        <5> SUFFICES ASSUME NEW q \in Messages PROVE Posts(q)'
          OBVIOUS
        <5>1. InBuffer(q)' <=> InBuffer(q)
          BY <3>1 DEF InBuffer
        <5>2. CASE q = m
          BY <3>1, <3>3, <3>5, <4>1, <4>2, <4>3, <5>1, <5>2 DEF Inv, TypeOK, Posts
        <5>3. CASE q # m
          BY <3>1, <3>3, <3>5, <4>1, <5>1, <5>3 DEF Inv, Posts
        <5>4. QED
          BY <5>2, <5>3
      <4>10. \A q \in Messages : Failed(q)'
        <5> SUFFICES ASSUME NEW q \in Messages PROVE Failed(q)'
          OBVIOUS
        <5>1. CASE q = m
          BY <3>1, <3>2, <3>3, <3>5, <4>1, <4>2, <4>3, <4>5, <5>1
             DEF Inv, Failed, FailedOnce, FailedNow, Handled
        <5>2. CASE q # m
          <6>1. ~Handled(q)
            BY <3>2, <5>2 DEF Handled, m, d0
          <6>2. QED
            BY <3>1, <3>3, <4>1, <4>5, <5>2, <6>1
               DEF Inv, Failed, FailedOnce, FailedNow, Handled
        <5>3. QED
          BY <5>1, <5>2
      <4>11. NothingLost'
        <5> SUFFICES ASSUME NEW q \in Messages
                     PROVE  /\ fate'[q] = "acked" => q \in forwarded
                            /\ fate'[q] = "dropped" =>
                                  /\ q \in redelivered' /\ failures[q] > 0
                                  /\ losses = 0 => failures[q] = 2
          BY <3>1 DEF NothingLost
        <5>1. CASE q = m
          <6>1. losses = 0 /\ answer = "failed" /\ m \in redelivered => failures[m] = 2
            BY <3>1, <3>2, <3>5, <4>2 DEF Inv, Failed, FailedOnce, FailedNow
          <6>2. QED
            BY <4>1, <4>3, <4>4, <4>5, <5>1, <6>1
        <5>2. CASE q # m
          BY <3>5, <4>1, <4>5, <5>2 DEF Inv, NothingLost
        <5>3. QED
          BY <5>1, <5>2
      <4>12. UntriedOnlyWhenLost'
        <5>1. attempts[m] # 0
          BY <3>2, <4>2 DEF Inv, TypeOK
        <5>2. QED
          BY <3>1, <4>5, <5>1 DEF Inv, UntriedOnlyWhenLost
      <4>13. QED
        BY <4>6, <4>7, <4>8, <4>9, <4>10, <4>11, <4>12 DEF Inv
    <3>6. QED
      BY <2>12, <3>4, <3>5 DEF Settle
  <2>13. CASE Idle \/ UNCHANGED vars
    <3>1. TypeOK'
      BY <2>13 DEF Idle, vars, Inv, TypeOK, Sessions
    <3>2. Sessions'
      BY <2>13 DEF Idle, vars, Inv, TypeOK, Sessions, Manual
    <3>3. Buffered'
      BY <2>13 DEF Idle, vars, Inv, TypeOK, Sessions, Buffered, Awaited, Manual
    <3>4. Handling'
      BY <2>13 DEF Idle, vars, Inv, TypeOK, Sessions, Handling, Awaited, InBuffer, Manual
    <3>5. \A q \in Messages : Posts(q)'
      BY <2>13 DEF Idle, vars, Inv, TypeOK, Sessions, Posts, InBuffer, Manual
    <3>6. \A q \in Messages : Failed(q)'
      BY <2>13 DEF Idle, vars, Inv, TypeOK, Sessions, Failed, FailedOnce, FailedNow, Handled, Manual
    <3>7. NothingLost'
      BY <2>13 DEF Idle, vars, Inv, TypeOK, NothingLost, Manual
    <3>8. UntriedOnlyWhenLost'
      BY <2>13 DEF Idle, vars, Inv, TypeOK, Sessions, UntriedOnlyWhenLost
    <3>9. QED
      BY <3>1, <3>2, <3>3, <3>4, <3>5, <3>6, <3>7, <3>8 DEF Inv
  <2>14. QED
    BY <2>1, <2>2, <2>3, <2>4, <2>5, <2>6, <2>7, <2>8, <2>9, <2>10, <2>11, <2>12, <2>13
       DEF Next
<1>3. QED
  BY <1>1, <1>2, PTL DEF Spec

-----------------------------------------------------------------------------
(* The type invariant: the broker has an unsettled message in one place    *)
(* and a settled one in none.                                              *)
THEOREM TypeCorrect == Spec => []TypeOK
BY InvHolds, PTL DEF Inv

(* NothingLost: through lost connections, lost acks and stale deliveries,  *)
(* an AMQP broker lets go only of what the webhook took or refused twice   *)
(* (once, if a connection was lost in between).                            *)
THEOREM NoMessageLost == Spec => []NothingLost
BY InvHolds, PTL DEF Inv

(* UntriedOnlyWhenLost: a failing webhook costs no message but its own.    *)
THEOREM ReceivedIsTried == Spec => []UntriedOnlyWhenLost
BY InvHolds, PTL DEF Inv

(* AttemptsBounded: requeue = !redelivered ends the loop of a message that *)
(* keeps failing.                                                          *)
THEOREM NoPoisonLoop == Spec => []AttemptsBounded
<1>1. Inv => AttemptsBounded
  BY DEF Inv, Posts, AttemptsBounded
<1>2. QED
  BY <1>1, InvHolds, PTL

-----------------------------------------------------------------------------
(* Publishing *)

(***************************************************************************)
(* OkMeansTaken looks at a publish that is over, when what made it succeed *)
(* lies several steps back.  The inductive invariant carries it there: a   *)
(* publish gets to the closing handshake only with an acknowledgement, or  *)
(* without one to wait for, and an acknowledgement is given only for what  *)
(* is taken or need not be.  Being displaced by another publish takes a    *)
(* connection away, never out of the closing handshake back to waiting.    *)
(***************************************************************************)
Discardable(p) == ~Mqtt(p) /\ ~route[p].mandatory /\ ~route[p].routable
Unconfirmed(p) == Mqtt(p) /\ route[p].qos = 0

Acknowledged(p) ==
    /\ confirm[p] = "ack" => p \in taken \/ Discardable(p)
    /\ stage[p] = "closing" => Unconfirmed(p) \/ confirm[p] = "ack"
    /\ result[p] = "ok" => p \in taken \/ Discardable(p) \/ Unconfirmed(p)

PublishInv == PublishTypeOK /\ \A p \in Publishes : Acknowledged(p)

LEMMA PublishTypeStep ==
    ASSUME PublishTypeOK, NEW p \in Publishes, Step(p)
    PROVE  PublishTypeOK'
<1> USE DEF PublishTypeOK, Stage, Goto, Finish
<1>1. CASE OpenConnection(p)
  BY <1>1 DEF OpenConnection, Displaced
<1>2. CASE Prepare(p) \/ Send(p)
  BY <1>2 DEF Prepare, Send
<1>3. CASE ReadConfirm(p)
  BY <1>3 DEF ReadConfirm
<1>4. CASE CloseConnection(p) \/ CloseFails(p)
  BY <1>4 DEF CloseConnection, CloseFails
<1>5. CASE Fails(p) \/ TimesOut(p)
  BY <1>5 DEF Fails, TimesOut
<1>6. CASE BrokerAnswers(p)
  BY <1>6 DEF BrokerAnswers
<1>7. CASE BrokerNacks(p) \/ BrokerTakesQos0(p)
  BY <1>7 DEF BrokerNacks, BrokerTakesQos0
<1>8. QED
  BY <1>1, <1>2, <1>3, <1>4, <1>5, <1>6, <1>7 DEF Step

LEMMA AcknowledgedStep ==
    ASSUME PublishInv, NEW p \in Publishes, Step(p), NEW q \in Publishes
    PROVE  Acknowledged(q)'
<1> USE DEF PublishInv, PublishTypeOK, Acknowledged, Goto, Finish
<1>1. route' = route /\ (Discardable(q)' <=> Discardable(q)) /\ (Unconfirmed(q)' <=> Unconfirmed(q))
  BY DEF Step, OpenConnection, Prepare, Send, ReadConfirm, CloseConnection,
         CloseFails, Fails, TimesOut, BrokerAnswers, BrokerNacks,
         BrokerTakesQos0, Discardable, Unconfirmed, Mqtt
(* The publish may be displaced by the new connection. *)
<1>2. CASE OpenConnection(p)
  BY <1>1, <1>2 DEF OpenConnection, Displaced
<1>3. CASE Prepare(p)
  BY <1>1, <1>3 DEF Prepare
<1>4. CASE Send(p)
  BY <1>1, <1>4 DEF Send, Unconfirmed
<1>5. CASE ReadConfirm(p)
  BY <1>1, <1>5 DEF ReadConfirm
<1>6. CASE CloseConnection(p) \/ CloseFails(p)
  BY <1>1, <1>6 DEF CloseConnection, CloseFails
<1>7. CASE Fails(p) \/ TimesOut(p)
  BY <1>1, <1>7 DEF Fails, TimesOut
<1>8. CASE BrokerAnswers(p)
  BY <1>1, <1>8 DEF BrokerAnswers, Discardable
<1>9. CASE BrokerNacks(p) \/ BrokerTakesQos0(p)
  BY <1>1, <1>9 DEF BrokerNacks, BrokerTakesQos0
<1>10. QED
  BY <1>2, <1>3, <1>4, <1>5, <1>6, <1>7, <1>8, <1>9 DEF Step

LEMMA PublishInvHolds == PublishSpec => []PublishInv
<1>1. PublishInit => PublishInv
  BY PublishAssumption DEF PublishInit, PublishInv, PublishTypeOK, Acknowledged, Stage
<1>2. PublishInv /\ [PublishNext]_publishVars => PublishInv'
  <2> SUFFICES ASSUME PublishInv, [PublishNext]_publishVars PROVE PublishInv'
    OBVIOUS
  <2>1. ASSUME NEW p \in Publishes, Step(p) PROVE PublishInv'
    BY <2>1, PublishTypeStep, AcknowledgedStep DEF PublishInv
  <2>2. CASE UNCHANGED publishVars
    BY <2>2 DEF publishVars, PublishInv, PublishTypeOK, Acknowledged, Discardable, Unconfirmed, Mqtt
  <2>3. QED
    BY <2>1, <2>2 DEF PublishNext
<1>3. QED
  BY <1>1, <1>2, PTL DEF PublishSpec

(* OkMeansTaken: 202 is not given away, however many publishes share a     *)
(* client id and whatever they do to each other's connections.             *)
THEOREM OkIsEarned == PublishSpec => []OkMeansTaken
<1>1. PublishInv => OkMeansTaken
  BY DEF PublishInv, Acknowledged, Discardable, Unconfirmed, OkMeansTaken
<1>2. QED
  BY <1>1, PublishInvHolds, PTL

(* PublishTypeOK: a publish has a result exactly when it is over, whatever *)
(* the others do to it before.                                             *)
THEOREM PublishTypeCorrect == PublishSpec => []PublishTypeOK
BY PublishInvHolds, PTL DEF PublishInv

=============================================================================
