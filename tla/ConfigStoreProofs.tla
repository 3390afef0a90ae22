------------------------- MODULE ConfigStoreProofs -------------------------
(***************************************************************************)
(* Proofs about ConfigStore, for any callers, files, environments, drafts  *)
(* and number of saves.                                                    *)
(***************************************************************************)
EXTENDS ConfigStore, TLAPS

(* The machine integers of a configuration are natural numbers. *)
LEMMA Unsigned == U8 \subseteq Nat /\ U16 \subseteq Nat
BY DEF U8, U16

(***************************************************************************)
(* What validate promises: each of its checks is the one that the part     *)
(* handed the value relies on.                                             *)
(***************************************************************************)
LEMMA ValidRouteServes ==
    ASSUME NEW r \in Routes, ValidRoute(r)
    PROVE  RouteServes(Righted(r))
<1> DEFINE q == Righted(r)
<1>0. /\ q.address = TRUE /\ q.topic = TRUE
      /\ q.path = r.path /\ q.type = r.type /\ q.timeout = r.timeout
      /\ q.scheme = r.scheme /\ q.qos = r.qos
  BY DEF Righted, Routes
<1> HIDE DEF q
<1>1. r.type \in RouteTypes /\ r.timeout \in Nat /\ r.qos \in Nat
  BY Unsigned DEF Routes
<1>2. r.path = "absolute" /\ r.timeout > 0
  <2>1. r.path = "absolute" /\ r.timeout # 0
    BY DEF ValidRoute
  <2>2. QED
    BY <1>1, <2>1
<1>3. CASE r.type \in {"http", "graphql", "grpc"}
  <2>1. Proxies(r.scheme)
    BY <1>3 DEF ValidRoute, Proxies, HttpSchemes
  <2>2. RouteServes(q)
    BY <1>0, <1>2, <1>3, <2>1 DEF RouteServes
  <2>3. QED
    BY <2>2 DEF q
<1>4. CASE r.type = "websocket"
  <2>1. NormalizeWsUrl(r.scheme) # "error"
    BY <1>4 DEF ValidRoute, WsSchemes, HttpSchemes, NormalizeWsUrl
  <2>2. RouteServes(q)
    BY <1>0, <1>2, <1>4, <2>1 DEF RouteServes
  <2>3. QED
    BY <2>2 DEF q
<1>5. CASE r.type = "mqtt"
  <2>1. r.scheme \in {"mqtt", "mqtts", "tcp", "ssl"} /\ r.qos <= 2
    BY <1>5 DEF ValidRoute, MqttSchemes
  <2>2. QosFromU8(r.qos) # <<>>
    BY <1>1, <2>1 DEF QosFromU8
  <2>3. ParseBrokerUrl(r.scheme, TRUE) # <<>>
    BY <2>1 DEF ParseBrokerUrl
  <2>4. RouteServes(q)
    BY <1>0, <1>2, <1>5, <2>2, <2>3 DEF RouteServes
  <2>5. QED
    BY <2>4 DEF q
<1>6. CASE r.type \in {"amqp", "zmq"}
  <2>1. RouteServes(q)
    BY <1>0, <1>2, <1>6 DEF RouteServes
  <2>2. QED
    BY <2>1 DEF q
<1>7. QED
  BY <1>1, <1>3, <1>4, <1>5, <1>6 DEF RouteTypes

LEMMA ValidListenerServes ==
    ASSUME NEW l \in Listeners, ValidListener(l)
    PROVE  ListenerServes(Righted(l))
<1> DEFINE q == Righted(l)
<1>0. /\ q.address = TRUE /\ q.topic = TRUE /\ q.topics = l.topics
      /\ q.type = l.type /\ q.scheme = l.scheme /\ q.qos = l.qos
      /\ q.forward = l.forward
  BY DEF Righted, Listeners
<1> HIDE DEF q
<1>1. l.qos \in Nat
  BY Unsigned DEF Listeners
<1>2. Proxies(l.forward)
  BY DEF ValidListener, Proxies, HttpSchemes
<1>3. CASE l.type = "mqtt_sub"
  <2>1. l.scheme \in {"mqtt", "mqtts", "tcp", "ssl"} /\ l.qos <= 2 /\ l.topics # <<>>
    BY <1>3 DEF ValidListener, MqttSchemes
  <2>2. QosFromU8(l.qos) # <<>>
    BY <1>1, <2>1 DEF QosFromU8
  <2>3. ParseBrokerUrl(l.scheme, TRUE) # <<>>
    BY <2>1 DEF ParseBrokerUrl
  <2>4. ListenerServes(q)
    BY <1>0, <1>2, <1>3, <2>1, <2>2, <2>3 DEF ListenerServes
  <2>5. QED
    BY <2>4 DEF q
<1>4. CASE l.type # "mqtt_sub"
  <2>1. ListenerServes(q)
    BY <1>0, <1>2, <1>4 DEF ListenerServes
  <2>2. QED
    BY <2>1 DEF q
<1>5. QED
  BY <1>3, <1>4

(* Once validate has accepted a configuration, all that the limiter, the   *)
(* router, the proxies, the clients and the listeners can still refuse in  *)
(* it is the rest of an address behind its scheme or the wildcards of a    *)
(* topic (Righted puts both right, and every route and listener serves).   *)
(* It says nothing about the enabled protocols, which are looked at by     *)
(* build_protocols only: Accepts, and OnlyUsableIsActive below.            *)
THEOREM ValidIsUsable ==
    ASSUME NEW c \in Configs, Validate(c)
    PROVE  Usable(c)
<1>1. /\ c.port \in Nat /\ c.limit \in Nat /\ c.window \in Nat
      /\ c.routes \in Seq(Routes) /\ c.listeners \in Seq(Listeners)
  BY Unsigned DEF Configs
<1>2. c.host # "" /\ c.port > 0 /\ (c.limited => c.limit > 0 /\ c.window > 0)
  <2>1. c.host # "" /\ c.port # 0 /\ (c.limited => c.limit # 0 /\ c.window # 0)
    BY DEF Validate
  <2>2. /\ c.port # 0 => c.port > 0
        /\ c.limit # 0 => c.limit > 0
        /\ c.window # 0 => c.window > 0
    BY <1>1
  <2>3. QED
    BY <2>1, <2>2, Zenon
<1>3. ASSUME NEW i \in DOMAIN c.routes
      PROVE  RouteServes(Righted(c.routes[i]))
  <2>1. c.routes[i] \in Routes
    BY <1>1
  <2>2. ValidRoute(c.routes[i])
    BY DEF Validate
  <2>3. QED
    BY <2>1, <2>2, ValidRouteServes
<1>4. ASSUME NEW i \in DOMAIN c.listeners
      PROVE  ListenerServes(Righted(c.listeners[i]))
  <2>1. c.listeners[i] \in Listeners
    BY <1>1
  <2>2. ValidListener(c.listeners[i])
    BY DEF Validate
  <2>3. QED
    BY <2>1, <2>2, ValidListenerServes
<1>5. QED
  BY <1>2, <1>3, <1>4 DEF Usable

(* What the environment makes of a configuration is one, with the same     *)
(* protocols.                                                              *)
LEMMA OverrideType ==
    ASSUME NEW c \in Configs, NEW env \in Settings
    PROVE  Override(c, env) \in Configs /\ Override(c, env).protocols = c.protocols
<1>1. /\ env.port = <<>> \/ env.port[1] \in Nat
      /\ env.host = <<>> \/ env.host[1] \in STRING
  BY DEF Settings
<1>2. PICK p \in U16, h \in STRING : Override(c, env) = [c EXCEPT !.port = p, !.host = h]
  <2>1. c.port \in U16 /\ c.host \in STRING
    BY DEF Configs
  <2> DEFINE port == IF env.port = <<>> THEN <<>> ELSE ParsePort(env.port[1])
             p == IF port = <<>> THEN c.port ELSE port[1]
             h == IF env.host = <<>> THEN c.host ELSE env.host[1]
  <2>2. p \in U16
    BY <2>1 DEF ParsePort
  <2>3. h \in STRING
    BY <1>1, <2>1
  <2>4. Override(c, env) = [c EXCEPT !.port = p, !.host = h]
    BY DEF Override, Configs
  <2>5. QED
    BY <2>2, <2>3, <2>4
<1>3. QED
  BY <1>2 DEF Configs

-----------------------------------------------------------------------------
(***************************************************************************)
(* The inductive invariant.  What a caller has copied was valid when it    *)
(* was copied, and no copy is newer than the last save; that is all that   *)
(* is left of the lock between the two halves of an operation, and it is   *)
(* enough.                                                                 *)
(***************************************************************************)
Stamp == [ver : 0..MaxSaves, config : Configs]
Sound(x) == Validate(x.config) /\ x.ver <= saves

Typed ==
    /\ stage \in {"boot", "refused", "running"}
    /\ serving \in Configs /\ saves \in 0..MaxSaves
    /\ active \in Stamp /\ draft \in Stamp /\ draft.ver = saves
    /\ pc \in [Callers -> {"idle", "activate", "snapshot"}]
    /\ local \in [Callers -> Stamp]
    /\ \A v \in views : v.active \in Stamp /\ v.draft \in Stamp

NotYet == stage # "running" =>
    saves = 0 /\ views = {} /\ \A c \in Callers : pc[c] = "idle"

Running == stage = "running" =>
    Validate(serving) /\ serving.protocols /\ Sound(active)
Copies == \A c \in Callers : pc[c] # "idle" => Sound(local[c])

Inv == Typed /\ NotYet /\ Running /\ Copies /\ SnapshotCoherent

LEMMA InvHolds == Spec => []Inv
<1> USE DEF Stamped
<1>1. Init => Inv
  BY StoreAssumption
     DEF StoreAssumption, Init, Inv, Typed, NotYet, Running, Copies, SnapshotCoherent, Stamp
<1>2. Inv /\ [Next]_vars => Inv'
  <2> SUFFICES ASSUME Inv, [Next]_vars PROVE Inv'
    OBVIOUS
  <2>0. MaxSaves \in Nat /\ Drafts \subseteq Configs
    BY StoreAssumption DEF StoreAssumption
  <2>1. ASSUME NEW env \in Environments, Boot(env) PROVE Inv'
    <3>1. CASE Accepts(serving, env)
      <4>1. /\ stage = "boot" /\ stage' = "running" /\ serving' = Override(serving, env)
            /\ active' = [ver |-> 0, config |-> serving'] /\ draft' = active'
            /\ local' = [c \in Callers |-> active']
            /\ UNCHANGED <<saves, pc, views>>
        BY <2>1, <3>1 DEF Boot
      <4>2. serving' \in Configs /\ Validate(serving') /\ serving'.protocols
        BY <3>1, <4>1, OverrideType, StoreAssumption
           DEF Accepts, Inv, Typed, StoreAssumption
      <4>3. active' \in Stamp /\ active'.ver = 0 /\ active'.config = serving'
        BY <2>0, <4>1, <4>2 DEF Stamp
      <4>4. saves = 0 /\ views = {} /\ \A c \in Callers : pc[c] = "idle"
        BY <4>1 DEF Inv, NotYet
      <4>5. Typed'
        BY <4>1, <4>2, <4>3, <4>4 DEF Inv, Typed
      <4>6. QED
        BY <4>1, <4>2, <4>3, <4>4, <4>5
           DEF Inv, NotYet, Running, Copies, SnapshotCoherent, Sound
    <3>2. CASE ~Accepts(serving, env)
      BY <2>1, <3>2 DEF Boot, Inv, Typed, NotYet, Running, Copies, SnapshotCoherent, Sound
    <3>3. QED
      BY <3>1, <3>2
  <2>2. ASSUME NEW c \in Callers, NEW config \in Drafts, SaveDraft(c, config) PROVE Inv'
    <3>1. /\ stage = "running" /\ saves < MaxSaves /\ saves' = saves + 1
          /\ draft' = [ver |-> saves + 1, config |-> config]
          /\ UNCHANGED <<stage, serving, active, pc, local, views>>
      BY <2>2 DEF SaveDraft, Idle
    <3>2. saves' \in 0..MaxSaves /\ draft' \in Stamp /\ draft'.ver = saves'
      BY <2>0, <3>1 DEF Inv, Typed, Stamp
    <3>3. \A n \in 0..MaxSaves : n <= saves => n <= saves'
      BY <2>0, <3>1 DEF Inv, Typed
    <3>4. Typed'
      BY <3>1, <3>2 DEF Inv, Typed
    <3>5. active.ver \in 0..MaxSaves /\ \A d \in Callers : local[d].ver \in 0..MaxSaves
      BY DEF Inv, Typed, Stamp
    <3>6. QED
      BY <3>1, <3>3, <3>4, <3>5
         DEF Inv, NotYet, Running, Copies, SnapshotCoherent, Sound
  <2>3. ASSUME NEW c \in Callers, ActivateRead(c) PROVE Inv'
    <3>1. /\ stage = "running" /\ Validate(draft.config)
          /\ pc' = [pc EXCEPT ![c] = "activate"] /\ local' = [local EXCEPT ![c] = draft]
          /\ UNCHANGED <<stage, serving, active, draft, saves, views>>
      BY <2>3 DEF ActivateRead, Idle
    <3>2. Sound(draft)
      BY <2>0, <3>1 DEF Inv, Typed, Sound
    <3>3. Typed'
      BY <3>1 DEF Inv, Typed
    <3>4. QED
      BY <3>1, <3>2, <3>3
         DEF Inv, Typed, NotYet, Running, Copies, SnapshotCoherent, Sound
  <2>4. ASSUME NEW c \in Callers, ActivateWrite(c) PROVE Inv'
    <3>1. Sound(local[c]) /\ stage = "running"
      BY <2>4 DEF ActivateWrite, Inv, Copies, NotYet
    <3>2. QED
      BY <2>4, <3>1
         DEF ActivateWrite, Inv, Typed, NotYet, Running, Copies, SnapshotCoherent, Sound
  <2>5. ASSUME NEW c \in Callers, SnapshotRead(c) PROVE Inv'
    <3>1. /\ stage = "running"
          /\ pc' = [pc EXCEPT ![c] = "snapshot"] /\ local' = [local EXCEPT ![c] = active]
          /\ UNCHANGED <<stage, serving, active, draft, saves, views>>
      BY <2>5 DEF SnapshotRead, Idle, Stored, SnapshotOrder
    <3>2. Sound(active)
      BY <3>1 DEF Inv, Running
    <3>3. Typed'
      BY <3>1 DEF Inv, Typed
    <3>4. QED
      BY <3>1, <3>2, <3>3
         DEF Inv, Typed, NotYet, Running, Copies, SnapshotCoherent, Sound
  <2>6. ASSUME NEW c \in Callers, SnapshotFinish(c) PROVE Inv'
    <3> DEFINE v0 == [x \in {"active", "draft"} |->
                        IF x = SnapshotOrder[1] THEN local[c] ELSE Stored(x)]
    <3>1. v0.active = local[c] /\ v0.draft = draft
      BY DEF SnapshotOrder, Stored
    <3>2. /\ pc[c] = "snapshot" /\ views' = views \cup {v0}
          /\ pc' = [pc EXCEPT ![c] = "idle"]
          /\ UNCHANGED <<stage, serving, active, draft, saves, local>>
      BY <2>6 DEF SnapshotFinish
    <3> HIDE DEF v0
    <3>3. Sound(local[c]) /\ stage = "running"
      BY <3>2 DEF Inv, Copies, NotYet
    <3>4. Typed'
      BY <3>1, <3>2 DEF Inv, Typed
    <3>5. SnapshotCoherent'
      BY <3>1, <3>2, <3>3 DEF Inv, Typed, SnapshotCoherent, Sound
    <3>6. QED
      BY <3>2, <3>3, <3>4, <3>5 DEF Inv, Typed, NotYet, Running, Copies, Sound
  <2>7. CASE Refused \/ UNCHANGED vars
    BY <2>7 DEF Refused, vars, Inv, Typed, NotYet, Running, Copies, SnapshotCoherent, Sound
  <2>8. QED
    BY <2>1, <2>2, <2>3, <2>4, <2>5, <2>6, <2>7 DEF Next
<1>3. QED
  BY <1>1, <1>2, PTL DEF Spec

(* The type invariant. *)
THEOREM TypeCorrect == Spec => []TypeOK
<1>1. Inv => TypeOK
  BY DEF Inv, Typed, TypeOK, IsStamped, Stamp
<1>2. QED
  BY <1>1, InvHolds, PTL

(* ActiveIsUsable: neither the environment nor a draft that is replaced    *)
(* while it is being activated gets a configuration past validate, and the *)
(* gateway is built from no configuration that build_protocols refuses.    *)
THEOREM OnlyUsableIsActive == Spec => []ActiveIsUsable
<1>1. Inv => ActiveIsUsable
  BY ValidIsUsable DEF Inv, Typed, Running, Sound, Stamp, ActiveIsUsable
<1>2. QED
  BY <1>1, InvHolds, PTL

(* SnapshotCoherent: copying active before draft, without a lock over      *)
(* both, never shows an active configuration newer than the draft.         *)
THEOREM SnapshotsCohere == Spec => []SnapshotCoherent
BY InvHolds, PTL DEF Inv

=============================================================================
