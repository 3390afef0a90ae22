---------------------------- MODULE ConfigStore ----------------------------
(***************************************************************************)
(* The configuration, from the file and the environment into the running   *)
(* gateway (GatewayConfig::load and create_gateway), and its drafts:       *)
(* AdminConfigStore of src/src/admin/config_store.rs and the admin         *)
(* handlers that use it.                                                   *)
(*                                                                         *)
(* active and draft have a lock each, taken one at a time: an activation   *)
(* copies the draft under one and stores it under the other, a snapshot    *)
(* copies first active and then draft.  Callers run in parallel.           *)
(***************************************************************************)
EXTENDS Config, FiniteSets

CONSTANTS
    Callers,
    Files,       \* what the configuration file may contain
    Environments,\* what the environment may override, see Settings
    Drafts,      \* configurations given to save_draft
    MaxSaves     \* bound: how often a draft is saved

ASSUME StoreAssumption ==
    /\ Files \subseteq Configs /\ Drafts \subseteq Configs
    /\ Environments \subseteq Settings
    /\ MaxSaves \in Nat

(* What the store holds: a configuration, and which save it comes from     *)
(* (0: the one the gateway was started with).                              *)
Stamped(v, c) == [ver |-> v, config |-> c]

VARIABLES
    stage,       \* of the process: "boot", "refused" or "running"
    serving,     \* what the gateway was built from; never changes
    active, draft,
    saves,       \* drafts saved so far
    pc,          \* "idle", or the second half of an operation: "activate", "snapshot"
    local,       \* what the first half copied
    views        \* the snapshots returned

vars == <<stage, serving, active, draft, saves, pc, local, views>>

IsStamped(x) == x.ver \in 0..MaxSaves /\ x.config \in Configs

(* The type invariant: the draft is the last one saved. *)
TypeOK ==
    /\ stage \in {"boot", "refused", "running"}
    /\ serving \in Configs
    /\ IsStamped(active) /\ IsStamped(draft) /\ draft.ver = saves
    /\ pc \in [Callers -> {"idle", "activate", "snapshot"}]
    /\ \A c \in Callers : IsStamped(local[c])
    /\ \A v \in views : IsStamped(v.active) /\ IsStamped(v.draft)

(* Before load() the configuration is the file's. *)
Init ==
    /\ stage = "boot"
    /\ serving \in Files
    /\ active = Stamped(0, serving) /\ draft = active
    /\ saves = 0
    /\ pc = [c \in Callers |-> "idle"]
    /\ local = [c \in Callers |-> active]
    /\ views = {}

(* Slip: what the environment overrides is not validated again. *)
AcceptsFileOnly(file, env) == Validate(file) /\ file.protocols

(* load() validates the file and, with the overrides in, the result;       *)
(* create_gateway refuses protocols it does not know.                      *)
Accepts(file, env) ==
    /\ Validate(file)
    /\ Validate(Override(file, env))
    /\ file.protocols

(* main: load, and build the gateway and its store from what was loaded. *)
Boot(env) ==
    /\ stage = "boot"
    /\ IF Accepts(serving, env)
       THEN /\ stage' = "running"
            /\ serving' = Override(serving, env)
            /\ active' = Stamped(0, serving') /\ draft' = active'
            /\ local' = [c \in Callers |-> active']
       ELSE /\ stage' = "refused"
            /\ UNCHANGED <<serving, active, draft, local>>
    /\ UNCHANGED <<saves, pc, views>>

Idle(c) == stage = "running" /\ pc[c] = "idle"

(* save_draft takes any configuration (the store's tests give it an        *)
(* invalid one); admin_save_draft_config calls it with valid ones only.    *)
SaveDraft(c, config) ==
    /\ Idle(c) /\ saves < MaxSaves
    /\ saves' = saves + 1
    /\ draft' = Stamped(saves + 1, config)
    /\ UNCHANGED <<stage, serving, active, pc, local, views>>

(* activate_draft: copy the draft, validate the copy ...                   *)
ActivateRead(c) ==
    /\ Idle(c) /\ Validate(draft.config)
    /\ pc' = [pc EXCEPT ![c] = "activate"] /\ local' = [local EXCEPT ![c] = draft]
    /\ UNCHANGED <<stage, serving, active, draft, saves, views>>

(* ... and store it.  The draft may have been replaced in the meantime.    *)
ActivateWrite(c) ==
    /\ pc[c] = "activate"
    /\ active' = local[c]
    /\ pc' = [pc EXCEPT ![c] = "idle"]
    /\ UNCHANGED <<stage, serving, draft, saves, local, views>>

(* Slip: a snapshot copies the draft first. *)
SnapshotOrderSwapped == <<"draft", "active">>
(* snapshot copies active first, then draft. *)
SnapshotOrder == <<"active", "draft">>

Stored(x) == IF x = "active" THEN active ELSE draft

SnapshotRead(c) ==
    /\ Idle(c)
    /\ pc' = [pc EXCEPT ![c] = "snapshot"]
    /\ local' = [local EXCEPT ![c] = Stored(SnapshotOrder[1])]
    /\ UNCHANGED <<stage, serving, active, draft, saves, views>>

SnapshotFinish(c) ==
    /\ pc[c] = "snapshot"
    /\ views' = views \cup {[x \in {"active", "draft"} |->
                                IF x = SnapshotOrder[1] THEN local[c] ELSE Stored(x)]}
    /\ pc' = [pc EXCEPT ![c] = "idle"]
    /\ UNCHANGED <<stage, serving, active, draft, saves, local>>

(* A refused configuration ends main with the error. *)
Refused == stage = "refused" /\ UNCHANGED vars

Next ==
    \/ Refused
    \/ \E env \in Environments : Boot(env)
    \/ \E c \in Callers :
        \/ \E config \in Drafts : SaveDraft(c, config)
        \/ ActivateRead(c) \/ ActivateWrite(c)
        \/ SnapshotRead(c) \/ SnapshotFinish(c)

Spec == Init /\ [][Next]_vars

-----------------------------------------------------------------------------
(* Properties *)

(* The gateway runs on, and the admin API reports as active, only what the *)
(* parts can work with: what validate accepts, the limiter, router,        *)
(* proxies, WebSocket backend, MQTT client and listeners accept too, and   *)
(* no path around it exists, whether through the environment or through a  *)
(* draft replaced during its activation.  Exempt are the rest of an        *)
(* address behind its scheme and the wildcards of a topic, which validate  *)
(* does not look at (Righted).  Protocols that build_protocols refuses are *)
(* never run on, but a draft that enables one can become active.           *)
ActiveIsUsable ==
    stage = "running" =>
        /\ Usable(serving) /\ serving.protocols
        /\ Usable(active.config)

(* What admin_config shows is coherent though it is read in two steps: the *)
(* active configuration it shows is valid and no newer than the draft next *)
(* to it, whatever activations and saves run in between.                   *)
SnapshotCoherent ==
    \A v \in views : Validate(v.active.config) /\ v.active.ver <= v.draft.ver

=============================================================================
