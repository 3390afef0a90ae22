----------------------------- MODULE RateLimit -----------------------------
(***************************************************************************)
(* RateLimitMiddleware (src/src/core/middleware/rate_limit.rs).            *)
(*                                                                         *)
(* `limits` maps each tracked client key to the timestamps of the requests *)
(* it was granted.  Timestamps are dropped lazily: those of a key when     *)
(* that key asks, those of all keys when a new key arrives and the map is  *)
(* full.  The whole of is_rate_limited runs under one mutex and is one     *)
(* action; its clock is read after the mutex is taken.                     *)
(*                                                                         *)
(* A timestamp is represented by the grant that recorded it, so two equal  *)
(* Instants in a Vec stay two elements.                                    *)
(***************************************************************************)
EXTENDS Integers, FiniteSets

CONSTANTS
    Clients,     \* rate-limit keys: remote IPs, or the shared "global" key
    Limit,       \* requests_per_window
    Window,      \* window_secs
    MaxTracked,  \* MAX_TRACKED_CLIENTS
    MaxTime,     \* bound: the clock stops here
    MaxGrants    \* bound: requests let through

(* GatewayConfig::validate refuses a zero limit and a zero window. *)
ASSUME RateLimitAssumption ==
    /\ Limit \in Nat \ {0}
    /\ Window \in Nat \ {0}
    /\ MaxTracked \in Nat
    /\ MaxTime \in Nat
    /\ MaxGrants \in Nat

VARIABLES
    now,        \* Instant::now()
    tracked,    \* the keys of `limits`
    stamps,     \* the Vec of each key; empty for a key not in the map
    grants,     \* history: every request let through
    issued,     \* history: how many those are
    reply       \* history: the last decision

vars == <<now, tracked, stamps, grants, issued, reply>>

(* The promise, over the history variables. *)
Promise == INSTANCE SlidingWindow
    WITH now <- now, grants <- grants, issued <- issued, reply <- reply

Grant == [n : 1..MaxGrants, key : Clients, at : 0..MaxTime]
NewGrant(k) == [n |-> issued + 1, key |-> k, at |-> now]

(* The type invariant.  (That a key outside the map has no timestamps      *)
(* comes with writing the map as its keys and their values.)               *)
TypeOK ==
    /\ now \in 0..MaxTime
    /\ issued \in 0..MaxGrants
    /\ grants \in SUBSET Grant
    /\ tracked \in SUBSET Clients
    /\ stamps \in [Clients -> SUBSET grants]
    /\ \A k \in Clients : k \notin tracked => stamps[k] = {}

Init ==
    /\ now = 0
    /\ tracked = {}
    /\ stamps = [k \in Clients |-> {}]
    /\ grants = {} /\ issued = 0
    /\ reply = [key |-> "none", allowed |-> FALSE]

(* The age test, and a slip that keeps one instant too many. *)
LiveTooLong(S) == {g \in S : now - g.at <= Window + 1}
Live(S) == {g \in S : now - g.at <= Window}

(* The pass over all buckets that a new key triggers in a full map, and a  *)
(* slip that counts the map one too late.                                  *)
FullTooLate(k) == k \notin tracked /\ Cardinality(tracked) > MaxTracked
Full(k) == k \notin tracked /\ Cardinality(tracked) >= MaxTracked

(* Slip: a full map is cleared instead of swept. *)
SweptCleared(k) == IF Full(k) THEN [j \in Clients |-> {}] ELSE stamps

Swept(k) == IF Full(k) THEN [j \in Clients |-> Live(stamps[j])] ELSE stamps
Kept(k) == IF Full(k) THEN {j \in tracked : Live(stamps[j]) # {}} ELSE tracked

Fresh(k) == Live(Swept(k)[k])

(* limits.entry(key).or_default() inserts the key on both paths. *)
Allow(k) ==
    /\ Cardinality(Fresh(k)) < Limit
    /\ issued < MaxGrants
    /\ issued' = issued + 1
    /\ grants' = grants \cup {NewGrant(k)}
    /\ stamps' = [Swept(k) EXCEPT ![k] = Fresh(k) \cup {NewGrant(k)}]
    /\ tracked' = Kept(k) \cup {k}
    /\ reply' = [key |-> k, allowed |-> TRUE]
    /\ now' = now

(* Slip: the timestamp is pushed before the test, so a refusal counts too. *)
RejectPushed(k) ==
    /\ Cardinality(Fresh(k)) >= Limit
    /\ stamps' = [Swept(k) EXCEPT ![k] = Fresh(k) \cup {NewGrant(k)}]
    /\ tracked' = Kept(k) \cup {k}
    /\ reply' = [key |-> k, allowed |-> FALSE]
    /\ UNCHANGED <<now, grants, issued>>

Reject(k) ==
    /\ Cardinality(Fresh(k)) >= Limit
    /\ stamps' = [Swept(k) EXCEPT ![k] = Fresh(k)]
    /\ tracked' = Kept(k) \cup {k}
    /\ reply' = [key |-> k, allowed |-> FALSE]
    /\ UNCHANGED <<now, grants, issued>>

Tick ==
    /\ now < MaxTime
    /\ now' = now + 1
    /\ UNCHANGED <<tracked, stamps, grants, issued, reply>>

Next == Tick \/ \E k \in Clients : Allow(k) \/ Reject(k)

Spec == Init /\ [][Next]_vars

-----------------------------------------------------------------------------
(* Properties *)

(* In no closed interval of Window time units, wherever it starts, is a    *)
(* client granted more than Limit requests.                                *)
WindowBound ==
    \A k \in Clients, s \in 0..MaxTime :
        Cardinality({g \in grants : g.key = k /\ s <= g.at /\ g.at <= s + Window})
            <= Limit

(* What a client can make the limiter remember is bounded, however often   *)
(* it asks and however long its Vec goes unswept: refused requests leave   *)
(* no timestamp, and none is added to a Vec before its old ones are gone.  *)
VecsBounded == \A k \in Clients : Cardinality(stamps[k]) <= Limit

(* Lazy pruning and eviction of other clients' buckets never change an     *)
(* answer: the middleware implements the sliding window over the full      *)
(* history, so it neither forgets a request that still counts nor refuses  *)
(* one because of a timestamp that no longer does.                         *)
ImplementsSlidingWindow == Promise!Spec

Overgrows == tracked' \ tracked # {} /\ Cardinality(tracked') > MaxTracked
AllLiveNext == \A k \in tracked' : Live(stamps[k])' # {}

(* The map outgrows MAX_TRACKED_CLIENTS only by clients that all have a    *)
(* request in the window: what the sweep can reclaim, it reclaims.         *)
GrowsOnlyWhenLive ==
    [][Overgrows => AllLiveNext]_vars

=============================================================================
