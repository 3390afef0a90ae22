--------------------------- MODULE SlidingWindow ---------------------------
(***************************************************************************)
(* What the rate-limit middleware promises: a request of a client is let   *)
(* through exactly when fewer than Limit requests of that client were let  *)
(* through during the last Window time units, the boundary included.  The  *)
(* promise is stated over the whole history; it knows no buckets, no       *)
(* pruning and no bound on the number of clients.                          *)
(***************************************************************************)
EXTENDS Integers, FiniteSets

CONSTANTS
    Clients,    \* rate-limit keys: remote IPs, or the shared "global" key
    Limit,      \* requests_per_window
    Window,     \* window_secs
    MaxTime,    \* bound: the clock stops here
    MaxGrants   \* bound: requests let through

VARIABLES
    now,        \* the monotonic clock
    grants,     \* every request let through so far
    issued,     \* how many those are
    reply       \* the last decision

(* The number n tells apart requests of one client at one instant. *)
Grant == [n : 1..MaxGrants, key : Clients, at : 0..MaxTime]
NoReply == [key |-> "none", allowed |-> FALSE]

Recent(k) == {g \in grants : g.key = k /\ now - g.at <= Window}

NewGrant(k) == [n |-> issued + 1, key |-> k, at |-> now]

Init == now = 0 /\ grants = {} /\ issued = 0 /\ reply = NoReply

Allow(k) ==
    /\ Cardinality(Recent(k)) < Limit
    /\ issued < MaxGrants
    /\ issued' = issued + 1
    /\ grants' = grants \cup {NewGrant(k)}
    /\ reply' = [key |-> k, allowed |-> TRUE]
    /\ now' = now

Reject(k) ==
    /\ Cardinality(Recent(k)) >= Limit
    /\ reply' = [key |-> k, allowed |-> FALSE]
    /\ UNCHANGED <<now, grants, issued>>

Tick == now < MaxTime /\ now' = now + 1 /\ UNCHANGED <<grants, issued, reply>>

Next == Tick \/ \E k \in Clients : Allow(k) \/ Reject(k)

Spec == Init /\ [][Next]_<<now, grants, issued, reply>>

=============================================================================
