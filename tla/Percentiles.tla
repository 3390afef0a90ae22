---------------------------- MODULE Percentiles ----------------------------
(***************************************************************************)
(* The latency percentiles of the dashboard: get_percentiles and           *)
(* percentile of src/src/admin/store.rs, in whole numbers.  The code       *)
(* computes ceil(p / 100.0 * n) in f64; for the three percentiles and up   *)
(* to the 10000 latencies it keeps, that is the integer taken here.        *)
(***************************************************************************)
EXTENDS Naturals, Sequences, FiniteSets, TLC

NearestRank(p, n) == (p * n + 99) \div 100

(* rank.saturating_sub(1).min(n - 1), counted from 1. *)
Clamped(rank, n) == IF rank = 0 THEN 1 ELSE IF rank > n THEN n ELSE rank

Percentile(sorted, p) ==
    LET n == Len(sorted)
    IN IF n = 0 THEN 0 ELSE sorted[Clamped(NearestRank(p, n), n)]

GetPercentiles(latencies) ==
    LET sorted == SortSeq(latencies, LAMBDA a, b : a < b)
    IN [p \in {50, 95, 99} |-> Percentile(sorted, p)]

(* What a percentile means, without sorting: the least latency that at     *)
(* least p of 100 requests did not exceed.                                 *)
AtMost(latencies, v) == Cardinality({i \in DOMAIN latencies : latencies[i] <= v})

IsPercentile(v, latencies, p) ==
    LET n == Len(latencies)
    IN /\ \E i \in DOMAIN latencies : latencies[i] = v
       /\ 100 * AtMost(latencies, v) >= p * n
       /\ \A i \in DOMAIN latencies :
             latencies[i] < v => 100 * AtMost(latencies, latencies[i]) < p * n

(* Short sequences in every order and with every repetition, and lengths   *)
(* around the points where 5% and 1% of the requests become one request.   *)
Short == UNION {[1..n -> 0..3] : n \in 1..4}
Long == {[i \in 1..n |-> (7 * i) % n] : n \in {19, 20, 21, 99, 100, 101, 200}}

(* get_percentiles returns the percentiles of what it was given, the       *)
(* median of two being the lower one.                                      *)
ASSUME PercentilesCorrect ==
    \A latencies \in Short \cup Long :
        \A p \in {50, 95, 99} :
            IsPercentile(GetPercentiles(latencies)[p], latencies, p)

ASSUME NoRequests == \A p \in {50, 95, 99} : GetPercentiles(<<>>)[p] = 0

=============================================================================
