--------------------------- MODULE MetricsProofs ---------------------------
(***************************************************************************)
(* Proofs about Metrics, for any set of requests, finite or not, and any   *)
(* capacity of the stores; and, at the end, about the percentile taken of  *)
(* any latencies.                                                          *)
(***************************************************************************)
EXTENDS Metrics, Percentiles, FiniteSetTheorems, SequenceTheorems, WellFoundedInduction, TLAPS

Bucket == [sec : 0..MaxClock, count : Nat, errs : Nat]
Subscriber == [on : BOOLEAN, from : Nat, pos : Nat, lagged : BOOLEAN]
Report == [stage : {"none", "total", "errors"}, total : Nat, errors : Nat]

LEMMA Constants ==
    /\ RingCap \in Nat \ {0} /\ BucketCap \in Nat \ {0} /\ LatencyCap \in Nat \ {0}
    /\ ChannelCap \in Nat \ {0} /\ RpsWindow \in Nat \ {0} /\ RpsWindow <= BucketCap
    /\ MaxClock \in Nat /\ Failing \subseteq Requests /\ Matched \subseteq Requests
BY MetricsAssumption DEF MetricsAssumption

(* TypeOK, one conjunct for each variable. *)
Typed ==
      /\ clock \in 0..MaxClock /\ late \in BOOLEAN
      /\ pc \in [Requests -> Phase] /\ gone \in SUBSET Requests
      /\ id \in [Requests -> Nat] /\ sec \in [Requests -> 0..MaxClock]
      /\ nextId \in Nat /\ total \in Nat /\ errors \in Nat
      /\ codes \in [{"ok", "err"} -> Nat] /\ routes \in [{"total", "errs"} -> Nat]
      /\ buckets \in Seq(Bucket) /\ Len(buckets) <= BucketCap
      /\ latencies \in Seq(Requests) /\ Len(latencies) <= LatencyCap
      /\ log \in Seq(Requests) /\ Len(log) <= RingCap
      /\ sent \in Seq(Requests) /\ delivered \in Seq(Requests)
      /\ sub \in Subscriber /\ ticker \in 0..Idle /\ report \in Report

LEMMA Types == TypeOK <=> Typed
BY DEF Typed, TypeOK, Bucket, Subscriber, Report

LEMMA PhaseNames ==
    Phase = {"idle", "stamp", "total", "errors", "status", "route",
             "bucket", "latency", "log", "send", "done"}
BY DEF Phase, Phases

(* Appending to a bounded store. *)
LEMMA Pushed ==
    ASSUME NEW S, NEW s \in Seq(S), NEW x \in S, NEW cap \in Nat \ {0}, Len(s) <= cap
    PROVE  /\ Last(Append(s, x), cap) \in Seq(S)
           /\ Len(s) < cap =>
                 /\ Last(Append(s, x), cap) = Append(s, x)
                 /\ Len(Last(Append(s, x), cap)) = Len(s) + 1
           /\ Len(s) = cap =>
                 /\ Last(Append(s, x), cap) = Tail(Append(s, x))
                 /\ Len(Last(Append(s, x), cap)) = cap
           /\ Len(Last(Append(s, x), cap)) <= cap
<1>1. /\ Append(s, x) \in Seq(S) /\ Len(Append(s, x)) = Len(s) + 1 /\ Len(s) \in Nat
      /\ Append(s, x) # <<>>
  OBVIOUS
<1>2. CASE Len(s) < cap
  <2>1. Last(Append(s, x), cap) = Append(s, x)
    BY <1>1, <1>2 DEF Last
  <2>2. QED
    BY <1>1, <1>2, <2>1
<1>3. CASE Len(s) = cap
  <2>1. Last(Append(s, x), cap) = Tail(Append(s, x))
    BY <1>1, <1>3 DEF Last
  <2>2. Tail(Append(s, x)) \in Seq(S) /\ Len(Tail(Append(s, x))) = Len(Append(s, x)) - 1
    BY <1>1
  <2>3. QED
    BY <1>1, <1>3, <2>1, <2>2
<1>4. QED
  BY <1>1, <1>2, <1>3

(* Adding to the last bucket. *)
Bumped(bs, e) ==
    [bs EXCEPT ![Len(bs)] = NewBucket(@.sec, @.count + 1, @.errs + e)]

LEMMA BumpedType ==
    ASSUME NEW bs \in Seq(Bucket), bs # <<>>, NEW e \in Nat
    PROVE  /\ Bumped(bs, e) \in Seq(Bucket) /\ Len(Bumped(bs, e)) = Len(bs)
           /\ \A i \in DOMAIN bs :
                 /\ Bumped(bs, e)[i].sec = bs[i].sec
                 /\ Bumped(bs, e)[i].count = bs[i].count + IF i = Len(bs) THEN 1 ELSE 0
<1> DEFINE n == Len(bs)
<1>1. n \in Nat \ {0} /\ n \in DOMAIN bs /\ bs[n] \in Bucket /\ DOMAIN bs = 1..n
  BY EmptySeq
<1>2. PICK x : x = bs[n]
  OBVIOUS
<1>3. x \in Bucket /\ x.sec \in 0..MaxClock /\ x.count \in Nat /\ x.errs \in Nat
  BY <1>1, <1>2 DEF Bucket
<1> DEFINE b == NewBucket(x.sec, x.count + 1, x.errs + e)
<1>4. Bumped(bs, e) = [bs EXCEPT ![n] = b]
  BY <1>1, <1>2 DEF Bumped
<1>5. b \in Bucket /\ b.sec = x.sec /\ b.count = x.count + 1
  BY <1>3 DEF Bucket, NewBucket
<1> HIDE DEF b
<1>6. /\ Bumped(bs, e) \in Seq(Bucket) /\ Len(Bumped(bs, e)) = Len(bs)
      /\ Bumped(bs, e)[n] = b
      /\ \A i \in DOMAIN bs : i # n => Bumped(bs, e)[i] = bs[i]
  BY <1>1, <1>4, <1>5
<1>7. \A i \in DOMAIN bs : bs[i] \in Bucket /\ bs[i].count \in Nat
  <2>1. \A i \in DOMAIN bs : bs[i] \in Bucket
    OBVIOUS
  <2>2. QED
    BY <2>1 DEF Bucket
<1>8. ASSUME NEW i \in DOMAIN bs
      PROVE  /\ Bumped(bs, e)[i].sec = bs[i].sec
             /\ Bumped(bs, e)[i].count = bs[i].count + IF i = Len(bs) THEN 1 ELSE 0
  <2>1. CASE i = n
    BY <1>2, <1>5, <1>6, <2>1
  <2>2. CASE i # n
    BY <1>6, <1>7, <2>2
  <2>3. QED
    BY <2>1, <2>2
<1>9. QED
  BY <1>6, <1>8

LEMMA OneIsNat == \A b \in BOOLEAN : One(b) \in Nat
BY DEF One

-----------------------------------------------------------------------------
LEMMA TypeHolds == Spec => []Typed
<1> USE Constants
<1>1. Init => Typed
  <2> SUFFICES ASSUME Init PROVE Typed
    OBVIOUS
  <2> USE DEF Init
  <2>1. pc \in [Requests -> Phase]
    BY PhaseNames
  <2>2. late \in BOOLEAN
    BY Zenon
  <2>3. sub \in Subscriber /\ report \in Report
    BY DEF Subscriber, Report
  <2>4. /\ codes \in [{"ok", "err"} -> Nat] /\ routes \in [{"total", "errs"} -> Nat]
        /\ id \in [Requests -> Nat] /\ sec \in [Requests -> 0..MaxClock]
    OBVIOUS
  <2>5. /\ buckets \in Seq(Bucket) /\ Len(buckets) <= BucketCap
        /\ latencies \in Seq(Requests) /\ Len(latencies) <= LatencyCap
        /\ log \in Seq(Requests) /\ Len(log) <= RingCap
        /\ sent \in Seq(Requests) /\ delivered \in Seq(Requests)
    OBVIOUS
  <2>6. clock \in 0..MaxClock /\ ticker \in 0..Idle /\ gone \in SUBSET Requests
    BY DEF Idle
  <2>7. QED
    BY <2>1, <2>2, <2>3, <2>4, <2>5, <2>6 DEF Typed
<1>2. Typed /\ [Next]_vars => Typed'
  <2> SUFFICES ASSUME Typed, [Next]_vars PROVE Typed'
    OBVIOUS
  <2> USE DEF recording, counters, stores, stream
  <2>1. ASSUME NEW r \in Requests, TakeId(r) PROVE Typed'
    BY <2>1, PhaseNames, SMTT(40) DEF TakeId, Goto, Typed
  <2>2. ASSUME NEW r \in Requests, Stamp(r) PROVE Typed'
    BY <2>2, PhaseNames DEF Stamp, Goto, Typed
  <2>3. ASSUME NEW r \in Requests, CountTotal(r) PROVE Typed'
    BY <2>3, PhaseNames, SMTT(40) DEF CountTotal, Goto, Typed
  <2>4. ASSUME NEW r \in Requests, CountError(r) PROVE Typed'
    BY <2>4, PhaseNames, SMTT(40) DEF CountError, Goto, Typed
  <2>5. ASSUME NEW r \in Requests, CountStatus(r) PROVE Typed'
    <3>1. codes' \in [{"ok", "err"} -> Nat]
      <4>1. PICK c \in {"ok", "err"} : codes' = [codes EXCEPT ![c] = @ + 1]
        BY <2>5 DEF CountStatus
      <4>2. codes \in [{"ok", "err"} -> Nat]
        BY DEF Typed
      <4>3. QED
        BY <4>1, <4>2
    <3>2. QED
      BY <2>5, <3>1, PhaseNames DEF CountStatus, Goto, Typed
  <2>6. ASSUME NEW r \in Requests, CountRoute(r) PROVE Typed'
    <3>1. routes' \in [{"total", "errs"} -> Nat]
      <4>1. /\ routes["total"] \in Nat /\ routes["errs"] \in Nat /\ One(IsError(r)) \in Nat
        BY DEF Typed, One
      <4>2. QED
        BY <2>6, <4>1 DEF CountRoute
    <3>2. QED
      BY <2>6, <3>1, PhaseNames DEF CountRoute, Goto, Typed
  <2>7. ASSUME NEW r \in Requests, CountBucket(r) PROVE Typed'
    <3> DEFINE e == One(IsError(r))
    <3>1. e \in Nat /\ NewBucket(sec[r], 1, e) \in Bucket
      BY DEF One, NewBucket, Bucket, Typed
    <3> HIDE DEF e
    <3>2. /\ pc' \in [Requests -> Phase]
          /\ buckets' = IF LastIsOf(sec[r]) THEN Bumped(buckets, e)
                        ELSE Last(Append(buckets, NewBucket(sec[r], 1, e)), BucketCap)
      BY <2>7, PhaseNames DEF CountBucket, Goto, Bumped, e, Typed
    <3>3. buckets' \in Seq(Bucket) /\ Len(buckets') <= BucketCap
      <4>1. CASE LastIsOf(sec[r])
        BY <3>1, <3>2, <4>1, BumpedType DEF LastIsOf, Typed
      <4>2. CASE ~LastIsOf(sec[r])
        BY <3>1, <3>2, <4>2, Pushed DEF Typed
      <4>3. QED
        BY <4>1, <4>2
    <3>4. QED
      BY <2>7, <3>2, <3>3 DEF CountBucket, Typed
  <2>8. ASSUME NEW r \in Requests, KeepLatency(r) PROVE Typed'
    <3>1. latencies' \in Seq(Requests) /\ Len(latencies') <= LatencyCap
      BY <2>8, Pushed DEF KeepLatency, Typed
    <3>2. QED
      BY <2>8, <3>1, PhaseNames DEF KeepLatency, Goto, Typed
  <2>9. ASSUME NEW r \in Requests, AppendLog(r) PROVE Typed'
    <3>1. log' \in Seq(Requests) /\ Len(log') <= RingCap
      BY <2>9, Pushed DEF AppendLog, Typed
    <3>2. QED
      BY <2>9, <3>1, PhaseNames DEF AppendLog, Goto, Typed
  <2>10. ASSUME NEW r \in Requests, Send(r) PROVE Typed'
    BY <2>10, PhaseNames, SMTT(40) DEF Send, Goto, Typed
  <2>11. ASSUME NEW r \in Requests, Cancel(r) PROVE Typed'
    BY <2>11 DEF Cancel, Typed
  <2>12. CASE TickRead
    BY <2>12 DEF TickRead, Typed, Idle
  <2>13. CASE TickPush
    <3>1. ticker \in 0..MaxClock /\ ticker' = Idle
      BY <2>13 DEF TickPush, Typed, Idle
    <3>2. NewBucket(ticker, 0, 0) \in Bucket
      BY <3>1 DEF NewBucket, Bucket
    <3>3. buckets' \in Seq(Bucket) /\ Len(buckets') <= BucketCap
      BY <2>13, <3>2, Pushed DEF TickPush, Typed
    <3>4. QED
      BY <2>13, <3>1, <3>3, SMTT(40) DEF TickPush, Typed, Idle
  <2>14. CASE Advance
    <3>1. late' \in BOOLEAN
      BY <2>14, Zenon DEF Advance
    <3>2. QED
      BY <2>14, <3>1, SMTT(40) DEF Advance, Typed
  <2>15. CASE ReadTotal \/ ReadErrors
    <3>1. report' \in Report
      BY <2>15, SMTT(40) DEF ReadTotal, ReadErrors, Report, Typed
    <3>2. QED
      BY <2>15, <3>1 DEF ReadTotal, ReadErrors, Typed
  <2>16. CASE Subscribe
    <3>1. sub' \in Subscriber
      BY <2>16 DEF Subscribe, Subscriber, Typed
    <3>2. QED
      BY <2>16, <3>1 DEF Subscribe, Typed
  <2>17. CASE Deliver
    <3>1. Resume + 1 \in 1..Len(sent) /\ Resume \in Nat
      <4> DEFINE n == Len(sent)
                 p == sub.pos
      <4>1. n \in Nat /\ p \in Nat /\ p < n /\ ChannelCap \in Nat \ {0}
        BY <2>17 DEF Deliver, Typed, Subscriber
      <4>2. Resume = IF n - p > ChannelCap THEN n - ChannelCap ELSE p
        BY DEF Resume, Behind
      <4> HIDE DEF n, p
      <4>3. Resume + 1 \in 1..n /\ Resume \in Nat
        BY <4>1, <4>2
      <4>4. QED
        BY <4>3 DEF n
    <3>2. sub' \in Subscriber
      <4>1. (sub.lagged \/ Behind) \in BOOLEAN
        BY Zenon
      <4>2. QED
        BY <2>17, <3>1, <4>1 DEF Deliver, Subscriber, Typed
    <3>3. delivered' \in Seq(Requests)
      <4>1. delivered' = Append(delivered, sent[Resume + 1]) /\ sent[Resume + 1] \in Requests
        <5>1. sent \in Seq(Requests)
          BY DEF Typed
        <5>2. sent[Resume + 1] \in Requests
          BY <3>1, <5>1, ElementOfSeq
        <5>3. QED
          BY <2>17, <5>2 DEF Deliver
      <4>2. QED
        BY <4>1 DEF Typed
    <3>4. QED
      BY <2>17, <3>2, <3>3 DEF Deliver, Typed
  <2>18. CASE UNCHANGED vars
    BY <2>18 DEF vars, Typed
  <2>19. QED
    BY <2>1, <2>2, <2>3, <2>4, <2>5, <2>6, <2>7, <2>8, <2>9, <2>10, <2>11, <2>12, <2>13,
       <2>14, <2>15, <2>16, <2>17, <2>18 DEF Next, RecordStep
<1>3. QED
  BY <1>1, <1>2, PTL DEF Spec

(* The type invariant; it bounds every store. *)
THEOREM TypeCorrect == Spec => []TypeOK
BY TypeHolds, Types, PTL


-----------------------------------------------------------------------------
(***************************************************************************)
(* The counters.  Each counts the recordings that are past its own step    *)
(* (and failed, or matched a route), wherever the others are and whichever *)
(* were cut off; the nesting of the counters is the nesting of those sets. *)
(***************************************************************************)
AfterTotal == {"errors", "status", "route", "bucket", "latency", "log", "send", "done"}
AfterErrors == AfterTotal \ {"errors"}
AfterStatus == AfterErrors \ {"status"}
AfterRoute == AfterStatus \ {"route"}
AfterBucket == AfterRoute \ {"bucket"}
AfterLatency == AfterBucket \ {"latency"}
AfterLog == AfterLatency \ {"log"}
AfterSend == {"done"}

Reached(P) == {r \in Requests : pc[r] \in P}

LEMMA RankOf ==
    /\ Rank("idle") = 1 /\ Rank("stamp") = 2 /\ Rank("total") = 3 /\ Rank("errors") = 4
    /\ Rank("status") = 5 /\ Rank("route") = 6 /\ Rank("bucket") = 7
    /\ Rank("latency") = 8 /\ Rank("log") = 9 /\ Rank("send") = 10 /\ Rank("done") = 11
<1> USE DEF Phases
<1>1. DOMAIN Phases = 1..11
  OBVIOUS
<1>2. Rank("idle") = 1 /\ Rank("stamp") = 2 /\ Rank("total") = 3 /\ Rank("errors") = 4
  BY <1>1 DEF Rank
<1>3. Rank("status") = 5 /\ Rank("route") = 6 /\ Rank("bucket") = 7
  BY <1>1 DEF Rank
<1>4. Rank("latency") = 8 /\ Rank("log") = 9 /\ Rank("send") = 10 /\ Rank("done") = 11
  BY <1>1 DEF Rank
<1>5. QED
  BY <1>2, <1>3, <1>4

LEMMA PastIs ==
    ASSUME Typed
    PROVE  Past("bucket") = Reached(AfterBucket) /\ Past("send") = Reached(AfterSend)
<1>1. \A p \in Phase : /\ Rank(p) > Rank("bucket") <=> p \in AfterBucket
                       /\ Rank(p) > Rank("send") <=> p \in AfterSend
  BY RankOf, PhaseNames
     DEF AfterTotal, AfterErrors, AfterStatus, AfterRoute, AfterBucket, AfterSend
<1>2. \A r \in Requests : pc[r] \in Phase
  BY DEF Typed
<1>3. QED
  BY <1>1, <1>2 DEF Past, Reached


Totals == Reached(AfterTotal)
Errored == Reached(AfterErrors) \cap Failing
Fine == Reached(AfterStatus) \ Failing
Bad == Reached(AfterStatus) \cap Failing
Routed == Reached(AfterRoute) \cap Matched
RoutedBad == Reached(AfterRoute) \cap Matched \cap Failing
Timed == Reached(AfterLatency)
Logged == Reached(AfterLog)
Told == Reached(AfterSend)

Kept(n, cap) == IF n < cap THEN n ELSE cap

Tally ==
    /\ IsFiniteSet(Totals)
    /\ total = Cardinality(Totals) /\ errors = Cardinality(Errored)
    /\ codes["ok"] = Cardinality(Fine) /\ codes["err"] = Cardinality(Bad)
    /\ routes["total"] = Cardinality(Routed) /\ routes["errs"] = Cardinality(RoutedBad)
    /\ Len(latencies) = Kept(Cardinality(Timed), LatencyCap)
    /\ Len(log) = Kept(Cardinality(Logged), RingCap)
    /\ Len(sent) = Cardinality(Told)

(* Only failing requests come by "errors", only matched ones by "route". *)
Branches == \A r \in Requests :
    (pc[r] = "errors" => r \in Failing) /\ (pc[r] = "route" => r \in Matched)

TallyInv == Typed /\ Tally /\ Branches

LEMMA OneMore ==
    ASSUME NEW S, IsFiniteSet(S), NEW x, x \notin S
    PROVE  /\ Cardinality(S) \in Nat /\ IsFiniteSet(S \cup {x})
           /\ Cardinality(S \cup {x}) = Cardinality(S) + 1
BY FS_AddElement, FS_CardinalityType

LEMMA AllFinite ==
    ASSUME IsFiniteSet(Totals)
    PROVE  /\ IsFiniteSet(Errored) /\ IsFiniteSet(Fine) /\ IsFiniteSet(Bad)
           /\ IsFiniteSet(Routed) /\ IsFiniteSet(RoutedBad)
           /\ IsFiniteSet(Timed) /\ IsFiniteSet(Logged) /\ IsFiniteSet(Told)
<1>1. /\ Errored \subseteq Totals /\ Fine \subseteq Totals /\ Bad \subseteq Totals
      /\ Routed \subseteq Totals /\ RoutedBad \subseteq Totals
      /\ Timed \subseteq Totals /\ Logged \subseteq Totals /\ Told \subseteq Totals
  BY DEF Totals, Errored, Fine, Bad, Routed, RoutedBad, Timed, Logged, Told, Reached,
         AfterTotal, AfterErrors, AfterStatus, AfterRoute, AfterBucket, AfterLatency,
         AfterLog, AfterSend
<1>2. QED
  BY <1>1, FS_Subset

(* A step of one recording moves it, and it alone, from set to set. *)
LEMMA Moves ==
    ASSUME Typed, NEW r \in Requests, NEW q \in Phase, Goto(r, q)
    PROVE  /\ pc'[r] = q /\ \A x \in Requests : x # r => pc'[x] = pc[x]
           /\ \A P : Reached(P)' = IF q \in P THEN Reached(P) \cup {r} ELSE Reached(P) \ {r}
           /\ \A P : r \in Reached(P) <=> pc[r] \in P
<1>1. /\ pc'[r] = q /\ \A x \in Requests : x # r => pc'[x] = pc[x]
  BY DEF Goto, Typed
<1>2. ASSUME NEW P
      PROVE Reached(P)' = IF q \in P THEN Reached(P) \cup {r} ELSE Reached(P) \ {r}
  BY <1>1 DEF Reached
<1>3. QED
  BY <1>1, <1>2 DEF Reached


(* The counting sets depend on pc alone. *)
LEMMA SameSets ==
    ASSUME pc' = pc
    PROVE  /\ Totals' = Totals /\ Errored' = Errored /\ Fine' = Fine /\ Bad' = Bad
           /\ Routed' = Routed /\ RoutedBad' = RoutedBad
           /\ Timed' = Timed /\ Logged' = Logged /\ Told' = Told
BY DEF Totals, Errored, Fine, Bad, Routed, RoutedBad, Timed, Logged, Told, Reached

LEMMA TallyHolds == Spec => []TallyInv
<1> USE Constants
<1>1. Init => Tally /\ Branches
  <2> SUFFICES ASSUME Init PROVE Tally /\ Branches
    OBVIOUS
  <2>1. /\ Totals = {} /\ Errored = {} /\ Fine = {} /\ Bad = {} /\ Routed = {}
        /\ RoutedBad = {} /\ Timed = {} /\ Logged = {} /\ Told = {}
    BY DEF Init, Totals, Errored, Fine, Bad, Routed, RoutedBad, Timed, Logged, Told, Reached,
       AfterTotal, AfterErrors, AfterStatus, AfterRoute, AfterBucket, AfterLatency,
       AfterLog, AfterSend
  <2>2. Cardinality({}) = 0 /\ IsFiniteSet({})
    BY FS_EmptySet
  <2>3. /\ total = 0 /\ errors = 0 /\ codes["ok"] = 0 /\ codes["err"] = 0
        /\ routes["total"] = 0 /\ routes["errs"] = 0
        /\ Len(latencies) = 0 /\ Len(log) = 0 /\ Len(sent) = 0
    BY DEF Init
  <2>4. Tally
    BY <2>1, <2>2, <2>3 DEF Tally, Kept
  <2>5. Branches
    BY DEF Init, Branches
  <2>6. QED
    BY <2>4, <2>5
<1>2. TallyInv /\ [Next]_vars => Tally' /\ Branches'
  <2> SUFFICES ASSUME TallyInv, [Next]_vars PROVE Tally' /\ Branches'
    OBVIOUS
  <2> USE DEF recording, counters, stores, stream
  <2>0. Typed /\ Tally /\ Branches /\ IsFiniteSet(Totals)
    BY DEF TallyInv, Tally
  <2>1. ASSUME NEW r \in Requests, TakeId(r) PROVE Tally' /\ Branches'
    <3>1. PICK q \in Phase : Goto(r, q) /\ pc[r] = "idle" /\ q = "stamp"
      BY <2>1, PhaseNames DEF TakeId, At, IsError, HasRoute
    <3>2. pc'[r] = q /\ \A x \in Requests : x # r => pc'[x] = pc[x]
      BY <2>0, <3>1, Moves
    <3>3. Branches'
      BY <2>0, <3>1, <3>2 DEF Branches
    <3>4. /\ Totals' = Totals /\ Errored' = Errored /\ Fine' = Fine /\ Bad' = Bad /\ Routed' = Routed
          /\ RoutedBad' = RoutedBad /\ Timed' = Timed /\ Logged' = Logged /\ Told' = Told
      BY <2>0, <3>1, <3>2 DEF Branches, Totals, Errored, Fine, Bad, Routed, RoutedBad, Timed, Logged, Told, Reached,
         AfterTotal, AfterErrors, AfterStatus, AfterRoute, AfterBucket, AfterLatency,
         AfterLog, AfterSend
    <3>5. QED
      BY <2>0, <2>1, <3>3, <3>4 DEF TakeId, Tally
  <2>2. ASSUME NEW r \in Requests, Stamp(r) PROVE Tally' /\ Branches'
    <3>1. PICK q \in Phase : Goto(r, q) /\ pc[r] = "stamp" /\ q = "total"
      BY <2>2, PhaseNames DEF Stamp, At, IsError, HasRoute
    <3>2. pc'[r] = q /\ \A x \in Requests : x # r => pc'[x] = pc[x]
      BY <2>0, <3>1, Moves
    <3>3. Branches'
      BY <2>0, <3>1, <3>2 DEF Branches
    <3>4. /\ Totals' = Totals /\ Errored' = Errored /\ Fine' = Fine /\ Bad' = Bad /\ Routed' = Routed
          /\ RoutedBad' = RoutedBad /\ Timed' = Timed /\ Logged' = Logged /\ Told' = Told
      BY <2>0, <3>1, <3>2 DEF Branches, Totals, Errored, Fine, Bad, Routed, RoutedBad, Timed, Logged, Told, Reached,
         AfterTotal, AfterErrors, AfterStatus, AfterRoute, AfterBucket, AfterLatency,
         AfterLog, AfterSend
    <3>5. QED
      BY <2>0, <2>2, <3>3, <3>4 DEF Stamp, Tally
  <2>3. ASSUME NEW r \in Requests, CountTotal(r) PROVE Tally' /\ Branches'
    <3>1. PICK q \in Phase : Goto(r, q) /\ pc[r] = "total" /\ q = IF r \in Failing THEN "errors" ELSE "status"
      BY <2>3, PhaseNames DEF CountTotal, At, IsError, HasRoute
    <3>2. pc'[r] = q /\ \A x \in Requests : x # r => pc'[x] = pc[x]
      BY <2>0, <3>1, Moves
    <3>3. Branches'
      BY <2>0, <3>1, <3>2 DEF Branches
    <3>4. /\ Errored' = Errored /\ Fine' = Fine /\ Bad' = Bad /\ Routed' = Routed /\ RoutedBad' = RoutedBad
          /\ Timed' = Timed /\ Logged' = Logged /\ Told' = Told
      BY <2>0, <3>1, <3>2 DEF Branches, Totals, Errored, Fine, Bad, Routed, RoutedBad, Timed, Logged, Told, Reached,
         AfterTotal, AfterErrors, AfterStatus, AfterRoute, AfterBucket, AfterLatency,
         AfterLog, AfterSend
    <3>5. Totals' = Totals \cup {r} /\ r \notin Totals
      BY <2>0, <3>1, <3>2 DEF Branches, Totals, Errored, Fine, Bad, Routed, RoutedBad, Timed, Logged, Told, Reached,
         AfterTotal, AfterErrors, AfterStatus, AfterRoute, AfterBucket, AfterLatency,
         AfterLog, AfterSend
    <3>6. Cardinality(Totals') = Cardinality(Totals) + 1 /\ IsFiniteSet(Totals') /\ Cardinality(Totals) \in Nat
      BY <2>0, <3>5, OneMore, AllFinite
    <3>7. QED
      BY <2>0, <2>3, <3>3, <3>4, <3>6 DEF CountTotal, Tally
  <2>4. ASSUME NEW r \in Requests, CountError(r) PROVE Tally' /\ Branches'
    <3>1. PICK q \in Phase : Goto(r, q) /\ pc[r] = "errors" /\ q = "status"
      BY <2>4, PhaseNames DEF CountError, At, IsError, HasRoute
    <3>2. pc'[r] = q /\ \A x \in Requests : x # r => pc'[x] = pc[x]
      BY <2>0, <3>1, Moves
    <3>3. Branches'
      BY <2>0, <3>1, <3>2 DEF Branches
    <3>4. /\ Totals' = Totals /\ Fine' = Fine /\ Bad' = Bad /\ Routed' = Routed /\ RoutedBad' = RoutedBad
          /\ Timed' = Timed /\ Logged' = Logged /\ Told' = Told
      BY <2>0, <3>1, <3>2 DEF Branches, Totals, Errored, Fine, Bad, Routed, RoutedBad, Timed, Logged, Told, Reached,
         AfterTotal, AfterErrors, AfterStatus, AfterRoute, AfterBucket, AfterLatency,
         AfterLog, AfterSend
    <3>5. Errored' = Errored \cup {r} /\ r \notin Errored
      BY <2>0, <3>1, <3>2 DEF Branches, Totals, Errored, Fine, Bad, Routed, RoutedBad, Timed, Logged, Told, Reached,
         AfterTotal, AfterErrors, AfterStatus, AfterRoute, AfterBucket, AfterLatency,
         AfterLog, AfterSend
    <3>6. Cardinality(Errored') = Cardinality(Errored) + 1 /\ IsFiniteSet(Errored') /\ Cardinality(Errored) \in Nat
      BY <2>0, <3>5, OneMore, AllFinite
    <3>7. QED
      BY <2>0, <2>4, <3>3, <3>4, <3>6 DEF CountError, Tally
  <2>5. ASSUME NEW r \in Requests, CountStatus(r) PROVE Tally' /\ Branches'
    <3>1. PICK q \in Phase : Goto(r, q) /\ pc[r] = "status" /\ q = IF r \in Matched THEN "route" ELSE "bucket"
      BY <2>5, PhaseNames DEF CountStatus, At, IsError, HasRoute
    <3>2. pc'[r] = q /\ \A x \in Requests : x # r => pc'[x] = pc[x]
      BY <2>0, <3>1, Moves
    <3>3. Branches'
      BY <2>0, <3>1, <3>2 DEF Branches
    <3>4. /\ Totals' = Totals /\ Errored' = Errored /\ Routed' = Routed /\ RoutedBad' = RoutedBad /\ Timed' = Timed
          /\ Logged' = Logged /\ Told' = Told
      BY <2>0, <3>1, <3>2 DEF Branches, Totals, Errored, Fine, Bad, Routed, RoutedBad, Timed, Logged, Told, Reached,
         AfterTotal, AfterErrors, AfterStatus, AfterRoute, AfterBucket, AfterLatency,
         AfterLog, AfterSend
    <3>5. CASE r \in Failing
      <4>1. Bad' = Bad \cup {r} /\ r \notin Bad /\ Fine' = Fine
        BY <3>1, <3>2, <3>5 DEF Totals, Errored, Fine, Bad, Routed, RoutedBad, Timed, Logged, Told, Reached,
         AfterTotal, AfterErrors, AfterStatus, AfterRoute, AfterBucket, AfterLatency,
         AfterLog, AfterSend
      <4>2. Cardinality(Bad') = Cardinality(Bad) + 1
        BY <2>0, <4>1, OneMore, AllFinite
      <4>3. codes'["err"] = codes["err"] + 1 /\ codes'["ok"] = codes["ok"]
        BY <2>5, <2>0, <3>5 DEF CountStatus, Typed
      <4>4. QED
        BY <2>0, <2>5, <3>3, <3>4, <4>1, <4>2, <4>3 DEF CountStatus, Tally
    <3>6. CASE r \notin Failing
      <4>1. Fine' = Fine \cup {r} /\ r \notin Fine /\ Bad' = Bad
        BY <3>1, <3>2, <3>6 DEF Totals, Errored, Fine, Bad, Routed, RoutedBad, Timed, Logged, Told, Reached,
         AfterTotal, AfterErrors, AfterStatus, AfterRoute, AfterBucket, AfterLatency,
         AfterLog, AfterSend
      <4>2. Cardinality(Fine') = Cardinality(Fine) + 1
        BY <2>0, <4>1, OneMore, AllFinite
      <4>3. codes'["ok"] = codes["ok"] + 1 /\ codes'["err"] = codes["err"]
        BY <2>5, <2>0, <3>6 DEF CountStatus, Typed
      <4>4. QED
        BY <2>0, <2>5, <3>3, <3>4, <4>1, <4>2, <4>3 DEF CountStatus, Tally
    <3>7. QED
      BY <3>5, <3>6
  <2>6. ASSUME NEW r \in Requests, CountRoute(r) PROVE Tally' /\ Branches'
    <3>1. PICK q \in Phase : Goto(r, q) /\ pc[r] = "route" /\ q = "bucket"
      BY <2>6, PhaseNames DEF CountRoute, At, IsError, HasRoute
    <3>2. pc'[r] = q /\ \A x \in Requests : x # r => pc'[x] = pc[x]
      BY <2>0, <3>1, Moves
    <3>3. Branches'
      BY <2>0, <3>1, <3>2 DEF Branches
    <3>4. /\ Totals' = Totals /\ Errored' = Errored /\ Fine' = Fine /\ Bad' = Bad /\ Timed' = Timed
          /\ Logged' = Logged /\ Told' = Told
      BY <2>0, <3>1, <3>2 DEF Branches, Totals, Errored, Fine, Bad, Routed, RoutedBad, Timed, Logged, Told, Reached,
         AfterTotal, AfterErrors, AfterStatus, AfterRoute, AfterBucket, AfterLatency,
         AfterLog, AfterSend
    <3>5. /\ Routed' = Routed \cup {r} /\ r \notin Routed /\ r \notin RoutedBad
          /\ RoutedBad' = IF r \in Failing THEN RoutedBad \cup {r} ELSE RoutedBad
      BY <2>0, <3>1, <3>2 DEF Branches, Totals, Errored, Fine, Bad, Routed, RoutedBad, Timed, Logged, Told, Reached,
         AfterTotal, AfterErrors, AfterStatus, AfterRoute, AfterBucket, AfterLatency,
         AfterLog, AfterSend
    <3>6. Cardinality(Routed') = Cardinality(Routed) + 1
      BY <2>0, <3>5, OneMore, AllFinite
    <3>7. /\ routes'["total"] = routes["total"] + 1
          /\ routes'["errs"] = routes["errs"] + IF r \in Failing THEN 1 ELSE 0
      BY <2>6 DEF CountRoute, One, IsError
    <3>8. routes'["errs"] = Cardinality(RoutedBad')
      <4>1. CASE r \in Failing
        BY <2>0, <3>5, <3>7, <4>1, OneMore, AllFinite DEF Tally
      <4>2. CASE r \notin Failing
        BY <2>0, <3>5, <3>7, <4>2 DEF Tally, Typed
      <4>3. QED
        BY <4>1, <4>2
    <3>9. QED
      BY <2>0, <2>6, <3>3, <3>4, <3>6, <3>7, <3>8 DEF CountRoute, Tally
  <2>7. ASSUME NEW r \in Requests, CountBucket(r) PROVE Tally' /\ Branches'
    <3>1. PICK q \in Phase : Goto(r, q) /\ pc[r] = "bucket" /\ q = "latency"
      BY <2>7, PhaseNames DEF CountBucket, At, IsError, HasRoute
    <3>2. pc'[r] = q /\ \A x \in Requests : x # r => pc'[x] = pc[x]
      BY <2>0, <3>1, Moves
    <3>3. Branches'
      BY <2>0, <3>1, <3>2 DEF Branches
    <3>4. /\ Totals' = Totals /\ Errored' = Errored /\ Fine' = Fine /\ Bad' = Bad /\ Routed' = Routed
          /\ RoutedBad' = RoutedBad /\ Timed' = Timed /\ Logged' = Logged /\ Told' = Told
      BY <2>0, <3>1, <3>2 DEF Branches, Totals, Errored, Fine, Bad, Routed, RoutedBad, Timed, Logged, Told, Reached,
         AfterTotal, AfterErrors, AfterStatus, AfterRoute, AfterBucket, AfterLatency,
         AfterLog, AfterSend
    <3>5. QED
      BY <2>0, <2>7, <3>3, <3>4 DEF CountBucket, Tally
  <2>8. ASSUME NEW r \in Requests, KeepLatency(r) PROVE Tally' /\ Branches'
    <3>1. PICK q \in Phase : Goto(r, q) /\ pc[r] = "latency" /\ q = "log"
      BY <2>8, PhaseNames DEF KeepLatency, At, IsError, HasRoute
    <3>2. pc'[r] = q /\ \A x \in Requests : x # r => pc'[x] = pc[x]
      BY <2>0, <3>1, Moves
    <3>3. Branches'
      BY <2>0, <3>1, <3>2 DEF Branches
    <3>4. /\ Totals' = Totals /\ Errored' = Errored /\ Fine' = Fine /\ Bad' = Bad /\ Routed' = Routed
          /\ RoutedBad' = RoutedBad /\ Logged' = Logged /\ Told' = Told
      BY <2>0, <3>1, <3>2 DEF Branches, Totals, Errored, Fine, Bad, Routed, RoutedBad, Timed, Logged, Told, Reached,
         AfterTotal, AfterErrors, AfterStatus, AfterRoute, AfterBucket, AfterLatency,
         AfterLog, AfterSend
    <3>5. Timed' = Timed \cup {r} /\ r \notin Timed
      BY <2>0, <3>1, <3>2 DEF Branches, Totals, Errored, Fine, Bad, Routed, RoutedBad, Timed, Logged, Told, Reached,
         AfterTotal, AfterErrors, AfterStatus, AfterRoute, AfterBucket, AfterLatency,
         AfterLog, AfterSend
    <3>6. Cardinality(Timed') = Cardinality(Timed) + 1 /\ IsFiniteSet(Timed') /\ Cardinality(Timed) \in Nat
      BY <2>0, <3>5, OneMore, AllFinite
    <3>7. Len(latencies') = Kept(Cardinality(Timed'), LatencyCap)
      <4>1. latencies' = Last(Append(latencies, r), LatencyCap) /\ Len(latencies) = Kept(Cardinality(Timed), LatencyCap)
        BY <2>0, <2>8 DEF KeepLatency, Tally
      <4>2. latencies \in Seq(Requests) /\ Len(latencies) <= LatencyCap /\ Len(latencies) \in Nat
        BY <2>0 DEF Typed
      <4>3. /\ Len(latencies) < LatencyCap => Len(latencies') = Len(latencies) + 1
            /\ Len(latencies) = LatencyCap => Len(latencies') = LatencyCap
        BY <4>1, <4>2, Pushed
      <4> DEFINE m == Len(latencies)
                 m1 == Len(latencies')
      <4> HIDE DEF m, m1
      <4>4. m1 = Kept(Cardinality(Timed'), LatencyCap)
        BY <3>6, <4>1, <4>2, <4>3 DEF Kept, m, m1
      <4>5. QED
        BY <4>4 DEF m1
    <3>8. QED
      BY <2>0, <2>8, <3>3, <3>4, <3>7 DEF KeepLatency, Tally
  <2>9. ASSUME NEW r \in Requests, AppendLog(r) PROVE Tally' /\ Branches'
    <3>1. PICK q \in Phase : Goto(r, q) /\ pc[r] = "log" /\ q = "send"
      BY <2>9, PhaseNames DEF AppendLog, At, IsError, HasRoute
    <3>2. pc'[r] = q /\ \A x \in Requests : x # r => pc'[x] = pc[x]
      BY <2>0, <3>1, Moves
    <3>3. Branches'
      BY <2>0, <3>1, <3>2 DEF Branches
    <3>4. /\ Totals' = Totals /\ Errored' = Errored /\ Fine' = Fine /\ Bad' = Bad /\ Routed' = Routed
          /\ RoutedBad' = RoutedBad /\ Timed' = Timed /\ Told' = Told
      BY <2>0, <3>1, <3>2 DEF Branches, Totals, Errored, Fine, Bad, Routed, RoutedBad, Timed, Logged, Told, Reached,
         AfterTotal, AfterErrors, AfterStatus, AfterRoute, AfterBucket, AfterLatency,
         AfterLog, AfterSend
    <3>5. Logged' = Logged \cup {r} /\ r \notin Logged
      BY <2>0, <3>1, <3>2 DEF Branches, Totals, Errored, Fine, Bad, Routed, RoutedBad, Timed, Logged, Told, Reached,
         AfterTotal, AfterErrors, AfterStatus, AfterRoute, AfterBucket, AfterLatency,
         AfterLog, AfterSend
    <3>6. Cardinality(Logged') = Cardinality(Logged) + 1 /\ IsFiniteSet(Logged') /\ Cardinality(Logged) \in Nat
      BY <2>0, <3>5, OneMore, AllFinite
    <3>7. Len(log') = Kept(Cardinality(Logged'), RingCap)
      <4>1. log' = Last(Append(log, r), RingCap) /\ Len(log) = Kept(Cardinality(Logged), RingCap)
        BY <2>0, <2>9 DEF AppendLog, Tally
      <4>2. log \in Seq(Requests) /\ Len(log) <= RingCap /\ Len(log) \in Nat
        BY <2>0 DEF Typed
      <4>3. /\ Len(log) < RingCap => Len(log') = Len(log) + 1
            /\ Len(log) = RingCap => Len(log') = RingCap
        BY <4>1, <4>2, Pushed
      <4> DEFINE m == Len(log)
                 m1 == Len(log')
      <4> HIDE DEF m, m1
      <4>4. m1 = Kept(Cardinality(Logged'), RingCap)
        BY <3>6, <4>1, <4>2, <4>3 DEF Kept, m, m1
      <4>5. QED
        BY <4>4 DEF m1
    <3>8. QED
      BY <2>0, <2>9, <3>3, <3>4, <3>7 DEF AppendLog, Tally
  <2>10. ASSUME NEW r \in Requests, Send(r) PROVE Tally' /\ Branches'
    <3>1. PICK q \in Phase : Goto(r, q) /\ pc[r] = "send" /\ q = "done"
      BY <2>10, PhaseNames DEF Send, At, IsError, HasRoute
    <3>2. pc'[r] = q /\ \A x \in Requests : x # r => pc'[x] = pc[x]
      BY <2>0, <3>1, Moves
    <3>3. Branches'
      BY <2>0, <3>1, <3>2 DEF Branches
    <3>4. /\ Totals' = Totals /\ Errored' = Errored /\ Fine' = Fine /\ Bad' = Bad /\ Routed' = Routed
          /\ RoutedBad' = RoutedBad /\ Timed' = Timed /\ Logged' = Logged
      BY <2>0, <3>1, <3>2 DEF Branches, Totals, Errored, Fine, Bad, Routed, RoutedBad, Timed, Logged, Told, Reached,
         AfterTotal, AfterErrors, AfterStatus, AfterRoute, AfterBucket, AfterLatency,
         AfterLog, AfterSend
    <3>5. Told' = Told \cup {r} /\ r \notin Told
      BY <2>0, <3>1, <3>2 DEF Branches, Totals, Errored, Fine, Bad, Routed, RoutedBad, Timed, Logged, Told, Reached,
         AfterTotal, AfterErrors, AfterStatus, AfterRoute, AfterBucket, AfterLatency,
         AfterLog, AfterSend
    <3>6. Cardinality(Told') = Cardinality(Told) + 1 /\ IsFiniteSet(Told') /\ Cardinality(Told) \in Nat
      BY <2>0, <3>5, OneMore, AllFinite
    <3>7. Len(sent') = Len(sent) + 1
      BY <2>0, <2>10 DEF Send, Typed
    <3>8. QED
      BY <2>0, <2>10, <3>3, <3>4, <3>6, <3>7 DEF Send, Tally
  <2>11. CASE /\ UNCHANGED <<pc, counters, latencies, log, sent>>
    BY <2>0, <2>11, SameSets DEF Tally, Branches
  <2>12. QED
    BY <2>1, <2>2, <2>3, <2>4, <2>5, <2>6, <2>7, <2>8, <2>9, <2>10, <2>11
       DEF Next, RecordStep, Cancel, TickRead, TickPush, Advance, ReadTotal, ReadErrors,
           Subscribe, Deliver, vars
<1>3. QED
  BY <1>1, <1>2, TypeHolds, PTL DEF Spec, TallyInv


LEMMA Sizes ==
    ASSUME TallyInv
    PROVE  /\ \A S \in {Totals, Errored, Fine, Bad, Routed, RoutedBad, Told} :
                 IsFiniteSet(S) /\ Cardinality(S) \in Nat
           /\ Sum(codes) = Cardinality(Reached(AfterStatus))
           /\ IsFiniteSet(Reached(AfterStatus)) /\ Cardinality(Reached(AfterStatus)) \in Nat
<1>1. IsFiniteSet(Totals)
  BY DEF TallyInv, Tally
<1>2. /\ IsFiniteSet(Errored) /\ IsFiniteSet(Fine) /\ IsFiniteSet(Bad)
      /\ IsFiniteSet(Routed) /\ IsFiniteSet(RoutedBad) /\ IsFiniteSet(Told)
  BY <1>1, AllFinite
<1>3. Fine \cup Bad = Reached(AfterStatus) /\ Fine \cap Bad = {}
  BY DEF Fine, Bad
<1>4. /\ IsFiniteSet(Fine \cup Bad)
      /\ Cardinality(Fine \cup Bad)
           = Cardinality(Fine) + Cardinality(Bad) - Cardinality(Fine \cap Bad)
  BY <1>2, FS_Union
<1>5. Cardinality({}) = 0
  BY FS_EmptySet
<1>6. Cardinality(Fine) \in Nat /\ Cardinality(Bad) \in Nat
  BY <1>2, FS_CardinalityType
<1>7. Sum(codes) = Cardinality(Fine) + Cardinality(Bad)
  BY DEF Sum, TallyInv, Tally
<1>8. Sum(codes) = Cardinality(Reached(AfterStatus))
  <2>1. Cardinality(Reached(AfterStatus))
          = Cardinality(Fine) + Cardinality(Bad) - Cardinality({})
    BY <1>3, <1>4
  <2>2. QED
    BY <1>5, <1>6, <1>7, <2>1
<1>9. QED
  BY <1>1, <1>2, <1>3, <1>4, <1>8, FS_CardinalityType

(* The counters are nested whatever recordings overlap and wherever one is *)
(* cut off: each counter of record_request counts a set of recordings, and *)
(* the order of its steps nests the sets.                                  *)
THEOREM CountersAreNested == Spec => []CountersNested
<1>1. TallyInv => CountersNested
  <2> SUFFICES ASSUME TallyInv PROVE CountersNested
    OBVIOUS
  <2>1. /\ Errored \subseteq Totals /\ Reached(AfterStatus) \subseteq Totals
        /\ Bad \subseteq Errored /\ Routed \subseteq Reached(AfterStatus)
        /\ RoutedBad \subseteq Routed /\ RoutedBad \subseteq Bad
    BY DEF Totals, Errored, Bad, Routed, RoutedBad, Reached,
           AfterTotal, AfterErrors, AfterStatus, AfterRoute
  <2>2. /\ Cardinality(Errored) <= Cardinality(Totals)
        /\ Cardinality(Reached(AfterStatus)) <= Cardinality(Totals)
        /\ Cardinality(Bad) <= Cardinality(Errored)
        /\ Cardinality(Routed) <= Cardinality(Reached(AfterStatus))
        /\ Cardinality(RoutedBad) <= Cardinality(Routed)
        /\ Cardinality(RoutedBad) <= Cardinality(Bad)
    BY <2>1, Sizes, FS_Subset
  <2>3. Sum(codes) = Cardinality(Reached(AfterStatus))
    BY Sizes
  <2>4. QED
    BY <2>2, <2>3 DEF CountersNested, TallyInv, Tally
<1>2. QED
  BY <1>1, TallyHolds, PTL

(* When no recording is under way and none was cut off, every view of the  *)
(* store agrees on how many requests there were.                           *)
THEOREM ViewsAgreeAtRest == Spec => []AtRestConsistent
<1>1. TallyInv => AtRestConsistent
  <2> SUFFICES ASSUME TallyInv, gone = {}, \A r \in Requests : pc[r] \in {"idle", "done"}
               PROVE  AtRestConsistent
    BY DEF AtRestConsistent
  <2> DEFINE n == Cardinality(Past("send"))
  <2>1. Past("send") = Told
    BY PastIs DEF TallyInv, Told
  <2>2. /\ Totals = Told /\ Reached(AfterStatus) = Told /\ Timed = Told /\ Logged = Told
        /\ Errored = Bad /\ Routed = Told \cap Matched
        /\ RoutedBad = Told \cap Matched \cap Failing
    BY DEF Totals, Errored, Bad, Routed, RoutedBad, Timed, Logged, Told, Reached,
           AfterTotal, AfterErrors, AfterStatus, AfterRoute, AfterBucket, AfterLatency,
           AfterLog, AfterSend
  <2>3. Sum(codes) = Cardinality(Told)
    BY <2>2, Sizes
  <2>4. /\ total = Cardinality(Told) /\ errors = codes["err"] /\ Len(sent) = Cardinality(Told)
        /\ routes["total"] = Cardinality(Told \cap Matched)
        /\ routes["errs"] = Cardinality(Told \cap Matched \cap Failing)
        /\ Len(log) = Kept(Cardinality(Told), RingCap)
        /\ Len(latencies) = Kept(Cardinality(Told), LatencyCap)
    BY <2>2 DEF TallyInv, Tally
  <2>5. QED
    BY <2>1, <2>3, <2>4 DEF AtRestConsistent, Kept
<1>2. QED
  BY <1>1, TallyHolds, PTL

-----------------------------------------------------------------------------
(***************************************************************************)
(* The event stream.  An event is sent only after its entry is in the ring *)
(* buffer, and what is delivered was sent; as long as the ring buffer has  *)
(* room it holds every entry ever logged.                                  *)
(***************************************************************************)
Within(s, S) == \A i \in DOMAIN s : s[i] \in S

Positions ==
    /\ sub.pos <= Len(sent) /\ sub.from <= sub.pos
    /\ sub.on /\ ~sub.lagged => delivered = SubSeq(sent, sub.from + 1, sub.pos)
    /\ ~sub.on => delivered = <<>> /\ ~sub.lagged

Held ==
    /\ Within(sent, Told) /\ Within(delivered, Told)
    /\ Len(log) < RingCap => \A r \in Logged : \E j \in DOMAIN log : log[j] = r

EventInv == Typed /\ Positions /\ Held

LEMMA WithinAppend ==
    ASSUME NEW R, NEW s \in Seq(R), NEW x \in R, NEW S, NEW T, Within(s, S), S \subseteq T, x \in T
    PROVE  Within(Append(s, x), T)
BY DEF Within

(* One more event makes no difference to what was received before it. *)
LEMMA SubSeqAppend ==
    ASSUME NEW R, NEW s \in Seq(R), NEW x \in R, NEW a \in Nat, NEW b \in Nat,
           a <= b, b <= Len(s)
    PROVE  SubSeq(Append(s, x), a + 1, b) = SubSeq(s, a + 1, b)
OBVIOUS

(* Receiving the next event extends what was received by one. *)
LEMMA SubSeqNext ==
    ASSUME NEW R, NEW s \in Seq(R), NEW a \in Nat, NEW b \in Nat, a <= b, b < Len(s)
    PROVE  SubSeq(s, a + 1, b + 1) = Append(SubSeq(s, a + 1, b), s[b + 1])
OBVIOUS

LEMMA SubSeqNone ==
    ASSUME NEW R, NEW s \in Seq(R), NEW a \in Nat
    PROVE  SubSeq(s, a + 1, a) = <<>>
OBVIOUS

LEMMA EventsHold == Spec => []EventInv
<1> USE Constants
<1>1. Init => Positions /\ Held
  <2> SUFFICES ASSUME Init PROVE Positions /\ Held
    OBVIOUS
  <2>1. /\ sent = <<>> /\ delivered = <<>> /\ log = <<>>
        /\ sub.pos = 0 /\ sub.from = 0 /\ ~sub.on /\ ~sub.lagged
    BY DEF Init
  <2>2. Logged = {}
    BY DEF Init, Logged, Reached, AfterTotal, AfterErrors, AfterStatus, AfterRoute,
           AfterBucket, AfterLatency, AfterLog
  <2>3. QED
    BY <2>1, <2>2 DEF Positions, Held, Within
<1>2. EventInv /\ [Next]_vars => Positions' /\ Held'
  <2> SUFFICES ASSUME EventInv, [Next]_vars PROVE Positions' /\ Held'
    OBVIOUS
  <2> USE DEF recording, counters, stores, stream
  <2>0. Typed /\ Positions /\ Held
    BY DEF EventInv
  <2>1. /\ sent \in Seq(Requests) /\ delivered \in Seq(Requests) /\ log \in Seq(Requests)
        /\ sub.pos \in Nat /\ sub.from \in Nat /\ Len(log) <= RingCap
    BY <2>0 DEF Typed, Subscriber
  <2>2. ASSUME NEW r \in Requests, NEW q \in Phase, Goto(r, q),
               UNCHANGED <<log, sent, sub, delivered>>,
               pc[r] \notin AfterLog, q \notin AfterLog
        PROVE  Positions' /\ Held'
    <3>1. Logged' = Logged /\ Told' = Told
      BY <2>0, <2>2, Moves DEF Logged, Told, Reached, AfterTotal, AfterErrors, AfterStatus,
         AfterRoute, AfterBucket, AfterLatency, AfterLog, AfterSend
    <3>2. QED
      BY <2>0, <2>2, <3>1 DEF Positions, Held, Within
  <2>3. ASSUME NEW r \in Requests,
               \/ TakeId(r) \/ Stamp(r) \/ CountTotal(r) \/ CountError(r) \/ CountStatus(r)
               \/ CountRoute(r) \/ CountBucket(r) \/ KeepLatency(r)
        PROVE  Positions' /\ Held'
    <3>1. PICK q \in Phase : /\ Goto(r, q) /\ q \notin AfterLog /\ pc[r] \notin AfterLog
                             /\ UNCHANGED <<log, sent, sub, delivered>>
      BY <2>3, PhaseNames DEF TakeId, Stamp, CountTotal, CountError, CountStatus,
         CountRoute, CountBucket, KeepLatency, At, AfterTotal, AfterErrors, AfterStatus,
         AfterRoute, AfterBucket, AfterLatency, AfterLog
    <3>2. QED
      BY <2>2, <3>1
  <2>4. ASSUME NEW r \in Requests, AppendLog(r) PROVE Positions' /\ Held'
    <3>1. /\ "send" \in Phase /\ Goto(r, "send") /\ pc[r] = "log"
          /\ UNCHANGED <<sent, sub, delivered>> /\ log' = Last(Append(log, r), RingCap)
      BY <2>4, PhaseNames DEF AppendLog, At
    <3>2. Logged' = Logged \cup {r} /\ Told' = Told
      BY <2>0, <3>1, Moves DEF Logged, Told, Reached, AfterTotal, AfterErrors, AfterStatus,
         AfterRoute, AfterBucket, AfterLatency, AfterLog, AfterSend
    <3>3. ASSUME Len(log') < RingCap
          PROVE  \A x \in Logged' : \E j \in DOMAIN log' : log'[j] = x
      <4>1. Len(log) < RingCap /\ log' = Append(log, r)
        <5>0. /\ Len(log) = RingCap => Len(Last(Append(log, r), RingCap)) = RingCap
              /\ Len(log) < RingCap => Last(Append(log, r), RingCap) = Append(log, r)
          BY <2>1, Pushed
        <5>1. /\ Len(log) = RingCap => Len(log') = RingCap
              /\ Len(log) < RingCap => log' = Append(log, r)
          BY <3>1, <5>0
        <5>2. Len(log) # RingCap /\ Len(log) \in Nat
          BY <2>1, <3>3, <5>1
        <5>3. QED
          BY <2>1, <5>1, <5>2
      <4>2. \A x \in Logged : \E j \in DOMAIN log : log[j] = x
        BY <2>0, <4>1 DEF Held
      <4>3. DOMAIN log \subseteq DOMAIN log' /\ \A j \in DOMAIN log : log'[j] = log[j]
        BY <2>1, <4>1
      <4>4. Len(log) + 1 \in DOMAIN log' /\ log'[Len(log) + 1] = r
        BY <2>1, <4>1
      <4>5. QED
        BY <3>2, <4>2, <4>3, <4>4
    <3>4. QED
      BY <2>0, <3>1, <3>2, <3>3 DEF Positions, Held, Within
  <2>5. ASSUME NEW r \in Requests, Send(r) PROVE Positions' /\ Held'
    <3>1. /\ "done" \in Phase /\ Goto(r, "done") /\ pc[r] = "send"
          /\ UNCHANGED <<log, sub, delivered>> /\ sent' = Append(sent, r)
      BY <2>5, PhaseNames DEF Send, At
    <3>2. Logged' = Logged /\ Told' = Told \cup {r}
      BY <2>0, <3>1, Moves DEF Logged, Told, Reached, AfterTotal, AfterErrors, AfterStatus,
         AfterRoute, AfterBucket, AfterLatency, AfterLog, AfterSend
    <3>3. Within(sent', Told') /\ Within(delivered', Told')
      <4>1. Within(sent, Told) /\ Within(delivered, Told)
        BY <2>0 DEF Held
      <4>2. Within(Append(sent, r), Told \cup {r})
        BY <2>1, <4>1, WithinAppend, SMTT(40)
      <4>3. QED
        BY <3>1, <3>2, <4>1, <4>2 DEF Within
    <3>4. Held'
      BY <2>0, <3>1, <3>2, <3>3 DEF Held
    <3>5. Positions'
      <4>1. sub.pos <= Len(sent) /\ sub.from <= sub.pos
        BY <2>0 DEF Positions
      <4>2. SubSeq(sent', sub.from + 1, sub.pos) = SubSeq(sent, sub.from + 1, sub.pos)
        <5> DEFINE a == sub.from
                   b == sub.pos
        <5>0. a \in Nat /\ b \in Nat /\ a <= b /\ b <= Len(sent) /\ sent \in Seq(Requests)
          BY <2>1, <4>1
        <5> HIDE DEF a, b
        <5>1. SubSeq(Append(sent, r), a + 1, b) = SubSeq(sent, a + 1, b)
          BY <5>0, SubSeqAppend
        <5>2. QED
          BY <3>1, <5>1 DEF a, b
      <4>3. Len(sent') = Len(sent) + 1
        BY <2>1, <3>1
      <4>4. QED
        BY <2>0, <2>1, <3>1, <4>1, <4>2, <4>3, SMTT(40) DEF Positions
    <3>6. QED
      BY <3>4, <3>5
  <2>6. CASE Subscribe
    <3>1. /\ sub'.on /\ ~sub'.lagged /\ sub'.pos = Len(sent) /\ sub'.from = Len(sent) /\ ~sub.on
          /\ UNCHANGED <<pc, log, sent, delivered>>
      BY <2>6 DEF Subscribe
    <3>2. Logged' = Logged /\ Told' = Told
      BY <3>1, SameSets
    <3>3. delivered' = <<>> /\ SubSeq(sent, Len(sent) + 1, Len(sent)) = <<>>
      BY <2>0, <2>1, <3>1, SubSeqNone DEF Positions
    <3>4. Positions'
      BY <2>1, <3>1, <3>3 DEF Positions
    <3>5. QED
      BY <2>0, <3>1, <3>2, <3>4 DEF Held, Within
  <2>7. CASE Deliver
    <3>1. /\ sub.on /\ sub.pos < Len(sent)
          /\ delivered' = Append(delivered, sent[Resume + 1])
          /\ sub'.on /\ sub'.from = sub.from /\ sub'.pos = Resume + 1
          /\ sub'.lagged = (sub.lagged \/ Behind)
          /\ UNCHANGED <<pc, log, sent>>
      BY <2>7 DEF Deliver
    <3>2. Logged' = Logged /\ Told' = Told
      BY <3>1, SameSets
    <3>3. /\ Resume \in Nat /\ Resume + 1 \in 1..Len(sent) /\ sub.pos <= Resume
          /\ ~Behind => Resume = sub.pos
      <4> DEFINE n == Len(sent)
                 p == sub.pos
      <4>1. n \in Nat /\ p \in Nat /\ p < n /\ ChannelCap \in Nat \ {0}
        BY <2>1, <3>1
      <4>2. /\ Resume = IF Behind THEN n - ChannelCap ELSE p
            /\ Behind <=> n - p > ChannelCap
        BY DEF Resume, Behind
      <4> HIDE DEF n, p
      <4>3. /\ Resume + 1 \in 1..n /\ Resume \in Nat /\ p <= Resume
            /\ ~Behind => Resume = p
        BY <4>1, <4>2
      <4>4. QED
        BY <4>3 DEF n, p
    <3>4. sent[Resume + 1] \in Requests /\ sent[Resume + 1] \in Told
      BY <2>0, <2>1, <3>3, ElementOfSeq DEF Held, Within
    <3>5. Within(delivered', Told')
      <4>1. Within(delivered, Told)
        BY <2>0 DEF Held
      <4>2. Within(Append(delivered, sent[Resume + 1]), Told)
        BY <2>1, <3>4, <4>1, WithinAppend
      <4>3. QED
        BY <3>1, <3>2, <4>2
    <3>6. Held'
      BY <2>0, <3>1, <3>2, <3>5 DEF Held, Within
    <3>7. ASSUME ~sub'.lagged PROVE delivered' = SubSeq(sent', sub'.from + 1, sub'.pos)
      <4>1. ~sub.lagged /\ ~Behind
        BY <3>1, <3>7, Zenon
      <4>2. /\ delivered = SubSeq(sent, sub.from + 1, sub.pos) /\ Resume = sub.pos
            /\ sub.from <= sub.pos
        BY <2>0, <3>1, <3>3, <4>1 DEF Positions
      <4>3. SubSeq(sent, sub.from + 1, sub.pos + 1)
              = Append(SubSeq(sent, sub.from + 1, sub.pos), sent[sub.pos + 1])
        BY <2>1, <3>1, <4>2, SubSeqNext
      <4>4. QED
        BY <3>1, <4>2, <4>3
    <3>8. sub'.pos <= Len(sent') /\ sub'.from <= sub'.pos
      BY <2>0, <2>1, <3>1, <3>3 DEF Positions
    <3>9. QED
      BY <3>1, <3>6, <3>7, <3>8 DEF Positions
  <2>8. CASE UNCHANGED <<pc, log, sent, sub, delivered>>
    <3>1. Logged' = Logged /\ Told' = Told
      BY <2>8, SameSets
    <3>2. QED
      BY <2>0, <2>8, <3>1 DEF Positions, Held, Within
  <2>9. QED
    BY <2>3, <2>4, <2>5, <2>6, <2>7, <2>8
       DEF Next, RecordStep, Cancel, TickRead, TickPush, Advance, ReadTotal, ReadErrors, vars
<1>3. QED
  BY <1>1, <1>2, TypeHolds, PTL DEF Spec, EventInv

(* A subscriber that never lags receives every event sent since it         *)
(* subscribed, once and in order, and finds what it is told of in the ring *)
(* buffer unless that is full.                                             *)
THEOREM EventsAreFaithful == Spec => []EventsFaithful
<1>1. EventInv => EventsFaithful
  <2> SUFFICES ASSUME EventInv PROVE EventsFaithful
    OBVIOUS
  <2>1. sub.on /\ ~sub.lagged => delivered = SubSeq(sent, sub.from + 1, sub.pos)
    BY DEF EventInv, Positions
  <2>2. Told \subseteq Logged
    BY DEF Logged, Told, Reached, AfterTotal, AfterErrors, AfterStatus,
       AfterRoute, AfterBucket, AfterLatency, AfterLog, AfterSend
  <2>3. Len(log) <= RingCap /\ Len(log) \in Nat /\ RingCap \in Nat
    BY Constants DEF EventInv, Typed
  <2>4. ASSUME NEW i \in DOMAIN delivered, Len(log) # RingCap
        PROVE  \E j \in DOMAIN log : log[j] = delivered[i]
    <3>1. Len(log) < RingCap
      BY <2>3, <2>4
    <3>2. QED
      BY <2>2, <2>4, <3>1 DEF EventInv, Held, Within
  <2>5. QED
    BY <2>1, <2>4 DEF EventsFaithful
<1>2. QED
  BY <1>1, EventsHold, PTL

-----------------------------------------------------------------------------
(***************************************************************************)
(* The time series.  As long as no second ends between a timestamp and its *)
(* use, the buckets are those of increasing seconds up to the clock, each  *)
(* counts exactly the requests of its second, and a request whose bucket   *)
(* was trimmed is older than BucketCap distinct seconds, that is, out of   *)
(* every window.                                                           *)
(*                                                                         *)
(* The statements are about any sequence bs of buckets, set S of requests  *)
(* counted in it, function f giving their timestamps and time c.           *)
(***************************************************************************)
Increasing(bs) == \A i, j \in DOMAIN bs : i < j => bs[i].sec < bs[j].sec
UpTo(bs, c) == \A i \in DOMAIN bs : bs[i].sec <= c
Hits(S, f, t) == {r \in S : f[r] = t}
Exact(bs, S, f) == \A i \in DOMAIN bs : bs[i].count = Cardinality(Hits(S, f, bs[i].sec))
Covers(bs, S, f) ==
    \A r \in S : \/ \E i \in DOMAIN bs : bs[i].sec = f[r]
                 \/ Len(bs) = BucketCap /\ f[r] < bs[1].sec

Accurate(bs, S, f, c) ==
    /\ Increasing(bs) /\ UpTo(bs, c) /\ Exact(bs, S, f) /\ Covers(bs, S, f)

InUse == {"total", "errors", "status", "route", "bucket"}

Series ==
    ~late => /\ \A r \in Requests \ gone : pc[r] \in InUse => sec[r] = clock
             /\ ticker # Idle => ticker = clock
             /\ Accurate(buckets, Reached(AfterBucket), sec, clock)

SeriesInv == TallyInv /\ Series

LEMMA BucketFields ==
    ASSUME NEW bs \in Seq(Bucket)
    PROVE  /\ Len(bs) \in Nat /\ DOMAIN bs = 1..Len(bs)
           /\ \A i \in DOMAIN bs : bs[i] \in Bucket /\ bs[i].sec \in Nat /\ bs[i].count \in Nat
<1>1. Len(bs) \in Nat /\ DOMAIN bs = 1..Len(bs) /\ \A i \in DOMAIN bs : bs[i] \in Bucket
  OBVIOUS
<1>2. \A b \in Bucket : b.sec \in Nat /\ b.count \in Nat
  BY Constants DEF Bucket
<1>3. QED
  BY <1>1, <1>2

(* A second without a bucket of its own at the end has no requests. *)
LEMMA NoneYet ==
    ASSUME NEW bs \in Seq(Bucket), NEW c \in Nat, NEW S, NEW f, Accurate(bs, S, f, c),
           bs # <<>> => bs[Len(bs)].sec # c
    PROVE  /\ Hits(S, f, c) = {}
           /\ \A i \in DOMAIN bs : bs[i].sec < c
<1> DEFINE N == Len(bs)
<1>1. N \in Nat /\ DOMAIN bs = 1..N /\ \A i \in 1..N : bs[i].sec \in Nat
  BY BucketFields
<1>2. \A i \in 1..N : bs[i].sec < c
  <2> SUFFICES ASSUME NEW i \in 1..N PROVE bs[i].sec < c
    OBVIOUS
  <2>1. bs # <<>> /\ N \in 1..N
    BY <1>1
  <2>2. bs[N].sec # c /\ bs[N].sec <= c /\ bs[N].sec \in Nat
    BY <1>1, <2>1 DEF Accurate, UpTo
  <2>3. i < N => bs[i].sec < bs[N].sec
    BY <1>1, <2>1 DEF Accurate, Increasing
  <2> HIDE DEF N
  <2>4. QED
    BY <1>1, <2>2, <2>3
<1>3. ASSUME NEW r \in S, f[r] = c PROVE FALSE
  <2>1. CASE \E i \in DOMAIN bs : bs[i].sec = f[r]
    BY <1>1, <1>2, <1>3, <2>1
  <2>2. CASE Len(bs) = BucketCap /\ f[r] < bs[1].sec
    <3>1. 1 \in 1..N
      BY <1>1, <2>2, Constants
    <3>2. bs[1].sec < c /\ c < bs[1].sec /\ bs[1].sec \in Nat
      BY <1>1, <1>2, <1>3, <2>2, <3>1
    <3>3. QED
      BY <3>2
  <2>3. QED
    BY <2>1, <2>2 DEF Accurate, Covers
<1>4. QED
  BY <1>1, <1>2, <1>3 DEF Hits

(* A bucket is opened for the second c, with the requests R of that second. *)
LEMMA Opened ==
    ASSUME NEW bs \in Seq(Bucket), Len(bs) <= BucketCap, NEW c \in Nat, NEW S, NEW f,
           \A r \in S : f[r] \in Nat,
           Accurate(bs, S, f, c), bs # <<>> => bs[Len(bs)].sec # c,
           NEW R, \A r \in R : f[r] = c,
           NEW b \in Bucket, b.sec = c, b.count = Cardinality(R)
    PROVE  Accurate(Last(Append(bs, b), BucketCap), S \cup R, f, c)
<1> DEFINE N == Len(bs)
           T == S \cup R
           a == Append(bs, b)
           d == Last(a, BucketCap)
<1>1. N \in Nat /\ DOMAIN bs = 1..N /\ \A i \in 1..N : bs[i].sec \in Nat
  BY BucketFields
<1>2. Hits(S, f, c) = {} /\ \A i \in 1..N : bs[i].sec < c
  BY <1>1, NoneYet
<1>3. /\ a \in Seq(Bucket) /\ Len(a) = N + 1 /\ DOMAIN a = 1..(N + 1)
      /\ a[N + 1] = b /\ \A i \in 1..N : a[i] = bs[i]
  OBVIOUS
<1>4. Hits(T, f, c) = R /\ \A t : t # c => Hits(T, f, t) = Hits(S, f, t)
  BY <1>2 DEF Hits
<1>5. /\ \A i, j \in 1..(N + 1) : i < j => a[i].sec < a[j].sec
      /\ \A i \in 1..(N + 1) : a[i].sec <= c /\ a[i].sec \in Nat
      /\ \A i \in 1..(N + 1) : a[i].count = Cardinality(Hits(T, f, a[i].sec))
  <2> HIDE DEF a, N, T
  <2>1. ASSUME NEW i \in 1..(N + 1), NEW j \in 1..(N + 1), i < j
        PROVE  a[i].sec < a[j].sec
    <3>1. CASE j = N + 1
      <4>1. i \in 1..N /\ a[i] = bs[i] /\ a[j] = b
        BY <1>1, <1>3, <2>1, <3>1
      <4>2. QED
        BY <1>2, <4>1
    <3>2. CASE j # N + 1
      <4>1. i \in 1..N /\ j \in 1..N /\ a[i] = bs[i] /\ a[j] = bs[j]
        BY <1>1, <1>3, <2>1, <3>2
      <4>2. QED
        BY <1>1, <2>1, <4>1 DEF Accurate, Increasing
    <3>3. QED
      BY <3>1, <3>2
  <2>2. ASSUME NEW i \in 1..(N + 1)
        PROVE  a[i].sec <= c /\ a[i].sec \in Nat /\ a[i].count = Cardinality(Hits(T, f, a[i].sec))
    <3>1. CASE i = N + 1
      BY <1>3, <1>4, <3>1
    <3>2. CASE i # N + 1
      <4>1. i \in 1..N /\ a[i] = bs[i]
        BY <1>1, <1>3, <3>2
      <4>2. bs[i].sec < c /\ bs[i].sec # c /\ bs[i].count = Cardinality(Hits(S, f, bs[i].sec))
        BY <1>1, <1>2, <4>1 DEF Accurate, Exact
      <4>3. QED
        BY <1>1, <1>4, <4>1, <4>2
    <3>3. QED
      BY <3>1, <3>2
  <2>3. QED
    BY <2>1, <2>2
<1>6. CASE N < BucketCap
  <2>1. d = a
    BY <1>6, Pushed, Constants
  <2>2. Covers(a, T, f)
    <3> SUFFICES ASSUME NEW r \in T PROVE \E i \in DOMAIN a : a[i].sec = f[r]
      BY DEF Covers
    <3>1. CASE r \in R
      <4>1. N + 1 \in DOMAIN a /\ a[N + 1].sec = f[r]
        BY <1>1, <1>3, <3>1
      <4>2. QED
        BY <4>1
    <3>2. CASE r \in S
      <4>1. PICK i \in 1..N : bs[i].sec = f[r]
        <5> HIDE DEF N
        <5>1. Len(bs) = N
          BY DEF N
        <5>2. QED
          BY <1>1, <1>6, <3>2, <5>1, Constants DEF Accurate, Covers
      <4>2. i \in DOMAIN a /\ a[i] = bs[i]
        BY <1>1, <1>3
      <4>3. QED
        BY <4>1, <4>2
    <3>3. QED
      BY <3>1, <3>2
  <2>3. Accurate(a, T, f, c)
    BY <1>3, <1>5, <2>2 DEF Accurate, Increasing, UpTo, Exact
  <2>4. QED
    BY <2>1, <2>3
<1>7. CASE N = BucketCap
  <2>1. d = Tail(a)
    BY <1>1, <1>3, <1>7 DEF Last
  <2>2. /\ N \in Nat \ {0} /\ Len(d) = N /\ DOMAIN d = 1..N
        /\ \A i \in 1..N : d[i] = a[i + 1] /\ i + 1 \in 1..(N + 1)
    <3>1. a # <<>> /\ N \in Nat \ {0}
      BY <1>1, <1>3, <1>7, Constants
    <3>2. /\ Len(Tail(a)) = Len(a) - 1 /\ Tail(a) \in Seq(Bucket)
          /\ \A i \in 1..(Len(a) - 1) : Tail(a)[i] = a[i + 1]
      BY <1>3, <3>1, HeadTailProperties
    <3>3. Len(a) - 1 = N /\ Len(d) = N /\ DOMAIN d = 1..N
      BY <1>1, <1>3, <2>1, <3>2
    <3> HIDE DEF N, d, a
    <3>4. ASSUME NEW i \in 1..N PROVE d[i] = a[i + 1] /\ i + 1 \in 1..(N + 1)
      <4>1. Tail(a)[i] = a[i + 1]
        BY <3>2, <3>3
      <4>2. d[i] = Tail(a)[i]
        BY <2>1
      <4>3. i + 1 \in 1..(N + 1)
        BY <3>1
      <4>4. QED
        BY <4>1, <4>2, <4>3
    <3>5. QED
      BY <3>1, <3>3, <3>4
  <2> HIDE DEF d, N
  <2>3. Increasing(d) /\ UpTo(d, c) /\ Exact(d, T, f)
    <3> HIDE DEF a, T
    <3>1. ASSUME NEW i \in 1..N, NEW j \in 1..N, i < j PROVE d[i].sec < d[j].sec
      BY <1>5, <2>2, <3>1, SMTT(40)
    <3>2. \A i \in 1..N : d[i].sec <= c /\ d[i].count = Cardinality(Hits(T, f, d[i].sec))
      BY <1>5, <2>2
    <3>3. QED
      BY <2>2, <3>1, <3>2 DEF Increasing, UpTo, Exact
  <2>4. Covers(d, T, f)
    <3> HIDE DEF a
    <3> SUFFICES ASSUME NEW r \in T
                 PROVE  (\E i \in DOMAIN d : d[i].sec = f[r]) \/ f[r] < d[1].sec
      BY <1>7, <2>2 DEF Covers
    <3>1. CASE r \in R
      <4>1. N \in DOMAIN d /\ d[N].sec = f[r]
        BY <1>3, <2>2, <3>1
      <4>2. QED
        BY <4>1
    <3>2. CASE r \in S
      <4>1. CASE \E i \in DOMAIN bs : bs[i].sec = f[r]
        <5>1. PICK i \in 1..N : bs[i].sec = f[r]
          BY <1>1, <4>1
        <5>2. CASE i = 1
          <6>1. a[1] = bs[1] /\ a[2] = d[1] /\ 1 \in 1..(N + 1) /\ 2 \in 1..(N + 1)
            BY <1>3, <2>2, <5>2
          <6>2. a[1].sec < a[2].sec
            BY <1>5, <6>1
          <6>3. QED
            BY <5>1, <5>2, <6>1, <6>2
        <5>3. CASE i # 1
          <6>1. i - 1 \in 1..N /\ (i - 1) + 1 = i /\ a[i] = bs[i]
            BY <1>3, <2>2, <5>3
          <6>2. d[i - 1] = a[i]
            BY <2>2, <6>1
          <6>3. QED
            BY <2>2, <5>1, <6>1, <6>2
        <5>4. QED
          BY <5>2, <5>3
      <4>2. CASE Len(bs) = BucketCap /\ f[r] < bs[1].sec
        <5>1. a[1] = bs[1] /\ a[2] = d[1] /\ 1 \in 1..(N + 1) /\ 2 \in 1..(N + 1) /\ 1 \in 1..N
          BY <1>3, <2>2
        <5>2. a[1].sec < a[2].sec /\ a[2].sec \in Nat
          BY <1>5, <5>1
        <5>3. f[r] \in Nat /\ bs[1].sec \in Nat /\ f[r] < bs[1].sec
          BY <1>1, <3>2, <4>2, <5>1
        <5>4. QED
          BY <5>1, <5>2, <5>3
      <4>3. QED
        BY <3>2, <4>1, <4>2 DEF Accurate, Covers
    <3>3. QED
      BY <3>1, <3>2
  <2>5. QED
    BY <2>3, <2>4 DEF Accurate, d
<1>8. N < BucketCap \/ N = BucketCap
  <2>1. N \in Nat /\ N <= BucketCap /\ BucketCap \in Nat
    BY <1>1, Constants
  <2> HIDE DEF N
  <2>2. QED
    BY <2>1
<1>9. QED
  BY <1>6, <1>7, <1>8

(* A request of the second c is added to the last bucket, which is of c. *)
LEMMA Added ==
    ASSUME NEW bs \in Seq(Bucket), bs # <<>>, NEW c \in Nat, bs[Len(bs)].sec = c,
           NEW S, IsFiniteSet(S), NEW f, Accurate(bs, S, f, c),
           NEW r, r \notin S, f[r] = c, NEW e \in Nat
    PROVE  Accurate(Bumped(bs, e), S \cup {r}, f, c)
<1> DEFINE N == Len(bs)
           T == S \cup {r}
           d == Bumped(bs, e)
<1>1. /\ N \in Nat \ {0} /\ DOMAIN bs = 1..N
      /\ \A i \in 1..N : bs[i].sec \in Nat /\ bs[i].count \in Nat
  BY BucketFields, EmptySeq
<1>2. /\ DOMAIN d = 1..N /\ Len(d) = N
      /\ \A i \in 1..N : /\ d[i].sec = bs[i].sec
                         /\ d[i].count = bs[i].count + IF i = N THEN 1 ELSE 0
  <2>1. d \in Seq(Bucket) /\ Len(d) = N
    BY BumpedType
  <2>2. \A i \in DOMAIN bs : /\ d[i].sec = bs[i].sec
                              /\ d[i].count = bs[i].count + IF i = Len(bs) THEN 1 ELSE 0
    BY BumpedType
  <2> HIDE DEF d
  <2>3. DOMAIN d = 1..N
    BY <2>1
  <2>4. QED
    BY <1>1, <2>1, <2>2, <2>3
<1>7. N = Len(bs)
  OBVIOUS
<1> HIDE DEF d, N
<1>3. Increasing(d) /\ UpTo(d, c)
  BY <1>1, <1>2 DEF Accurate, Increasing, UpTo
<1>4. Exact(d, T, f)
  <2> SUFFICES ASSUME NEW i \in 1..N
               PROVE  d[i].count = Cardinality(Hits(T, f, d[i].sec))
    BY <1>2 DEF Exact
  <2>1. bs[i].count = Cardinality(Hits(S, f, bs[i].sec)) /\ d[i].sec = bs[i].sec
    BY <1>1, <1>2 DEF Accurate, Exact
  <2>2. CASE i = N
    <3>1. Hits(T, f, c) = Hits(S, f, c) \cup {r} /\ r \notin Hits(S, f, c)
      BY DEF Hits
    <3>2. IsFiniteSet(Hits(S, f, c))
      <4>1. Hits(S, f, c) \in SUBSET S
        BY DEF Hits
      <4>2. QED
        BY <4>1, FS_Subset
    <3>3. Cardinality(Hits(T, f, c)) = Cardinality(Hits(S, f, c)) + 1
      BY <3>1, <3>2, OneMore
    <3>4. QED
      BY <1>2, <1>7, <2>1, <2>2, <3>3
  <2>3. CASE i # N
    <3>1. i < N /\ N \in 1..N
      BY <1>1, <2>3
    <3>2. bs[i].sec < bs[N].sec
      BY <1>1, <3>1 DEF Accurate, Increasing
    <3>3. bs[i].sec # c
      BY <1>1, <1>7, <3>1, <3>2
    <3>4. Hits(T, f, bs[i].sec) = Hits(S, f, bs[i].sec)
      BY <3>3 DEF Hits
    <3>5. d[i].count = bs[i].count
      BY <1>1, <1>2, <2>3
    <3>6. QED
      BY <2>1, <3>4, <3>5
  <2>4. QED
    BY <2>2, <2>3
<1>5. Covers(d, T, f)
  <2>1. N \in DOMAIN d /\ d[N].sec = c /\ 1 \in 1..N
    <3>1. N \in 1..N /\ 1 \in 1..N
      BY <1>1
    <3>2. bs[N].sec = c
      BY <1>7
    <3>3. QED
      BY <1>2, <3>1, <3>2
  <2>2. \A x \in S : \/ \E i \in 1..N : bs[i].sec = f[x]
                     \/ N = BucketCap /\ f[x] < bs[1].sec
    BY <1>1, <1>7 DEF Accurate, Covers
  <2>3. \A x \in S : \/ \E i \in DOMAIN d : d[i].sec = f[x]
                     \/ Len(d) = BucketCap /\ f[x] < d[1].sec
    BY <1>2, <2>1, <2>2
  <2>4. QED
    BY <2>1, <2>3 DEF Covers
<1>6. QED
  BY <1>3, <1>4, <1>5 DEF Accurate, d

(* The buckets do not depend on requests that are not counted in them. *)
LEMMA SameStamps ==
    ASSUME NEW bs, NEW S, NEW f, NEW g, NEW c, \A r \in S : f[r] = g[r], Accurate(bs, S, f, c)
    PROVE  Accurate(bs, S, g, c)
<1>1. \A t : Hits(S, f, t) = Hits(S, g, t)
  BY DEF Hits
<1>2. QED
  BY <1>1 DEF Accurate, Exact, Covers

LEMMA InUseIs == \A p \in Phase : Rank("total") <= Rank(p) /\ Rank(p) <= Rank("bucket") <=> p \in InUse
BY RankOf, PhaseNames DEF InUse

LEMMA SeriesHolds == Spec => []SeriesInv
<1> USE Constants
<1>1. Init => Series
  <2> SUFFICES ASSUME Init PROVE Series
    OBVIOUS
  <2>1. Reached(AfterBucket) = {} /\ \A r \in Requests : pc[r] \notin InUse
    BY DEF Init, Reached, InUse, AfterTotal, AfterErrors, AfterStatus, AfterRoute, AfterBucket
  <2>2. buckets = <<>> /\ ticker = Idle
    BY DEF Init
  <2>3. QED
    BY <2>1, <2>2 DEF Series, Accurate, Increasing, UpTo, Exact, Covers
<1>2. SeriesInv /\ [Next]_vars => Series'
  <2> SUFFICES ASSUME SeriesInv, [Next]_vars PROVE Series'
    OBVIOUS
  <2> DEFINE S == Reached(AfterBucket)
  <2> USE DEF recording, counters, stores, stream
  <2>0. Typed /\ Series
    BY DEF SeriesInv, TallyInv
  <2>1. /\ buckets \in Seq(Bucket) /\ Len(buckets) <= BucketCap /\ clock \in Nat
        /\ pc \in [Requests -> Phase] /\ S \subseteq Requests
        /\ sec \in [Requests -> 0..MaxClock] /\ \A r \in S : sec[r] \in Nat
    BY <2>0 DEF Typed, Reached
  <2>2. IsFiniteSet(S)
    <3>1. IsFiniteSet(Totals)
      BY DEF SeriesInv, TallyInv, Tally
    <3>2. S \in SUBSET Totals
      BY DEF Totals, Reached, AfterTotal, AfterErrors, AfterStatus, AfterRoute, AfterBucket
    <3>3. QED
      BY <3>1, <3>2, FS_Subset
  <2>3. ASSUME NEW r \in Requests, NEW q \in Phase, Goto(r, q), r \notin gone,
               UNCHANGED <<clock, late, gone, sec, buckets, ticker>>,
               q \in InUse => pc[r] \in InUse, q \in AfterBucket <=> pc[r] \in AfterBucket
        PROVE  Series'
    <3>1. S' = S /\ pc'[r] = q /\ \A x \in Requests : x # r => pc'[x] = pc[x]
      BY <2>0, <2>3, Moves
    <3>2. QED
      BY <2>0, <2>3, <3>1 DEF Series
  <2>4. ASSUME NEW r \in Requests,
               \/ TakeId(r) \/ CountTotal(r) \/ CountError(r) \/ CountStatus(r)
               \/ CountRoute(r) \/ KeepLatency(r) \/ AppendLog(r) \/ Send(r)
        PROVE  Series'
    <3>1. PICK q \in Phase : /\ Goto(r, q) /\ r \notin gone
                             /\ UNCHANGED <<clock, late, gone, sec, buckets, ticker>>
                             /\ q \in InUse => pc[r] \in InUse
                             /\ q \in AfterBucket <=> pc[r] \in AfterBucket
      BY <2>4, PhaseNames DEF TakeId, CountTotal, CountError, CountStatus, CountRoute,
         KeepLatency, AppendLog, Send, At, InUse, AfterTotal, AfterErrors, AfterStatus,
         AfterRoute, AfterBucket
    <3>2. QED
      BY <2>3, <3>1
  <2>5. ASSUME NEW r \in Requests, Stamp(r) PROVE Series'
    <3>1. /\ "total" \in Phase /\ Goto(r, "total") /\ pc[r] = "stamp"
          /\ sec' = [sec EXCEPT ![r] = clock]
          /\ UNCHANGED <<clock, late, gone, buckets, ticker>>
      BY <2>5, PhaseNames DEF Stamp, At
    <3>2. /\ S' = S /\ r \notin S /\ \A x \in Requests : x # r => pc'[x] = pc[x]
      BY <2>0, <3>1, Moves DEF Reached, AfterTotal, AfterErrors, AfterStatus, AfterRoute,
         AfterBucket
    <3>3. sec'[r] = clock /\ \A x \in Requests : x # r => sec'[x] = sec[x]
      BY <2>1, <3>1
    <3>4. ASSUME ~late PROVE Accurate(buckets, S, sec', clock)
      <4>1. \A x \in S : sec[x] = sec'[x]
        BY <2>1, <3>2, <3>3
      <4>2. Accurate(buckets, S, sec, clock)
        BY <2>0, <3>4 DEF Series
      <4> HIDE DEF S
      <4>3. QED
        BY <4>1, <4>2, SameStamps
    <3>5. QED
      BY <2>0, <3>1, <3>2, <3>3, <3>4 DEF Series
  <2>6. ASSUME NEW r \in Requests, CountBucket(r) PROVE Series'
    <3> DEFINE e == One(IsError(r))
               b == NewBucket(sec[r], 1, e)
    <3>1. /\ "latency" \in Phase /\ Goto(r, "latency") /\ pc[r] = "bucket" /\ r \notin gone
          /\ UNCHANGED <<clock, late, gone, sec, ticker>>
          /\ buckets' = IF LastIsOf(sec[r]) THEN Bumped(buckets, e)
                        ELSE Last(Append(buckets, b), BucketCap)
      BY <2>6, PhaseNames DEF CountBucket, At, Bumped
    <3>2. /\ S' = S \cup {r} /\ r \notin S /\ pc'[r] = "latency"
          /\ \A x \in Requests : x # r => pc'[x] = pc[x]
      BY <2>0, <3>1, Moves DEF Reached, AfterTotal, AfterErrors, AfterStatus, AfterRoute,
         AfterBucket
    <3>3. e \in Nat /\ b \in Bucket /\ b.sec = sec[r] /\ b.count = 1
      BY <2>1 DEF One, NewBucket, Bucket
    <3> HIDE DEF S, b, e
    <3>4. ASSUME ~late PROVE Accurate(buckets', S \cup {r}, sec, clock)
      <4>1. Accurate(buckets, S, sec, clock) /\ sec[r] = clock
        BY <2>0, <3>1, <3>4 DEF Series, InUse, S
      <4>2. CASE LastIsOf(sec[r])
        <5>1. buckets # <<>> /\ buckets[Len(buckets)].sec = clock
          BY <4>1, <4>2 DEF LastIsOf
        <5>2. Accurate(Bumped(buckets, e), S \cup {r}, sec, clock)
          BY <2>1, <2>2, <3>2, <3>3, <4>1, <5>1, Added
        <5>3. QED
          BY <3>1, <4>2, <5>2
      <4>3. CASE ~LastIsOf(sec[r])
        <5>1. buckets # <<>> => buckets[Len(buckets)].sec # clock
          BY <4>1, <4>3 DEF LastIsOf
        <5>2. Cardinality({r}) = 1 /\ \A x \in {r} : sec[x] = clock
          BY <4>1, FS_Singleton
        <5>3. Accurate(Last(Append(buckets, b), BucketCap), S \cup {r}, sec, clock)
          BY <2>1, <3>3, <4>1, <5>1, <5>2, Opened
        <5>4. QED
          BY <3>1, <4>3, <5>3
      <4>4. QED
        BY <4>2, <4>3
    <3>5. Reached(AfterBucket)' = S \cup {r}
      BY <3>2 DEF S
    <3>6. QED
      BY <2>0, <3>1, <3>2, <3>4, <3>5 DEF Series, InUse
  <2>7. CASE TickPush
    <3> DEFINE b == NewBucket(ticker, 0, 0)
    <3>1. /\ ticker' = Idle /\ ticker # Idle
          /\ UNCHANGED <<clock, late, pc, gone, sec>>
          /\ buckets' = IF LastIsOf(ticker) THEN buckets
                        ELSE Last(Append(buckets, b), BucketCap)
      BY <2>7 DEF TickPush
    <3>2. b \in Bucket /\ b.sec = ticker /\ b.count = 0
      <4>1. ticker \in 0..MaxClock
        BY <2>0, <3>1 DEF Typed, Idle
      <4>2. QED
        BY <4>1 DEF NewBucket, Bucket
    <3>3. Reached(AfterBucket)' = S
      BY <3>1 DEF Reached
    <3> HIDE DEF S, b
    <3>4. ASSUME ~late PROVE Accurate(buckets', S, sec, clock)
      <4>1. Accurate(buckets, S, sec, clock) /\ ticker = clock
        BY <2>0, <3>1, <3>4 DEF Series, S
      <4>2. CASE LastIsOf(ticker)
        BY <3>1, <4>1, <4>2
      <4>3. CASE ~LastIsOf(ticker)
        <5>1. buckets # <<>> => buckets[Len(buckets)].sec # clock
          BY <4>1, <4>3 DEF LastIsOf
        <5>2. Cardinality({}) = 0 /\ \A x \in {} : sec[x] = clock
          BY FS_EmptySet
        <5>3. Accurate(Last(Append(buckets, b), BucketCap), S \cup {}, sec, clock)
          BY <2>1, <3>2, <4>1, <5>1, <5>2, Opened
        <5>4. S \cup {} = S
          OBVIOUS
        <5>5. QED
          BY <3>1, <4>3, <5>3, <5>4
      <4>4. QED
        BY <4>2, <4>3
    <3>5. QED
      BY <2>0, <3>1, <3>3, <3>4 DEF Series
  <2>8. CASE TickRead
    <3>1. UNCHANGED <<clock, late, pc, gone, sec, buckets>> /\ ticker' = clock
      BY <2>8 DEF TickRead
    <3>2. QED
      BY <2>0, <3>1 DEF Series, Reached
  <2>9. CASE Advance
    <3>1. /\ UNCHANGED <<pc, gone, sec, buckets, ticker>> /\ clock' = clock + 1
          /\ ~late' => /\ ~late /\ ticker = Idle
                       /\ \A r \in Requests \ gone : ~StampInUse(r)
      BY <2>9 DEF Advance
    <3>2. \A r \in Requests : StampInUse(r) <=> pc[r] \in InUse
      BY <2>1, InUseIs DEF StampInUse
    <3>3. S' = S
      BY <3>1 DEF Reached
    <3>4. ASSUME Accurate(buckets, S, sec, clock) PROVE Accurate(buckets, S, sec, clock + 1)
      <4>1. \A i \in DOMAIN buckets : buckets[i].sec \in Nat
        BY <2>1, BucketFields
      <4>2. UpTo(buckets, clock + 1)
        BY <2>1, <3>4, <4>1 DEF Accurate, UpTo
      <4>3. QED
        BY <3>4, <4>2 DEF Accurate
    <3>5. QED
      BY <2>0, <3>1, <3>2, <3>3, <3>4 DEF Series
  <2>10. ASSUME NEW r \in Requests, Cancel(r) PROVE Series'
    <3>1. UNCHANGED <<clock, late, pc, sec, buckets, ticker>> /\ gone' = gone \cup {r}
      BY <2>10 DEF Cancel
    <3>2. QED
      BY <2>0, <3>1 DEF Series, Reached
  <2>11. CASE UNCHANGED <<clock, late, pc, gone, sec, buckets, ticker>>
    BY <2>0, <2>11 DEF Series, Reached
  <2>12. QED
    BY <2>4, <2>5, <2>6, <2>7, <2>8, <2>9, <2>10, <2>11
       DEF Next, RecordStep, ReadTotal, ReadErrors, Subscribe, Deliver, vars
<1>3. QED
  BY <1>1, <1>2, TallyHolds, PTL DEF Spec, SeriesInv

(* As long as no second ends inside a recording or a tick, the time series *)
(* is chronological, with one point per second.                            *)
THEOREM SeriesIsChronological == Spec => []SeriesChronological
<1>1. SeriesInv => SeriesChronological
  BY DEF SeriesInv, Series, Accurate, Increasing, SeriesChronological
<1>2. QED
  BY <1>1, SeriesHolds, PTL

-----------------------------------------------------------------------------
(***************************************************************************)
(* The sum of count_in_window.  A statement about every natural number up  *)
(* to a bound is proved by looking at its least counterexample.            *)
(***************************************************************************)
Less == {ss \in Nat \X Nat : ss[1] < ss[2]}

LEMMA LeastElement ==
    ASSUME NEW T \in SUBSET Nat, T # {}
    PROVE  \E x \in T : \A y \in T : x <= y
<1>1. IsWellFoundedOn(Less, Nat)
  BY NatLessThanWellFounded DEF OpToRel, Less
<1>2. PICK x \in T : \A y \in T : ~ (<<y, x>> \in Less)
  BY <1>1, WFMin
<1>3. \A y \in T : ~(y < x)
  BY <1>2 DEF Less
<1>4. QED
  BY <1>3

(* The recursive function inside CountInWindow. *)
Oldest(now, w) == IF now >= w - 1 THEN now - (w - 1) ELSE 0
Term(bs, now, w, i) ==
    IF Oldest(now, w) <= bs[i].sec /\ bs[i].sec <= now THEN bs[i].count ELSE 0
Running(bs, now, w) ==
    CHOOSE f : f = [i \in 0..Len(bs) |-> IF i = 0 THEN 0
                                          ELSE f[i - 1] + Term(bs, now, w, i)]

LEMMA CountIsRunning ==
    \A bs, now, w : CountInWindow(bs, now, w) = Running(bs, now, w)[Len(bs)]
BY DEF CountInWindow, Running, Term, Oldest

(* Whether f is that function up to n, for any terms g. *)
Sums(f, g, n) == f[0] = 0 /\ \A i \in 1..n : f[i] = f[i - 1] + g[i]

LEMMA SumsExist ==
    ASSUME NEW N \in Nat, NEW g \in [1..N -> Nat]
    PROVE  \E f \in [0..N -> Nat] : Sums(f, g, N)
<1> DEFINE F == [0..N -> Nat]
           T == {n \in 0..N : ~ \E f \in F : Sums(f, g, n)}
<1>1. SUFFICES ASSUME T # {} PROVE FALSE
  <2>1. N \in 0..N
    OBVIOUS
  <2>2. QED
    BY <2>1
<1>2. PICK n \in T : \A m \in T : n <= m
  <2>1. T \in SUBSET Nat
    OBVIOUS
  <2> HIDE DEF T
  <2>2. QED
    BY <1>1, <2>1, LeastElement
<1>3. n # 0
  <2>1. [i \in 0..N |-> 0] \in F /\ Sums([i \in 0..N |-> 0], g, 0)
    BY DEF Sums
  <2>2. QED
    BY <2>1
<1>4. n - 1 \in 0..N /\ n - 1 \notin T /\ n \in 1..N
  <2>1. n \in 0..N
    BY <1>2
  <2> HIDE DEF T
  <2>2. QED
    BY <1>2, <1>3, <2>1
<1>5. PICK f \in F : Sums(f, g, n - 1)
  BY <1>4
<1> DEFINE h == [f EXCEPT ![n] = f[n - 1] + g[n]]
<1>6. h \in F
  <2>1. f[n - 1] \in Nat /\ g[n] \in Nat
    BY <1>4
  <2>2. f[n - 1] + g[n] \in Nat
    BY <2>1
  <2>3. QED
    BY <2>2
<1>7. h[n] = f[n - 1] + g[n] /\ \A i \in 0..(n - 1) : h[i] = f[i]
  BY <1>4
<1> HIDE DEF h
<1>8. Sums(h, g, n)
  <2>1. h[0] = 0
    BY <1>4, <1>5, <1>7, SMTT(40) DEF Sums
  <2>2. ASSUME NEW i \in 1..n PROVE h[i] = h[i - 1] + g[i]
    <3>1. CASE i = n
      <4>1. n - 1 \in 0..(n - 1)
        BY <1>4
      <4>2. QED
        BY <1>7, <3>1, <4>1
    <3>2. CASE i # n
      <4>1. i \in 1..(n - 1) /\ i \in 0..(n - 1) /\ i - 1 \in 0..(n - 1)
        BY <1>4, <3>2
      <4>2. QED
        BY <1>5, <1>7, <4>1 DEF Sums
    <3>3. QED
      BY <3>1, <3>2
  <2>3. QED
    BY <2>1, <2>2 DEF Sums
<1>9. QED
  BY <1>2, <1>6, <1>8

(* The function inside CountInWindow is defined for any buckets. *)
LEMMA RunningDef ==
    ASSUME NEW bs \in Seq(Bucket), NEW c \in Nat, NEW w \in Nat \ {0}
    PROVE  /\ Running(bs, c, w)[0] = 0
           /\ \A i \in 1..Len(bs) : Running(bs, c, w)[i]
                                      = Running(bs, c, w)[i - 1] + Term(bs, c, w, i)
<1> DEFINE N == Len(bs)
           g == [i \in 1..N |-> Term(bs, c, w, i)]
           Body(f) == [i \in 0..N |-> IF i = 0 THEN 0 ELSE f[i - 1] + Term(bs, c, w, i)]
           u == Running(bs, c, w)
<1>1. N \in Nat /\ \A i \in 1..N : Term(bs, c, w, i) \in Nat
  BY BucketFields DEF Term
<1>2. u = CHOOSE h : h = Body(h)
  BY DEF Running
<1> HIDE DEF N, u
<1>3. g \in [1..N -> Nat]
  BY <1>1
<1>4. PICK f \in [0..N -> Nat] : Sums(f, g, N)
  BY <1>1, <1>3, SumsExist
<1>5. f = Body(f)
  <2>1. \A i \in 0..N : f[i] = IF i = 0 THEN 0 ELSE f[i - 1] + Term(bs, c, w, i)
    BY <1>1, <1>4 DEF Sums
  <2>2. QED
    BY <1>4, <2>1
<1>6. u = Body(u)
  BY <1>2, <1>5
<1>7. \A i \in 0..N : u[i] = IF i = 0 THEN 0 ELSE u[i - 1] + Term(bs, c, w, i)
  BY <1>6
<1>8. u[0] = 0 /\ \A i \in 1..N : u[i] = u[i - 1] + Term(bs, c, w, i)
  BY <1>1, <1>7
<1>9. QED
  BY <1>8 DEF u, N

(* Buckets of increasing seconds span at least as many seconds. *)
LEMMA Spread ==
    ASSUME NEW bs \in Seq(Bucket), Increasing(bs), NEW k \in 1..Len(bs)
    PROVE  bs[1].sec + (k - 1) <= bs[k].sec
<1> DEFINE N == Len(bs)
           T == {n \in 1..N : ~ (bs[1].sec + (n - 1) <= bs[n].sec)}
<1>1. N \in Nat /\ DOMAIN bs = 1..N /\ \A i \in 1..N : bs[i].sec \in Nat
  BY BucketFields
<1>2. k \in 1..N
  OBVIOUS
<1>3. \A i, j \in 1..N : i < j => bs[i].sec < bs[j].sec
  BY <1>1 DEF Increasing
<1> HIDE DEF N
<1>4. SUFFICES ASSUME T # {} PROVE FALSE
  BY <1>2
<1>5. PICK n \in T : \A m \in T : n <= m
  <2>1. T \in SUBSET Nat
    BY <1>1
  <2> HIDE DEF T
  <2>2. QED
    BY <1>4, <2>1, LeastElement
<1>6. n \in 1..N /\ ~ (bs[1].sec + (n - 1) <= bs[n].sec)
  BY <1>5
<1>7. n # 1
  BY <1>1, <1>6
<1>8. n - 1 \in 1..N /\ n - 1 \notin T
  <2> HIDE DEF T
  <2>1. QED
    BY <1>1, <1>5, <1>6, <1>7
<1>9. bs[1].sec + ((n - 1) - 1) <= bs[n - 1].sec
  BY <1>8
<1>10. bs[n - 1].sec < bs[n].sec
  BY <1>3, <1>6, <1>8
<1>11. bs[1].sec \in Nat /\ bs[n - 1].sec \in Nat /\ bs[n].sec \in Nat
  <2>1. 1 \in 1..N
    BY <1>1, <1>6
  <2>2. QED
    BY <1>1, <1>6, <1>8, <2>1
<1>12. QED
  BY <1>6, <1>9, <1>10, <1>11, SMTT(40)

(* The window of count_in_window and that of the property are the same. *)
LEMMA WindowIs ==
    ASSUME NEW c \in Nat, NEW w \in Nat \ {0}, NEW t \in Nat
    PROVE  Oldest(c, w) <= t /\ t <= c <=> t <= c /\ t + w > c
BY DEF Oldest

(* An accurate series gives the exact number of requests of the window. *)
LEMMA WindowSum ==
    ASSUME NEW bs \in Seq(Bucket), NEW c \in Nat, NEW S, IsFiniteSet(S), NEW f,
           \A r \in S : f[r] \in Nat, Accurate(bs, S, f, c)
    PROVE  CountInWindow(bs, c, RpsWindow)
             = Cardinality({r \in S : f[r] <= c /\ f[r] + RpsWindow > c})
<1> USE Constants
<1> DEFINE N == Len(bs)
           In(t) == t <= c /\ t + RpsWindow > c
           Seen(k) == {r \in S : In(f[r]) /\ \E i \in 1..k : bs[i].sec = f[r]}
           u == Running(bs, c, RpsWindow)
           T == {k \in 0..N : u[k] # Cardinality(Seen(k))}
<1>1. /\ N \in Nat /\ DOMAIN bs = 1..N /\ N = Len(bs)
      /\ \A i \in 1..N : bs[i].sec \in Nat /\ bs[i].count \in Nat
  BY BucketFields
<1>2. u[0] = 0 /\ \A i \in 1..N : u[i] = u[i - 1] + Term(bs, c, RpsWindow, i)
  BY RunningDef
<1>3. \A i \in 1..N : Term(bs, c, RpsWindow, i) = IF In(bs[i].sec) THEN bs[i].count ELSE 0
  BY <1>1, WindowIs DEF Term
<1>4. /\ \A i, j \in 1..N : i < j => bs[i].sec < bs[j].sec
      /\ \A i \in 1..N : bs[i].count = Cardinality(Hits(S, f, bs[i].sec))
  BY <1>1 DEF Accurate, Increasing, Exact
<1>5. \A k : IsFiniteSet(Seen(k)) /\ Cardinality(Seen(k)) \in Nat
  <2> SUFFICES ASSUME NEW k PROVE IsFiniteSet(Seen(k)) /\ Cardinality(Seen(k)) \in Nat
    OBVIOUS
  <2>1. Seen(k) \in SUBSET S
    OBVIOUS
  <2> HIDE DEF Seen
  <2>2. QED
    BY <2>1, FS_Subset, FS_CardinalityType
<1>6. \A t : IsFiniteSet(Hits(S, f, t)) /\ Cardinality(Hits(S, f, t)) \in Nat
  <2> SUFFICES ASSUME NEW t
               PROVE  IsFiniteSet(Hits(S, f, t)) /\ Cardinality(Hits(S, f, t)) \in Nat
    OBVIOUS
  <2>1. Hits(S, f, t) \in SUBSET S
    BY DEF Hits
  <2>2. QED
    BY <2>1, FS_Subset, FS_CardinalityType
<1> HIDE DEF u, N
<1>7. T = {}
  <2> SUFFICES ASSUME T # {} PROVE FALSE
    OBVIOUS
  <2>1. PICK n \in T : \A m \in T : n <= m
    <3>1. T \in SUBSET Nat
      BY <1>1
    <3> HIDE DEF T
    <3>2. QED
      BY <3>1, LeastElement
  <2>2. n \in 0..N /\ u[n] # Cardinality(Seen(n))
    BY <2>1
  <2>3. n # 0
    <3>1. Seen(0) = {}
      OBVIOUS
    <3> HIDE DEF Seen
    <3>2. QED
      BY <1>2, <2>2, <3>1, FS_EmptySet
  <2>4. n \in 1..N /\ n - 1 \in 0..N /\ n - 1 \notin T
    <3> HIDE DEF T
    <3>1. QED
      BY <1>1, <2>1, <2>2, <2>3
  <2>5. u[n - 1] = Cardinality(Seen(n - 1))
    BY <2>4
  <2>6. u[n] = u[n - 1] + (IF In(bs[n].sec) THEN bs[n].count ELSE 0)
    <3> HIDE DEF In
    <3>1. QED
      BY <1>2, <1>3, <2>4
  <2> DEFINE H == Hits(S, f, bs[n].sec)
  <2>7. \A i \in 1..n : i = n \/ i \in 1..(n - 1)
    BY <1>1, <2>4
  <2>8. n \in 1..n /\ 1..(n - 1) \subseteq 1..n
    BY <1>1, <2>4
  <2>9. CASE In(bs[n].sec)
    <3>1. Seen(n) = Seen(n - 1) \cup H
      <4> HIDE DEF In
      <4>1. QED
        BY <2>7, <2>8, <2>9 DEF Hits
    <3>2. Seen(n - 1) \cap H = {}
      <4> SUFFICES ASSUME NEW i \in 1..(n - 1), bs[i].sec = bs[n].sec PROVE FALSE
        BY DEF Hits
      <4>1. i \in 1..N /\ i < n
        BY <1>1, <2>4
      <4>2. bs[i].sec < bs[n].sec /\ bs[i].sec \in Nat
        BY <1>1, <1>4, <2>4, <4>1
      <4>3. QED
        BY <4>2
    <3> HIDE DEF Seen, In
    <3>3. Cardinality(Seen(n)) = Cardinality(Seen(n - 1)) + Cardinality(H) - Cardinality({})
      <4>1. Cardinality(Seen(n - 1) \cup H)
              = Cardinality(Seen(n - 1)) + Cardinality(H) - Cardinality(Seen(n - 1) \cap H)
        BY <1>5, <1>6, FS_Union
      <4>2. QED
        BY <3>1, <3>2, <4>1
    <3>4. Cardinality(Seen(n)) = Cardinality(Seen(n - 1)) + Cardinality(H)
      BY <1>5, <1>6, <3>3, FS_EmptySet
    <3>5. u[n] = Cardinality(Seen(n - 1)) + Cardinality(H)
      BY <1>4, <2>4, <2>5, <2>6, <2>9
    <3>6. QED
      BY <2>2, <3>4, <3>5
  <2>10. CASE ~In(bs[n].sec)
    <3>1. Seen(n) = Seen(n - 1)
      <4> HIDE DEF In
      <4>1. QED
        BY <2>7, <2>8, <2>10
    <3> HIDE DEF Seen, In
    <3>2. u[n] = Cardinality(Seen(n - 1))
      BY <1>5, <2>5, <2>6, <2>10
    <3>3. QED
      BY <2>2, <3>1, <3>2
  <2>11. QED
    BY <2>9, <2>10
<1>8. u[N] = Cardinality(Seen(N))
  <2>1. N \in 0..N
    BY <1>1
  <2>2. QED
    BY <1>7, <2>1
<1>9. ASSUME NEW r \in S, In(f[r]) PROVE \E i \in 1..N : bs[i].sec = f[r]
  <2>1. CASE N = BucketCap /\ f[r] < bs[1].sec
    <3>1. N \in 1..N /\ 1 \in 1..N
      BY <1>1, <2>1
    <3>2. bs[1].sec + (N - 1) <= bs[N].sec
      BY <1>1, <3>1, Spread DEF Accurate
    <3>3. bs[N].sec <= c
      BY <1>1, <3>1 DEF Accurate, UpTo
    <3>4. bs[1].sec \in Nat /\ bs[N].sec \in Nat /\ f[r] \in Nat
      BY <1>1, <3>1
    <3>5. f[r] + RpsWindow > c
      BY <1>9
    <3> DEFINE x == bs[1].sec
               y == bs[N].sec
               z == f[r]
    <3> HIDE DEF x, y, z
    <3>6. x + (N - 1) <= y /\ y <= c /\ x \in Nat /\ y \in Nat /\ z \in Nat /\ z + RpsWindow > c /\ z < x
      BY <2>1, <3>2, <3>3, <3>4, <3>5 DEF x, y, z
    <3>7. FALSE
      BY <1>1, <2>1, <3>6
    <3>8. QED
      BY <3>7
  <2>2. QED
    BY <1>1, <2>1 DEF Accurate, Covers
<1>10. Seen(N) = {r \in S : f[r] <= c /\ f[r] + RpsWindow > c}
  BY <1>9
<1>11. CountInWindow(bs, c, RpsWindow) = u[N]
  BY CountIsRunning DEF u, N
<1> HIDE DEF Seen
<1>12. QED
  BY <1>8, <1>10, <1>11

(* As long as no second ends inside a recording or a tick, compute_rps is  *)
(* exact: it counts each request that reached its bucket within the window *)
(* and no other, although the series keeps only BucketCap seconds.         *)
THEOREM WindowCountIsExact == Spec => []WindowCountExact
<1>1. SeriesInv => WindowCountExact
  <2> SUFFICES ASSUME SeriesInv, ~late
               PROVE  CountInWindow(buckets, clock, RpsWindow)
                        = Cardinality({r \in Past("bucket") : InWindow(sec[r])})
    BY DEF WindowCountExact
  <2> DEFINE S == Reached(AfterBucket)
  <2>1. Typed /\ IsFiniteSet(Totals) /\ Accurate(buckets, S, sec, clock)
    BY DEF SeriesInv, TallyInv, Tally, Series
  <2>2. buckets \in Seq(Bucket) /\ clock \in Nat /\ \A r \in S : sec[r] \in Nat
    BY <2>1, Constants DEF Typed, Reached
  <2>3. IsFiniteSet(S)
    <3>1. S \in SUBSET Totals
      BY DEF Totals, Reached, AfterTotal, AfterErrors, AfterStatus, AfterRoute, AfterBucket
    <3>2. QED
      BY <2>1, <3>1, FS_Subset
  <2>4. Past("bucket") = S
    BY <2>1, PastIs
  <2> HIDE DEF S
  <2>5. CountInWindow(buckets, clock, RpsWindow)
          = Cardinality({r \in S : sec[r] <= clock /\ sec[r] + RpsWindow > clock})
    BY <2>1, <2>2, <2>3, WindowSum
  <2>6. {r \in S : sec[r] <= clock /\ sec[r] + RpsWindow > clock}
          = {r \in Past("bucket") : InWindow(sec[r])}
    BY <2>4 DEF InWindow
  <2>7. QED
    BY <2>5, <2>6
<1>2. QED
  BY <1>1, SeriesHolds, PTL

-----------------------------------------------------------------------------
(* Percentiles *)

(* s is a sorted arrangement of the latencies in samples. *)
Arranges(s, samples) ==
    /\ \E perm \in Bijection(1..Len(samples), 1..Len(samples)) :
          s = [i \in 1..Len(samples) |-> samples[perm[i]]]
    /\ \A i, j \in 1..Len(samples) : i <= j => s[i] <= s[j]

LEMMA RankBounds ==
    ASSUME NEW n \in Nat, n > 0, NEW p \in {50, 95, 99}
    PROVE  /\ NearestRank(p, n) \in 1..n
           /\ 100 * NearestRank(p, n) >= p * n
           /\ 100 * (NearestRank(p, n) - 1) < p * n
<1>1. CASE p = 50
  BY <1>1 DEF NearestRank
<1>2. CASE p = 95
  BY <1>2 DEF NearestRank
<1>3. CASE p = 99
  BY <1>3 DEF NearestRank
<1>4. QED
  BY <1>1, <1>2, <1>3

(* The nearest rank is the percentile: of any number of latencies, in any  *)
(* order and with any repetitions, percentile() takes from their sorted    *)
(* arrangement the least that p of 100 do not exceed, neither one too low  *)
(* nor one too high, and the clamping never takes effect.                  *)
THEOREM NearestRankIsPercentile ==
    ASSUME NEW samples \in Seq(Nat), Len(samples) > 0,
           NEW s, Arranges(s, samples), NEW p \in {50, 95, 99}
    PROVE  IsPercentile(Percentile(s, p), samples, p)
<1> DEFINE n == Len(samples)
           k == NearestRank(p, n)
           v == s[k]
           below(u) == {i \in 1..n : samples[i] <= u}
<1>1. n \in Nat /\ n > 0 /\ DOMAIN samples = 1..n /\ \A i \in 1..n : samples[i] \in Nat
  OBVIOUS
<1>2. k \in 1..n /\ 100 * k >= p * n /\ 100 * (k - 1) < p * n
  <2> HIDE DEF n
  <2>1. QED
    BY <1>1, RankBounds, ZenonT(60)
<1> HIDE DEF n, k
<1>3. PICK perm \in Bijection(1..n, 1..n) : s = [i \in 1..n |-> samples[perm[i]]]
  BY DEF Arranges, n
<1>4. /\ perm \in [1..n -> 1..n]
      /\ \A i, j \in 1..n : perm[i] = perm[j] => i = j
      /\ \A j \in 1..n : \E i \in 1..n : perm[i] = j
  BY <1>3 DEF Bijection, Injection, Surjection, IsInjective
<1>4a. perm \in [1..n -> 1..n]
  BY <1>4
<1>4b. \A i \in 1..n : perm[i] \in 1..n
  BY <1>4a
<1>5. \A i, j \in 1..n : i <= j => s[i] <= s[j]
  BY DEF Arranges, n
<1>6. \A i \in 1..n : s[i] = samples[perm[i]] /\ s[i] \in Nat
  <2> TAKE i \in 1..n
  <2>1. perm[i] \in 1..n
    BY <1>4b
  <2>2. s[i] = samples[perm[i]]
    BY <1>3
  <2>3. QED
    BY <1>1, <2>1, <2>2
<1>7. Percentile(s, p) = v
  <2>1. s \in Seq(Nat) /\ Len(s) = n
    BY <1>1, <1>3, <1>6
  <2>2. Clamped(k, n) = k
    BY <1>1, <1>2 DEF Clamped
  <2>3. QED
    BY <1>1, <2>1, <2>2 DEF Percentile, k
<1>8. \A u : IsFiniteSet(below(u)) /\ Cardinality(below(u)) \in Nat
  <2> TAKE u
  <2>1. IsFiniteSet(1..n) /\ below(u) \in SUBSET (1..n)
    BY <1>1, FS_Interval
  <2>2. QED
    BY <2>1, FS_Subset, FS_CardinalityType
(* The first k of the arrangement are among those that v is not below. *)
<1>9. Cardinality(below(v)) >= k
  <2> DEFINE f == [i \in 1..k |-> perm[i]]
  <2>1. \A i \in 1..k : i \in 1..n /\ i <= k
    BY <1>1, <1>2
  <2>2. ASSUME NEW i \in 1..k PROVE perm[i] \in below(v)
    <3>1. i \in 1..n /\ k \in 1..n /\ i <= k
      BY <1>2, <2>1
    <3>2. s[i] <= v /\ s[i] = samples[perm[i]]
      BY <1>5, <1>6, <3>1
    <3>3. perm[i] \in 1..n
      BY <1>4b, <3>1
    <3>4. QED
      BY <3>2, <3>3
  <2>3. f \in [1..k -> below(v)] /\ \A i, j \in 1..k : f[i] = f[j] => i = j
    <3> HIDE DEF v, below
    <3>1. QED
      BY <1>4, <2>1, <2>2
  <2> HIDE DEF f, below
  <2>4. f \in Injection(1..k, below(v))
    BY <2>3 DEF Injection, IsInjective
  <2>5. Cardinality(1..k) = k
    BY <1>1, <1>2, FS_Interval
  <2>6. QED
    BY <1>8, <2>4, <2>5, FS_Injection
(* What is less than v comes before k. *)
<1>10. ASSUME NEW u \in Nat, u < v PROVE Cardinality(below(u)) <= k - 1
  <2> DEFINE f == [j \in below(u) |-> CHOOSE i \in 1..n : perm[i] = j]
  <2>1. ASSUME NEW j \in below(u)
        PROVE  f[j] \in 1..(k - 1) /\ perm[f[j]] = j
    <3>1. PICK i \in 1..n : i = f[j] /\ perm[i] = j
      BY <1>4
    <3>2. s[i] <= u
      BY <1>6, <3>1
    <3>3. ~(k <= i)
      BY <1>2, <1>5, <1>6, <1>10, <3>2
    <3>4. i \in 1..(k - 1)
      BY <1>1, <1>2, <3>3
    <3>5. QED
      BY <3>1, <3>4
  <2>2. f \in [below(u) -> 1..(k - 1)] /\ \A i, j \in below(u) : f[i] = f[j] => i = j
    <3>1. f \in [below(u) -> 1..(k - 1)]
      <4>1. \A j \in below(u) : (CHOOSE i \in 1..n : perm[i] = j) \in 1..(k - 1)
        BY <2>1
      <4> HIDE DEF below
      <4>2. QED
        BY <4>1, SMTT(40)
    <3> HIDE DEF f, below
    <3>2. QED
      BY <2>1, <3>1
  <2> HIDE DEF f, below
  <2>3. f \in Injection(below(u), 1..(k - 1))
    BY <2>2 DEF Injection, IsInjective
  <2>4. IsFiniteSet(1..(k - 1)) /\ Cardinality(1..(k - 1)) = k - 1
    <3>1. 1 \in Int /\ k - 1 \in Int /\ (1 > k - 1 => k - 1 = 0) /\ (k - 1) - 1 + 1 = k - 1
      BY <1>1, <1>2
    <3>2. QED
      BY <3>1, FS_Interval
  <2>5. QED
    BY <2>3, <2>4, FS_Injection
<1>11. \A u : AtMost(samples, u) = Cardinality(below(u))
  BY <1>1 DEF AtMost
<1>12. 100 * AtMost(samples, v) >= p * n
  <2>1. Cardinality(below(v)) \in Nat /\ AtMost(samples, v) = Cardinality(below(v))
    BY <1>8, <1>11, ZenonT(60)
  <2> HIDE DEF v, below
  <2>2. QED
    BY <1>1, <1>2, <1>9, <2>1
<1>13. ASSUME NEW i \in 1..n, samples[i] < v PROVE 100 * AtMost(samples, samples[i]) < p * n
  <2>1. PICK u \in Nat : u = samples[i]
    BY <1>1
  <2>2. Cardinality(below(u)) <= k - 1
    BY <1>10, <1>13, <2>1
  <2>3. Cardinality(below(u)) \in Nat /\ AtMost(samples, u) = Cardinality(below(u))
    BY <1>8, <1>11
  <2> HIDE DEF v, below
  <2>4. QED
    BY <1>1, <1>2, <2>1, <2>2, <2>3
<1>14. \E i \in 1..n : samples[i] = v
  <2>1. perm[k] \in 1..n
    BY <1>2, <1>4b
  <2>2. v = samples[perm[k]]
    BY <1>2, <1>6
  <2>3. QED
    BY <2>1, <2>2
<1> HIDE DEF v, below
<1>15. QED
  BY <1>1, <1>7, <1>12, <1>13, <1>14 DEF IsPercentile, n

=============================================================================
