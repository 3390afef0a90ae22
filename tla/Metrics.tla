------------------------------ MODULE Metrics ------------------------------
(***************************************************************************)
(* MetricsStore (src/src/admin/store.rs) and the admin handlers that read  *)
(* it (src/src/admin/handlers.rs).                                         *)
(*                                                                         *)
(* record_request touches eight pieces of shared state one after another,  *)
(* each under a lock or an atomic of its own, so the recordings of         *)
(* concurrent requests interleave between any two of them.  hyper drops    *)
(* the handler of a client that disconnects: a recording may end for good  *)
(* at any of its .awaits.                                                  *)
(*                                                                         *)
(* A request is an identity; of its status the model keeps whether it is   *)
(* an error (>= 400), of its route whether one matched.  The clock counts  *)
(* seconds.                                                                *)
(***************************************************************************)
EXTENDS Naturals, Sequences, FiniteSets

CONSTANTS
    Requests,      \* requests to be recorded
    Failing,       \* those answered with a status >= 400
    Matched,       \* those that matched a route
    RingCap,       \* RING_BUFFER_CAP
    BucketCap,     \* BUCKET_COUNT
    LatencyCap,    \* LATENCY_BUFFER_CAP
    ChannelCap,    \* capacity of the broadcast channel
    RpsWindow,     \* seconds compute_rps looks back
    MaxClock,      \* bound: the clock stops here
    Admin,         \* the admin clients: "metrics" polls, "events" subscribes
    Cancels        \* TRUE: clients may disconnect while being recorded

ASSUME MetricsAssumption ==
    /\ Failing \subseteq Requests /\ Matched \subseteq Requests
    /\ {RingCap, BucketCap, LatencyCap, ChannelCap, RpsWindow} \subseteq Nat \ {0}
    /\ RpsWindow <= BucketCap
    /\ MaxClock \in Nat
    /\ Admin \subseteq {"metrics", "events"}
    /\ Cancels \in BOOLEAN

VARIABLES
    clock,      \* SystemTime::now() in seconds
    late,       \* history: a second has ended between a timestamp and its use
    pc,         \* what each recording does next
    gone,       \* recordings dropped half-way
    id, sec,    \* id and timestamp of each recording
    nextId,     \* next_id
    total, errors,          \* total_requests, total_errors
    codes,                  \* status_code_counts, by class
    routes,                 \* route_stats, summed over the routes
    buckets,                \* time_buckets
    latencies,              \* recent_latencies, as the requests they belong to
    log,                    \* request_log
    sent,                   \* every entry handed to event_tx
    sub,                    \* an SSE subscriber
    delivered,              \* what that subscriber received
    ticker,                 \* the second read by tick(), or Idle
    report                  \* the fields of MetricsSummary read so far

recording == <<pc, gone, id, sec, nextId>>
counters == <<total, errors, codes, routes>>
stores == <<buckets, latencies, log>>
stream == <<sent, sub, delivered>>
vars == <<clock, late, recording, counters, stores, stream, ticker, report>>

Phases == <<"idle", "stamp", "total", "errors", "status", "route",
            "bucket", "latency", "log", "send", "done">>
Phase == {Phases[i] : i \in DOMAIN Phases}
Rank(p) == CHOOSE i \in DOMAIN Phases : Phases[i] = p
Past(p) == {r \in Requests : Rank(pc[r]) > Rank(p)}
Idle == MaxClock + 1

(* is_error, and the slip of counting server errors only (none of the      *)
(* Failing requests is one).  Its other half, error.is_some(), adds        *)
(* nothing: who passes an error passes a status of 400 or more with it.    *)
IsErrorServerOnly(r) == FALSE
IsError(r) == r \in Failing
One(b) == IF b THEN 1 ELSE 0

(* The type invariant, with the capacity of each bounded store. *)
TypeOK ==
    /\ clock \in 0..MaxClock /\ late \in BOOLEAN
    /\ pc \in [Requests -> Phase]
    /\ gone \in SUBSET Requests
    /\ id \in [Requests -> Nat] /\ sec \in [Requests -> 0..MaxClock]
    /\ {nextId, total, errors} \subseteq Nat
    /\ codes \in [{"ok", "err"} -> Nat]
    /\ routes \in [{"total", "errs"} -> Nat]
    /\ buckets \in Seq([sec : 0..MaxClock, count : Nat, errs : Nat])
    /\ {latencies, log, sent, delivered} \subseteq Seq(Requests)
    /\ Len(buckets) <= BucketCap
    /\ Len(latencies) <= LatencyCap
    /\ Len(log) <= RingCap
    /\ sub \in [on : BOOLEAN, from : Nat, pos : Nat, lagged : BOOLEAN]
    /\ ticker \in 0..Idle
    /\ report \in [stage : {"none", "total", "errors"}, total : Nat, errors : Nat]

Init ==
    /\ clock = 0 /\ late = FALSE
    /\ pc = [r \in Requests |-> "idle"]
    /\ gone = {}
    /\ id = [r \in Requests |-> 0] /\ sec = [r \in Requests |-> 0]
    /\ nextId = 1
    /\ total = 0 /\ errors = 0
    /\ codes = [c \in {"ok", "err"} |-> 0]
    /\ routes = [c \in {"total", "errs"} |-> 0]
    /\ buckets = <<>> /\ latencies = <<>> /\ log = <<>>
    /\ sent = <<>> /\ delivered = <<>>
    /\ sub = [on |-> FALSE, from |-> 0, pos |-> 0, lagged |-> FALSE]
    /\ ticker = Idle
    /\ report = [stage |-> "none", total |-> 0, errors |-> 0]

-----------------------------------------------------------------------------
(* record_request, one action per shared access *)

At(r, p) == pc[r] = p /\ r \notin gone
Goto(r, p) == pc' = [pc EXCEPT ![r] = p]

TakeId(r) ==
    /\ At(r, "idle")
    /\ id' = [id EXCEPT ![r] = nextId]
    /\ nextId' = nextId + 1
    /\ Goto(r, "stamp")
    /\ UNCHANGED <<clock, late, gone, sec, counters, stores, stream, ticker, report>>

Stamp(r) ==
    /\ At(r, "stamp")
    /\ sec' = [sec EXCEPT ![r] = clock]
    /\ Goto(r, "total")
    /\ UNCHANGED <<clock, late, gone, id, nextId, counters, stores, stream, ticker, report>>

CountTotal(r) ==
    /\ At(r, "total")
    /\ total' = total + 1
    /\ Goto(r, IF IsError(r) THEN "errors" ELSE "status")
    /\ UNCHANGED <<clock, late, gone, id, sec, nextId, errors, codes, routes, stores,
                   stream, ticker, report>>

CountError(r) ==
    /\ At(r, "errors")
    /\ errors' = errors + 1
    /\ Goto(r, "status")
    /\ UNCHANGED <<clock, late, gone, id, sec, nextId, total, codes, routes, stores,
                   stream, ticker, report>>

(* Slip: failed requests are left out of the route statistics. *)
HasRouteUnlessFailed(r) == r \in Matched \ Failing
HasRoute(r) == r \in Matched

CountStatus(r) ==
    /\ At(r, "status")
    /\ codes' = [codes EXCEPT ![IF r \in Failing THEN "err" ELSE "ok"] = @ + 1]
    /\ Goto(r, IF HasRoute(r) THEN "route" ELSE "bucket")
    /\ UNCHANGED <<clock, late, gone, id, sec, nextId, total, errors, routes, stores,
                   stream, ticker, report>>

CountRoute(r) ==
    /\ At(r, "route")
    /\ routes' = [total |-> routes["total"] + 1,
                  errs |-> routes["errs"] + One(IsError(r))]
    /\ Goto(r, "bucket")
    /\ UNCHANGED <<clock, late, gone, id, sec, nextId, total, errors, codes, stores,
                   stream, ticker, report>>

(* Pop from the front while longer than n; a push adds one element, so one *)
(* pop is enough.  The slip lets a store grow.                             *)
LastUntrimmed(s, n) == s
Last(s, n) == IF Len(s) > n THEN Tail(s) ELSE s

NewBucket(s, n, e) == [sec |-> s, count |-> n, errs |-> e]

(* The last bucket is bumped when it is of the recording's second;         *)
(* otherwise a bucket is appended, even for a second before the last one.  *)
(* The slip always appends.                                                *)
LastIsOfNone(s) == FALSE
LastIsOf(s) == buckets # <<>> /\ buckets[Len(buckets)].sec = s

CountBucket(r) ==
    /\ At(r, "bucket")
    /\ buckets' =
          IF LastIsOf(sec[r])
          THEN [buckets EXCEPT ![Len(buckets)] =
                  NewBucket(@.sec, @.count + 1, @.errs + One(IsError(r)))]
          ELSE Last(Append(buckets, NewBucket(sec[r], 1, One(IsError(r)))), BucketCap)
    /\ Goto(r, "latency")
    /\ UNCHANGED <<clock, late, gone, id, sec, nextId, counters, latencies, log,
                   stream, ticker, report>>

(* Slip: the event is sent before the ring buffer is updated. *)
KeepLatencyThenSend(r) ==
    /\ At(r, "latency")
    /\ latencies' = Last(Append(latencies, r), LatencyCap)
    /\ Goto(r, "send")
    /\ UNCHANGED <<clock, late, gone, id, sec, nextId, counters, buckets, log,
                   stream, ticker, report>>

KeepLatency(r) ==
    /\ At(r, "latency")
    /\ latencies' = Last(Append(latencies, r), LatencyCap)
    /\ Goto(r, "log")
    /\ UNCHANGED <<clock, late, gone, id, sec, nextId, counters, buckets, log,
                   stream, ticker, report>>

AppendLog(r) ==
    /\ At(r, "log")
    /\ log' = Last(Append(log, r), RingCap)
    /\ Goto(r, "send")
    /\ UNCHANGED <<clock, late, gone, id, sec, nextId, counters, buckets, latencies,
                   stream, ticker, report>>

Send(r) ==
    /\ At(r, "send")
    /\ sent' = Append(sent, r)
    /\ Goto(r, "done")
    /\ UNCHANGED <<clock, late, gone, id, sec, nextId, counters, stores, sub,
                   delivered, ticker, report>>

(* The client disconnects while the recording awaits a lock. *)
Cancel(r) ==
    /\ Cancels
    /\ r \notin gone
    /\ pc[r] \in {"status", "route", "bucket", "latency", "log"}
    /\ gone' = gone \cup {r}
    /\ UNCHANGED <<clock, late, pc, id, sec, nextId, counters, stores, stream, ticker, report>>

-----------------------------------------------------------------------------
(* The ticker: the second is read before the lock is taken. *)

TickRead ==
    /\ ticker = Idle
    /\ ticker' = clock
    /\ UNCHANGED <<clock, late, recording, counters, stores, stream, report>>

TickPush ==
    /\ ticker # Idle
    /\ ticker' = Idle
    /\ buckets' = IF LastIsOf(ticker) THEN buckets
                  ELSE Last(Append(buckets, NewBucket(ticker, 0, 0)), BucketCap)
    /\ UNCHANGED <<clock, late, recording, counters, latencies, log, stream, report>>

(* A timestamp was taken and its bucket not yet counted. *)
StampInUse(r) == Rank("total") <= Rank(pc[r]) /\ Rank(pc[r]) <= Rank("bucket")

Advance ==
    /\ clock < MaxClock
    /\ clock' = clock + 1
    /\ late' = (late \/ ticker # Idle \/ \E r \in Requests \ gone : StampInUse(r))
    /\ UNCHANGED <<recording, counters, stores, stream, ticker, report>>

-----------------------------------------------------------------------------
(* The readers *)

(* Slip: the window reaches one second too far back. *)
CountInWindowWide(bs, now, w) ==
    LET oldest == IF now >= w THEN now - w ELSE 0
        f[i \in 0..Len(bs)] ==
            IF i = 0 THEN 0
            ELSE f[i - 1] + (IF oldest <= bs[i].sec /\ bs[i].sec <= now
                             THEN bs[i].count ELSE 0)
    IN f[Len(bs)]

(* count_in_window: the sum over the buckets of the last w seconds. *)
CountInWindow(bs, now, w) ==
    LET oldest == IF now >= w - 1 THEN now - (w - 1) ELSE 0
        f[i \in 0..Len(bs)] ==
            IF i = 0 THEN 0
            ELSE f[i - 1] + (IF oldest <= bs[i].sec /\ bs[i].sec <= now
                             THEN bs[i].count ELSE 0)
    IN f[Len(bs)]

(* admin_metrics loads the two atomics one after the other. *)
ReadTotal ==
    /\ "metrics" \in Admin
    /\ report.stage = "none"
    /\ report' = [stage |-> "total", total |-> total, errors |-> 0]
    /\ UNCHANGED <<clock, late, recording, counters, stores, stream, ticker>>

ReadErrors ==
    /\ report.stage = "total"
    /\ report' = [stage |-> "errors", total |-> report.total, errors |-> errors]
    /\ UNCHANGED <<clock, late, recording, counters, stores, stream, ticker>>

(* admin_events: a receiver starts at the channel's tail. *)
Subscribe ==
    /\ "events" \in Admin
    /\ ~sub.on
    /\ sub' = [on |-> TRUE, from |-> Len(sent), pos |-> Len(sent), lagged |-> FALSE]
    /\ UNCHANGED <<clock, late, recording, counters, stores, sent, delivered, ticker, report>>

(* The next event.  A receiver more than ChannelCap behind resumes at the  *)
(* oldest entry still held; filter_map swallows the Lagged error.          *)
Behind == Len(sent) - sub.pos > ChannelCap
Resume == IF Behind THEN Len(sent) - ChannelCap ELSE sub.pos

Deliver ==
    /\ sub.on
    /\ sub.pos < Len(sent)
    /\ delivered' = Append(delivered, sent[Resume + 1])
    /\ sub' = [on |-> TRUE, from |-> sub.from, pos |-> Resume + 1,
               lagged |-> sub.lagged \/ Behind]
    /\ UNCHANGED <<clock, late, recording, counters, stores, sent, ticker, report>>

-----------------------------------------------------------------------------
RecordStep(r) ==
    \/ TakeId(r) \/ Stamp(r) \/ CountTotal(r) \/ CountError(r)
    \/ CountStatus(r) \/ CountRoute(r) \/ CountBucket(r) \/ KeepLatency(r)
    \/ AppendLog(r) \/ Send(r) \/ Cancel(r)

Next ==
    \/ \E r \in Requests : RecordStep(r)
    \/ TickRead \/ TickPush \/ Advance
    \/ ReadTotal \/ ReadErrors \/ Subscribe \/ Deliver

Spec == Init /\ [][Next]_vars

-----------------------------------------------------------------------------
(* Properties *)

Sum(f) == f["ok"] + f["err"]

(* Whatever recordings overlap, and wherever one is cut off, the counters  *)
(* are nested: at no moment are there more errors or more statuses         *)
(* than requests, or more routed requests than statuses.                   *)
CountersNested ==
    /\ errors <= total /\ Sum(codes) <= total /\ codes["err"] <= errors
    /\ routes["total"] <= Sum(codes)
    /\ routes["errs"] <= routes["total"] /\ routes["errs"] <= codes["err"]

(* Once no recording is under way and none was cut off, every view of the  *)
(* store agrees on how many requests there were.                           *)
AtRestConsistent ==
    (gone = {} /\ \A r \in Requests : pc[r] \in {"idle", "done"}) =>
        LET n == Cardinality(Past("send"))
            Kept(cap) == IF n < cap THEN n ELSE cap
        IN  /\ total = n /\ Sum(codes) = n /\ Len(sent) = n
            /\ errors = codes["err"]
            /\ routes["total"] = Cardinality(Past("send") \cap Matched)
            /\ routes["errs"] = Cardinality(Past("send") \cap Matched \cap Failing)
            /\ Len(log) = Kept(RingCap) /\ Len(latencies) = Kept(LatencyCap)

(* A subscriber of /admin/events that never falls more than ChannelCap     *)
(* events behind gets every event sent since it subscribed, in order and   *)
(* once; and one that is told of a request finds it in                     *)
(* /admin/api/requests/recent, unless the ring buffer is full.             *)
EventsFaithful ==
    /\ sub.on /\ ~sub.lagged => delivered = SubSeq(sent, sub.from + 1, sub.pos)
    /\ \A i \in DOMAIN delivered :
          (\E j \in DOMAIN log : log[j] = delivered[i]) \/ Len(log) = RingCap

InWindow(t) == t <= clock /\ t + RpsWindow > clock

(* When no second ends inside a recording or a tick, the request rate is   *)
(* exact: compute_rps counts each request that reached its bucket within   *)
(* the window, and no other, whatever was trimmed.                         *)
WindowCountExact ==
    ~late => CountInWindow(buckets, clock, RpsWindow)
               = Cardinality({r \in Past("bucket") : InWindow(sec[r])})

(* Under the same condition the series is chronological, one point per     *)
(* second.  A late record opens a second bucket for a second that has one. *)
SeriesChronological ==
    ~late => \A i, j \in DOMAIN buckets : i < j => buckets[i].sec < buckets[j].sec

(* docs/admin-dashboard.md on error_rate: "Range 0.0-1.0". *)
ErrorRateWithinOne ==
    report.stage = "errors" /\ report.total > 0 => report.errors <= report.total

=============================================================================
