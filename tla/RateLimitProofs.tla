-------------------------- MODULE RateLimitProofs --------------------------
(***************************************************************************)
(* Proofs about RateLimit, for any clients, limit, window and map size.    *)
(***************************************************************************)
EXTENDS RateLimit, FiniteSetTheorems, TLAPS

(***************************************************************************)
(* The inductive invariant: the Vec of a key holds grants of that key      *)
(* only, and every grant young enough to count is still in it.  Cleaning   *)
(* up may therefore be as lazy, and as eager, as the code likes.           *)
(***************************************************************************)
Bucketed == \A k \in Clients : \A g \in stamps[k] : g.key = k
Retained == \A g \in grants : now - g.at <= Window => g \in stamps[g.key]
Dated == \A g \in grants : g.at <= now /\ g.n <= issued
Finite == IsFiniteSet(grants) /\ IsFiniteSet(tracked)
Inv == TypeOK /\ Finite /\ Bucketed /\ Retained /\ Dated

(* What Allow and Reject leave in the Vecs: for the key that asked exactly *)
(* its grants in the window, for the others at least those.                *)
LEMMA FreshIsRecent ==
    ASSUME Inv, NEW k \in Clients
    PROVE  /\ Fresh(k) = {g \in grants : g.key = k /\ now - g.at <= Window}
           /\ Swept(k) \in [Clients -> SUBSET grants]
           /\ \A j \in Clients : Live(stamps[j]) \subseteq Swept(k)[j]
           /\ \A j \in Clients : Swept(k)[j] \subseteq stamps[j]
           /\ \A j \in Clients \ Kept(k) : Swept(k)[j] = {}
           /\ Kept(k) \subseteq tracked
<1> USE DEF Inv, TypeOK, Live, Swept, Kept
<1>1. CASE Full(k)
  BY <1>1 DEF Fresh, Bucketed, Retained
<1>2. CASE ~Full(k)
  BY <1>2 DEF Fresh, Bucketed, Retained
<1>3. QED
  BY <1>1, <1>2

LEMMA InvHolds == Spec => []Inv
<1>1. Init => Inv
  BY RateLimitAssumption, FS_EmptySet
     DEF RateLimitAssumption, Init, Inv, TypeOK, Finite, Bucketed, Retained, Dated
<1>2. Inv /\ [Next]_vars => Inv'
  <2> SUFFICES ASSUME Inv, [Next]_vars PROVE Inv'
    OBVIOUS
  <2> USE RateLimitAssumption DEF RateLimitAssumption
  <2>1. ASSUME NEW k \in Clients, Allow(k) PROVE Inv'
    <3> DEFINE g0 == NewGrant(k)
    <3>1. g0 \in Grant /\ g0.key = k /\ g0.at = now /\ g0.n = issued + 1
      BY <2>1 DEF Allow, NewGrant, Grant, Inv, TypeOK
    <3>2. /\ grants' = grants \cup {g0}
          /\ stamps' = [Swept(k) EXCEPT ![k] = Fresh(k) \cup {g0}]
          /\ tracked' = Kept(k) \cup {k}
          /\ now' = now /\ issued' = issued + 1 /\ issued < MaxGrants
      BY <2>1 DEF Allow
    <3> HIDE DEF g0
    <3>3. Finite'
      BY <3>2, FreshIsRecent, FS_AddElement, FS_Subset DEF Inv, Finite
    <3>4. /\ stamps' \in [Clients -> SUBSET grants']
          /\ stamps'[k] = Fresh(k) \cup {g0}
          /\ \A j \in Clients \ {k} : stamps'[j] = Swept(k)[j]
      BY <3>2, FreshIsRecent
    <3>5. Kept(k) \subseteq Clients
      BY DEF Kept, Inv, TypeOK
    <3>6. TypeOK'
      BY <3>1, <3>2, <3>4, <3>5, FreshIsRecent DEF Inv, TypeOK
    <3>7. Bucketed'
      BY <3>1, <3>4, FreshIsRecent DEF Inv, Bucketed
    <3>8. Dated'
      BY <3>1, <3>2 DEF Inv, Dated, TypeOK, Grant
    <3>9. Retained'
      BY <3>1, <3>2, <3>4, FreshIsRecent DEF Inv, Retained, Live, TypeOK, Grant
    <3>10. QED
      BY <3>3, <3>6, <3>7, <3>8, <3>9 DEF Inv
  <2>2. ASSUME NEW k \in Clients, Reject(k) PROVE Inv'
    <3>1. /\ stamps' = [Swept(k) EXCEPT ![k] = Fresh(k)]
          /\ tracked' = Kept(k) \cup {k}
          /\ now' = now /\ issued' = issued /\ grants' = grants
      BY <2>2 DEF Reject
    <3>2. /\ stamps' \in [Clients -> SUBSET grants']
          /\ stamps'[k] = Fresh(k)
          /\ \A j \in Clients \ {k} : stamps'[j] = Swept(k)[j]
      BY <3>1, FreshIsRecent
    <3>3. Kept(k) \subseteq Clients
      BY DEF Kept, Inv, TypeOK
    <3>4. TypeOK'
      BY <3>1, <3>2, <3>3, FreshIsRecent DEF Inv, TypeOK
    <3>5. Bucketed' /\ Dated'
      BY <3>1, <3>2, FreshIsRecent DEF Inv, Bucketed, Dated
    <3>6. Retained'
      BY <3>1, <3>2, FreshIsRecent DEF Inv, Retained, Live, TypeOK, Grant
    <3>7. Finite'
      BY <3>1, FreshIsRecent, FS_AddElement, FS_Subset DEF Inv, Finite
    <3>8. QED
      BY <3>4, <3>5, <3>6, <3>7 DEF Inv
  <2>3. CASE Tick
    BY <2>3 DEF Tick, Inv, TypeOK, Finite, Bucketed, Retained, Dated, Grant
  <2>4. CASE UNCHANGED vars
    BY <2>4 DEF vars, Inv, TypeOK, Finite, Bucketed, Retained, Dated
  <2>5. QED
    BY <2>1, <2>2, <2>3, <2>4 DEF Next
<1>3. QED
  BY <1>1, <1>2, PTL DEF Spec

(* The type invariant. *)
THEOREM TypeCorrect == Spec => []TypeOK
BY InvHolds, PTL DEF Inv

-----------------------------------------------------------------------------
(* WindowBound: no window of the configured length, wherever it starts,    *)
(* holds more than Limit grants of a client, whatever is evicted when.     *)
THEOREM WindowNeverExceeded == Spec => []WindowBound
<1> DEFINE Within(k, s) == {g \in grants : g.key = k /\ s <= g.at /\ g.at <= s + Window}
<1>1. Init => WindowBound
  <2> SUFFICES ASSUME Init PROVE WindowBound
    OBVIOUS
  <2>1. \A k \in Clients, s \in 0..MaxTime : Within(k, s) = {}
    BY DEF Init
  <2>2. QED
    BY <2>1, FS_EmptySet, RateLimitAssumption DEF WindowBound, RateLimitAssumption
<1>2. Inv /\ WindowBound /\ [Next]_vars => WindowBound'
  <2> SUFFICES ASSUME Inv, WindowBound, [Next]_vars PROVE WindowBound'
    OBVIOUS
  <2>1. ASSUME NEW k \in Clients, Allow(k) PROVE WindowBound'
    <3> SUFFICES ASSUME NEW j \in Clients, NEW s \in 0..MaxTime
                 PROVE  Cardinality(Within(j, s)') <= Limit
      BY DEF WindowBound
    <3> DEFINE g0 == NewGrant(k)
    <3>1. g0.key = k /\ g0.at = now /\ grants' = grants \cup {g0}
      BY <2>1 DEF Allow, NewGrant
    <3> HIDE DEF g0
    <3>2. CASE g0 \in Within(j, s)'
      <4>1. j = k /\ Within(j, s)' = Within(k, s) \cup {g0}
        BY <3>1, <3>2
      <4>2. Within(k, s) \subseteq Fresh(k)
        BY <3>1, <3>2, FreshIsRecent, RateLimitAssumption
           DEF Inv, TypeOK, Grant, RateLimitAssumption
      <4>3. IsFiniteSet(Fresh(k)) /\ Cardinality(Fresh(k)) < Limit
        BY <2>1, FS_Subset, FreshIsRecent DEF Allow, Inv, Finite
      <4>4. /\ IsFiniteSet(Within(k, s))
            /\ Cardinality(Within(k, s)) <= Cardinality(Fresh(k))
        BY <4>2, <4>3, FS_Subset
      <4>5. Cardinality(Within(k, s) \cup {g0}) <= Cardinality(Within(k, s)) + 1
        <5> DEFINE W == Within(k, s)
        <5>1. IsFiniteSet(W)
          BY <4>4
        <5> HIDE DEF W
        <5>2. Cardinality(W) \in Nat
          BY <5>1, FS_CardinalityType
        <5>3. Cardinality(W \cup {g0}) \in {Cardinality(W), Cardinality(W) + 1}
          BY <5>1, FS_AddElement
        <5>4. Cardinality(W \cup {g0}) <= Cardinality(W) + 1
          BY <5>2, <5>3
        <5>5. QED
          BY <5>4 DEF W
      <4>6. Cardinality(Within(k, s)) \in Nat /\ Cardinality(Fresh(k)) \in Nat
        BY <4>3, <4>4, FS_CardinalityType
      <4>7. Cardinality(Within(k, s) \cup {g0}) \in Nat
        BY <4>4, FS_AddElement, FS_CardinalityType
      <4> HIDE DEF Within
      <4>8. Cardinality(Within(k, s) \cup {g0}) <= Limit
        BY <4>3, <4>4, <4>5, <4>6, <4>7, RateLimitAssumption DEF RateLimitAssumption
      <4>9. QED
        BY <4>1, <4>8
    <3>3. CASE g0 \notin Within(j, s)'
      <4>1. Within(j, s)' = Within(j, s)
        BY <3>1, <3>3
      <4>2. QED
        BY <4>1 DEF WindowBound
    <3>4. QED
      BY <3>2, <3>3
  <2>2. CASE UNCHANGED grants
    BY <2>2 DEF WindowBound
  <2>3. QED
    BY <2>1, <2>2 DEF Next, Reject, Tick, vars
<1>3. QED
  BY <1>1, <1>2, InvHolds, PTL DEF Spec

(* VecsBounded: the Vec of a client never holds more than Limit            *)
(* timestamps, whether or not it is ever swept.                            *)
THEOREM VecsStayBounded == Spec => []VecsBounded
<1>0. Limit \in Nat
  BY RateLimitAssumption DEF RateLimitAssumption
<1>1. Init => VecsBounded
  BY <1>0, FS_EmptySet DEF Init, VecsBounded
<1>2. Inv /\ VecsBounded /\ [Next]_vars => VecsBounded'
  <2> SUFFICES ASSUME Inv, VecsBounded, [Next]_vars PROVE VecsBounded'
    OBVIOUS
  <2>1. ASSUME NEW k \in Clients, Allow(k) \/ Reject(k), NEW j \in Clients
        PROVE  Cardinality(stamps'[j]) <= Limit
    <3>1. IsFiniteSet(stamps[j]) /\ Cardinality(stamps[j]) <= Limit
      BY FS_Subset DEF Inv, TypeOK, Finite, VecsBounded
    <3>2. /\ IsFiniteSet(Swept(k)[j]) /\ Cardinality(Swept(k)[j]) \in Nat
          /\ Cardinality(Swept(k)[j]) <= Limit
      <4>1. Swept(k)[j] \subseteq stamps[j]
        BY FreshIsRecent
      <4> DEFINE S == Swept(k)[j]
                 V == stamps[j]
      <4> HIDE DEF S, V
      <4>2. IsFiniteSet(S) /\ Cardinality(S) <= Cardinality(V) /\ IsFiniteSet(V)
        BY <3>1, <4>1, FS_Subset DEF S, V
      <4>3. Cardinality(S) \in Nat /\ Cardinality(V) \in Nat /\ Cardinality(V) <= Limit
        BY <3>1, <4>2, FS_CardinalityType DEF V
      <4>4. QED
        BY <1>0, <4>2, <4>3 DEF S
    <3>3. CASE j # k
      BY <2>1, <3>2, <3>3, FreshIsRecent DEF Allow, Reject
    <3>4. CASE j = k
      <4>1. /\ IsFiniteSet(Fresh(k)) /\ Cardinality(Fresh(k)) \in Nat
            /\ Cardinality(Fresh(k)) <= Limit
        <5>1. Fresh(k) \subseteq Swept(k)[k]
          BY DEF Fresh, Live
        <5> DEFINE F == Fresh(k)
                   S == Swept(k)[k]
        <5> HIDE DEF F, S
        <5>2. IsFiniteSet(F) /\ Cardinality(F) <= Cardinality(S)
          BY <3>2, <3>4, <5>1, FS_Subset DEF F, S
        <5>3. Cardinality(F) \in Nat /\ Cardinality(S) \in Nat /\ Cardinality(S) <= Limit
          BY <3>2, <3>4, <5>2, FS_CardinalityType DEF S
        <5>4. QED
          BY <1>0, <5>2, <5>3 DEF F
      <4>2. CASE Reject(k)
        <5>1. stamps'[k] = Fresh(k)
          BY <4>2, FreshIsRecent DEF Reject
        <5>2. QED
          BY <3>4, <4>1, <5>1
      <4>3. CASE Allow(k)
        <5>1. stamps'[k] = Fresh(k) \cup {NewGrant(k)} /\ Cardinality(Fresh(k)) < Limit
          BY <4>3, FreshIsRecent DEF Allow
        <5>2. Cardinality(Fresh(k) \cup {NewGrant(k)})
                \in {Cardinality(Fresh(k)), Cardinality(Fresh(k)) + 1}
          BY <4>1, FS_AddElement
        <5>3. QED
          BY <1>0, <3>4, <4>1, <5>1, <5>2
      <4>4. QED
        BY <2>1, <4>2, <4>3
    <3>5. QED
      BY <3>3, <3>4
  <2>2. CASE Tick \/ UNCHANGED vars
    BY <2>2 DEF Tick, vars, VecsBounded
  <2>3. QED
    BY <2>1, <2>2 DEF Next, VecsBounded
<1>3. QED
  BY <1>1, <1>2, InvHolds, PTL DEF Spec

-----------------------------------------------------------------------------
(* GrowsOnlyWhenLive: a key is added beyond MAX_TRACKED_CLIENTS only when  *)
(* the sweep found nothing to reclaim.                                     *)
THEOREM GrowthIsLive == Spec => GrowsOnlyWhenLive
<1>1. Inv /\ [Next]_vars => [Overgrows => AllLiveNext]_vars
  <2> SUFFICES ASSUME Inv, Next, Overgrows PROVE AllLiveNext
    OBVIOUS
  <2> USE RateLimitAssumption DEF RateLimitAssumption, Overgrows, AllLiveNext
  <2>1. PICK k \in Clients : (Allow(k) \/ Reject(k)) /\ tracked' = Kept(k) \cup {k}
    BY DEF Next, Tick, Allow, Reject
  <2>2. k \notin tracked
    BY <2>1, FreshIsRecent
  <2>3. Full(k)
    <3>1. SUFFICES ASSUME ~Full(k) PROVE Cardinality(tracked') <= MaxTracked
      <4>1. Cardinality(tracked') \in Nat
        BY <2>1, FreshIsRecent, FS_AddElement, FS_Subset, FS_CardinalityType DEF Inv, Finite
      <4>2. QED
        BY <3>1, <4>1
    <3>2. Cardinality(tracked) < MaxTracked /\ tracked' = tracked \cup {k}
      BY <2>1, <2>2, <3>1, FS_CardinalityType DEF Full, Kept, Inv, Finite
    <3>3. Cardinality(tracked') = Cardinality(tracked) + 1
      BY <2>2, <3>2, FS_AddElement DEF Inv, Finite
    <3>4. QED
      BY <3>2, <3>3, FS_CardinalityType DEF Inv, Finite
  <2>4. Allow(k)
    <3>1. Fresh(k) = {}
      BY <2>2, FreshIsRecent DEF Inv, TypeOK, Fresh, Live
    <3>2. QED
      BY <2>1, <3>1, FS_EmptySet DEF Reject
  <2>5. NewGrant(k) \in Live(stamps[k])'
    BY <2>4, FreshIsRecent DEF Allow, NewGrant, Live, Inv, TypeOK
  <2>6. ASSUME NEW j \in Kept(k) PROVE Live(stamps[j])' # {}
    <3>1. j \in Clients /\ j # k /\ Live(stamps[j]) # {}
      BY <2>2, <2>3, <2>6 DEF Kept, Inv, TypeOK
    <3>2. stamps'[j] = Live(stamps[j]) /\ now' = now
      BY <2>3, <2>4, <3>1, FreshIsRecent DEF Allow, Swept
    <3>3. QED
      BY <3>1, <3>2 DEF Live
  <2>7. QED
    BY <2>1, <2>5, <2>6
<1>2. QED
  BY <1>1, InvHolds, PTL DEF Spec, GrowsOnlyWhenLive

-----------------------------------------------------------------------------
(* ImplementsSlidingWindow: every step of the middleware is a step of the  *)
(* sliding window over the full history.                                   *)
THEOREM Refinement == Spec => ImplementsSlidingWindow
<1>1. Init => Promise!Init
  BY DEF Init, Promise!Init, Promise!NoReply
<1>2. Inv /\ [Next]_vars => [Promise!Next]_<<now, grants, issued, reply>>
  <2> SUFFICES ASSUME Inv, [Next]_vars
               PROVE  [Promise!Next]_<<now, grants, issued, reply>>
    OBVIOUS
  <2>1. \A k \in Clients : Fresh(k) = Promise!Recent(k)
    BY FreshIsRecent DEF Promise!Recent
  <2>1a. \A k \in Clients : Cardinality(Fresh(k)) = Promise!Cardinality(Promise!Recent(k))
    BY <2>1 DEF Cardinality, Promise!Cardinality
  <2>2. ASSUME NEW k \in Clients, Allow(k) PROVE Promise!Allow(k)
    BY <2>1a, <2>2 DEF Allow, Promise!Allow, NewGrant, Promise!NewGrant
  <2>3. ASSUME NEW k \in Clients, Reject(k) PROVE Promise!Reject(k)
    BY <2>1a, <2>3 DEF Reject, Promise!Reject
  <2>4. CASE Tick
    BY <2>4 DEF Tick, Promise!Tick, Promise!Next
  <2>5. CASE UNCHANGED vars
    BY <2>5 DEF vars
  <2>6. QED
    BY <2>2, <2>3, <2>4, <2>5 DEF Next, Promise!Next
<1>3. QED
  BY <1>1, <1>2, InvHolds, PTL DEF Spec, ImplementsSlidingWindow, Promise!Spec

=============================================================================
