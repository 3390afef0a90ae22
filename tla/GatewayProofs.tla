--------------------------- MODULE GatewayProofs ---------------------------
(***************************************************************************)
(* Proofs about Gateway: the handlers with the real limiter implement      *)
(* Pipeline, and the limiter's bound outlives restarts.                    *)
(***************************************************************************)
EXTENDS Gateway, FiniteSetTheorems, TLAPS

(* The limiter counts with the same cardinality. *)
LEMMA SameCount == \A S : L!Cardinality(S) = Cardinality(S)
  BY DEF L!Cardinality, Cardinality

LEMMA Constants ==
    /\ Limit \in Nat \ {0} /\ Window \in Nat \ {0}
    /\ MaxTracked \in Nat /\ MaxTime \in Nat /\ MaxGrants \in Nat
    /\ \A i \in Inputs : i.client \in Clients
  BY GatewayAssumption DEF P!PipelineAssumption, L!RateLimitAssumption, P!Input

-----------------------------------------------------------------------------
(***************************************************************************)
(* The limiter inside the gateway.  Its invariant is that of the limiter   *)
(* alone (the Vec of a key holds the grants of that key, and every grant   *)
(* that still counts is in it), with the bound on a Vec that makes the     *)
(* budget a natural number.  Whatever the server does, the limiter takes   *)
(* one of its own steps or none: a restart is none.                        *)
(***************************************************************************)
Bucketed == \A k \in Clients : \A g \in stamps[k] : g.key = k
Retained == \A g \in grants : now - g.at <= Window => g \in stamps[g.key]
Dated == \A g \in grants : g.at <= now /\ g.n <= issued
Finite == IsFiniteSet(grants)
Bounded == \A k \in Clients : Cardinality(L!Live(stamps[k])) <= Limit
KnownClients == \A r \in Requests : input[r].client \in Clients

LimiterInv == L!TypeOK /\ Finite /\ Bucketed /\ Retained /\ Dated /\ Bounded

LimiterStep == L!Tick \/ \E k \in Clients : L!Allow(k) \/ L!Reject(k)

LEMMA StepsOfLimiter ==
    ASSUME KnownClients, [Next]_vars
    PROVE  (LimiterStep \/ UNCHANGED limiter) /\ KnownClients'
<1>1. input' = input
  BY DEF Next, HandlerStep, Arrive, RunChain, OwnStep, OthersStep, Tick, Stop, Drained, Start,
         Exit, handlers, vars, P!Arrive, P!Route, P!Dispatch, P!UpstreamTimesOut, P!Record,
         P!Finalize, P!ReadBody, P!AdminBody, P!ZmqConnected, P!ZmqSent, P!UpstreamActs,
         P!UpstreamReplies, P!UpstreamFails, P!Respond, P!WsConnected,
         P!WsSessionEnds, P!Disconnect, P!Exit
<1>2. ASSUME NEW r \in Requests, RunChain(r) PROVE LimiterStep \/ UNCHANGED limiter
  BY <1>2 DEF RunChain, Client, KnownClients, LimiterStep
<1>3. LimiterStep \/ UNCHANGED limiter
  BY <1>2 DEF Next, HandlerStep, Arrive, OwnStep, OthersStep, Quiet, Tick, Stop, Drained, Start,
         Exit, LimiterStep, vars
<1>4. QED
  BY <1>1, <1>3 DEF KnownClients

(* What is_rate_limited leaves in the Vecs.  A sweep changes nobody's      *)
(* count.                                                                  *)
LEMMA SweepIsNeutral ==
    ASSUME LimiterInv, NEW k \in Clients
    PROVE  /\ L!Fresh(k) = {g \in grants : g.key = k /\ now - g.at <= Window}
           /\ L!Fresh(k) = L!Live(stamps[k])
           /\ L!Swept(k) \in [Clients -> SUBSET grants]
           /\ \A j \in Clients : L!Live(L!Swept(k)[j]) = L!Live(stamps[j])
           /\ \A j \in Clients : L!Live(stamps[j]) \subseteq L!Swept(k)[j]
           /\ \A j \in Clients : L!Swept(k)[j] \subseteq stamps[j]
           /\ \A j \in Clients \ L!Kept(k) : L!Swept(k)[j] = {}
           /\ L!Kept(k) \subseteq tracked
<1> USE DEF LimiterInv, L!TypeOK, L!Live, L!Swept, L!Kept
<1>1. CASE L!Full(k)
  BY <1>1 DEF L!Fresh, Bucketed, Retained
<1>2. CASE ~L!Full(k)
  BY <1>2 DEF L!Fresh, Bucketed, Retained
<1>3. QED
  BY <1>1, <1>2

(* The requests of a client that count against its limit. *)
Counted(k) == L!Live(stamps[k])

(* The count of the client that is let through grows by one, and nobody    *)
(* else's changes; a refusal changes nobody's.                             *)
LEMMA AllowCounts ==
    ASSUME LimiterInv, NEW k \in Clients, L!Allow(k)
    PROVE  /\ Counted(k)' = Counted(k) \cup {L!NewGrant(k)}
           /\ L!NewGrant(k) \notin Counted(k)
           /\ \A j \in Clients \ {k} : Counted(j)' = Counted(j)
           /\ Cardinality(Counted(k)) < Limit
<1>1. /\ stamps' = [L!Swept(k) EXCEPT ![k] = L!Fresh(k) \cup {L!NewGrant(k)}]
      /\ now' = now /\ Cardinality(Counted(k)) < Limit
  BY SweepIsNeutral, SameCount DEF L!Allow, Counted
<1>2. /\ stamps'[k] = L!Live(stamps[k]) \cup {L!NewGrant(k)}
      /\ \A j \in Clients \ {k} : stamps'[j] = L!Swept(k)[j]
  BY <1>1, SweepIsNeutral
<1>3. L!NewGrant(k).at = now /\ L!NewGrant(k).n = issued + 1 /\ now - now <= Window
  BY Constants DEF L!NewGrant, LimiterInv, L!TypeOK
<1>4. L!NewGrant(k) \notin grants
  BY <1>3 DEF LimiterInv, L!TypeOK, Dated
<1>5. Counted(k)' = Counted(k) \cup {L!NewGrant(k)}
  BY <1>1, <1>2, <1>3 DEF L!Live, Counted
<1>6. L!NewGrant(k) \notin Counted(k)
  BY <1>4 DEF L!Live, LimiterInv, L!TypeOK, Counted
<1>7. \A j \in Clients \ {k} : Counted(j)' = Counted(j)
  BY <1>1, <1>2, SweepIsNeutral DEF L!Live, Counted
<1>8. QED
  BY <1>1, <1>5, <1>6, <1>7

LEMMA RejectCounts ==
    ASSUME LimiterInv, NEW k \in Clients, L!Reject(k)
    PROVE  /\ \A j \in Clients : Counted(j)' = Counted(j)
           /\ Cardinality(Counted(k)) >= Limit
<1>1. /\ stamps' = [L!Swept(k) EXCEPT ![k] = L!Fresh(k)]
      /\ now' = now /\ Cardinality(Counted(k)) >= Limit
  BY SweepIsNeutral, SameCount DEF L!Reject, Counted
<1>2. /\ stamps'[k] = L!Live(stamps[k])
      /\ \A j \in Clients \ {k} : stamps'[j] = L!Swept(k)[j]
  BY <1>1, SweepIsNeutral
<1>3. \A j \in Clients : Counted(j)' = Counted(j)
  BY <1>1, <1>2, SweepIsNeutral DEF L!Live, Counted
<1>4. QED
  BY <1>1, <1>3

(* Time only takes requests out of the window. *)
LEMMA TickCounts ==
    ASSUME LimiterInv, L!Tick
    PROVE  \A j \in Clients : Counted(j)' \subseteq Counted(j)
<1>1. stamps' = stamps /\ now' = now + 1 /\ now \in Nat
  BY DEF L!Tick, LimiterInv, L!TypeOK
<1>2. ASSUME NEW j \in Clients, NEW g \in stamps[j], now' - g.at <= Window
      PROVE  now - g.at <= Window
  <2>1. g.at \in Nat
    BY DEF LimiterInv, L!TypeOK, L!Grant
  <2>2. QED
    BY <1>1, <1>2, <2>1, Constants
<1>3. QED
  BY <1>1, <1>2 DEF Counted, L!Live

LEMMA CountedType ==
    ASSUME LimiterInv, NEW k \in Clients
    PROVE  /\ IsFiniteSet(Counted(k)) /\ Cardinality(Counted(k)) \in Nat
           /\ Cardinality(Counted(k)) <= Limit
<1>1. Counted(k) \subseteq grants
  BY DEF Counted, L!Live, LimiterInv, L!TypeOK
<1>2. IsFiniteSet(Counted(k))
  BY <1>1, FS_Subset DEF LimiterInv, Finite
<1>3. QED
  BY <1>2, FS_CardinalityType DEF LimiterInv, Bounded, Counted

LEMMA BoundedStep ==
    ASSUME LimiterInv, LimiterStep
    PROVE  Bounded'
<1> SUFFICES ASSUME NEW j \in Clients PROVE Cardinality(Counted(j)') <= Limit
  BY DEF Bounded, Counted
<1>0. Limit \in Nat
  BY Constants
<1>1. CASE L!Tick
  <2>1. Cardinality(Counted(j)') \in Nat /\ Cardinality(Counted(j)') <= Cardinality(Counted(j))
    <3>1. Counted(j)' \subseteq Counted(j)
      BY <1>1, TickCounts
    <3>2. IsFiniteSet(Counted(j)')
      BY <3>1, CountedType, FS_Subset
    <3>3. QED
      BY <3>1, <3>2, CountedType, FS_Subset, FS_CardinalityType
  <2>2. QED
    BY <1>0, <2>1, CountedType
<1>2. ASSUME NEW k \in Clients, L!Reject(k) PROVE Cardinality(Counted(j)') <= Limit
  BY <1>2, RejectCounts, CountedType
<1>3. ASSUME NEW k \in Clients, L!Allow(k) PROVE Cardinality(Counted(j)') <= Limit
  <2>1. CASE j = k
    <3>1. Cardinality(Counted(j)') = Cardinality(Counted(j)) + 1
      BY <1>3, <2>1, AllowCounts, CountedType, FS_AddElement
    <3>2. QED
      BY <1>0, <1>3, <2>1, <3>1, AllowCounts, CountedType
  <2>2. CASE j # k
    BY <1>3, <2>2, AllowCounts, CountedType
  <2>3. QED
    BY <2>1, <2>2
<1>4. QED
  BY <1>1, <1>2, <1>3 DEF LimiterStep

LEMMA LimiterInvStep ==
    ASSUME LimiterInv, LimiterStep \/ UNCHANGED limiter
    PROVE  LimiterInv'
<1> USE Constants
<1>1. ASSUME NEW k \in Clients, L!Allow(k) PROVE LimiterInv'
  <2> DEFINE g0 == L!NewGrant(k)
  <2>1. g0 \in L!Grant /\ g0.key = k /\ g0.at = now /\ g0.n = issued + 1
    BY <1>1 DEF L!Allow, L!NewGrant, L!Grant, LimiterInv, L!TypeOK
  <2>2. /\ grants' = grants \cup {g0}
        /\ stamps' = [L!Swept(k) EXCEPT ![k] = L!Fresh(k) \cup {g0}]
        /\ tracked' = L!Kept(k) \cup {k}
        /\ now' = now /\ issued' = issued + 1 /\ issued < MaxGrants
    BY <1>1 DEF L!Allow
  <2> HIDE DEF g0
  <2>3. Finite'
    BY <2>2, FS_AddElement DEF LimiterInv, Finite
  <2>4. /\ stamps' \in [Clients -> SUBSET grants']
        /\ stamps'[k] = L!Fresh(k) \cup {g0}
        /\ \A j \in Clients \ {k} : stamps'[j] = L!Swept(k)[j]
    BY <2>2, SweepIsNeutral
  <2>5. L!Kept(k) \subseteq Clients
    BY DEF L!Kept, LimiterInv, L!TypeOK
  <2>6. L!TypeOK'
    BY <2>1, <2>2, <2>4, <2>5, SweepIsNeutral DEF LimiterInv, L!TypeOK
  <2>7. Bucketed'
    BY <2>1, <2>4, SweepIsNeutral DEF LimiterInv, Bucketed
  <2>8. Dated'
    BY <2>1, <2>2 DEF LimiterInv, Dated, L!TypeOK, L!Grant
  <2>9. Retained'
    BY <2>1, <2>2, <2>4, SweepIsNeutral DEF LimiterInv, Retained, L!Live, L!TypeOK, L!Grant
  <2>10. QED
    BY <1>1, <2>3, <2>6, <2>7, <2>8, <2>9, BoundedStep DEF LimiterInv, LimiterStep
<1>2. ASSUME NEW k \in Clients, L!Reject(k) PROVE LimiterInv'
  <2>1. /\ stamps' = [L!Swept(k) EXCEPT ![k] = L!Fresh(k)]
        /\ tracked' = L!Kept(k) \cup {k}
        /\ now' = now /\ issued' = issued /\ grants' = grants
    BY <1>2 DEF L!Reject
  <2>2. /\ stamps' \in [Clients -> SUBSET grants']
        /\ stamps'[k] = L!Fresh(k)
        /\ \A j \in Clients \ {k} : stamps'[j] = L!Swept(k)[j]
    BY <2>1, SweepIsNeutral
  <2>3. L!Kept(k) \subseteq Clients
    BY DEF L!Kept, LimiterInv, L!TypeOK
  <2>4. L!TypeOK'
    BY <2>1, <2>2, <2>3, SweepIsNeutral DEF LimiterInv, L!TypeOK
  <2>5. Bucketed' /\ Dated' /\ Finite'
    BY <2>1, <2>2, SweepIsNeutral DEF LimiterInv, Bucketed, Dated, Finite
  <2>6. Retained'
    BY <2>1, <2>2, SweepIsNeutral DEF LimiterInv, Retained, L!Live, L!TypeOK, L!Grant
  <2>7. QED
    BY <1>2, <2>4, <2>5, <2>6, BoundedStep DEF LimiterInv, LimiterStep
<1>3. CASE L!Tick
  <2>1. L!TypeOK' /\ Finite' /\ Bucketed' /\ Retained' /\ Dated'
    BY <1>3 DEF L!Tick, LimiterInv, L!TypeOK, Finite, Bucketed, Retained, Dated, L!Grant
  <2>2. QED
    BY <1>3, <2>1, BoundedStep DEF LimiterInv, LimiterStep
<1>4. CASE UNCHANGED limiter
  BY <1>4 DEF limiter, LimiterInv, L!TypeOK, Finite, Bucketed, Retained, Dated, Bounded, L!Live
<1>5. QED
  BY <1>1, <1>2, <1>3, <1>4 DEF LimiterStep

Inv == LimiterInv /\ KnownClients

LEMMA InitInv == Init => Inv
<1> SUFFICES ASSUME Init PROVE Inv
  OBVIOUS
<1> USE Constants DEF Init, L!Init, P!Init
<1>1. L!TypeOK /\ Bucketed /\ Retained /\ Dated
  BY DEF L!TypeOK, Bucketed, Retained, Dated
<1>2. Finite
  BY FS_EmptySet DEF Finite
<1>3. Bounded
  <2> SUFFICES ASSUME NEW k \in Clients PROVE Cardinality(L!Live(stamps[k])) <= Limit
    BY DEF Bounded
  <2>1. L!Live(stamps[k]) = {}
    BY DEF L!Live
  <2>2. Cardinality({}) = 0 /\ 0 <= Limit
    BY FS_EmptySet
  <2>3. QED
    BY <2>1, <2>2
<1>4. KnownClients
  BY DEF KnownClients
<1>5. QED
  BY <1>1, <1>2, <1>3, <1>4 DEF Inv, LimiterInv

LEMMA InvHolds == Spec => []Inv
<1>1. Inv /\ [Next]_vars => Inv'
  BY StepsOfLimiter, LimiterInvStep DEF Inv
<1>2. QED
  BY <1>1, InitInv, PTL DEF Spec

-----------------------------------------------------------------------------
(* WindowAcrossRestarts: the limiter belongs to the gateway and not to a   *)
(* run of its server, so no stop and start in between gives a client more  *)
(* than Limit requests in a window.                                        *)
THEOREM WindowSurvivesRestarts == Spec => []WindowAcrossRestarts
<1> DEFINE Within(k, s) == {g \in grants : g.key = k /\ s <= g.at /\ g.at <= s + Window}
           InWindows == \A k \in Clients, s \in 0..MaxTime : Cardinality(Within(k, s)) <= Limit
<1>0. WindowAcrossRestarts <=> InWindows
  BY SameCount DEF WindowAcrossRestarts, L!WindowBound
<1>1. Init => InWindows
  <2> SUFFICES ASSUME Init, NEW k \in Clients, NEW s \in 0..MaxTime
               PROVE  Cardinality(Within(k, s)) <= Limit
    OBVIOUS
  <2>1. Within(k, s) = {}
    BY DEF Init, L!Init
  <2>2. QED
    BY <2>1, FS_EmptySet, Constants
<1>2. Inv /\ InWindows /\ [Next]_vars => InWindows'
  <2> SUFFICES ASSUME Inv, InWindows, [Next]_vars PROVE InWindows'
    OBVIOUS
  <2>1. ASSUME NEW k \in Clients, L!Allow(k) PROVE InWindows'
    <3> SUFFICES ASSUME NEW j \in Clients, NEW s \in 0..MaxTime
                 PROVE  Cardinality(Within(j, s)') <= Limit
      OBVIOUS
    <3> DEFINE g0 == L!NewGrant(k)
    <3>1. g0.key = k /\ g0.at = now /\ grants' = grants \cup {g0}
      BY <2>1 DEF L!Allow, L!NewGrant
    <3> HIDE DEF g0
    <3>2. CASE g0 \in Within(j, s)'
      <4>1. j = k /\ Within(j, s)' = Within(k, s) \cup {g0}
        BY <3>1, <3>2
      <4>2. Within(k, s) \subseteq Counted(k)
        BY <3>1, <3>2, SweepIsNeutral, Constants
           DEF Inv, LimiterInv, L!TypeOK, L!Grant, Counted
      <4> DEFINE W == Within(k, s)
      <4>3. /\ IsFiniteSet(W) /\ Cardinality(W) <= Cardinality(Counted(k))
        BY <4>2, CountedType, FS_Subset DEF Inv
      <4>4. Cardinality(Counted(k)) < Limit /\ Cardinality(Counted(k)) \in Nat
        BY <2>1, AllowCounts, CountedType DEF Inv
      <4> HIDE DEF W
      <4>5. Cardinality(W) \in Nat /\ Limit \in Nat
        BY <4>3, FS_CardinalityType, Constants
      <4>6. Cardinality(W \cup {g0}) \in {Cardinality(W), Cardinality(W) + 1}
        BY <4>3, FS_AddElement
      <4>7. Cardinality(W \cup {g0}) <= Limit
        BY <4>3, <4>4, <4>5, <4>6
      <4>8. QED
        BY <4>1, <4>7 DEF W
    <3>3. CASE g0 \notin Within(j, s)'
      <4>1. Within(j, s)' = Within(j, s)
        BY <3>1, <3>3
      <4>2. QED
        BY <4>1
    <3>4. QED
      BY <3>2, <3>3
  <2>2. CASE UNCHANGED grants
    BY <2>2
  <2>3. QED
    BY <2>1, <2>2, StepsOfLimiter DEF Inv, LimiterStep, L!Reject, L!Tick, limiter
<1>3. QED
  BY <1>0, <1>1, <1>2, InvHolds, PTL DEF Spec

-----------------------------------------------------------------------------
(***************************************************************************)
(* ImplementsPipeline.  A handler's step is the same action on both sides; *)
(* what has to be shown is that the budget computed from the timestamps    *)
(* moves as Pipeline's does: it stays when the limiter takes no step, only *)
(* grows when time passes, is nought when is_rate_limited refuses, and     *)
(* falls by one, for that client alone, when it lets a request through.    *)
(***************************************************************************)
LEMMA BudgetType ==
    ASSUME LimiterInv
    PROVE  /\ Budget \in [Clients -> 0..Limit]
           /\ \A k \in Clients : Budget[k] = Limit - Cardinality(Counted(k))
<1>1. \A k \in Clients : Limit - Cardinality(Counted(k)) \in 0..Limit
  <2> SUFFICES ASSUME NEW k \in Clients PROVE Limit - Cardinality(Counted(k)) \in 0..Limit
    OBVIOUS
  <2>1. Cardinality(Counted(k)) \in Nat /\ Cardinality(Counted(k)) <= Limit /\ Limit \in Nat
    BY CountedType, Constants
  <2>2. QED
    BY <2>1
<1>2. Budget = [k \in Clients |-> Limit - Cardinality(Counted(k))]
  BY DEF Budget, Counted
<1>3. QED
  BY <1>1, <1>2

LEMMA SameCounts ==
    ASSUME \A j \in Clients : Counted(j)' = Counted(j)
    PROVE  Budget' = Budget
<1>1. \A j \in Clients : Cardinality(L!Live(stamps[j]))' = Cardinality(L!Live(stamps[j]))
  BY DEF Counted
<1>2. QED
  BY <1>1 DEF Budget

LEMMA QuietBudget == UNCHANGED limiter => Budget' = Budget
  BY SameCounts DEF limiter, Counted, L!Live

LEMMA AllowSpends ==
    ASSUME LimiterInv, NEW k \in Clients, L!Allow(k)
    PROVE  /\ Budget[k] # 0
           /\ Budget' = [Budget EXCEPT ![k] = @ - 1]
<1>1. /\ Cardinality(Counted(k)) \in Nat /\ Limit \in Nat
      /\ Cardinality(Counted(k)) < Limit
  BY AllowCounts, CountedType, Constants
<1>2. Cardinality(Counted(k)') = Cardinality(Counted(k)) + 1
  BY AllowCounts, CountedType, FS_AddElement
<1>3. \A j \in Clients \ {k} : Counted(j)' = Counted(j)
  BY AllowCounts
<1>4. Budget' = [j \in Clients |-> Limit - Cardinality(Counted(j)')]
  BY DEF Budget, Counted
<1>5. Limit - Cardinality(Counted(k)') = Limit - Cardinality(Counted(k)) - 1
  BY <1>1, <1>2
<1>6. Budget = [j \in Clients |-> Limit - Cardinality(Counted(j))]
  BY DEF Budget, Counted
<1>7. Budget[k] # 0
  BY <1>1, <1>6
<1>8. QED
  BY <1>3, <1>4, <1>5, <1>6, <1>7

LEMMA RejectHasNone ==
    ASSUME LimiterInv, NEW k \in Clients, L!Reject(k)
    PROVE  Budget[k] = 0 /\ Budget' = Budget
<1>1. /\ Cardinality(Counted(k)) \in Nat /\ Limit \in Nat
      /\ Cardinality(Counted(k)) <= Limit /\ Cardinality(Counted(k)) >= Limit
  BY RejectCounts, CountedType, Constants
<1>2. Limit - Cardinality(Counted(k)) = 0
  BY <1>1
<1>3. QED
  BY <1>2, BudgetType, RejectCounts, SameCounts

LEMMA TickRefills ==
    ASSUME LimiterInv, L!Tick
    PROVE  \E after \in [Clients -> 0..Limit] :
              (\A k \in Clients : after[k] >= Budget[k]) /\ Budget' = after
<1>1. ASSUME NEW k \in Clients
      PROVE  /\ Limit - Cardinality(Counted(k)') \in 0..Limit
             /\ Limit - Cardinality(Counted(k)') >= Limit - Cardinality(Counted(k))
  <2>1. IsFiniteSet(Counted(k)') /\ Cardinality(Counted(k)') <= Cardinality(Counted(k))
    BY TickCounts, CountedType, FS_Subset
  <2>2. Cardinality(Counted(k)') \in Nat
    BY <2>1, FS_CardinalityType
  <2>3. /\ Cardinality(Counted(k)) \in Nat /\ Cardinality(Counted(k)) <= Limit
        /\ Limit \in Nat
    BY CountedType, Constants
  <2>4. QED
    BY <2>1, <2>2, <2>3
<1>2. Budget' = [k \in Clients |-> Limit - Cardinality(Counted(k)')]
  BY DEF Budget, Counted
<1>3. QED
  BY <1>1, <1>2, BudgetType

(* The chain of middlewares, worked out. *)
LEMMA ChainOutcome ==
    ASSUME NEW r \in Requests
    PROVE  /\ ~input[r].cred => P!Passed(r) = 1
           /\ input[r].cred /\ Budget[input[r].client] = 0 => P!Passed(r) = 2
           /\ input[r].cred /\ Budget[input[r].client] # 0 => P!Passed(r) = 3
<1> DEFINE refusing == {i \in 1..3 : P!Refuses(P!MiddlewareOrder[i], r)}
           Stops(n) == refusing \cap 1..n = {} /\ (n = 3 \/ n + 1 \in refusing)
<1>1. DOMAIN P!MiddlewareOrder = 1..3 /\ Len(P!MiddlewareOrder) = 3
  BY DEF P!MiddlewareOrder
<1>2. P!Passed(r) = CHOOSE n \in 0..3 : Stops(n)
  BY <1>1 DEF P!Passed
<1>3. /\ 1 \notin refusing
      /\ 2 \in refusing <=> ~input[r].cred
      /\ 3 \in refusing <=> Budget[input[r].client] = 0
  BY DEF P!MiddlewareOrder, P!Refuses
<1> HIDE DEF refusing
<1>4. CASE ~input[r].cred
  <2>1. \A n \in 0..3 : Stops(n) <=> n = 1
    BY <1>3, <1>4
  <2>2. QED
    BY <1>2, <1>4, <2>1
<1>5. CASE input[r].cred /\ Budget[input[r].client] = 0
  <2>1. \A n \in 0..3 : Stops(n) <=> n = 2
    BY <1>3, <1>5
  <2>2. QED
    BY <1>2, <1>5, <2>1
<1>6. CASE input[r].cred /\ Budget[input[r].client] # 0
  <2>1. \A n \in 0..3 : Stops(n) <=> n = 3
    BY <1>3, <1>6
  <2>2. QED
    BY <1>2, <1>6, <2>1
<1>7. QED
  BY <1>4, <1>5, <1>6

LEMMA ChainIsChain ==
    ASSUME Inv, NEW r \in Requests, RunChain(r)
    PROVE  P!RunChain(r)
<1>1. Len(P!MiddlewareOrder) = 3
  BY DEF P!MiddlewareOrder
<1>2. Client(r) \in Clients /\ Client(r) = input[r].client
  BY DEF Client, Inv, KnownClients
<1>3. /\ pc[r] = "chain"
      /\ UNCHANGED <<input, records, touched, sent, got>>
  BY DEF RunChain
<1>4. CASE /\ ~input[r].cred
           /\ P!Answer(r, 401)
           /\ UNCHANGED <<charged, limiter>>
  <2>1. Budget' = Budget /\ charged' = charged
    BY <1>4, QuietBudget
  <2>2. P!Passed(r) = 1
    BY <1>4, ChainOutcome
  <2>3. /\ P!RefusalStatus(P!MiddlewareOrder[2]) = 401
        /\ ~\E i \in 1..1 : P!MiddlewareOrder[i] = "rate_limit"
    BY DEF P!RefusalStatus, P!MiddlewareOrder
  <2>4. QED
    BY <1>1, <1>3, <1>4, <2>1, <2>2, <2>3 DEF P!RunChain, P!bodies
<1>5. CASE /\ input[r].cred
           /\ L!Reject(Client(r))
           /\ P!Answer(r, 429)
           /\ charged' = charged
  <2>1. Budget' = Budget /\ Budget[input[r].client] = 0
    BY <1>2, <1>5, RejectHasNone DEF Inv
  <2>2. P!Passed(r) = 2
    BY <1>5, <2>1, ChainOutcome
  <2>3. /\ P!RefusalStatus(P!MiddlewareOrder[3]) = 429
        /\ ~\E i \in 1..2 : P!MiddlewareOrder[i] = "rate_limit"
    BY DEF P!RefusalStatus, P!MiddlewareOrder
  <2>4. QED
    BY <1>1, <1>3, <1>5, <2>1, <2>2, <2>3 DEF P!RunChain, P!bodies
<1>6. CASE /\ input[r].cred
           /\ L!Allow(Client(r))
           /\ P!Continue(r, IF input[r].path = "admin_body" THEN "extract" ELSE "dispatch")
           /\ charged' = charged \cup {r}
  <2>1. /\ Budget' = [Budget EXCEPT ![input[r].client] = @ - 1]
        /\ Budget[input[r].client] # 0
    BY <1>2, <1>6, AllowSpends DEF Inv
  <2>2. P!Passed(r) = 3
    BY <1>6, <2>1, ChainOutcome
  <2>3. \E i \in 1..3 : P!MiddlewareOrder[i] = "rate_limit"
    BY DEF P!MiddlewareOrder
  <2>4. P!Charge(r)
    BY <1>6, <2>1 DEF P!Charge
  <2>5. QED
    BY <1>1, <1>3, <1>6, <2>2, <2>3, <2>4 DEF P!RunChain, P!bodies
<1>7. QED
  BY <1>4, <1>5, <1>6 DEF RunChain

(* ImplementsPipeline: whatever the sweeps, the drains and the restarts    *)
(* do, the handlers with the real limiter take only steps of Pipeline.     *)
THEOREM Refinement == Spec => ImplementsPipeline
<1>1. Init => P!Init
  BY DEF Init
<1>2. Inv /\ [Next]_vars => [P!Next]_(P!vars)
  <2> SUFFICES ASSUME Inv, [Next]_vars PROVE P!Next \/ UNCHANGED P!vars
    OBVIOUS
  <2>1. ASSUME NEW r \in Requests, RunChain(r) PROVE P!Next
    BY <2>1, ChainIsChain DEF P!Next, P!HandlerStep
  <2>2. ASSUME NEW r \in Requests, Arrive(r) \/ OwnStep(r) \/ OthersStep(r) PROVE P!Next
    BY <2>2 DEF Arrive, OwnStep, OthersStep, P!Next, P!HandlerStep
  <2>3. CASE Tick
    BY <2>3, TickRefills DEF Tick, handlers, P!Next, P!Refill, P!bodies, Inv
  <2>4. CASE Exit
    BY <2>4 DEF Exit, P!Next
  <2>5. CASE Stop \/ Drained \/ Start \/ UNCHANGED vars
    BY <2>5, QuietBudget DEF Stop, Drained, Start, vars, handlers, P!vars, P!bodies
  <2>6. QED
    BY <2>1, <2>2, <2>3, <2>4, <2>5 DEF Next, HandlerStep
<1>3. QED
  BY <1>1, <1>2, InvHolds, PTL DEF Spec, ImplementsPipeline, P!Spec

=============================================================================
