-------------------------- MODULE LifecycleProofs --------------------------
(***************************************************************************)
(* Proofs about Lifecycle, for any number of callers, listeners,           *)
(* connections and restarts.                                               *)
(***************************************************************************)
EXTENDS Lifecycle, TLAPS

(* The type invariant, including that the runtime mutex is held exactly by *)
(* the call of start() or stop() inside its critical section.              *)
THEOREM TypeCorrect == Spec => []TypeOK
<1>1. Init => TypeOK
  <2> SUFFICES ASSUME Init PROVE TypeOK
    OBVIOUS
  <2> USE LifecycleAssumption DEF LifecycleAssumption, Init
  <2>1. MutexHeld
    BY DEF MutexHeld
  <2>2. gen \in 0..MaxStarts
    OBVIOUS
  <2>3. pc \in [Task -> TaskState] /\ call \in [Callers -> CallState]
    BY DEF TaskState, CallState
  <2>4. QED
    BY <2>1, <2>2, <2>3 DEF TypeOK
<1>2. TypeOK /\ [Next]_vars => TypeOK'
  <2> SUFFICES ASSUME TypeOK, [Next]_vars PROVE TypeOK'
    OBVIOUS
  <2> USE LifecycleAssumption DEF LifecycleAssumption, TypeOK, TaskState, CallState, NoGen
  <2>1. ASSUME NEW c \in Callers, CallStart(c) PROVE TypeOK'
    BY <2>1 DEF CallStart, MutexHeld, signal
  <2>2. ASSUME NEW c \in Callers, CallStop(c) PROVE TypeOK'
    BY <2>2 DEF CallStop, MutexHeld, signal
  <2>3. ASSUME NEW c \in Callers, StartReset(c) PROVE TypeOK'
    <3>1. MutexHeld'
      BY <2>3 DEF StartReset, MutexHeld
    <3>2. QED
      BY <2>3, <3>1 DEF StartReset
  <2>4. ASSUME NEW c \in Callers, StartBound(c) PROVE TypeOK'
    BY <2>4 DEF StartBound, MutexHeld, signal, Gens, Task, TasksOf
  <2>5. ASSUME NEW c \in Callers, StartBindFailed(c) PROVE TypeOK'
    BY <2>5 DEF StartBindFailed, MutexHeld, signal
  <2>6. ASSUME NEW c \in Callers, StopLatch(c) PROVE TypeOK'
    <3>1. MutexHeld'
      BY <2>6 DEF StopLatch, MutexHeld
    <3>2. QED
      BY <2>6, <3>1 DEF StopLatch
  <2>7. ASSUME NEW c \in Callers, StopNotify(c) PROVE TypeOK'
    BY <2>7 DEF StopNotify, MutexHeld, Taken
  <2>8. ASSUME NEW c \in Callers, StopReturn(c) PROVE TypeOK'
    BY <2>8 DEF StopReturn, MutexHeld, signal
  <2>9. ASSUME NEW c \in Callers, StopTimedOut(c) PROVE TypeOK'
    BY <2>9 DEF StopTimedOut, MutexHeld
  <2>10. ASSUME NEW t \in Task, WaitEnable(t) PROVE TypeOK'
    BY <2>10 DEF WaitEnable, MutexHeld, runtime
  <2>11. ASSUME NEW t \in Task, WaitCheck(t) PROVE TypeOK'
    BY <2>11 DEF WaitCheck, MutexHeld, Leave, runtime
  <2>12. ASSUME NEW t \in Task, WaitWake(t) PROVE TypeOK'
    BY <2>12 DEF WaitWake, MutexHeld, Leave, runtime
  <2>13. ASSUME NEW t \in Task, OtherBranch(t) PROVE TypeOK'
    BY <2>13 DEF OtherBranch, Selecting, MutexHeld, runtime
  <2>14. ASSUME NEW t \in Task, BranchDone(t) PROVE TypeOK'
    BY <2>14 DEF BranchDone, MutexHeld, signal, runtime
  <2>15. ASSUME NEW t \in Task, ListenerConfigError(t) PROVE TypeOK'
    BY <2>15 DEF ListenerConfigError, MutexHeld, signal, runtime
  <2>16. ASSUME NEW t \in Task, ServerDrained(t) PROVE TypeOK'
    BY <2>16 DEF ServerDrained, MutexHeld, signal, runtime
  <2>17. ASSUME NEW k \in Conns, ConnOpen(k) PROVE TypeOK'
    BY <2>17 DEF ConnOpen, MutexHeld, signal, runtime
  <2>18. ASSUME NEW k \in Conns, ConnClose(k) PROVE TypeOK'
    BY <2>18 DEF ConnClose, MutexHeld, signal, runtime
  <2>19. ASSUME NEW k \in Conns, ConnUpgrade(k) PROVE TypeOK'
    BY <2>19 DEF ConnUpgrade, MutexHeld, signal, runtime
  <2>20. ASSUME NEW k \in Conns, SessionEnds(k) PROVE TypeOK'
    BY <2>20 DEF SessionEnds, MutexHeld, signal, runtime
  <2>21. CASE UNCHANGED vars
    BY <2>21 DEF vars, MutexHeld
  <2>22. QED
    BY <2>1, <2>2, <2>3, <2>4, <2>5, <2>6, <2>7, <2>8, <2>9, <2>10, <2>11,
       <2>12, <2>13, <2>14, <2>15, <2>16, <2>17, <2>18, <2>19,
       <2>20, <2>21
       DEF Next, CallerStep, TaskStep
<1>3. QED
  BY <1>1, <1>2, PTL DEF Spec

-----------------------------------------------------------------------------
(***************************************************************************)
(* The wake-up.  NoLostWakeup is inductive once it is known that a task    *)
(* inside wait() is on the wait list or has its notification: this is what *)
(* enabling the future before the flag is read establishes.                *)
(***************************************************************************)
Registered ==
    \A t \in Task : pc[t] \in {"enabled", "parked"} => t \in waiters \cup notified

SignalInv == Registered /\ NoLostWakeup

(* NoLostWakeup holds of every behaviour of the gateway, restart races     *)
(* included.                                                               *)
THEOREM WakeupNeverLost == Spec => []NoLostWakeup
<1>1. Init => SignalInv
  BY DEF Init, SignalInv, Registered, NoLostWakeup
<1>2. TypeOK /\ SignalInv /\ [Next]_vars => SignalInv'
  <2> SUFFICES ASSUME TypeOK, SignalInv, [Next]_vars PROVE SignalInv'
    OBVIOUS
  <2> USE DEF TypeOK, SignalInv, Registered, NoLostWakeup
  <2>1. ASSUME NEW c0 \in Callers, CallStart(c0) PROVE SignalInv'
    BY <2>1 DEF CallStart, signal
  <2>2. ASSUME NEW c0 \in Callers, CallStop(c0) PROVE SignalInv'
    BY <2>2 DEF CallStop, signal
  <2>3. ASSUME NEW c0 \in Callers, StartReset(c0) PROVE SignalInv'
    BY <2>3 DEF StartReset
  <2>4. ASSUME NEW c0 \in Callers, StartBound(c0) PROVE SignalInv'
    BY <2>4 DEF StartBound, signal
  <2>5. ASSUME NEW c0 \in Callers, StartBindFailed(c0) PROVE SignalInv'
    BY <2>5 DEF StartBindFailed, signal
  <2>6. ASSUME NEW c0 \in Callers, StopLatch(c0) PROVE SignalInv'
    BY <2>6 DEF StopLatch
  <2>7. ASSUME NEW c0 \in Callers, StopNotify(c0) PROVE SignalInv'
    BY <2>7 DEF StopNotify, Taken
  <2>8. ASSUME NEW c0 \in Callers, StopReturn(c0) PROVE SignalInv'
    BY <2>8 DEF StopReturn, signal, Joined
  <2>9. ASSUME NEW c0 \in Callers, StopTimedOut(c0) PROVE SignalInv'
    BY <2>9 DEF StopTimedOut, Alive, TaskState
  <2>10. ASSUME NEW t0 \in Task, WaitEnable(t0) PROVE SignalInv'
    BY <2>10 DEF WaitEnable, runtime
  <2>11. ASSUME NEW t0 \in Task, WaitCheck(t0) PROVE SignalInv'
    BY <2>11 DEF WaitCheck, Leave, runtime
  <2>12. ASSUME NEW t0 \in Task, WaitWake(t0) PROVE SignalInv'
    BY <2>12 DEF WaitWake, Leave, runtime
  <2>13. ASSUME NEW t0 \in Task, OtherBranch(t0) PROVE SignalInv'
    BY <2>13 DEF OtherBranch, Selecting, runtime
  <2>14. ASSUME NEW t0 \in Task, BranchDone(t0) PROVE SignalInv'
    BY <2>14 DEF BranchDone, signal, runtime
  <2>15. ASSUME NEW t0 \in Task, ListenerConfigError(t0) PROVE SignalInv'
    BY <2>15 DEF ListenerConfigError, signal, runtime
  <2>16. ASSUME NEW t0 \in Task, ServerDrained(t0) PROVE SignalInv'
    BY <2>16 DEF ServerDrained, signal, runtime
  <2>17. ASSUME NEW k0 \in Conns, ConnOpen(k0) PROVE SignalInv'
    BY <2>17 DEF ConnOpen, signal, runtime
  <2>18. ASSUME NEW k0 \in Conns, ConnClose(k0) PROVE SignalInv'
    BY <2>18 DEF ConnClose, signal, runtime
  <2>19. ASSUME NEW k0 \in Conns, ConnUpgrade(k0) PROVE SignalInv'
    BY <2>19 DEF ConnUpgrade, signal, runtime
  <2>20. ASSUME NEW k0 \in Conns, SessionEnds(k0) PROVE SignalInv'
    BY <2>20 DEF SessionEnds, signal, runtime
  <2>21. CASE UNCHANGED vars
    BY <2>21 DEF vars
  <2>22. QED
    BY <2>1, <2>2, <2>3, <2>4, <2>5, <2>6, <2>7, <2>8, <2>9, <2>10, <2>11,
       <2>12, <2>13, <2>14, <2>15, <2>16, <2>17, <2>18, <2>19,
       <2>20, <2>21
       DEF Next, CallerStep, TaskStep
<1>3. QED
  BY <1>1, <1>2, TypeCorrect, PTL DEF Spec, SignalInv

-----------------------------------------------------------------------------
(***************************************************************************)
(* Ownership.  The handles move from RuntimeHandles to one stop(), so a    *)
(* task can only be lost if they are taken from a stopped runtime or       *)
(* overwrite the handles of an earlier stop() of the same caller.          *)
(***************************************************************************)
HandleScope ==
    /\ ~running => handles = {}
    /\ \A c \in Callers :
          /\ call[c] = "start_bind" => ~running
          /\ call[c] = "stop_notify" => running
          /\ call[c] # "stop_join" => join[c] = {}

Serving ==
    /\ port # NoGen => Alive(<<port, "server">>) /\ pc[<<port, "server">>] # "draining"
    /\ \A k \in Conns : conn[k] \in Gens => Alive(<<conn[k], "server">>)

OwnerInv == HandleScope /\ AliveIsOwned /\ Serving

(* A closed connection and an upgraded one belong to no generation. *)
LEMMA NotGens == NoGen \notin Gens /\ Detached \notin Gens
BY LifecycleAssumption DEF LifecycleAssumption, Gens, NoGen, Detached

(* Leaving wait() keeps ownership and serving as they were: the server     *)
(* closes its own socket before it drains.                                 *)
LEMMA LeaveOwner ==
    ASSUME TypeOK, OwnerInv, NEW t \in Task, pc[t] \in {"enabled", "parked"},
           Leave(t), UNCHANGED <<runtime, conn>>
    PROVE  OwnerInv'
<1> USE DEF TypeOK, OwnerInv, HandleScope, AliveIsOwned, Serving, Alive
<1>1. HandleScope' /\ AliveIsOwned'
  BY DEF Leave, runtime
<1>2. \A g \in Gens : <<g, "server">> \in Task /\ g # NoGen
  BY LifecycleAssumption DEF Task, Kinds, Gens, NoGen, LifecycleAssumption
<1>3. CASE t[2] = "server"
  <2>1. \A u \in Task : Alive(u) => Alive(u)'
    BY <1>3 DEF Leave
  <2>2. port' \in {NoGen, port} \ {t[1]}
    BY <1>2, <1>3 DEF Leave, Task
  <2>3. \A g \in Gens \ {t[1]} : pc'[<<g, "server">>] = pc[<<g, "server">>]
    <3>1. \A g \in Gens \ {t[1]} : <<g, "server">> # t
      OBVIOUS
    <3>2. pc' = [pc EXCEPT ![t] = "draining"]
      BY <1>3 DEF Leave
    <3>3. QED
      BY <1>2, <3>1, <3>2
  <2>4. Serving'
    BY <1>2, <2>1, <2>2, <2>3
  <2>5. QED
    BY <1>1, <2>4
<1>4. CASE t[2] # "server"
  <2>1. \A g \in Gens : pc'[<<g, "server">>] = pc[<<g, "server">>]
    <3>1. \A g \in Gens : <<g, "server">> # t
      BY <1>4
    <3>2. pc' = [pc EXCEPT ![t] = "done"]
      BY <1>4 DEF Leave
    <3>3. QED
      BY <1>2, <3>1, <3>2
  <2>2. Serving'
    BY <1>2, <1>4, <2>1 DEF Leave
  <2>3. QED
    BY <1>1, <2>2
<1>5. QED
  BY <1>3, <1>4

LEMMA Ownership == Spec => []OwnerInv
<1>1. Init => OwnerInv
  BY NotGens DEF Init, OwnerInv, HandleScope, AliveIsOwned, Serving, Alive
<1>2. TypeOK /\ OwnerInv /\ [Next]_vars => OwnerInv'
  <2> SUFFICES ASSUME TypeOK, OwnerInv, [Next]_vars PROVE OwnerInv'
    OBVIOUS
  <2> USE DEF TypeOK, OwnerInv, HandleScope, AliveIsOwned, Serving, Alive
  <2>1. ASSUME NEW c0 \in Callers, CallStart(c0) PROVE OwnerInv'
    BY <2>1 DEF CallStart, signal
  <2>2. ASSUME NEW c0 \in Callers, CallStop(c0) PROVE OwnerInv'
    BY <2>2 DEF CallStop, signal
  <2>3. ASSUME NEW c0 \in Callers, StartReset(c0) PROVE OwnerInv'
    BY <2>3 DEF StartReset
  <2>4. ASSUME NEW c0 \in Callers, StartBound(c0) PROVE OwnerInv'
    <3>1. \A t \in Task : t \in TasksOf(gen + 1) \/ pc'[t] = pc[t]
      BY <2>4 DEF StartBound
    <3>2. handles' = handles \cup TasksOf(gen + 1) /\ join' = join
      BY <2>4 DEF StartBound
    <3>3. AliveIsOwned'
      BY <3>1, <3>2
    <3>4. gen + 1 \in Gens /\ \A g \in Gens : <<g, "server">> \in Task
      BY <2>4, LifecycleAssumption DEF StartBound, LifecycleAssumption, Gens, Task, Kinds
    <3>5. pc'[<<gen + 1, "server">>] = "loop"
      BY <2>4, <3>4 DEF StartBound, TasksOf, Kinds
    <3>6. \A g \in Gens : Alive(<<g, "server">>) => Alive(<<g, "server">>)'
      BY <2>4, <3>4 DEF StartBound
    <3>7. Serving'
      BY <2>4, <3>5, <3>6 DEF StartBound
    <3>8. HandleScope'
      BY <2>4 DEF StartBound, MutexHeld
    <3>9. QED
      BY <3>3, <3>7, <3>8
  <2>5. ASSUME NEW c0 \in Callers, StartBindFailed(c0) PROVE OwnerInv'
    BY <2>5 DEF StartBindFailed, signal
  <2>6. ASSUME NEW c0 \in Callers, StopLatch(c0) PROVE OwnerInv'
    BY <2>6 DEF StopLatch
  <2>7. ASSUME NEW c0 \in Callers, StopNotify(c0) PROVE OwnerInv'
    <3>1. join[c0] = {} /\ join'[c0] = handles /\ handles' = {}
      BY <2>7 DEF StopNotify, Taken
    <3>2. \A c \in Callers \ {c0} : join'[c] = join[c] /\ call'[c] = call[c]
      BY <2>7 DEF StopNotify
    <3>3. AliveIsOwned'
      BY <2>7, <3>1, <3>2 DEF StopNotify
    <3>4. HandleScope'
      BY <2>7, <3>1, <3>2 DEF StopNotify, MutexHeld
    <3>5. Serving'
      BY <2>7 DEF StopNotify
    <3>6. QED
      BY <3>3, <3>4, <3>5
  <2>8. ASSUME NEW c0 \in Callers, StopReturn(c0) PROVE OwnerInv'
    BY <2>8 DEF StopReturn, signal, Joined
  <2>9. ASSUME NEW c0 \in Callers, StopTimedOut(c0) PROVE OwnerInv'
    BY <2>9, NotGens DEF StopTimedOut
  <2>10. ASSUME NEW t0 \in Task, WaitEnable(t0) PROVE OwnerInv'
    BY <2>10 DEF WaitEnable, runtime
  <2>11. ASSUME NEW t0 \in Task, WaitCheck(t0) PROVE OwnerInv'
    <3>1. CASE triggered
      BY <2>11, <3>1, LeaveOwner DEF WaitCheck
    <3>2. CASE ~triggered
      <4>1. pc' = [pc EXCEPT ![t0] = "parked"] /\ port' = port /\ conn' = conn
        BY <2>11, <3>2 DEF WaitCheck
      <4>2. UNCHANGED runtime
        BY <2>11 DEF WaitCheck
      <4>3. QED
        BY <2>11, <4>1, <4>2 DEF WaitCheck, runtime
    <3>3. QED
      BY <3>1, <3>2
  <2>12. ASSUME NEW t0 \in Task, WaitWake(t0) PROVE OwnerInv'
    <3>1. CASE triggered
      BY <2>12, <3>1, LeaveOwner DEF WaitWake
    <3>2. CASE ~triggered
      <4>1. pc' = [pc EXCEPT ![t0] = "loop"] /\ port' = port /\ conn' = conn
        BY <2>12, <3>2 DEF WaitWake
      <4>2. UNCHANGED runtime
        BY <2>12 DEF WaitWake
      <4>3. QED
        BY <2>12, <4>1, <4>2 DEF WaitWake, runtime
    <3>3. QED
      BY <3>1, <3>2
  <2>13. ASSUME NEW t0 \in Task, OtherBranch(t0) PROVE OwnerInv'
    BY <2>13 DEF OtherBranch, Selecting, runtime
  <2>14. ASSUME NEW t0 \in Task, BranchDone(t0) PROVE OwnerInv'
    BY <2>14 DEF BranchDone, signal, runtime
  <2>15. ASSUME NEW t0 \in Task, ListenerConfigError(t0) PROVE OwnerInv'
    BY <2>15, LifecycleAssumption DEF ListenerConfigError, LifecycleAssumption, signal, runtime
  <2>16. ASSUME NEW t0 \in Task, ServerDrained(t0) PROVE OwnerInv'
    BY <2>16 DEF ServerDrained, signal, runtime
  <2>17. ASSUME NEW k0 \in Conns, ConnOpen(k0) PROVE OwnerInv'
    BY <2>17 DEF ConnOpen, signal, runtime
  <2>18. ASSUME NEW k0 \in Conns, ConnClose(k0) PROVE OwnerInv'
    BY <2>18, NotGens DEF ConnClose, signal, runtime
  <2>19. ASSUME NEW k0 \in Conns, ConnUpgrade(k0) PROVE OwnerInv'
    BY <2>19, NotGens DEF ConnUpgrade, signal, runtime
  <2>20. ASSUME NEW k0 \in Conns, SessionEnds(k0) PROVE OwnerInv'
    BY <2>20, NotGens DEF SessionEnds, signal, runtime
  <2>21. CASE UNCHANGED vars
    BY <2>21 DEF vars
  <2>22. QED
    BY <2>1, <2>2, <2>3, <2>4, <2>5, <2>6, <2>7, <2>8, <2>9, <2>10, <2>11,
       <2>12, <2>13, <2>14, <2>15, <2>16, <2>17, <2>18, <2>19,
       <2>20, <2>21
       DEF Next, CallerStep, TaskStep
<1>3. QED
  BY <1>1, <1>2, TypeCorrect, PTL DEF Spec

(* AliveIsOwned: no interleaving of starts, failed binds and stops leaks a *)
(* task that no stop() will ever await.                                    *)
THEOREM NoTaskLeaked == Spec => []AliveIsOwned
BY Ownership, PTL DEF OwnerInv

(* UnreachableWhenStopped: with no call under way, a gateway that is not   *)
(* running listens on no port, and what is left of its connections are     *)
(* upgraded WebSocket sessions.                                            *)
THEOREM StoppedIsUnreachable == Spec => []UnreachableWhenStopped
<1>1. TypeOK /\ OwnerInv => UnreachableWhenStopped
  <2> SUFFICES ASSUME TypeOK, OwnerInv, ~running, \A c \in Callers : call[c] = "idle"
               PROVE  port = NoGen /\ \A k \in Conns : conn[k] \in {NoGen, Detached}
    BY DEF UnreachableWhenStopped
  <2>1. \A t \in Task : ~Alive(t)
    BY DEF OwnerInv, HandleScope, AliveIsOwned
  <2>2. \A g \in Gens : <<g, "server">> \in Task
    BY DEF Task, Kinds
  <2>3. QED
    BY <2>1, <2>2 DEF TypeOK, OwnerInv, Serving
<1>2. QED
  BY <1>1, TypeCorrect, Ownership, PTL

(* DrainingAcceptsNothing: the connections of a server that has left its   *)
(* accept loop only close.                                                 *)
THEOREM DrainingOnlyShrinks == Spec => DrainingAcceptsNothing
<1> DEFINE Shrinks == \A g \in Gens :
              pc[<<g, "server">>] \in {"draining", "done"} =>
                 \A k \in Conns : conn'[k] = g => conn[k] = g
<1>1. TypeOK /\ OwnerInv /\ [Next]_vars => [Shrinks]_vars
  <2> SUFFICES ASSUME TypeOK, OwnerInv, Next PROVE Shrinks
    OBVIOUS
  <2>1. ASSUME NEW c \in Callers, CallerStep(c), ~StopTimedOut(c) PROVE Shrinks
    BY <2>1 DEF CallerStep, CallStart, CallStop, StartReset, StartBound,
       StartBindFailed, StopLatch, StopNotify, StopReturn
  <2>2. ASSUME NEW c \in Callers, StopTimedOut(c) PROVE Shrinks
    BY <2>2 DEF StopTimedOut, Gens, NoGen
  <2>3. ASSUME NEW t \in Task, TaskStep(t) PROVE Shrinks
    BY <2>3 DEF TaskStep, WaitEnable, WaitCheck, WaitWake, OtherBranch,
       BranchDone, ListenerConfigError, ServerDrained
  <2>4. ASSUME NEW k \in Conns, ConnOpen(k) PROVE Shrinks
    <3>1. \A g \in Gens : pc[<<g, "server">>] \in {"draining", "done"} => g # port
      BY <2>4 DEF ConnOpen, TypeOK, OwnerInv, Serving, Alive
    <3>2. QED
      BY <2>4, <3>1 DEF ConnOpen, TypeOK
  <2>5. ASSUME NEW k \in Conns, ConnClose(k) PROVE Shrinks
    BY <2>5, NotGens DEF ConnClose, TypeOK
  <2>6. ASSUME NEW k \in Conns, ConnUpgrade(k) PROVE Shrinks
    BY <2>6, NotGens DEF ConnUpgrade, TypeOK
  <2>7. ASSUME NEW k \in Conns, SessionEnds(k) PROVE Shrinks
    BY <2>7, NotGens DEF SessionEnds, TypeOK
  <2>8. QED
    BY <2>1, <2>2, <2>3, <2>4, <2>5, <2>6, <2>7 DEF Next, CallerStep
<1>2. QED
  BY <1>1, TypeCorrect, Ownership, PTL DEF Spec, DrainingAcceptsNothing

-----------------------------------------------------------------------------
(***************************************************************************)
(* Restarts that do not overlap a stop().  No stop() is then under way     *)
(* during a start(), so the reset it makes cannot reach one that is still  *)
(* joining, and it finds every earlier task ended.                         *)
(***************************************************************************)
StartAlone ==
    \A c, d \in Callers : InStart(c) => ~InStop(d)

Latched == \A c \in Callers : call[c] \in {"stop_notify", "stop_join"} => triggered

SerialInv == ~overlap => StartAlone /\ Latched /\ OneGenerationAlive

LEMMA Serial == Spec => []SerialInv
<1>1. Init => SerialInv
  BY DEF Init, SerialInv, StartAlone, InStart, InStop, Latched, OneGenerationAlive, Alive
<1>2. TypeOK /\ OwnerInv /\ SerialInv /\ [Next]_vars => SerialInv'
  <2> SUFFICES ASSUME TypeOK, OwnerInv, SerialInv, [Next]_vars, ~overlap'
               PROVE  SerialInv'
    BY DEF SerialInv
  <2> USE DEF TypeOK, SerialInv, StartAlone, InStart, InStop, Latched, OneGenerationAlive, Alive
  <2>1. ASSUME NEW c0 \in Callers, CallStart(c0) PROVE SerialInv'
    BY <2>1 DEF CallStart, signal
  <2>2. ASSUME NEW c0 \in Callers, CallStop(c0) PROVE SerialInv'
    BY <2>2 DEF CallStop, signal
  <2>3. ASSUME NEW c0 \in Callers, StartReset(c0) PROVE SerialInv'
    BY <2>3 DEF StartReset
  <2>4. ASSUME NEW c0 \in Callers, StartBound(c0) PROVE SerialInv'
    <3>1. \A c \in Callers : join[c] = {}
      BY <2>4 DEF StartBound, OwnerInv, HandleScope
    <3>2. \A t \in Task : ~Alive(t)
      BY <2>4, <3>1 DEF StartBound, OwnerInv, HandleScope, AliveIsOwned
    <3>3. \A t \in Task : Alive(t)' => t[1] = gen + 1
      BY <2>4, <3>2 DEF StartBound, TasksOf
    <3>4. OneGenerationAlive'
      BY <3>3
    <3>5. (StartAlone /\ Latched)'
      BY <2>4 DEF StartBound, signal
    <3>6. QED
      BY <3>4, <3>5
  <2>5. ASSUME NEW c0 \in Callers, StartBindFailed(c0) PROVE SerialInv'
    BY <2>5 DEF StartBindFailed, signal
  <2>6. ASSUME NEW c0 \in Callers, StopLatch(c0) PROVE SerialInv'
    BY <2>6 DEF StopLatch
  <2>7. ASSUME NEW c0 \in Callers, StopNotify(c0) PROVE SerialInv'
    BY <2>7 DEF StopNotify, Taken
  <2>8. ASSUME NEW c0 \in Callers, StopReturn(c0) PROVE SerialInv'
    BY <2>8 DEF StopReturn, signal, Joined
  <2>9. ASSUME NEW c0 \in Callers, StopTimedOut(c0) PROVE SerialInv'
    BY <2>9 DEF StopTimedOut
  <2>10. ASSUME NEW t0 \in Task, WaitEnable(t0) PROVE SerialInv'
    BY <2>10 DEF WaitEnable, runtime
  <2>11. ASSUME NEW t0 \in Task, WaitCheck(t0) PROVE SerialInv'
    BY <2>11 DEF WaitCheck, Leave, runtime
  <2>12. ASSUME NEW t0 \in Task, WaitWake(t0) PROVE SerialInv'
    BY <2>12 DEF WaitWake, Leave, runtime
  <2>13. ASSUME NEW t0 \in Task, OtherBranch(t0) PROVE SerialInv'
    BY <2>13 DEF OtherBranch, Selecting, runtime
  <2>14. ASSUME NEW t0 \in Task, BranchDone(t0) PROVE SerialInv'
    BY <2>14 DEF BranchDone, signal, runtime
  <2>15. ASSUME NEW t0 \in Task, ListenerConfigError(t0) PROVE SerialInv'
    BY <2>15 DEF ListenerConfigError, signal, runtime
  <2>16. ASSUME NEW t0 \in Task, ServerDrained(t0) PROVE SerialInv'
    BY <2>16 DEF ServerDrained, signal, runtime
  <2>17. ASSUME NEW k0 \in Conns, ConnOpen(k0) PROVE SerialInv'
    BY <2>17 DEF ConnOpen, signal, runtime
  <2>18. ASSUME NEW k0 \in Conns, ConnClose(k0) PROVE SerialInv'
    BY <2>18 DEF ConnClose, signal, runtime
  <2>19. ASSUME NEW k0 \in Conns, ConnUpgrade(k0) PROVE SerialInv'
    BY <2>19 DEF ConnUpgrade, signal, runtime
  <2>20. ASSUME NEW k0 \in Conns, SessionEnds(k0) PROVE SerialInv'
    BY <2>20 DEF SessionEnds, signal, runtime
  <2>21. CASE UNCHANGED vars
    BY <2>21 DEF vars
  <2>22. QED
    BY <2>1, <2>2, <2>3, <2>4, <2>5, <2>6, <2>7, <2>8, <2>9, <2>10, <2>11,
       <2>12, <2>13, <2>14, <2>15, <2>16, <2>17, <2>18, <2>19,
       <2>20, <2>21
       DEF Next, CallerStep, TaskStep
<1>3. QED
  BY <1>1, <1>2, TypeCorrect, Ownership, PTL DEF Spec

(* SignalHeldWhileJoining: a stop() that no start() overlaps keeps the     *)
(* signal latched for as long as it waits for a task.                      *)
THEOREM SignalHeld == Spec => []SignalHeldWhileJoining
<1>1. SerialInv => SignalHeldWhileJoining
  BY DEF SerialInv, Latched, SignalHeldWhileJoining
<1>2. QED
  BY <1>1, Serial, PTL

(* OneGenerationAlive: tasks of two runs of the gateway never coexist when *)
(* restarts are serial.                                                    *)
THEOREM GenerationsDisjoint == Spec => []OneGenerationAlive
<1>1. SerialInv => OneGenerationAlive
  BY DEF SerialInv, OneGenerationAlive
<1>2. QED
  BY <1>1, Serial, PTL

=============================================================================
