----------------------------- MODULE Lifecycle -----------------------------
(***************************************************************************)
(* DefaultGateway::start / stop (src/src/core/gateway.rs), the latching    *)
(* Shutdown signal they share with the spawned tasks                       *)
(* (src/src/core/shutdown.rs), and the loops of those tasks: the axum      *)
(* server, the one-second metrics ticker and one task per inbound          *)
(* listener.                                                               *)
(*                                                                         *)
(* A successful start() begins a generation: one task of every kind.       *)
(* Several callers may hold the gateway and call start() and stop()        *)
(* concurrently (both take &self).  Every step below is one stretch of     *)
(* code between two points where another thread can be observed: the       *)
(* runtime mutex, the atomic flag, the Notify wait list and an .await.     *)
(***************************************************************************)
EXTENDS Naturals, FiniteSets

CONSTANTS
    Callers,          \* tasks that call start() and stop()
    Listeners,        \* entries of the `listeners` section of the config
    Misconfigured,    \* mqtt_sub listeners whose broker URL or QoS does not parse
    Conns,            \* client connections
    OpenEnded,        \* those on which no timer bounds the wait (see Fairness)
    NoCaller,         \* the runtime mutex is free
    MaxStarts,        \* bound: successful starts
    ShutdownTimeout   \* TRUE: stop() is wrapped in a timeout, as in main.rs

ASSUME LifecycleAssumption ==
    /\ MaxStarts \in Nat
    /\ NoCaller \notin Callers
    /\ Misconfigured \subseteq Listeners
    /\ OpenEnded \subseteq Conns
    /\ Listeners \cap {"server", "metrics"} = {}
    /\ ShutdownTimeout \in BOOLEAN

Gens == 1..MaxStarts
NoGen == 0
Detached == MaxStarts + 1  \* a WebSocket session: served by a task of its own
Kinds == {"server", "metrics"} \cup Listeners
Task == Gens \X Kinds
TasksOf(g) == {g} \X Kinds

VARIABLES
    triggered,  \* Shutdown.triggered
    waiters,    \* tasks whose Notified future is enabled and not yet notified
    notified,   \* tasks whose Notified future has been notified
    pc,         \* control state of each task
    gen,        \* generations started so far
    running,    \* RuntimeHandles.running
    handles,    \* the JoinHandles kept in RuntimeHandles
    lock,       \* holder of the runtime mutex
    call,       \* what each caller is executing
    join,       \* the JoinHandles each stop() is awaiting
    port,       \* the generation listening on host:port
    conn,       \* the generation that serves each open connection
    overlap     \* history: some start() was under way together with a stop()

vars == <<triggered, waiters, notified, pc, gen, running, handles, lock,
          call, join, port, conn, overlap>>
signal == <<triggered, waiters, notified>>
runtime == <<gen, running, handles, lock, call, join, overlap>>

(***************************************************************************)
(* The states of a task.  "loop": about to create a wait() future; one     *)
(* that was just spawned starts there.  "enabled": registered with Notify, *)
(* flag not read yet.  "parked": flag read as FALSE, awaiting.  "busy":    *)
(* the other branch of its select! won.  "draining": the server closed its *)
(* socket and waits for open connections.                                  *)
(***************************************************************************)
TaskState == {"unborn", "loop", "enabled", "parked", "busy", "draining", "done"}
CallState == {"idle", "start_lock", "start_bind",
              "stop_lock", "stop_notify", "stop_join", "exited"}

Alive(t) == pc[t] \notin {"unborn", "done"}

(* The runtime lock is held exactly by the call in its critical section. *)
MutexHeld ==
    \A c \in Callers : lock = c <=> call[c] \in {"start_bind", "stop_notify"}

(* The type invariant, mutex discipline included. *)
TypeOK ==
    /\ triggered \in BOOLEAN
    /\ waiters \in SUBSET Task
    /\ notified \in SUBSET Task
    /\ pc \in [Task -> TaskState]
    /\ gen \in 0..MaxStarts
    /\ running \in BOOLEAN
    /\ handles \in SUBSET Task
    /\ lock \in Callers \cup {NoCaller}
    /\ call \in [Callers -> CallState]
    /\ join \in [Callers -> SUBSET Task]
    /\ port \in Gens \cup {NoGen}
    /\ conn \in [Conns -> Gens \cup {NoGen, Detached}]
    /\ overlap \in BOOLEAN
    /\ MutexHeld

Init ==
    /\ triggered = FALSE
    /\ waiters = {}
    /\ notified = {}
    /\ pc = [t \in Task |-> "unborn"]
    /\ gen = 0
    /\ running = FALSE
    /\ handles = {}
    /\ lock = NoCaller
    /\ call = [c \in Callers |-> "idle"]
    /\ join = [c \in Callers |-> {}]
    /\ port = NoGen
    /\ conn = [k \in Conns |-> NoGen]
    /\ overlap = FALSE

-----------------------------------------------------------------------------
(* Calls.  `overlap` remembers whether a start() ever met a stop(). *)

InStart(c) == call[c] \in {"start_lock", "start_bind"}
InStop(c) == call[c] \in {"stop_lock", "stop_notify", "stop_join"}

CallStart(c) ==
    /\ call[c] = "idle"
    /\ call' = [call EXCEPT ![c] = "start_lock"]
    /\ overlap' = (overlap \/ \E d \in Callers : InStop(d))
    /\ UNCHANGED <<signal, pc, gen, running, handles, lock, join, port, conn>>

CallStop(c) ==
    /\ call[c] = "idle"
    /\ call' = [call EXCEPT ![c] = "stop_lock"]
    /\ overlap' = (overlap \/ \E d \in Callers : InStart(d))
    /\ UNCHANGED <<signal, pc, gen, running, handles, lock, join, port, conn>>

-----------------------------------------------------------------------------
(* start() *)

(* The mutex is taken, `running` is tested and the old signal is cleared.  *)
(* The guard is held across the bind that follows.                         *)
StartReset(c) ==
    /\ call[c] = "start_lock"
    /\ lock = NoCaller
    /\ \/ /\ running                        \* "Gateway is already running"
          /\ call' = [call EXCEPT ![c] = "idle"]
          /\ UNCHANGED <<triggered, lock>>
       \/ /\ ~running
          /\ triggered' = FALSE             \* Shutdown::reset
          /\ lock' = c
          /\ call' = [call EXCEPT ![c] = "start_bind"]
    /\ UNCHANGED <<waiters, notified, pc, gen, running, handles, join, port, conn,
                   overlap>>

(* The port is free: every task of a new generation is spawned, its handle *)
(* stored, and the mutex released.                                         *)
StartBound(c) ==
    /\ call[c] = "start_bind"
    /\ port = NoGen
    /\ gen < MaxStarts
    /\ gen' = gen + 1
    /\ port' = gen + 1
    /\ pc' = [t \in Task |-> IF t \in TasksOf(gen + 1) THEN "loop" ELSE pc[t]]
    /\ handles' = handles \cup TasksOf(gen + 1)
    /\ running' = TRUE
    /\ lock' = NoCaller
    /\ call' = [call EXCEPT ![c] = "idle"]
    /\ UNCHANGED <<signal, join, conn, overlap>>

(* TcpListener::bind fails, because an earlier generation still listens or *)
(* for a reason outside the gateway; `?` returns with the signal cleared.  *)
StartBindFailed(c) ==
    /\ call[c] = "start_bind"
    /\ lock' = NoCaller
    /\ call' = [call EXCEPT ![c] = "idle"]
    /\ UNCHANGED <<signal, pc, gen, running, handles, join, port, conn, overlap>>

-----------------------------------------------------------------------------
(* stop() *)

(* Slip: the bare Notify the comment on Shutdown warns of, without a flag. *)
StopLatchBareNotify(c) ==
    /\ call[c] = "stop_lock"
    /\ lock = NoCaller
    /\ running
    /\ lock' = c
    /\ call' = [call EXCEPT ![c] = "stop_notify"]
    /\ UNCHANGED <<signal, pc, gen, running, handles, join, port, conn, overlap>>

(* Slip: `running` is read and the signal triggered without the mutex. *)
StopLatchUnlocked(c) ==
    /\ call[c] = "stop_lock"
    /\ running
    /\ triggered' = TRUE
    /\ call' = [call EXCEPT ![c] = "stop_notify"]
    /\ UNCHANGED <<waiters, notified, pc, gen, running, handles, lock, join, port,
                   conn, overlap>>

(* The mutex is taken; when running, Shutdown::trigger stores the flag. *)
StopLatch(c) ==
    /\ call[c] = "stop_lock"
    /\ lock = NoCaller
    /\ \/ /\ ~running                       \* return Ok(())
          /\ call' = [call EXCEPT ![c] = "idle"]
          /\ UNCHANGED <<triggered, lock>>
       \/ /\ running
          /\ triggered' = TRUE
          /\ lock' = c
          /\ call' = [call EXCEPT ![c] = "stop_notify"]
    /\ UNCHANGED <<waiters, notified, pc, gen, running, handles, join, port, conn,
                   overlap>>

(* The handles stop() takes out of RuntimeHandles, and a slip that forgets *)
(* the listeners.                                                          *)
TakenWithoutListeners == {t \in handles : t[2] \in {"server", "metrics"}}
Taken == handles

(* trigger() wakes the registered waiters; the handles are taken out of    *)
(* the runtime and the mutex is released before they are awaited.          *)
StopNotify(c) ==
    /\ call[c] = "stop_notify"
    /\ notified' = notified \cup waiters
    /\ waiters' = {}
    /\ running' = FALSE
    /\ join' = [join EXCEPT ![c] = Taken]
    /\ handles' = {}
    /\ lock' = NoCaller
    /\ call' = [call EXCEPT ![c] = "stop_join"]
    /\ UNCHANGED <<triggered, pc, gen, port, conn, overlap>>

(* Slips: only the server is awaited, or everything but the server. *)
JoinedServerOnly(c) == \A t \in join[c] : t[2] = "server" => pc[t] = "done"
JoinedButServer(c) == \A t \in join[c] : t[2] # "server" => pc[t] = "done"

Joined(c) == \A t \in join[c] : pc[t] = "done"

(* Every awaited task has ended: stop() returns Ok. *)
StopReturn(c) ==
    /\ call[c] = "stop_join"
    /\ Joined(c)
    /\ join' = [join EXCEPT ![c] = {}]
    /\ call' = [call EXCEPT ![c] = "idle"]
    /\ UNCHANGED <<signal, pc, gen, running, handles, lock, port, conn, overlap>>

(* main.rs: the timeout around stop() elapses; main returns, the Tokio     *)
(* runtime is dropped and every task, socket and connection with it.       *)
StopTimedOut(c) ==
    /\ ShutdownTimeout
    /\ call[c] = "stop_join"
    /\ call' = [d \in Callers |-> "exited"]
    /\ join' = [d \in Callers |-> {}]
    /\ handles' = {}
    /\ pc' = [t \in Task |-> IF Alive(t) THEN "done" ELSE pc[t]]
    /\ waiters' = {}
    /\ notified' = {}
    /\ port' = NoGen
    /\ conn' = [k \in Conns |-> NoGen]
    /\ running' = FALSE
    /\ lock' = NoCaller
    /\ UNCHANGED <<triggered, gen, overlap>>

-----------------------------------------------------------------------------
(* Shutdown::wait, as run by every task *)

(* What a task does once wait() has resolved. *)
Leave(t) ==
    IF t[2] = "server"
    THEN /\ pc' = [pc EXCEPT ![t] = "draining"]
         /\ port' = IF port = t[1] THEN NoGen ELSE port
    ELSE /\ pc' = [pc EXCEPT ![t] = "done"]
         /\ port' = port

(* Slip: the future is not enabled before the flag is read. *)
WaitNotEnabled(t) ==
    /\ pc[t] = "loop"
    /\ t[2] \notin Misconfigured
    /\ pc' = [pc EXCEPT ![t] = "enabled"]
    /\ UNCHANGED <<signal, runtime, port, conn>>

(* The future is created and enabled: it joins the wait list. *)
WaitEnable(t) ==
    /\ pc[t] = "loop"
    /\ t[2] \notin Misconfigured
    /\ waiters' = waiters \cup {t}
    /\ pc' = [pc EXCEPT ![t] = "enabled"]
    /\ UNCHANGED <<triggered, notified, runtime, port, conn>>

(* Slip: the first waiter to see the flag clears it (swap for load). *)
WaitCheckConsumes(t) ==
    /\ pc[t] = "enabled"
    /\ triggered
    /\ triggered' = FALSE
    /\ waiters' = waiters \ {t}
    /\ notified' = notified \ {t}
    /\ Leave(t)
    /\ UNCHANGED <<runtime, conn>>

(* Only then is the flag read: return, or await the notification. *)
WaitCheck(t) ==
    /\ pc[t] = "enabled"
    /\ \/ /\ triggered
          /\ waiters' = waiters \ {t}
          /\ notified' = notified \ {t}
          /\ Leave(t)
       \/ /\ ~triggered
          /\ pc' = [pc EXCEPT ![t] = "parked"]
          /\ UNCHANGED <<waiters, notified, port>>
    /\ UNCHANGED <<triggered, runtime, conn>>

(* Notified: the flag is read again, and reading FALSE starts wait() over. *)
WaitWake(t) ==
    /\ pc[t] = "parked"
    /\ t \in notified
    /\ notified' = notified \ {t}
    /\ \/ triggered /\ Leave(t)
       \/ ~triggered /\ pc' = [pc EXCEPT ![t] = "loop"] /\ port' = port
    /\ UNCHANGED <<triggered, waiters, runtime, conn>>

-----------------------------------------------------------------------------
(* The tasks' own work *)

(* The tasks that race wait() against other work; the server awaits wait() *)
(* alone, and a misconfigured listener never gets as far.                  *)
Selecting == {t \in Task : t[2] \notin {"server"} \cup Misconfigured}

(* The other branch of a select! is ready first: the interval ticks, a     *)
(* listener session ends, or a reconnect delay elapses.  The wait() future *)
(* is dropped, and so deregistered.                                        *)
OtherBranch(t) ==
    /\ t \in Selecting
    /\ pc[t] \in {"loop", "parked"}
    /\ pc' = [pc EXCEPT ![t] = "busy"]
    /\ waiters' = waiters \ {t}
    /\ notified' = notified \ {t}
    /\ UNCHANGED <<triggered, runtime, port, conn>>

(* MetricsStore::tick returns, or the listener enters its next select!. *)
BranchDone(t) ==
    /\ pc[t] = "busy"
    /\ pc' = [pc EXCEPT ![t] = "loop"]
    /\ UNCHANGED <<signal, runtime, port, conn>>

(* run_sub_listener returns at once when its config does not parse. *)
ListenerConfigError(t) ==
    /\ t[2] \in Misconfigured
    /\ pc[t] = "loop"
    /\ pc' = [pc EXCEPT ![t] = "done"]
    /\ UNCHANGED <<signal, runtime, port, conn>>

ConnOpen(k) ==
    /\ port # NoGen
    /\ conn[k] = NoGen
    /\ conn' = [conn EXCEPT ![k] = port]
    /\ UNCHANGED <<signal, runtime, pc, port>>

(* The last response is written, or the client goes away. *)
ConnClose(k) ==
    /\ conn[k] \in Gens
    /\ conn' = [conn EXCEPT ![k] = NoGen]
    /\ UNCHANGED <<signal, runtime, pc, port>>

(* The 101 answer is out: on_upgrade hands the socket to proxy_websocket   *)
(* in a task of its own, whose handle nobody keeps, and the connection is  *)
(* finished as far as the server is concerned.                             *)
ConnUpgrade(k) ==
    /\ conn[k] \in Gens
    /\ conn' = [conn EXCEPT ![k] = Detached]
    /\ UNCHANGED <<signal, runtime, pc, port>>

(* proxy_websocket returns; it does not listen to the Shutdown signal. *)
SessionEnds(k) ==
    /\ conn[k] = Detached
    /\ conn' = [conn EXCEPT ![k] = NoGen]
    /\ UNCHANGED <<signal, runtime, pc, port>>

(* axum's graceful shutdown ends when no connection is left to serve; an   *)
(* upgraded one is not waited for.                                         *)
ServerDrained(t) ==
    /\ pc[t] = "draining"
    /\ \A k \in Conns : conn[k] # t[1]
    /\ pc' = [pc EXCEPT ![t] = "done"]
    /\ UNCHANGED <<signal, runtime, port, conn>>

-----------------------------------------------------------------------------
CallerStep(c) ==
    \/ CallStart(c) \/ StartReset(c) \/ StartBound(c) \/ StartBindFailed(c)
    \/ CallStop(c) \/ StopLatch(c) \/ StopNotify(c) \/ StopReturn(c)
    \/ StopTimedOut(c)

TaskStep(t) ==
    \/ WaitEnable(t) \/ WaitCheck(t) \/ WaitWake(t)
    \/ OtherBranch(t) \/ BranchDone(t)
    \/ ListenerConfigError(t) \/ ServerDrained(t)

Next ==
    \/ \E c \in Callers : CallerStep(c)
    \/ \E t \in Task : TaskStep(t)
    \/ \E k \in Conns :
          ConnOpen(k) \/ ConnClose(k) \/ ConnUpgrade(k) \/ SessionEnds(k)

Spec == Init /\ [][Next]_vars

(***************************************************************************)
(* Fairness.  Tokio polls a woken task eventually and its mutex is a FIFO  *)
(* queue, so a caller waiting for the lock gets it although others take it *)
(* in between (strong fairness).  select! polls its branches in random     *)
(* order, so the wait() branch is not passed over for ever.  A request     *)
(* that is in ends by the timer of its transport, but the gateway bounds   *)
(* neither the reading of a request head or body, nor the connect and send *)
(* of a ZMQ route, nor the writing of a response its client does not read, *)
(* nor an /admin/events stream: OpenEnded are the connections that meet    *)
(* one of these, and they need never close.  Neither need an upgraded      *)
(* session.  The timeout of main does elapse, but it is left out: no       *)
(* property may need it.  The actions joined in one fairness condition are *)
(* those of disjoint control states, each left only by one of them.        *)
(***************************************************************************)
Fairness ==
    /\ \A c \in Callers :
          /\ SF_vars(StartReset(c) \/ StopLatch(c))
          /\ WF_vars(StartBound(c) \/ StartBindFailed(c)
                        \/ StopNotify(c) \/ StopReturn(c))
    /\ \A t \in Task :
          WF_vars(WaitEnable(t) \/ WaitCheck(t) \/ WaitWake(t) \/ BranchDone(t)
                     \/ ListenerConfigError(t) \/ ServerDrained(t))
    /\ \A t \in Selecting : SF_vars(WaitEnable(t))
    /\ \A k \in Conns \ OpenEnded : WF_vars(ConnClose(k))

FairSpec == Spec /\ Fairness

-----------------------------------------------------------------------------
(* Properties *)

(* Shutdown::wait never misses a trigger: a task that is parked without a  *)
(* notification read a flag that is still FALSE, or the stop() that set it *)
(* has yet to call notify_waiters().  This is what enabling the future     *)
(* before reading the flag is for.                                         *)
NoLostWakeup ==
    \A t \in Task :
        pc[t] = "parked" /\ t \notin notified =>
            \/ ~triggered
            \/ \E c \in Callers : call[c] = "stop_notify"

(* No task is leaked: while it lives its JoinHandle is in RuntimeHandles   *)
(* or in the hands of a stop() that awaits it, across failed binds,        *)
(* repeated starts and overlapping stops.                                  *)
AliveIsOwned ==
    \A t \in Task :
        Alive(t) => t \in handles \/ \E c \in Callers : t \in join[c]

(* Once a stop() that found the gateway running has returned and no call   *)
(* is under way, nothing listens on host:port, and the connections still   *)
(* open are WebSocket sessions that were upgraded before: these outlive    *)
(* the stop(), every other connection has been served to its end.          *)
UnreachableWhenStopped ==
    (~running /\ \A c \in Callers : call[c] = "idle") =>
        /\ port = NoGen
        /\ \A k \in Conns : conn[k] \in {NoGen, Detached}

(* While no start() has overlapped a stop(), the signal stays latched      *)
(* until every task that stop() awaits has ended, so each of them can      *)
(* still observe it however late it reaches its next wait().               *)
SignalHeldWhileJoining ==
    ~overlap =>
        \A c \in Callers : call[c] = "stop_join" => triggered

(* While no start() has overlapped a stop(), two generations never run     *)
(* side by side: one ticker feeds the time buckets, one listener per entry *)
(* binds.                                                                  *)
OneGenerationAlive ==
    ~overlap =>
        \A t, u \in Task : Alive(t) /\ Alive(u) => t[1] = u[1]

(* Graceful shutdown converges: once a generation's server has left its    *)
(* accept loop, or ended, the set of connections it serves only shrinks,   *)
(* whatever start() and stop() do meanwhile.                               *)
DrainingAcceptsNothing ==
    [][\A g \in Gens :
          pc[<<g, "server">>] \in {"draining", "done"} =>
             \A k \in Conns : conn'[k] = g => conn[k] = g]_vars

Returned(c) == call[c] \in {"idle", "exited"}

(* One connection that no timer bounds stays open from now on. *)
HeldForEver == \E k \in OpenEnded : [](conn[k] \in Gens)

(* What the comments on Shutdown promise: every stop() returns, whatever   *)
(* start() does meanwhile, unless a connection without a timer holds its   *)
(* server for ever.  A start() during the stop() breaks it.                *)
StopAlwaysReturns ==
    \A c \in Callers : InStop(c) ~> Returned(c) \/ HeldForEver

(* Every stop() returns or the process exits, without help from main's     *)
(* timeout: no interleaving of stop() calls with the tasks' loops leaves   *)
(* one blocked on a JoinHandle, unless a start() overlapped a stop() or a  *)
(* connection without a timer holds the server for ever.  WebSocket        *)
(* sessions never hold it up.                                              *)
StopReturns ==
    \A c \in Callers : InStop(c) ~> Returned(c) \/ overlap \/ HeldForEver

=============================================================================
