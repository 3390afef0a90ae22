------------------------------ MODULE WsProxy ------------------------------
(***************************************************************************)
(* One WebSocket session: proxy_websocket of src/src/gateway/ws.rs, after  *)
(* the upgrade.  Two pumps, client to backend and backend to client, run   *)
(* in one task under a select!: the session ends when either is done, and  *)
(* drops what the other one holds.                                         *)
(*                                                                         *)
(* A pump that has read a frame passes it on in the same poll if the       *)
(* peer's connection takes it; it waits, holding the frame, when the       *)
(* connection is full, and while it waits the other pump runs.  Frames are *)
(* numbered; what they carry, and pings being frames like the others, does *)
(* not matter to the proxy.  The pongs that tungstenite sends on its own   *)
(* for the pings it receives are left out: they never pass a pump.         *)
(***************************************************************************)
EXTENDS Naturals, Sequences, FiniteSets

CONSTANTS
    Cap,        \* frames that fit between the gateway and a peer that does not read
    MaxFrames   \* bound: data frames each side sends

ASSUME ProxyAssumption == Cap \in Nat \ {0} /\ MaxFrames \in Nat

Side == {"client", "backend"}
Other(s) == IF s = "client" THEN "backend" ELSE "client"

Data(n) == [kind |-> "data", n |-> n]
Close == [kind |-> "close", n |-> 0]      \* with the peer's code and reason
BareClose == [kind |-> "bare", n |-> 0]   \* what the sink's close() sends
Failure == [kind |-> "error", n |-> 0]    \* the stream ends without a close
Frame == {Data(n) : n \in 1..MaxFrames} \cup {Close, BareClose, Failure}

VARIABLES
    phase,      \* "connecting", "proxying" or "ended"
    sent,       \* data frames each side has sent
    closing,    \* sides that have sent their close frame
    gone,       \* sides whose connection is broken
    inbox,      \* frames from each side that its pump has not read
    pump,       \* the pump reading from each side: "read", "send", "close", "done"
    held,       \* the frame a pump in "send" holds, a sequence of at most one
    outbox,     \* frames written to each side's connection
    got,        \* frames each side has received
    byeRead     \* sides whose close frame the gateway has read

vars == <<phase, sent, closing, gone, inbox, pump, held, outbox, got, byeRead>>
peers == <<sent, closing, gone, got>>

(* The type invariant: no connection is written beyond what it takes, and  *)
(* a pump holds a frame exactly while it waits to send it.                 *)
TypeOK ==
    /\ phase \in {"connecting", "proxying", "ended"}
    /\ sent \in [Side -> 0..MaxFrames]
    /\ closing \subseteq Side /\ gone \subseteq Side /\ byeRead \subseteq closing
    /\ \A s \in Side :
          /\ inbox[s] \in Seq(Frame) /\ outbox[s] \in Seq(Frame) /\ got[s] \in Seq(Frame)
          /\ Len(outbox[s]) <= Cap
          /\ pump[s] \in {"read", "send", "close", "done"}
          /\ held[s] \in Seq(Frame) /\ Len(held[s]) = IF pump[s] = "send" THEN 1 ELSE 0

Init ==
    /\ phase = "connecting"
    /\ sent = [s \in Side |-> 0]
    /\ closing = {} /\ gone = {} /\ byeRead = {}
    /\ pump = [s \in Side |-> "read"]
    /\ inbox = [s \in Side |-> <<>>] /\ held = [s \in Side |-> <<>>]
    /\ outbox = [s \in Side |-> <<>>] /\ got = [s \in Side |-> <<>>]

-----------------------------------------------------------------------------
(* The peers.  The backend takes part once it is connected. *)

Present(s) == s \notin gone /\ (s = "client" \/ phase # "connecting")
HasClosed(s) == s \in closing \/ \E i \in DOMAIN got[s] : got[s][i].kind # "data"

Send(s) ==
    /\ Present(s) /\ ~HasClosed(s) /\ sent[s] < MaxFrames
    /\ sent' = [sent EXCEPT ![s] = @ + 1]
    /\ inbox' = [inbox EXCEPT ![s] = Append(@, Data(sent[s] + 1))]
    /\ UNCHANGED <<phase, closing, gone, pump, held, outbox, got, byeRead>>

SendClose(s) ==
    /\ Present(s) /\ ~HasClosed(s)
    /\ closing' = closing \cup {s}
    /\ inbox' = [inbox EXCEPT ![s] = Append(@, Close)]
    /\ UNCHANGED <<phase, sent, gone, pump, held, outbox, got, byeRead>>

Vanish(s) ==
    /\ Present(s)
    /\ gone' = gone \cup {s}
    /\ inbox' = [inbox EXCEPT ![s] = Append(@, Failure)]
    /\ outbox' = [outbox EXCEPT ![s] = <<>>]
    /\ UNCHANGED <<phase, sent, closing, pump, held, got, byeRead>>

Receive(s) ==
    /\ Present(s) /\ outbox[s] # <<>>
    /\ got' = [got EXCEPT ![s] = Append(@, Head(outbox[s]))]
    /\ outbox' = [outbox EXCEPT ![s] = Tail(@)]
    /\ UNCHANGED <<phase, sent, closing, gone, inbox, pump, held, byeRead>>

-----------------------------------------------------------------------------
(* proxy_websocket *)

ConnectBackend ==
    /\ phase = "connecting"
    /\ phase' = "proxying"
    /\ UNCHANGED <<peers, inbox, pump, held, outbox, byeRead>>

(* A bad URL, a refused connection, or the timeout: the client is dropped. *)
ConnectFails ==
    /\ phase = "connecting"
    /\ phase' = "ended"
    /\ UNCHANGED <<peers, inbox, pump, held, outbox, byeRead>>

Room(t) == Len(outbox[t]) < Cap

(* Sending on a broken connection fails, and so does sending to a peer     *)
(* whose close frame has been read.                                        *)
Writable(t, read) == t \notin gone /\ t \notin read

(* Slip: a frame the connection has no room for is discarded. *)
HandDropping(s, f, read) ==
    LET t == Other(s)
    IN IF Writable(t, read) /\ Room(t)
       THEN /\ outbox' = [outbox EXCEPT ![t] = Append(@, f)]
            /\ held' = [held EXCEPT ![s] = <<>>]
            /\ pump' = [pump EXCEPT ![s] = IF f = Close THEN "close" ELSE "read"]
       ELSE /\ held' = [held EXCEPT ![s] = <<>>]
            /\ pump' = [pump EXCEPT ![s] = IF f = Close THEN "close" ELSE "read"]
            /\ UNCHANGED outbox

(* Slip: a close frame goes out at once, past what is being written. *)
HandClosing(s, f, read) ==
    LET t == Other(s)
    IN /\ outbox' = [outbox EXCEPT ![t] = Append(@, f)]
       /\ held' = [held EXCEPT ![s] = <<>>]
       /\ pump' = [pump EXCEPT ![s] = IF f = Close THEN "close" ELSE "read"]

(* sink.send(f).await in the pump of s: it fails and the pump stops, the   *)
(* frame is written, or the pump waits for room.  read is byeRead by then. *)
Hand(s, f, read) ==
    LET t == Other(s)
    IN \/ /\ ~Writable(t, read)
          /\ pump' = [pump EXCEPT ![s] = "close"]
          /\ held' = [held EXCEPT ![s] = <<>>]
          /\ UNCHANGED outbox
       \/ /\ Writable(t, read) /\ Room(t)
          /\ outbox' = [outbox EXCEPT ![t] = Append(@, f)]
          /\ held' = [held EXCEPT ![s] = <<>>]
          /\ pump' = [pump EXCEPT ![s] = IF f = Close THEN "close" ELSE "read"]
       \/ /\ Writable(t, read) /\ ~Room(t)
          /\ held' = [held EXCEPT ![s] = <<f>>]
          /\ pump' = [pump EXCEPT ![s] = "send"]
          /\ UNCHANGED outbox

(* stream.next() yields a frame, to be passed on, or an error. *)
PumpRead(s) ==
    /\ phase = "proxying" /\ pump[s] = "read" /\ inbox[s] # <<>>
    /\ inbox' = [inbox EXCEPT ![s] = Tail(@)]
    /\ LET f == Head(inbox[s])
       IN /\ byeRead' = IF f = Close THEN byeRead \cup {s} ELSE byeRead
          /\ IF f = Failure
             THEN pump' = [pump EXCEPT ![s] = "close"] /\ UNCHANGED <<held, outbox>>
             ELSE Hand(s, f, byeRead')
    /\ UNCHANGED <<phase, peers>>

PumpSend(s) ==
    /\ phase = "proxying" /\ pump[s] = "send"
    /\ Room(Other(s)) \/ ~Writable(Other(s), byeRead)
    /\ Hand(s, held[s][1], byeRead)
    /\ UNCHANGED <<phase, peers, inbox, byeRead>>

(* The last frame written to t is a close frame. *)
CloseWritten(t) ==
    LET w == got[t] \o outbox[t] IN w # <<>> /\ w[Len(w)].kind # "data"

(* sink.close().await: a bare close frame, unless one was written already  *)
(* or the peer is past it.                                                 *)
PumpClose(s) ==
    LET t == Other(s)
        silent == ~Writable(t, byeRead) \/ CloseWritten(t)
    IN /\ phase = "proxying" /\ pump[s] = "close"
       /\ silent \/ Room(t)
       /\ pump' = [pump EXCEPT ![s] = "done"]
       /\ outbox' = IF silent THEN outbox ELSE [outbox EXCEPT ![t] = Append(@, BareClose)]
       /\ UNCHANGED <<phase, peers, inbox, held, byeRead>>

(* Slip: the session waits for both pumps. *)
EndBoth ==
    /\ phase = "proxying" /\ \A s \in Side : pump[s] = "done"
    /\ phase' = "ended"
    /\ UNCHANGED <<peers, inbox, pump, held, outbox, byeRead>>

(* The select! returns and both connections are dropped; what was written  *)
(* to them still arrives.                                                  *)
End ==
    /\ phase = "proxying" /\ \E s \in Side : pump[s] = "done"
    /\ phase' = "ended"
    /\ UNCHANGED <<peers, inbox, pump, held, outbox, byeRead>>

Next ==
    \/ ConnectBackend \/ ConnectFails \/ End
    \/ \E s \in Side :
          \/ Send(s) \/ SendClose(s) \/ Vanish(s) \/ Receive(s)
          \/ PumpRead(s) \/ PumpSend(s) \/ PumpClose(s)

Spec == Init /\ [][Next]_vars

(* The gateway's task is polled, and its connect timeout fires. *)
Fairness ==
    /\ WF_vars(ConnectBackend \/ ConnectFails) /\ WF_vars(End)
    /\ \A s \in Side : WF_vars(PumpRead(s)) /\ WF_vars(PumpSend(s)) /\ WF_vars(PumpClose(s))

FairSpec == Spec /\ Fairness

(* ... and the peers read what they are sent. *)
ReadingSpec == FairSpec /\ \A s \in Side : WF_vars(Receive(s))

-----------------------------------------------------------------------------
(* Properties *)

(* What the two peers are promised, over what is written to each. *)
Promise == INSTANCE Duplex WITH written <- [t \in Side |-> got[t] \o outbox[t]]

(* However the pumps wait for each other's peers and whichever ends first, *)
(* a peer that stays sees the other one's frames in order, without gaps or *)
(* repetition, a forwarded close frame only after all of them, and nothing *)
(* after a close.                                                          *)
ImplementsDuplex == Promise!Spec

(* docs/protocols.md: "When either direction closes (close frame or        *)
(* error), the other direction is also closed": the session ends.          *)
CloseEndsSession ==
    \A s \in Side : (s \in closing \/ s \in gone) ~> phase = "ended"

=============================================================================
