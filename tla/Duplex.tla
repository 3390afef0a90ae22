------------------------------- MODULE Duplex -------------------------------
(***************************************************************************)
(* What a WebSocket proxy promises its two peers: a channel in each        *)
(* direction that hands on data frames in order and one by one, a close    *)
(* frame only after all of them, and nothing after a close.  The proxy may *)
(* cut a channel short with a close of its own, but never leave a gap.  It *)
(* knows no pumps, no waiting and no session.                              *)
(***************************************************************************)
EXTENDS Naturals, Sequences

CONSTANT MaxFrames   \* bound: data frames each side sends

Side == {"client", "backend"}
Other(s) == IF s = "client" THEN "backend" ELSE "client"

Data(n) == [kind |-> "data", n |-> n]
Close == [kind |-> "close", n |-> 0]      \* with the peer's code and reason
BareClose == [kind |-> "bare", n |-> 0]   \* the proxy's own

VARIABLES
    sent,       \* data frames each side has sent
    closing,    \* sides that have sent their close frame
    gone,       \* sides whose connection is broken
    written     \* what has been written to each side, and not lost with it

vars == <<sent, closing, gone, written>>

Init ==
    /\ sent = [s \in Side |-> 0]
    /\ closing = {} /\ gone = {}
    /\ written = [s \in Side |-> <<>>]

PeerSends(s) ==
    /\ s \notin closing /\ sent[s] < MaxFrames
    /\ sent' = [sent EXCEPT ![s] = @ + 1]
    /\ UNCHANGED <<closing, gone, written>>

PeerCloses(s) ==
    /\ closing' = closing \cup {s}
    /\ UNCHANGED <<sent, gone, written>>

Open(t) == \A i \in DOMAIN written[t] : written[t][i].kind = "data"

Write(t, f) ==
    /\ t \notin gone /\ Open(t)
    /\ written' = [written EXCEPT ![t] = Append(@, f)]
    /\ UNCHANGED <<sent, closing, gone>>

(* The next data frame of the other side. *)
Forward(t) ==
    /\ Len(written[t]) < sent[Other(t)]
    /\ Write(t, Data(Len(written[t]) + 1))

(* Its close frame, when everything before it has been handed on. *)
ForwardClose(t) ==
    /\ Other(t) \in closing
    /\ Len(written[t]) = sent[Other(t)]
    /\ Write(t, Close)

CutShort(t) == Write(t, BareClose)

(* A connection breaks, and frames still in it are lost from the end. *)
Break(t) ==
    /\ gone' = gone \cup {t}
    /\ \E n \in 0..Len(written[t]) :
          written' = [written EXCEPT ![t] = SubSeq(@, 1, n)]
    /\ UNCHANGED <<sent, closing>>

Next == \E s \in Side :
    \/ PeerSends(s) \/ PeerCloses(s) \/ Break(s)
    \/ Forward(s) \/ ForwardClose(s) \/ CutShort(s)

Spec == Init /\ [][Next]_vars

=============================================================================
