--------------------------- MODULE WsProxyProofs ---------------------------
(***************************************************************************)
(* Proofs about WsProxy, for any capacity of the connections and any       *)
(* number of frames: the session implements Duplex.                        *)
(***************************************************************************)
EXTENDS WsProxy, SequenceTheorems, TLAPS

(***************************************************************************)
(* The inductive invariant follows one direction of the session.  What is  *)
(* written to the receiver, then what the pump holds, then what it has yet *)
(* to read is one stream: data frames numbered without a gap, at most then *)
(* the sender's close, and an error wherever the connection broke.  It is  *)
(* kept only while the pump can still write what it reads; after that the  *)
(* pump may add its own close, so all that is left to know is that no data *)
(* frame follows one.                                                      *)
(***************************************************************************)

Written(t) == got[t] \o outbox[t]
Pending(s) == held[s] \o inbox[s]

(* w has been written and q waits, of n data frames sent; the close is     *)
(* part of it only if the sender has closed, and nothing is missing while  *)
(* the sender is live.                                                     *)
Stream(w, q, n, closed, live) ==
    /\ \A i \in 1..Len(w) : w[i] = Data(i)
    /\ \A i \in 1..Len(q) :
          \/ Len(w) + i <= n /\ q[i] = Data(Len(w) + i)
          \/ Len(w) + i = n + 1 /\ q[i] = Close /\ closed
          \/ q[i] = Failure
    /\ live => Len(w) + Len(q) = n

(* Only the last frame may be a close. *)
ClosedAtMostOnce(w) == \A i \in 1..(Len(w) - 1) : w[i].kind = "data"

Direction(s) ==
    LET t == Other(s)
    IN t \notin gone =>
          /\ pump[s] \in {"read", "send"} =>
                Stream(Written(t), Pending(s), sent[s], s \in closing,
                       s \notin closing /\ s \notin gone)
          /\ pump[s] = "close" => ClosedAtMostOnce(Written(t))

(* An error is never held, and a close is in the inbox only of its sender. *)
Queued(s) ==
    /\ \A i \in 1..Len(held[s]) : held[s][i] # Failure
    /\ \A i \in 1..Len(inbox[s]) : inbox[s][i] = Close => s \in closing

Typed ==
    /\ TypeOK
    /\ inbox \in [Side -> Seq(Frame)] /\ outbox \in [Side -> Seq(Frame)]
    /\ got \in [Side -> Seq(Frame)] /\ held \in [Side -> Seq(Frame)]
    /\ pump \in [Side -> {"read", "send", "close", "done"}]

Inv ==
    /\ Typed
    /\ \A s \in Side : Queued(s)
    /\ \A s \in Side : Direction(s)

-----------------------------------------------------------------------------
(* Lemmas: sequences *)

LEMMA FrameKinds ==
    /\ Close \in Frame /\ BareClose \in Frame /\ Failure \in Frame
    /\ Close # Failure /\ BareClose # Failure
    /\ Close.kind # "data" /\ BareClose.kind # "data"
    /\ \A n \in Nat : Data(n).kind = "data" /\ Data(n) # Close /\ Data(n) # Failure
BY DEF Frame, Data, Close, BareClose, Failure

LEMMA Sides ==
    /\ \A s \in Side : Other(s) \in Side /\ Other(s) # s /\ Other(Other(s)) = s
    /\ \A s \in Side, t \in Side : s # t => t = Other(s)
BY DEF Side, Other

LEMMA AppendRight ==
    ASSUME NEW S, NEW a \in Seq(S), NEW b \in Seq(S), NEW x \in S
    PROVE  a \o Append(b, x) = Append(a \o b, x)
<1> DEFINE u == a \o Append(b, x)
           v == Append(a \o b, x)
<1>1. Append(b, x) \in Seq(S) /\ a \o b \in Seq(S)
  OBVIOUS
<1>2. u \in Seq(S) /\ v \in Seq(S) /\ Len(u) = Len(a) + Len(b) + 1 /\ Len(v) = Len(u)
  BY <1>1
<1>3. ASSUME NEW i \in 1..Len(u) PROVE u[i] = v[i]
  <2>1. CASE i <= Len(a)
    BY <1>1, <1>2, <2>1
  <2>2. CASE i > Len(a) /\ i <= Len(a) + Len(b)
    BY <1>1, <1>2, <2>2
  <2>3. CASE i = Len(a) + Len(b) + 1
    BY <1>1, <1>2, <2>3
  <2>4. QED
    BY <1>2, <2>1, <2>2, <2>3
<1>4. QED
  BY <1>2, <1>3, SeqEqual

LEMMA MoveHead ==
    ASSUME NEW S, NEW a \in Seq(S), NEW b \in Seq(S), b # <<>>
    PROVE  Append(a, Head(b)) \o Tail(b) = a \o b
<1> DEFINE u == Append(a, Head(b)) \o Tail(b)
           v == a \o b
<1>1. Head(b) \in S /\ Tail(b) \in Seq(S) /\ Len(Tail(b)) = Len(b) - 1 /\ Len(b) > 0
  BY EmptySeq, HeadTailProperties
<1>2. Append(a, Head(b)) \in Seq(S)
  BY <1>1
<1>3. u \in Seq(S) /\ v \in Seq(S) /\ Len(u) = Len(a) + Len(b) /\ Len(v) = Len(u)
  BY <1>1, <1>2
<1>4. ASSUME NEW i \in 1..Len(u) PROVE u[i] = v[i]
  <2>1. CASE i <= Len(a)
    BY <1>1, <1>2, <1>3, <2>1
  <2>2. CASE i = Len(a) + 1
    BY <1>1, <1>2, <1>3, <2>2
  <2>3. CASE i > Len(a) + 1
    BY <1>1, <1>2, <1>3, <2>3
  <2>4. QED
    BY <1>3, <2>1, <2>2, <2>3
<1>5. QED
  BY <1>3, <1>4, SeqEqual

LEMMA ConcatPrefix ==
    ASSUME NEW S, NEW a \in Seq(S), NEW b \in Seq(S)
    PROVE  SubSeq(a \o b, 1, Len(a)) = a
<1> DEFINE c == a \o b
           v == SubSeq(c, 1, Len(a))
<1>1. c \in Seq(S) /\ Len(c) = Len(a) + Len(b) /\ \A i \in 1..Len(a) : c[i] = a[i]
  OBVIOUS
<1>2. Len(a) \in Nat /\ Len(b) \in Nat
  OBVIOUS
<1> HIDE DEF c
<1>3. v \in Seq(S) /\ Len(v) = Len(a) /\ \A i \in 1..Len(a) : v[i] = c[i]
  <2>1. \A i \in 1..Len(a) : c[i] \in S
    BY <1>1, ElementOfSeq
  <2>2. QED
    BY <1>1, <1>2, <2>1
<1>4. v = a
  BY <1>1, <1>3, SeqEqual
<1>5. QED
  BY <1>4 DEF c

LEMMA EmptyConcat ==
    ASSUME NEW S, NEW a \in Seq(S)
    PROVE  <<>> \o a = a /\ a \o <<>> = a
BY ConcatEmptySeq

(* What a frame put back before the rest makes of a queue. *)
LEMMA HeadFirst ==
    ASSUME NEW S, NEW b \in Seq(S), b # <<>>
    PROVE  <<Head(b)>> \o Tail(b) = b
<1>1. Head(b) \in S /\ Tail(b) \in Seq(S)
  BY EmptySeq, HeadTailProperties
<1>2. Append(<<>>, Head(b)) \o Tail(b) = <<>> \o b
  BY MoveHead, EmptySeq
<1>3. Append(<<>>, Head(b)) = <<Head(b)>>
  OBVIOUS
<1>4. QED
  BY <1>2, <1>3, EmptyConcat

LEMMA SingletonFirst ==
    ASSUME NEW S, NEW h \in Seq(S), Len(h) = 1, NEW b \in Seq(S)
    PROVE  /\ h[1] \in S
           /\ h \o b # <<>>
           /\ Head(h \o b) = h[1]
           /\ Tail(h \o b) = b
<1>1. h[1] \in S
  BY ElementOfSeq
<1>2. h \o b \in Seq(S) /\ Len(h \o b) = 1 + Len(b) /\ (h \o b)[1] = h[1]
  BY ConcatProperties
<1>3. h \o b # <<>>
  BY <1>2, EmptySeq
<1>4. /\ Tail(h \o b) \in Seq(S) /\ Len(Tail(h \o b)) = Len(b)
      /\ \A i \in 1..Len(b) : Tail(h \o b)[i] = (h \o b)[i + 1]
      /\ Head(h \o b) = h[1]
  BY <1>2, <1>3, HeadTailProperties
<1>5. ASSUME NEW i \in 1..Len(b) PROVE (h \o b)[i + 1] = b[i]
  <2>1. PICK k \in Nat : k = i + 1
    OBVIOUS
  <2>2. k \in 1..(Len(h) + Len(b)) /\ ~(k <= Len(h)) /\ k - Len(h) = i
    BY <2>1
  <2>3. (h \o b)[k] = b[k - Len(h)]
    BY <2>2, ConcatProperties
  <2>4. QED
    BY <2>1, <2>2, <2>3
<1>6. Tail(h \o b) = b
  BY <1>4, <1>5, SeqEqual
<1>7. QED
  BY <1>1, <1>3, <1>4, <1>6

-----------------------------------------------------------------------------
(* Lemmas: the stream *)

LEMMA StreamSends ==
    ASSUME NEW w \in Seq(Frame), NEW q \in Seq(Frame), NEW n \in Nat,
           Data(n + 1) \in Frame,
           NEW c \in BOOLEAN, Stream(w, q, n, c, TRUE)
    PROVE  Stream(w, Append(q, Data(n + 1)), n + 1, c, TRUE)
<1> DEFINE r == Append(q, Data(n + 1))
<1>1. Len(r) = Len(q) + 1 /\ (\A i \in 1..Len(q) : r[i] = q[i]) /\ r[Len(q) + 1] = Data(n + 1)
  OBVIOUS
<1>2. Len(w) \in Nat /\ Len(q) \in Nat /\ Len(w) + Len(q) = n
  BY DEF Stream
<1> HIDE DEF r
<1>3. ASSUME NEW i \in 1..Len(r)
      PROVE  \/ Len(w) + i <= n + 1 /\ r[i] = Data(Len(w) + i)
             \/ r[i] = Failure
  <2>1. CASE i \in 1..Len(q)
    <3>1. Len(w) + i <= n
      BY <1>2, <2>1
    <3>2. QED
      BY <1>1, <1>2, <2>1, <3>1 DEF Stream
  <2>2. CASE i = Len(q) + 1
    BY <1>1, <1>2, <2>2
  <2>3. QED
    BY <1>1, <1>2, <2>1, <2>2
<1>4. QED
  <2>1. Stream(w, r, n + 1, c, TRUE)
    BY <1>1, <1>2, <1>3, SMTT(40) DEF Stream
  <2>2. QED
    BY <2>1 DEF r

LEMMA StreamCloses ==
    ASSUME NEW w \in Seq(Frame), NEW q \in Seq(Frame), NEW n \in Nat,
           NEW c \in BOOLEAN, Stream(w, q, n, c, TRUE)
    PROVE  Stream(w, Append(q, Close), n, TRUE, FALSE)
<1>1. Close \in Frame
  BY FrameKinds
<1> DEFINE r == Append(q, Close)
<1>2. Len(r) = Len(q) + 1 /\ (\A i \in 1..Len(q) : r[i] = q[i]) /\ r[Len(q) + 1] = Close
  BY <1>1
<1>3. Len(w) \in Nat /\ Len(q) \in Nat /\ Len(w) + Len(q) = n
  BY DEF Stream
<1> HIDE DEF r
<1>4. ASSUME NEW i \in 1..Len(r)
      PROVE  \/ Len(w) + i <= n /\ r[i] = Data(Len(w) + i)
             \/ Len(w) + i = n + 1 /\ r[i] = Close
             \/ r[i] = Failure
  <2>1. CASE i \in 1..Len(q)
    BY <1>2, <2>1 DEF Stream
  <2>2. CASE i = Len(q) + 1
    BY <1>2, <1>3, <2>2
  <2>3. QED
    BY <1>2, <1>3, <2>1, <2>2
<1>5. QED
  <2>1. Stream(w, r, n, TRUE, FALSE)
    BY <1>2, <1>3, <1>4 DEF Stream
  <2>2. QED
    BY <2>1 DEF r

LEMMA StreamBreaks ==
    ASSUME NEW w \in Seq(Frame), NEW q \in Seq(Frame), NEW n \in Nat,
           NEW c \in BOOLEAN, NEW l \in BOOLEAN, Stream(w, q, n, c, l)
    PROVE  Stream(w, Append(q, Failure), n, c, FALSE)
<1>1. Failure \in Frame
  BY FrameKinds
<1> DEFINE r == Append(q, Failure)
<1>2. Len(r) = Len(q) + 1 /\ (\A i \in 1..Len(q) : r[i] = q[i]) /\ r[Len(q) + 1] = Failure
  BY <1>1
<1>3. Len(q) \in Nat
  OBVIOUS
<1> HIDE DEF r
<1>4. ASSUME NEW i \in 1..Len(r)
      PROVE  \/ Len(w) + i <= n /\ r[i] = Data(Len(w) + i)
             \/ Len(w) + i = n + 1 /\ r[i] = Close /\ c
             \/ r[i] = Failure
  <2>1. CASE i \in 1..Len(q)
    BY <1>2, <2>1 DEF Stream
  <2>2. CASE i = Len(q) + 1
    BY <1>2, <2>2
  <2>3. QED
    BY <1>2, <1>3, <2>1, <2>2
<1>5. QED
  <2>1. Stream(w, r, n, c, FALSE)
    BY <1>4 DEF Stream
  <2>2. QED
    BY <2>1 DEF r

(* The frame at the head of the queue is the next data frame, the close    *)
(* after all of them, or an error.                                         *)
LEMMA StreamNext ==
    ASSUME NEW w \in Seq(Frame), NEW q \in Seq(Frame), NEW n \in Nat,
           NEW c \in BOOLEAN, NEW l \in BOOLEAN, Stream(w, q, n, c, l), q # <<>>
    PROVE  \/ Len(w) < n /\ Head(q) = Data(Len(w) + 1)
           \/ Len(w) = n /\ Head(q) = Close /\ c
           \/ Head(q) = Failure
<1>1. Len(q) \in Nat /\ Len(q) > 0 /\ Head(q) = q[1] /\ Len(w) \in Nat
  BY EmptySeq
<1>2. 1 \in 1..Len(q)
  BY <1>1
<1>3. \/ Len(w) + 1 <= n /\ q[1] = Data(Len(w) + 1)
      \/ Len(w) + 1 = n + 1 /\ q[1] = Close /\ c
      \/ q[1] = Failure
  BY <1>2 DEF Stream
<1>4. QED
  BY <1>1, <1>3

(* Writing that data frame leaves a stream. *)
LEMMA StreamForwards ==
    ASSUME NEW w \in Seq(Frame), NEW q \in Seq(Frame), NEW n \in Nat,
           NEW c \in BOOLEAN, NEW l \in BOOLEAN, Stream(w, q, n, c, l), q # <<>>,
           Head(q) # Close, Head(q) # Failure
    PROVE  Stream(Append(w, Head(q)), Tail(q), n, c, l)
<1>1. Len(w) < n /\ Head(q) = Data(Len(w) + 1) /\ Head(q) \in Frame
  BY StreamNext, EmptySeq, HeadTailProperties
<1> DEFINE v == Append(w, Head(q))
           r == Tail(q)
<1>2. v \in Seq(Frame) /\ Len(v) = Len(w) + 1 /\ (\A i \in 1..Len(w) : v[i] = w[i])
      /\ v[Len(w) + 1] = Data(Len(w) + 1)
  BY <1>1
<1>3. r \in Seq(Frame) /\ Len(r) = Len(q) - 1 /\ (\A i \in 1..Len(r) : r[i] = q[i + 1])
      /\ Len(q) > 0
  BY EmptySeq, HeadTailProperties
<1>4. Len(w) \in Nat /\ Len(q) \in Nat
  OBVIOUS
<1> HIDE DEF v, r
<1>5. \A i \in 1..Len(v) : v[i] = Data(i)
  <2> TAKE i \in 1..Len(v)
  <2>1. CASE i \in 1..Len(w)
    BY <1>2, <2>1 DEF Stream
  <2>2. CASE i = Len(w) + 1
    BY <1>2, <2>2
  <2>3. QED
    BY <1>2, <1>4, <2>1, <2>2
<1>6. ASSUME NEW i \in 1..Len(r)
      PROVE  \/ Len(v) + i <= n /\ r[i] = Data(Len(v) + i)
             \/ Len(v) + i = n + 1 /\ r[i] = Close /\ c
             \/ r[i] = Failure
  <2>1. i + 1 \in 1..Len(q) /\ Len(v) + i = Len(w) + (i + 1)
    BY <1>2, <1>3, <1>4
  <2>2. \/ Len(w) + (i + 1) <= n /\ q[i + 1] = Data(Len(w) + (i + 1))
        \/ Len(w) + (i + 1) = n + 1 /\ q[i + 1] = Close /\ c
        \/ q[i + 1] = Failure
    BY <2>1 DEF Stream
  <2>3. r[i] = q[i + 1]
    BY <1>3
  <2>4. QED
    BY <2>1, <2>2, <2>3
<1>7. l => Len(v) + Len(r) = n
  BY <1>2, <1>3, <1>4 DEF Stream
<1>8. QED
  <2>1. Stream(v, r, n, c, l)
    BY <1>5, <1>6, <1>7 DEF Stream
  <2>2. QED
    BY <2>1 DEF v, r

(* What has been written of a stream is data, and stays closed at most     *)
(* once whatever is written next.                                          *)
LEMMA StreamOpen ==
    ASSUME NEW w \in Seq(Frame), NEW q, NEW n, NEW c, NEW l, Stream(w, q, n, c, l),
           NEW f \in Frame
    PROVE  /\ \A i \in 1..Len(w) : w[i].kind = "data"
           /\ ClosedAtMostOnce(w)
           /\ ClosedAtMostOnce(Append(w, f))
<1>1. Len(w) \in Nat /\ Len(Append(w, f)) = Len(w) + 1
      /\ \A i \in 1..Len(w) : Append(w, f)[i] = w[i]
  OBVIOUS
<1>2. \A i \in 1..Len(w) : w[i].kind = "data"
  BY FrameKinds, <1>1 DEF Stream
<1>3. QED
  BY <1>1, <1>2 DEF ClosedAtMostOnce

-----------------------------------------------------------------------------
(* Types *)

LEMMA TypedStep ==
    ASSUME ProxyAssumption, Typed, \A s \in Side : Queued(s), Next
    PROVE  Typed'
<1> USE DEF Typed, TypeOK
<1>1. CASE ConnectBackend
  BY <1>1 DEF ConnectBackend, peers
<1>2. CASE ConnectFails
  BY <1>2 DEF ConnectFails, peers
<1>3. CASE End
  BY <1>3 DEF End, peers
<1>4. ASSUME NEW s \in Side, Send(s) PROVE Typed'
  <2> DEFINE f == Data(sent[s] + 1)
  <2>1. sent[s] + 1 \in 1..MaxFrames
    BY <1>4, ProxyAssumption DEF Send
  <2>2. f \in Frame
    BY <2>1 DEF Frame
  <2> HIDE DEF f
  <2>3. inbox' = [inbox EXCEPT ![s] = Append(inbox[s], f)]
    BY <1>4 DEF Send, f
  <2>4. Append(inbox[s], f) \in Seq(Frame)
    BY <2>2
  <2>5. inbox' \in [Side -> Seq(Frame)]
    BY <2>3, <2>4
  <2>6. sent' \in [Side -> 0..MaxFrames]
    BY <1>4, <2>1 DEF Send
  <2>7. QED
    BY <1>4, <2>5, <2>6 DEF Send
<1>5. ASSUME NEW s \in Side, SendClose(s) PROVE Typed'
  <2>1. Append(inbox[s], Close) \in Seq(Frame)
    BY FrameKinds
  <2>2. inbox' \in [Side -> Seq(Frame)]
    BY <1>5, <2>1 DEF SendClose
  <2>3. QED
    BY <1>5, <2>2 DEF SendClose
<1>6. ASSUME NEW s \in Side, Vanish(s) PROVE Typed'
  <2>1. Append(inbox[s], Failure) \in Seq(Frame)
    BY FrameKinds
  <2>2. inbox' \in [Side -> Seq(Frame)]
    BY <1>6, <2>1 DEF Vanish
  <2>3. outbox' \in [Side -> Seq(Frame)] /\ \A t \in Side : Len(outbox'[t]) <= Cap
    BY <1>6, ProxyAssumption DEF Vanish
  <2>4. QED
    BY <1>6, <2>2, <2>3 DEF Vanish
<1>7. ASSUME NEW s \in Side, Receive(s) PROVE Typed'
  <2>1. Head(outbox[s]) \in Frame /\ Tail(outbox[s]) \in Seq(Frame)
        /\ Len(Tail(outbox[s])) = Len(outbox[s]) - 1
    BY <1>7, EmptySeq, HeadTailProperties DEF Receive
  <2>2. Append(got[s], Head(outbox[s])) \in Seq(Frame)
    BY <2>1
  <2>3. got' \in [Side -> Seq(Frame)]
    BY <1>7, <2>2 DEF Receive
  <2>4. outbox' \in [Side -> Seq(Frame)]
    BY <1>7, <2>1 DEF Receive
  <2>5. \A t \in Side : Len(outbox'[t]) <= Cap
    <3> TAKE t \in Side
    <3>1. CASE t = s
      <4>1. Len(outbox[s]) <= Cap /\ Len(outbox[s]) \in Nat /\ outbox'[t] = Tail(outbox[s])
        BY <1>7, <3>1 DEF Receive
      <4>2. QED
        BY <2>1, <4>1, ProxyAssumption
    <3>2. CASE t # s
      BY <1>7, <3>2 DEF Receive
    <3>3. QED
      BY <3>1, <3>2
  <2>6. QED
    BY <1>7, <2>3, <2>4, <2>5 DEF Receive
<1>8. ASSUME NEW s \in Side, NEW f \in Frame, NEW read, Hand(s, f, read)
      PROVE  /\ outbox' \in [Side -> Seq(Frame)] /\ held' \in [Side -> Seq(Frame)]
             /\ pump' \in [Side -> {"read", "send", "close", "done"}]
             /\ \A t \in Side : Len(outbox'[t]) <= Cap
             /\ \A t \in Side : Len(held'[t]) = IF pump'[t] = "send" THEN 1 ELSE 0
  <2> DEFINE t == Other(s)
  <2>1. t \in Side
    BY Sides
  <2> HIDE DEF t
  <2>2. /\ pump' \in [Side -> {"read", "send", "close", "done"}]
        /\ held' \in [Side -> Seq(Frame)]
        /\ \A u \in Side : Len(held'[u]) = IF pump'[u] = "send" THEN 1 ELSE 0
    <3>1. <<f>> \in Seq(Frame) /\ Len(<<f>>) = 1 /\ <<>> \in Seq(Frame) /\ Len(<<>>) = 0
      OBVIOUS
    <3>2. \/ /\ pump'[s] # "send" /\ held'[s] = <<>>
          \/ /\ pump'[s] = "send" /\ held'[s] = <<f>>
      BY <1>8 DEF Hand
    <3>3. pump' \in [Side -> {"read", "send", "close", "done"}]
      BY <1>8 DEF Hand
    <3>4. held' \in [Side -> Seq(Frame)]
      <4>1. held' = [held EXCEPT ![s] = <<>>] \/ held' = [held EXCEPT ![s] = <<f>>]
        BY <1>8, Zenon DEF Hand
      <4>2. held \in [Side -> Seq(Frame)]
        BY DEF Typed
      <4>3. QED
        BY <3>1, <4>1, <4>2
    <3>5. \A u \in Side \ {s} : pump'[u] = pump[u] /\ held'[u] = held[u]
      BY <1>8 DEF Hand
    <3>6. QED
      BY <3>1, <3>2, <3>3, <3>4, <3>5
  <2>3. outbox' = outbox \/ (Room(t) /\ outbox' = [outbox EXCEPT ![t] = Append(outbox[t], f)])
    BY <1>8 DEF Hand, t
  <2>4. Append(outbox[t], f) \in Seq(Frame) /\ Len(Append(outbox[t], f)) = Len(outbox[t]) + 1
    BY <2>1
  <2>5. outbox' \in [Side -> Seq(Frame)]
    BY <2>3, <2>4
  <2>6. \A u \in Side : Len(outbox'[u]) <= Cap
    <3>1. Room(t) => Len(outbox[t]) + 1 <= Cap
      BY <2>1, ProxyAssumption DEF Room
    <3>2. QED
      BY <2>1, <2>3, <2>4, <3>1
  <2>7. QED
    BY <2>2, <2>5, <2>6
<1>9. ASSUME NEW s \in Side, PumpRead(s) PROVE Typed'
  <2> DEFINE f == Head(inbox[s])
  <2>1. f \in Frame /\ Tail(inbox[s]) \in Seq(Frame) /\ f = inbox[s][1] /\ 1 \in 1..Len(inbox[s])
    BY <1>9, EmptySeq, HeadTailProperties DEF PumpRead
  <2>2. inbox' \in [Side -> Seq(Frame)]
    BY <1>9, <2>1 DEF PumpRead
  <2>3. byeRead' \subseteq closing
    <3>1. f = Close => s \in closing
      BY <2>1 DEF Queued
    <3>2. QED
      BY <1>9, <3>1 DEF PumpRead
  <2>4. CASE f = Failure
    <3>1. pump' = [pump EXCEPT ![s] = "close"] /\ held' = held /\ outbox' = outbox /\ pump[s] = "read"
      BY <1>9, <2>4 DEF PumpRead
    <3>2. \A t \in Side : Len(held'[t]) = IF pump'[t] = "send" THEN 1 ELSE 0
      BY <3>1
    <3>3. QED
      BY <1>9, <2>2, <2>3, <3>1, <3>2 DEF PumpRead, peers
  <2>5. CASE f # Failure
    <3>1. Hand(s, f, byeRead')
      BY <1>9, <2>5 DEF PumpRead
    <3>2. /\ outbox' \in [Side -> Seq(Frame)] /\ held' \in [Side -> Seq(Frame)]
          /\ pump' \in [Side -> {"read", "send", "close", "done"}]
          /\ \A t \in Side : Len(outbox'[t]) <= Cap
          /\ \A t \in Side : Len(held'[t]) = IF pump'[t] = "send" THEN 1 ELSE 0
      BY <1>8, <2>1, <3>1
    <3>3. QED
      BY <1>9, <2>2, <2>3, <3>2 DEF PumpRead, peers
  <2>6. QED
    BY <2>4, <2>5
<1>10. ASSUME NEW s \in Side, PumpSend(s) PROVE Typed'
  <2> DEFINE f == held[s][1]
  <2>1. f \in Frame
    BY <1>10, ElementOfSeq DEF PumpSend
  <2>2. Hand(s, f, byeRead)
    BY <1>10 DEF PumpSend
  <2>3. /\ outbox' \in [Side -> Seq(Frame)] /\ held' \in [Side -> Seq(Frame)]
        /\ pump' \in [Side -> {"read", "send", "close", "done"}]
        /\ \A t \in Side : Len(outbox'[t]) <= Cap
        /\ \A t \in Side : Len(held'[t]) = IF pump'[t] = "send" THEN 1 ELSE 0
    BY <1>8, <2>1, <2>2
  <2>4. QED
    BY <1>10, <2>3 DEF PumpSend, peers
<1>11. ASSUME NEW s \in Side, PumpClose(s) PROVE Typed'
  <2> DEFINE t == Other(s)
  <2>1. t \in Side
    BY Sides
  <2> HIDE DEF t
  <2>2. outbox' = outbox \/ (Room(t) /\ outbox' = [outbox EXCEPT ![t] = Append(outbox[t], BareClose)])
    BY <1>11 DEF PumpClose, t
  <2>3. /\ Append(outbox[t], BareClose) \in Seq(Frame)
        /\ Len(Append(outbox[t], BareClose)) = Len(outbox[t]) + 1
    BY <2>1, FrameKinds
  <2>4. outbox' \in [Side -> Seq(Frame)]
    BY <2>2, <2>3
  <2>5. \A u \in Side : Len(outbox'[u]) <= Cap
    <3>1. Room(t) => Len(outbox[t]) + 1 <= Cap
      BY <2>1, ProxyAssumption DEF Room
    <3>2. QED
      BY <2>1, <2>2, <2>3, <3>1
  <2>6. pump' = [pump EXCEPT ![s] = "done"] /\ pump[s] = "close" /\ held' = held
    BY <1>11 DEF PumpClose
  <2>7. \A u \in Side : Len(held'[u]) = IF pump'[u] = "send" THEN 1 ELSE 0
    BY <2>6
  <2>8. QED
    BY <1>11, <2>4, <2>5, <2>6, <2>7 DEF PumpClose, peers
<1>12. QED
  BY <1>1, <1>2, <1>3, <1>4, <1>5, <1>6, <1>7, <1>9, <1>10, <1>11 DEF Next

-----------------------------------------------------------------------------
(* What the pumps hold and have yet to read *)

LEMMA QueuedStep ==
    ASSUME ProxyAssumption, Typed, \A s \in Side : Queued(s), Next
    PROVE  \A s \in Side : Queued(s)'
<1> USE DEF Typed, Queued
<1>1. CASE ConnectBackend \/ ConnectFails \/ End
  BY <1>1 DEF ConnectBackend, ConnectFails, End, peers
<1>2. ASSUME NEW s \in Side, NEW f \in Frame, f = Close => s \in closing',
             inbox' = [inbox EXCEPT ![s] = Append(inbox[s], f)],
             held' = held, closing \subseteq closing'
      PROVE  \A u \in Side : Queued(u)'
  <2>1. /\ Len(Append(inbox[s], f)) = Len(inbox[s]) + 1 /\ Len(inbox[s]) \in Nat
        /\ Append(inbox[s], f)[Len(inbox[s]) + 1] = f
        /\ \A i \in 1..Len(inbox[s]) : Append(inbox[s], f)[i] = inbox[s][i]
    OBVIOUS
  <2>2. \A i \in 1..(Len(inbox[s]) + 1) : i \in 1..Len(inbox[s]) \/ i = Len(inbox[s]) + 1
    BY <2>1
  <2>3. inbox'[s] = Append(inbox[s], f) /\ \A u \in Side \ {s} : inbox'[u] = inbox[u]
    BY <1>2
  <2>4. QED
    BY <1>2, <2>1, <2>2, <2>3
<1>3. ASSUME NEW s \in Side, Send(s) PROVE \A u \in Side : Queued(u)'
  <2> DEFINE f == Data(sent[s] + 1)
  <2>1. sent[s] + 1 \in 1..MaxFrames /\ sent[s] + 1 \in Nat
    BY <1>3, ProxyAssumption DEF Send, TypeOK
  <2>2. f \in Frame /\ f # Close
    BY <2>1, FrameKinds DEF Frame
  <2>3. inbox' = [inbox EXCEPT ![s] = Append(inbox[s], f)] /\ held' = held /\ closing' = closing
    BY <1>3 DEF Send
  <2> HIDE DEF f
  <2>4. QED
    BY <1>2, <2>2, <2>3
<1>4. ASSUME NEW s \in Side, SendClose(s) PROVE \A u \in Side : Queued(u)'
  BY <1>2, <1>4, FrameKinds DEF SendClose
<1>5. ASSUME NEW s \in Side, Vanish(s) PROVE \A u \in Side : Queued(u)'
  BY <1>2, <1>5, FrameKinds DEF Vanish
<1>6. ASSUME NEW s \in Side, Receive(s) \/ PumpClose(s) PROVE \A u \in Side : Queued(u)'
  BY <1>6 DEF Receive, PumpClose, peers
<1>7. ASSUME NEW s \in Side, NEW f \in Frame, f # Failure, NEW read, Hand(s, f, read)
      PROVE  \A u \in Side : \A i \in 1..Len(held'[u]) : held'[u][i] # Failure
  <2>1. held' = [held EXCEPT ![s] = <<>>] \/ held' = [held EXCEPT ![s] = <<f>>]
    BY <1>7 DEF Hand
  <2>2. \A i \in 1..Len(<<f>>) : <<f>>[i] # Failure
    BY <1>7
  <2>3. \A i \in 1..Len(<<>>) : <<>>[i] # Failure
    OBVIOUS
  <2>4. QED
    BY <2>1, <2>2, <2>3
<1>8. ASSUME NEW s \in Side, PumpRead(s) PROVE \A u \in Side : Queued(u)'
  <2> DEFINE f == Head(inbox[s])
             r == Tail(inbox[s])
  <2>1. f \in Frame /\ Len(r) = Len(inbox[s]) - 1 /\ Len(inbox[s]) > 0 /\ Len(inbox[s]) \in Nat
        /\ \A i \in 1..Len(r) : r[i] = inbox[s][i + 1]
    BY <1>8, EmptySeq, HeadTailProperties DEF PumpRead
  <2>2. inbox' = [inbox EXCEPT ![s] = r] /\ closing' = closing
    BY <1>8 DEF PumpRead, peers
  <2>3. \A u \in Side : \A i \in 1..Len(held'[u]) : held'[u][i] # Failure
    <3>1. CASE f = Failure
      BY <1>8, <3>1 DEF PumpRead
    <3>2. CASE f # Failure
      BY <1>7, <1>8, <2>1, <3>2 DEF PumpRead
    <3>3. QED
      BY <3>1, <3>2
  <2> HIDE DEF f, r
  <2>4. \A i \in 1..Len(r) : r[i] = Close => s \in closing
    <3> TAKE i \in 1..Len(r)
    <3>1. i + 1 \in 1..Len(inbox[s]) /\ r[i] = inbox[s][i + 1]
      BY <2>1
    <3>2. QED
      BY <3>1
  <2>5. inbox'[s] = r /\ \A u \in Side \ {s} : inbox'[u] = inbox[u]
    BY <2>2
  <2>6. QED
    BY <2>2, <2>3, <2>4, <2>5
<1>9. ASSUME NEW s \in Side, PumpSend(s) PROVE \A u \in Side : Queued(u)'
  <2> DEFINE f == held[s][1]
  <2>1. Len(held[s]) = 1 /\ held[s] \in Seq(Frame) /\ 1 \in 1..1
    BY <1>9 DEF PumpSend, TypeOK
  <2>2. f \in Frame
    BY <2>1, ElementOfSeq
  <2>2a. f # Failure
    BY <2>1
  <2>3. Hand(s, f, byeRead) /\ inbox' = inbox /\ closing' = closing
    BY <1>9 DEF PumpSend, peers
  <2> HIDE DEF f
  <2>4. \A u \in Side : \A i \in 1..Len(held'[u]) : held'[u][i] # Failure
    BY <1>7, <2>2, <2>2a, <2>3
  <2>5. QED
    BY <2>3, <2>4
<1>10. QED
  BY <1>1, <1>3, <1>4, <1>5, <1>6, <1>8, <1>9 DEF Next

-----------------------------------------------------------------------------
(* The two directions *)

(* A direction is not disturbed by a step that leaves its parts alone. *)
LEMMA SameDirection ==
    ASSUME NEW u \in Side, Direction(u), Written(Other(u))' = Written(Other(u)),
           pump'[u] = pump[u], held'[u] = held[u], inbox'[u] = inbox[u],
           sent'[u] = sent[u], gone' = gone, u \in closing' <=> u \in closing
    PROVE  Direction(u)'
<1>1. Pending(u)' = Pending(u)
  BY DEF Pending
<1>2. CASE u \in closing
  <2>1. u \in closing'
    BY <1>2
  <2>2. QED
    BY <1>1, <1>2, <2>1 DEF Direction, Stream
<1>3. CASE u \notin closing
  <2>1. u \notin closing'
    BY <1>3
  <2>2. QED
    BY <1>1, <1>3, <2>1 DEF Direction, Stream
<1>4. QED
  BY <1>2, <1>3

LEMMA WrittenSeq ==
    ASSUME Typed, NEW u \in Side
    PROVE  /\ Written(u) \in Seq(Frame) /\ Pending(u) \in Seq(Frame)
           /\ got[u] \in Seq(Frame) /\ outbox[u] \in Seq(Frame)
           /\ held[u] \in Seq(Frame) /\ inbox[u] \in Seq(Frame) /\ sent[u] \in Nat
<1>1. got[u] \in Seq(Frame) /\ outbox[u] \in Seq(Frame) /\ held[u] \in Seq(Frame) /\ inbox[u] \in Seq(Frame)
  BY DEF Typed
<1>2. sent[u] \in Nat
  BY DEF Typed, TypeOK
<1>3. QED
  BY <1>1, <1>2, ConcatProperties DEF Written, Pending

(* A step of the pump of s that writes nothing, or f, in its place in the  *)
(* stream.                                                                 *)
Passes(s, f) ==
    LET t == Other(s)
        w == Written(t)
    IN /\ \/ outbox' = outbox
          \/ /\ t \notin gone
             /\ outbox' = [outbox EXCEPT ![t] = Append(outbox[t], f)]
             /\ \A i \in 1..Len(w) : w[i].kind = "data"
             /\ \/ Len(w) < sent[s] /\ f = Data(Len(w) + 1)
                \/ Len(w) = sent[s] /\ f = Close /\ s \in closing
       /\ \A u \in Side : u # t => outbox'[u] = outbox[u]
       /\ \A u \in Side : u # s => pump'[u] = pump[u] /\ held'[u] = held[u]

(* sink.send: whatever becomes of the frame, the direction it belongs to   *)
(* goes on, and what it writes is the next frame of the stream.            *)
LEMMA HandKeeps ==
    ASSUME Typed, NEW s \in Side, NEW f \in Frame, f # Failure, NEW read,
           Hand(s, f, read), got' = got, gone' = gone, sent' = sent, closing' = closing,
           NEW rest \in Seq(Frame), inbox'[s] = rest, NEW q \in Seq(Frame),
           q # <<>>, Head(q) = f, Tail(q) = rest,
           Other(s) \notin gone =>
               Stream(Written(Other(s)), q, sent[s], s \in closing,
                      s \notin closing /\ s \notin gone)
    PROVE  Direction(s)' /\ Passes(s, f)
<1> DEFINE t == Other(s)
           w == Written(t)
           c == s \in closing
           l == s \notin closing /\ s \notin gone
<1>1. t \in Side /\ t # s /\ c \in BOOLEAN /\ l \in BOOLEAN
  BY Sides
<1>2. w \in Seq(Frame) /\ outbox[t] \in Seq(Frame) /\ got[t] \in Seq(Frame) /\ sent[s] \in Nat
  BY <1>1, WrittenSeq
<1>3. \A u \in Side : u # s => pump'[u] = pump[u] /\ held'[u] = held[u]
  BY DEF Hand, Typed
<1>4. \A u \in Side : u # Other(s) => outbox'[u] = outbox[u]
  BY DEF Hand, Typed
<1>5. CASE outbox' = outbox /\ pump'[s] = "close"
  <2>1. Written(t)' = w
    BY <1>5 DEF Written
  <2>2. t \notin gone => ClosedAtMostOnce(w)
    BY <1>2, StreamOpen
  <2>3. Direction(s)'
    BY <1>5, <2>1, <2>2 DEF Direction
  <2>4. QED
    BY <1>3, <1>4, <1>5, <2>3 DEF Passes
<1>6. CASE outbox' = outbox /\ pump'[s] = "send" /\ held'[s] = <<f>>
  <2>1. Written(t)' = w
    BY <1>6 DEF Written
  <2>2. Pending(s)' = q
    BY <1>6, HeadFirst DEF Pending
  <2>3. Direction(s)'
    BY <1>6, <2>1, <2>2 DEF Direction
  <2>4. QED
    BY <1>3, <1>4, <1>6, <2>3 DEF Passes
<1>7. CASE /\ t \notin gone /\ outbox' = [outbox EXCEPT ![t] = Append(outbox[t], f)]
           /\ held'[s] = <<>> /\ pump'[s] = IF f = Close THEN "close" ELSE "read"
  <2>1. Stream(w, q, sent[s], c, l)
    BY <1>7
  <2>2. \/ Len(w) < sent[s] /\ f = Data(Len(w) + 1)
        \/ Len(w) = sent[s] /\ f = Close /\ c
    <3> HIDE DEF w, c, l
    <3>1. QED
      BY <1>1, <1>2, <2>1, StreamNext
  <2>3. /\ \A i \in 1..Len(w) : w[i].kind = "data"
        /\ ClosedAtMostOnce(Append(w, f))
    <3> HIDE DEF w, c, l
    <3>1. QED
      BY <1>1, <1>2, <2>1, StreamOpen
  <2>4. Written(t)' = Append(w, f)
    <3>1. outbox'[t] = Append(outbox[t], f)
      BY <1>1, <1>7 DEF Typed
    <3>2. got[t] \o Append(outbox[t], f) = Append(got[t] \o outbox[t], f)
      <4>1. \A a \in Seq(Frame), b \in Seq(Frame) : a \o Append(b, f) = Append(a \o b, f)
        BY AppendRight
      <4>2. QED
        BY <1>2, <4>1
    <3>3. QED
      BY <3>1, <3>2 DEF Written
  <2>5. Pending(s)' = rest
    BY <1>7, EmptyConcat DEF Pending
  <2>6. f # Close => Stream(Append(w, f), rest, sent[s], c, l)
    <3> HIDE DEF w, c, l
    <3>1. QED
      BY <1>1, <1>2, <2>1, StreamForwards
  <2>7. Direction(s)'
    <3>1. CASE f = Close
      BY <1>7, <2>3, <2>4, <3>1 DEF Direction
    <3>2. CASE f # Close
      BY <1>7, <2>4, <2>5, <2>6, <3>2 DEF Direction
    <3>3. QED
      BY <3>1, <3>2
  <2>8. QED
    BY <1>3, <1>4, <1>7, <2>2, <2>3, <2>7 DEF Passes
<1>8. QED
  <2>1. /\ pump' = [pump EXCEPT ![s] = pump'[s]] /\ held' = [held EXCEPT ![s] = held'[s]]
        /\ pump \in [Side -> {"read", "send", "close", "done"}] /\ held \in [Side -> Seq(Frame)]
    BY DEF Hand, Typed
  <2>2. \/ outbox' = outbox /\ pump'[s] = "close"
        \/ outbox' = outbox /\ pump'[s] = "send" /\ held'[s] = <<f>>
        \/ /\ t \notin gone /\ outbox' = [outbox EXCEPT ![t] = Append(outbox[t], f)]
           /\ held'[s] = <<>> /\ pump'[s] = IF f = Close THEN "close" ELSE "read"
    BY <2>1 DEF Hand, Writable
  <2>3. QED
    BY <1>5, <1>6, <1>7, <2>2

(* Either way of passing a frame on; f is what is written, if anything is. *)
LEMMA PumpKeeps ==
    ASSUME Inv, NEW s \in Side, PumpRead(s) \/ PumpSend(s)
    PROVE  /\ Direction(s)'
           /\ \E f \in Frame : Passes(s, f)
           /\ \A u \in Side : u # s => inbox'[u] = inbox[u]
           /\ got' = got /\ gone' = gone /\ sent' = sent /\ closing' = closing
<1>1. Typed /\ Direction(s) /\ Queued(s)
  BY DEF Inv
<1>2. got' = got /\ gone' = gone /\ sent' = sent /\ closing' = closing
  BY DEF PumpRead, PumpSend, peers
<1>3. \A u \in Side : u # s => inbox'[u] = inbox[u]
  BY <1>1 DEF PumpRead, PumpSend, Typed
<1>4. held[s] \in Seq(Frame) /\ inbox[s] \in Seq(Frame)
  BY <1>1, WrittenSeq
<1>5. CASE PumpRead(s)
  <2>1. held[s] = <<>>
    <3>1. Len(held[s]) = 0
      BY <1>1, <1>5 DEF PumpRead, Typed, TypeOK
    <3>2. QED
      BY <1>4, <3>1, EmptySeq
  <2>2. Pending(s) = inbox[s]
    BY <1>4, <2>1, EmptyConcat DEF Pending
  <2>3. Other(s) \notin gone =>
           Stream(Written(Other(s)), inbox[s], sent[s], s \in closing,
                  s \notin closing /\ s \notin gone)
    BY <1>1, <1>5, <2>2 DEF Direction, PumpRead
  <2>4. inbox[s] # <<>> /\ inbox'[s] = Tail(inbox[s])
    BY <1>1, <1>5 DEF PumpRead, Typed
  <2>5. Head(inbox[s]) \in Frame /\ Tail(inbox[s]) \in Seq(Frame)
    BY <1>4, <2>4, EmptySeq, HeadTailProperties
  <2>6. CASE Head(inbox[s]) = Failure
    <3>1. pump' = [pump EXCEPT ![s] = "close"] /\ held' = held /\ outbox' = outbox
      BY <1>5, <2>6 DEF PumpRead
    <3>2. Written(Other(s))' = Written(Other(s)) /\ pump'[s] = "close"
      BY <1>1, <1>2, <3>1 DEF Written, Typed
    <3>3. Other(s) \notin gone => ClosedAtMostOnce(Written(Other(s)))
      <4>1. Written(Other(s)) \in Seq(Frame)
        BY <1>1, Sides, WrittenSeq
      <4>2. QED
        BY <2>3, <2>5, <4>1, StreamOpen
    <3>4. Direction(s)'
      BY <1>2, <3>2, <3>3 DEF Direction
    <3>5. \A u \in Side : u # s => pump'[u] = pump[u]
      BY <1>1, <3>1 DEF Typed
    <3>6. Passes(s, Close)
      BY <3>1, <3>5 DEF Passes
    <3>7. QED
      BY <1>2, <1>3, <3>4, <3>6, FrameKinds
  <2>7. CASE Head(inbox[s]) # Failure
    <3>1. Hand(s, Head(inbox[s]), byeRead')
      BY <1>5, <2>7 DEF PumpRead
    <3>2. PICK f \in Frame, r \in Seq(Frame), q \in Seq(Frame), b \in {byeRead'} :
             /\ f = Head(inbox[s]) /\ r = Tail(inbox[s]) /\ q = inbox[s] /\ b = byeRead'
      BY <1>4, <2>5
    <3>3. /\ Hand(s, f, b) /\ f # Failure /\ inbox'[s] = r /\ q # <<>>
          /\ Head(q) = f /\ Tail(q) = r
      BY <2>4, <2>7, <3>1, <3>2
    <3>4. Other(s) \notin gone =>
             Stream(Written(Other(s)), q, sent[s], s \in closing,
                    s \notin closing /\ s \notin gone)
      BY <2>3, <3>2
    <3>5. Direction(s)' /\ Passes(s, f)
      BY <1>1, <1>2, <3>3, <3>4, HandKeeps, Zenon
    <3>6. QED
      BY <1>2, <1>3, <3>5, Zenon
  <2>8. QED
    BY <2>6, <2>7
<1>6. CASE PumpSend(s)
  <2>1. Len(held[s]) = 1 /\ inbox'[s] = inbox[s]
    BY <1>1, <1>6 DEF PumpSend, Typed, TypeOK
  <2>2. /\ held[s][1] \in Frame /\ Pending(s) \in Seq(Frame) /\ Pending(s) # <<>>
        /\ Head(Pending(s)) = held[s][1] /\ Tail(Pending(s)) = inbox[s]
    BY <1>1, <1>4, <2>1, SingletonFirst, WrittenSeq DEF Pending
  <2>3. held[s][1] # Failure
    <3>1. 1 \in 1..Len(held[s])
      BY <2>1
    <3>2. QED
      BY <1>1, <3>1 DEF Queued
  <2>4. PICK f \in Frame, r \in Seq(Frame), q \in Seq(Frame), b \in {byeRead} :
           /\ f = held[s][1] /\ r = inbox[s] /\ q = Pending(s) /\ b = byeRead
    BY <1>4, <2>2
  <2>5. /\ Hand(s, f, b) /\ f # Failure /\ inbox'[s] = r /\ q # <<>>
        /\ Head(q) = f /\ Tail(q) = r
    BY <1>6, <2>1, <2>2, <2>3, <2>4 DEF PumpSend
  <2>6. Other(s) \notin gone =>
           Stream(Written(Other(s)), q, sent[s], s \in closing,
                  s \notin closing /\ s \notin gone)
    BY <1>1, <1>6, <2>4 DEF Direction, PumpSend
  <2>7. Direction(s)' /\ Passes(s, f)
    BY <1>1, <1>2, <2>5, <2>6, HandKeeps, Zenon
  <2>8. QED
    BY <1>2, <1>3, <2>7, Zenon
<1>7. QED
  BY <1>5, <1>6

LEMMA DirectionStep ==
    ASSUME ProxyAssumption, Inv, Next
    PROVE  \A u \in Side : Direction(u)'
<1> USE DEF Inv
<1>1. ASSUME NEW s \in Side
      PROVE  /\ Other(s) \in Side /\ Other(s) # s /\ Other(Other(s)) = s
             /\ \A u \in Side : u # s => u = Other(s)
  BY Sides
<1>2. CASE ConnectBackend \/ ConnectFails \/ End
  <2> TAKE u \in Side
  <2>1. Written(Other(u))' = Written(Other(u))
    BY <1>2 DEF ConnectBackend, ConnectFails, End, peers, Written
  <2>2. QED
    BY <1>2, <2>1, SameDirection DEF ConnectBackend, ConnectFails, End, peers
<1>3. ASSUME NEW s \in Side, NEW f \in Frame,
             inbox' = [inbox EXCEPT ![s] = Append(inbox[s], f)], held' = held,
             got' = got, pump' = pump
      PROVE  /\ Pending(s)' = Append(Pending(s), f)
             /\ Pending(s) \in Seq(Frame) /\ sent[s] \in Nat
             /\ \A u \in Side : u # s => inbox'[u] = inbox[u]
  <2>1. held[s] \in Seq(Frame) /\ inbox[s] \in Seq(Frame) /\ Pending(s) \in Seq(Frame) /\ sent[s] \in Nat
    BY WrittenSeq
  <2>2. inbox'[s] = Append(inbox[s], f) /\ \A u \in Side : u # s => inbox'[u] = inbox[u]
    BY <1>3 DEF Typed
  <2>3. \A a \in Seq(Frame), b \in Seq(Frame) : a \o Append(b, f) = Append(a \o b, f)
    BY AppendRight
  <2>4. QED
    BY <1>3, <2>1, <2>2, <2>3 DEF Pending
<1>4. ASSUME NEW s \in Side, Send(s) PROVE \A u \in Side : Direction(u)'
  <2> DEFINE f == Data(sent[s] + 1)
             t == Other(s)
  <2>1. sent[s] + 1 \in 1..MaxFrames
    BY <1>4, ProxyAssumption DEF Send, Typed, TypeOK
  <2>2. f \in Frame
    BY <2>1 DEF Frame
  <2>3. /\ inbox' = [inbox EXCEPT ![s] = Append(inbox[s], f)] /\ held' = held
        /\ got' = got /\ pump' = pump /\ outbox' = outbox /\ closing' = closing /\ gone' = gone
        /\ s \notin closing /\ s \notin gone
    BY <1>4 DEF Send, Present, HasClosed
  <2>4. sent'[s] = sent[s] + 1 /\ \A u \in Side : u # s => sent'[u] = sent[u]
    BY <1>4 DEF Send, Typed, TypeOK
  <2>5. /\ Pending(s)' = Append(Pending(s), f) /\ Pending(s) \in Seq(Frame) /\ sent[s] \in Nat
        /\ \A u \in Side : u # s => inbox'[u] = inbox[u]
    <3> HIDE DEF f
    <3>1. QED
      BY <1>3, <2>2, <2>3
  <2>6. \A u \in Side : Written(u)' = Written(u)
    BY <2>3 DEF Written
  <2>7. Direction(s)'
    <3>1. CASE t \notin gone /\ pump[s] \in {"read", "send"}
      <4>1. Stream(Written(t), Pending(s), sent[s], FALSE, TRUE)
        BY <2>3, <3>1 DEF Direction, Stream
      <4>2. Written(t) \in Seq(Frame)
        BY <1>1, WrittenSeq
      <4>3. Stream(Written(t), Append(Pending(s), f), sent[s] + 1, FALSE, TRUE)
        BY <2>2, <2>5, <4>1, <4>2, StreamSends
      <4>4. Written(t)' = Written(t)
        BY <1>1, <2>6
      <4>5. Stream(Written(t)', Pending(s)', sent'[s], FALSE, TRUE)
        BY <2>4, <2>5, <4>3, <4>4
      <4>6. pump'[s] # "close" /\ (s \in closing') = FALSE /\ (s \notin closing' /\ s \notin gone') = TRUE
        BY <2>3, <3>1
      <4>7. QED
        BY <4>5, <4>6 DEF Direction
    <3>2. CASE t \in gone
      BY <2>3, <3>2 DEF Direction
    <3>3. CASE pump[s] \notin {"read", "send"}
      <4>1. pump'[s] \notin {"read", "send"} /\ Written(t)' = Written(t)
        BY <1>1, <2>3, <2>6, <3>3
      <4>2. QED
        BY <2>3, <4>1 DEF Direction
    <3>4. QED
      BY <3>1, <3>2, <3>3
  <2>8. ASSUME NEW u \in Side, u # s PROVE Direction(u)'
    <3>1. Written(Other(u))' = Written(Other(u))
      BY <1>1, <2>6
    <3>2. QED
      BY <2>3, <2>4, <2>5, <2>8, <3>1, SameDirection
  <2>9. QED
    BY <2>7, <2>8
<1>5. ASSUME NEW s \in Side, SendClose(s) PROVE \A u \in Side : Direction(u)'
  <2> DEFINE t == Other(s)
  <2>1. /\ inbox' = [inbox EXCEPT ![s] = Append(inbox[s], Close)] /\ held' = held
        /\ got' = got /\ pump' = pump /\ outbox' = outbox /\ sent' = sent /\ gone' = gone
        /\ s \notin closing /\ s \notin gone /\ closing' = closing \cup {s}
    BY <1>5 DEF SendClose, Present, HasClosed
  <2>2. /\ Pending(s)' = Append(Pending(s), Close) /\ Pending(s) \in Seq(Frame) /\ sent[s] \in Nat
        /\ \A u \in Side : u # s => inbox'[u] = inbox[u]
    BY <1>3, <2>1, FrameKinds
  <2>3. \A u \in Side : Written(u)' = Written(u)
    BY <2>1 DEF Written
  <2>4. Direction(s)'
    <3>1. CASE t \notin gone /\ pump[s] \in {"read", "send"}
      <4>1. Stream(Written(t), Pending(s), sent[s], FALSE, TRUE)
        BY <2>1, <3>1 DEF Direction, Stream
      <4>2. Written(t) \in Seq(Frame)
        BY <1>1, WrittenSeq
      <4>3. Stream(Written(t), Append(Pending(s), Close), sent[s], TRUE, FALSE)
        BY <2>2, <4>1, <4>2, StreamCloses
      <4>4. Written(t)' = Written(t)
        BY <1>1, <2>3
      <4>5. Stream(Written(t)', Pending(s)', sent'[s], TRUE, FALSE)
        BY <2>1, <2>2, <4>3, <4>4
      <4>6. pump'[s] # "close" /\ (s \in closing') = TRUE /\ (s \notin closing' /\ s \notin gone') = FALSE
        BY <2>1, <3>1
      <4>7. QED
        BY <4>5, <4>6 DEF Direction
    <3>2. CASE t \in gone
      BY <2>1, <3>2 DEF Direction
    <3>3. CASE pump[s] \notin {"read", "send"}
      <4>1. pump'[s] \notin {"read", "send"} /\ Written(t)' = Written(t)
        BY <1>1, <2>1, <2>3, <3>3
      <4>2. QED
        BY <2>1, <4>1 DEF Direction
    <3>4. QED
      BY <3>1, <3>2, <3>3
  <2>5. ASSUME NEW u \in Side, u # s PROVE Direction(u)'
    <3>1. Written(Other(u))' = Written(Other(u))
      BY <1>1, <2>3
    <3>2. QED
      BY <2>1, <2>2, <2>5, <3>1, SameDirection
  <2>6. QED
    BY <2>4, <2>5
<1>6. ASSUME NEW s \in Side, Vanish(s) PROVE \A u \in Side : Direction(u)'
  <2> DEFINE t == Other(s)
  <2>1. /\ inbox' = [inbox EXCEPT ![s] = Append(inbox[s], Failure)] /\ held' = held
        /\ got' = got /\ pump' = pump /\ sent' = sent /\ gone' = gone \cup {s}
        /\ s \notin gone /\ closing' = closing
    BY <1>6 DEF Vanish, Present
  <2>2. /\ Pending(s)' = Append(Pending(s), Failure) /\ Pending(s) \in Seq(Frame) /\ sent[s] \in Nat
    BY <1>3, <2>1, FrameKinds
  <2>3. Written(t)' = Written(t)
    <3>1. outbox'[t] = outbox[t]
      BY <1>1, <1>6 DEF Vanish, Typed
    <3>2. QED
      BY <2>1, <3>1 DEF Written
  <2>4. Direction(s)'
    <3>1. CASE t \notin gone /\ pump[s] \in {"read", "send"}
      <4> DEFINE c == s \in closing
                 l == s \notin closing /\ s \notin gone
      <4>1. c \in BOOLEAN /\ l \in BOOLEAN
        OBVIOUS
      <4>2. Stream(Written(t), Pending(s), sent[s], c, l)
        BY <3>1 DEF Direction
      <4>3. Written(t) \in Seq(Frame)
        BY <1>1, WrittenSeq
      <4>4. Stream(Written(t), Append(Pending(s), Failure), sent[s], c, FALSE)
        <5> HIDE DEF c, l
        <5>1. QED
          BY <2>2, <4>1, <4>2, <4>3, StreamBreaks
      <4>5. Stream(Written(t)', Pending(s)', sent'[s], c, FALSE)
        BY <2>1, <2>2, <2>3, <4>4
      <4>6. pump'[s] # "close" /\ (s \in closing') = c /\ (s \notin closing' /\ s \notin gone') = FALSE
        BY <2>1, <3>1
      <4>7. QED
        BY <4>5, <4>6 DEF Direction
    <3>2. CASE t \in gone
      BY <2>1, <3>2 DEF Direction
    <3>3. CASE pump[s] \notin {"read", "send"}
      <4>1. pump'[s] \notin {"read", "send"}
        BY <2>1, <3>3
      <4>2. QED
        BY <2>1, <2>3, <4>1 DEF Direction
    <3>4. QED
      BY <3>1, <3>2, <3>3
  <2>5. ASSUME NEW u \in Side, u # s PROVE Direction(u)'
    BY <1>1, <2>1, <2>5 DEF Direction
  <2>6. QED
    BY <2>4, <2>5
<1>7. ASSUME NEW s \in Side, Receive(s) PROVE \A u \in Side : Direction(u)'
  <2>1. \A u \in Side : Written(u)' = Written(u)
    <3> TAKE u \in Side
    <3>1. CASE u = s
      <4>1. got'[s] = Append(got[s], Head(outbox[s])) /\ outbox'[s] = Tail(outbox[s])
        BY <1>7 DEF Receive, Typed
      <4>2. \A a \in Seq(Frame), b \in Seq(Frame) :
               b # <<>> => Append(a, Head(b)) \o Tail(b) = a \o b
        BY MoveHead
      <4>3. got[s] \in Seq(Frame) /\ outbox[s] \in Seq(Frame) /\ outbox[s] # <<>>
        BY <1>7, WrittenSeq DEF Receive
      <4>4. QED
        BY <3>1, <4>1, <4>2, <4>3 DEF Written
    <3>2. CASE u # s
      BY <1>7, <3>2 DEF Receive, Typed, Written
    <3>3. QED
      BY <3>1, <3>2
  <2> TAKE u \in Side
  <2>2. Written(Other(u))' = Written(Other(u))
    BY <1>1, <2>1
  <2>3. QED
    BY <1>7, <2>2, SameDirection DEF Receive
<1>8. ASSUME NEW s \in Side, PumpRead(s) \/ PumpSend(s) PROVE \A u \in Side : Direction(u)'
  <2> HIDE DEF Inv
  <2>1. PICK f \in Frame : Passes(s, f)
    BY <1>8, PumpKeeps
  <2>2. /\ Direction(s)' /\ \A u \in Side : u # s => inbox'[u] = inbox[u]
        /\ got' = got /\ gone' = gone /\ sent' = sent /\ closing' = closing
    BY <1>8, PumpKeeps
  <2>3. ASSUME NEW u \in Side, u # s PROVE Direction(u)'
    <3>1. u = Other(s) /\ Other(u) = s /\ Other(u) # Other(s)
      BY <1>1, <2>3
    <3>2. outbox'[s] = outbox[s] /\ pump'[u] = pump[u] /\ held'[u] = held[u] /\ inbox'[u] = inbox[u]
      BY <2>1, <2>2, <2>3, <3>1 DEF Passes
    <3>3. Written(Other(u))' = Written(Other(u))
      BY <2>2, <3>1, <3>2 DEF Written
    <3>4. Direction(u)
      BY DEF Inv
    <3>5. QED
      BY <2>2, <3>2, <3>3, <3>4, SameDirection
  <2>4. QED
    BY <2>2, <2>3
<1>9. ASSUME NEW s \in Side, PumpClose(s) PROVE \A u \in Side : Direction(u)'
  <2>1. /\ pump'[s] = "done" /\ \A u \in Side : u # s => pump'[u] = pump[u]
        /\ outbox'[s] = outbox[s]
    BY <1>1, <1>9 DEF PumpClose, Typed
  <2>2. Direction(s)'
    BY <2>1 DEF Direction
  <2>3. ASSUME NEW u \in Side, u # s PROVE Direction(u)'
    <3>1. Other(u) = s
      BY <1>1, <2>3
    <3>2. Written(Other(u))' = Written(Other(u))
      BY <1>9, <2>1, <3>1 DEF PumpClose, peers, Written
    <3>3. QED
      BY <1>9, <2>1, <2>3, <3>2, SameDirection DEF PumpClose, peers
  <2>4. QED
    BY <2>2, <2>3
<1>10. QED
  BY <1>2, <1>4, <1>5, <1>6, <1>7, <1>8, <1>9 DEF Next

LEMMA InitInv == ProxyAssumption /\ Init => Inv
<1> SUFFICES ASSUME ProxyAssumption, Init PROVE Inv
  OBVIOUS
<1>1. <<>> \in Seq(Frame) /\ Len(<<>>) = 0 /\ <<>> \o <<>> = <<>>
  BY EmptyConcat
<1>2. Typed
  BY <1>1, ProxyAssumption DEF Init, Typed, TypeOK
<1>3. \A s \in Side : Queued(s)
  BY <1>1 DEF Init, Queued
<1>4. ASSUME NEW s \in Side PROVE Direction(s)
  <2>1. Other(s) \in Side
    BY Sides
  <2>2. Written(Other(s)) = <<>> /\ Pending(s) = <<>> /\ sent[s] = 0 /\ pump[s] = "read"
    BY <1>1, <2>1 DEF Init, Written, Pending
  <2>3. Stream(<<>>, <<>>, 0, s \in closing, s \notin closing /\ s \notin gone)
    BY <1>1 DEF Stream
  <2>4. QED
    BY <2>2, <2>3 DEF Direction
<1>5. QED
  BY <1>2, <1>3, <1>4 DEF Inv

LEMMA InvStep == ProxyAssumption /\ Inv /\ [Next]_vars => Inv'
<1> SUFFICES ASSUME ProxyAssumption, Inv, [Next]_vars PROVE Inv'
  OBVIOUS
<1>1. CASE Next
  <2>1. Typed'
    BY <1>1, TypedStep DEF Inv
  <2>2. \A s \in Side : Queued(s)'
    BY <1>1, QueuedStep DEF Inv
  <2>3. \A s \in Side : Direction(s)'
    BY <1>1, DirectionStep
  <2>4. QED
    BY <2>1, <2>2, <2>3 DEF Inv
<1>2. CASE UNCHANGED vars
  <2>1. Typed'
    BY <1>2 DEF Inv, Typed, TypeOK, vars
  <2>2. \A s \in Side : Queued(s)'
    BY <1>2 DEF Inv, Queued, vars
  <2>3. ASSUME NEW s \in Side PROVE Direction(s)'
    <3>1. Written(Other(s))' = Written(Other(s))
      BY <1>2 DEF Written, vars
    <3>2. QED
      BY <1>2, <3>1, SameDirection DEF Inv, vars
  <2>4. QED
    BY <2>1, <2>2, <2>3 DEF Inv
<1>3. QED
  BY <1>1, <1>2

-----------------------------------------------------------------------------
(* The refinement *)

Channels == [t \in Side |-> got[t] \o outbox[t]]

LEMMA ChannelsAt ==
    /\ Channels = [t \in Side |-> Written(t)]
    /\ \A t \in Side : Channels[t] = Written(t)
BY DEF Channels, Written

(* A step that writes f to t is the abstract Write. *)
LEMMA WriteOf ==
    ASSUME Typed, NEW t \in Side, NEW f \in Frame,
           outbox' = [outbox EXCEPT ![t] = Append(outbox[t], f)], UNCHANGED peers,
           t \notin gone, \A i \in 1..Len(Written(t)) : Written(t)[i].kind = "data"
    PROVE  Promise!Write(t, f)
<1>1. got[t] \in Seq(Frame) /\ outbox[t] \in Seq(Frame) /\ Written(t) \in Seq(Frame)
  BY WrittenSeq
<1>2. DOMAIN Channels[t] = 1..Len(Written(t))
  BY <1>1, ChannelsAt
<1>3. Promise!Open(t)
  BY <1>2, ChannelsAt DEF Promise!Open, Channels
<1>4. Channels' = [Channels EXCEPT ![t] = Append(Channels[t], f)]
  <2>1. \A a \in Seq(Frame), b \in Seq(Frame) : a \o Append(b, f) = Append(a \o b, f)
    BY AppendRight
  <2>2. outbox'[t] = Append(outbox[t], f) /\ got' = got /\ \A u \in Side \ {t} : outbox'[u] = outbox[u]
    BY DEF Typed, peers
  <2>3. got'[t] \o outbox'[t] = Append(got[t] \o outbox[t], f)
    BY <1>1, <2>1, <2>2
  <2>4. \A u \in Side : got'[u] \o outbox'[u] = IF u = t THEN Append(Channels[t], f) ELSE Channels[u]
    <3> TAKE u \in Side
    <3>1. Channels[u] = got[u] \o outbox[u] /\ Channels[t] = got[t] \o outbox[t]
      BY ChannelsAt DEF Written
    <3>2. CASE u = t
      BY <2>3, <3>1, <3>2
    <3>3. CASE u # t
      BY <2>2, <3>1, <3>3
    <3>4. QED
      BY <3>2, <3>3
  <2>5. Channels' = [u \in Side |-> IF u = t THEN Append(Channels[t], f) ELSE Channels[u]]
    BY <2>4, Zenon DEF Channels
  <2>6. QED
    BY <2>5 DEF Channels
<1>5. QED
  BY <1>3, <1>4 DEF Promise!Write, Channels, peers

LEMMA Simulates ==
    ASSUME ProxyAssumption, Inv, Next
    PROVE  Promise!Next \/ UNCHANGED Promise!vars
<1>1. Typed
  BY DEF Inv
<1>2. ASSUME UNCHANGED peers, Channels' = Channels PROVE UNCHANGED Promise!vars
  BY <1>2 DEF Promise!vars, Channels, peers
<1>3. CASE ConnectBackend \/ ConnectFails \/ End
  <2>1. UNCHANGED peers /\ outbox' = outbox /\ got' = got
    BY <1>3 DEF ConnectBackend, ConnectFails, End, peers
  <2>2. Channels' = Channels
    BY <2>1 DEF Channels
  <2>3. QED
    BY <1>2, <2>1, <2>2
<1>4. ASSUME NEW s \in Side, Send(s) PROVE Promise!Next
  <2>1. Channels' = Channels
    BY <1>4 DEF Send, Channels
  <2>2. Promise!PeerSends(s)
    BY <1>4, <2>1 DEF Send, HasClosed, Promise!PeerSends, Channels
  <2>3. QED
    BY <2>2 DEF Promise!Next, Promise!Side, Side
<1>5. ASSUME NEW s \in Side, SendClose(s) PROVE Promise!Next
  <2>1. Channels' = Channels
    BY <1>5 DEF SendClose, Channels
  <2>2. Promise!PeerCloses(s)
    BY <1>5, <2>1 DEF SendClose, Promise!PeerCloses, Channels
  <2>3. QED
    BY <2>2 DEF Promise!Next, Promise!Side, Side
<1>6. ASSUME NEW s \in Side, Vanish(s) PROVE Promise!Next
  <2>1. got[s] \in Seq(Frame) /\ outbox[s] \in Seq(Frame) /\ Written(s) \in Seq(Frame)
        /\ Len(Written(s)) = Len(got[s]) + Len(outbox[s]) /\ Channels[s] = Written(s)
    <3>1. got[s] \in Seq(Frame) /\ outbox[s] \in Seq(Frame)
      BY <1>1 DEF Typed
    <3>2. Written(s) \in Seq(Frame) /\ Len(Written(s)) = Len(got[s]) + Len(outbox[s])
      BY <3>1, ConcatProperties DEF Written
    <3>3. Channels[s] = Written(s)
      BY ChannelsAt
    <3>4. QED
      BY <3>1, <3>2, <3>3
  <2>2. got' = got /\ outbox'[s] = <<>> /\ \A u \in Side \ {s} : outbox'[u] = outbox[u]
    BY <1>1, <1>6 DEF Vanish, Typed
  <2>3. SubSeq(Written(s), 1, Len(got[s])) = got[s]
    <3>1. \A a \in Seq(Frame), b \in Seq(Frame) : SubSeq(a \o b, 1, Len(a)) = a
      BY ConcatPrefix
    <3>2. QED
      BY <2>1, <3>1 DEF Written
  <2>4. got'[s] \o outbox'[s] = got[s]
    BY <2>1, <2>2, EmptyConcat
  <2>5. Channels' = [Channels EXCEPT ![s] = SubSeq(Channels[s], 1, Len(got[s]))]
    BY <2>1, <2>2, <2>3, <2>4 DEF Channels
  <2>6. Len(got[s]) \in 0..Len(Channels[s])
    <3>1. Len(got[s]) \in Nat /\ Len(outbox[s]) \in Nat /\ Len(Channels[s]) = Len(got[s]) + Len(outbox[s])
      BY <2>1, LenProperties
    <3>2. \A m \in Nat, n \in Nat : m \in 0..(m + n)
      OBVIOUS
    <3>3. QED
      BY <3>1, <3>2, Zenon
  <2>7. gone' = gone \cup {s} /\ UNCHANGED <<sent, closing>>
    BY <1>6 DEF Vanish
  <2>8. Promise!Break(s)
    BY <2>5, <2>6, <2>7 DEF Promise!Break, Channels
  <2>9. QED
    BY <2>8 DEF Promise!Next, Promise!Side, Side
<1>7. ASSUME NEW s \in Side, Receive(s) PROVE UNCHANGED Promise!vars
  <2>1. UNCHANGED <<sent, closing, gone>>
    BY <1>7 DEF Receive
  <2>2. got'[s] = Append(got[s], Head(outbox[s])) /\ outbox'[s] = Tail(outbox[s])
        /\ \A u \in Side \ {s} : got'[u] = got[u] /\ outbox'[u] = outbox[u]
    BY <1>1, <1>7 DEF Receive, Typed
  <2>3. \A a \in Seq(Frame), b \in Seq(Frame) :
           b # <<>> => Append(a, Head(b)) \o Tail(b) = a \o b
    BY MoveHead
  <2>4. got[s] \in Seq(Frame) /\ outbox[s] \in Seq(Frame) /\ outbox[s] # <<>>
    BY <1>1, <1>7, WrittenSeq DEF Receive
  <2>5. Channels' = Channels
    <3>1. got'[s] \o outbox'[s] = got[s] \o outbox[s]
      BY <2>2, <2>3, <2>4
    <3>2. \A u \in Side : got'[u] \o outbox'[u] = got[u] \o outbox[u]
      BY <2>2, <3>1, Zenon
    <3>3. QED
      BY <3>2, Zenon DEF Channels
  <2>6. QED
    BY <2>1, <2>5 DEF Promise!vars, Channels
<1>8. ASSUME NEW s \in Side, PumpRead(s) \/ PumpSend(s)
      PROVE  Promise!Next \/ UNCHANGED Promise!vars
  <2> DEFINE t == Other(s)
  <2>1. t \in Side /\ Other(t) = s
    BY Sides
  <2>2. UNCHANGED peers
    BY <1>8 DEF PumpRead, PumpSend
  <2>3. PICK f \in Frame : Passes(s, f)
    BY <1>8, PumpKeeps
  <2>4. CASE outbox' = outbox
    <3>1. Channels' = Channels
      BY <2>2, <2>4 DEF Channels, peers
    <3>2. QED
      BY <1>2, <2>2, <3>1
  <2>5. CASE /\ t \notin gone
             /\ outbox' = [outbox EXCEPT ![t] = Append(outbox[t], f)]
             /\ \A i \in 1..Len(Written(t)) : Written(t)[i].kind = "data"
             /\ \/ Len(Written(t)) < sent[s] /\ f = Data(Len(Written(t)) + 1)
                \/ Len(Written(t)) = sent[s] /\ f = Close /\ s \in closing
    <3>1. Promise!Write(t, f)
      BY <1>1, <2>1, <2>2, <2>5, WriteOf
    <3>2. Channels[t] = Written(t)
      BY <2>1, ChannelsAt
    <3>3. Promise!Other(t) = s
      BY <2>1 DEF Promise!Other, Other
    <3>4. Promise!Data(Len(Written(t)) + 1) = Data(Len(Written(t)) + 1) /\ Promise!Close = Close
      BY DEF Promise!Data, Data, Promise!Close, Close
    <3>5. CASE Len(Written(t)) < sent[s] /\ f = Data(Len(Written(t)) + 1)
      <4>1. Promise!Forward(t)
        <5>1. Promise!Write(t, Promise!Data(Len(Channels[t]) + 1))
          <6>1. f = Promise!Data(Len(Channels[t]) + 1)
            BY <3>2, <3>4, <3>5
          <6>2. QED
            BY <3>1, <6>1 DEF Promise!Write
        <5>2. Len(Channels[t]) < sent[Promise!Other(t)]
          BY <3>2, <3>3, <3>5
        <5>3. QED
          BY <5>1, <5>2 DEF Promise!Forward, Channels
      <4>2. QED
        BY <2>1, <4>1 DEF Promise!Next, Promise!Side, Side
    <3>6. CASE Len(Written(t)) = sent[s] /\ f = Close /\ s \in closing
      <4>1. Promise!ForwardClose(t)
        BY <3>1, <3>2, <3>3, <3>4, <3>6 DEF Promise!ForwardClose, Channels
      <4>2. QED
        BY <2>1, <4>1 DEF Promise!Next, Promise!Side, Side
    <3>7. QED
      BY <2>5, <3>5, <3>6
  <2>6. QED
    BY <2>3, <2>4, <2>5 DEF Passes
<1>9. ASSUME NEW s \in Side, PumpClose(s)
      PROVE  Promise!Next \/ UNCHANGED Promise!vars
  <2> DEFINE t == Other(s)
             w == Written(t)
  <2>1. t \in Side
    BY Sides
  <2>2. UNCHANGED peers
    BY <1>9 DEF PumpClose
  <2>3. CASE outbox' = outbox
    <3>1. Channels' = Channels
      BY <2>2, <2>3 DEF Channels, peers
    <3>2. QED
      BY <1>2, <2>2, <3>1
  <2>4. CASE /\ t \notin gone /\ ~CloseWritten(t)
             /\ outbox' = [outbox EXCEPT ![t] = Append(outbox[t], BareClose)]
    <3>1. w \in Seq(Frame) /\ Len(w) \in Nat
      BY <1>1, <2>1, WrittenSeq
    <3>2. ClosedAtMostOnce(w)
      BY <1>9, <2>4 DEF Inv, Direction, PumpClose
    <3>3. Len(w) > 0 => w[Len(w)].kind = "data"
      <4>1. w = <<>> \/ w[Len(w)].kind = "data"
        BY <2>4 DEF CloseWritten, Written
      <4> HIDE DEF w
      <4>2. QED
        BY <3>1, <4>1, EmptySeq
    <3>4. \A i \in 1..Len(w) : w[i].kind = "data"
      <4> HIDE DEF w
      <4> TAKE i \in 1..Len(w)
      <4>1. CASE i = Len(w)
        BY <3>1, <3>3, <4>1
      <4>2. CASE i # Len(w)
        BY <3>1, <3>2, <4>2 DEF ClosedAtMostOnce
      <4>3. QED
        BY <4>1, <4>2
    <3>5. Promise!Write(t, BareClose)
      BY <1>1, <2>1, <2>2, <2>4, <3>4, FrameKinds, WriteOf
    <3>6. Promise!CutShort(t)
      BY <3>5 DEF Promise!CutShort, Promise!BareClose, BareClose
    <3>7. QED
      BY <2>1, <3>6 DEF Promise!Next, Promise!Side, Side
  <2>5. QED
    BY <1>9, <2>3, <2>4 DEF PumpClose, Writable
<1>10. QED
  BY <1>3, <1>4, <1>5, <1>6, <1>7, <1>8, <1>9 DEF Next

-----------------------------------------------------------------------------
(* The theorems *)

(* The invariant, for every Cap and MaxFrames. *)
THEOREM StreamInv == Spec => []Inv
<1>1. Init => Inv
  BY InitInv, ProxyAssumption
<1>2. Inv /\ [Next]_vars => Inv'
  BY InvStep, ProxyAssumption
<1>3. QED
  BY <1>1, <1>2, PTL DEF Spec

(* TypeOK: whatever the peers and the pumps do, no connection is written   *)
(* beyond what it takes, a pump holds a frame exactly while it waits to    *)
(* send it, and the gateway has read a close only of a side that sent one. *)
THEOREM TypeCorrect == Spec => []TypeOK
<1>1. Inv => TypeOK
  BY DEF Inv, Typed
<1>2. QED
  BY <1>1, StreamInv, PTL

(* ImplementsDuplex: proxy_websocket keeps what it promises its peers.     *)
(* However many frames are sent, however little the connections take, and  *)
(* whichever side closes or breaks first, every step is one of Duplex: a   *)
(* peer that stays sees the other side's frames in order and without a     *)
(* gap, its close after all of them, and nothing after a close.            *)
THEOREM ProxyIsDuplex == Spec => ImplementsDuplex
<1>1. Init => Promise!Init
  <2> SUFFICES ASSUME Init PROVE Promise!Init
    OBVIOUS
  <2>1. <<>> \o <<>> = <<>>
    BY EmptyConcat, EmptySeq
  <2>2. Channels = [t \in Side |-> <<>>]
    BY <2>1 DEF Channels, Init
  <2>3. QED
    BY <2>2 DEF Init, Promise!Init, Promise!Side, Side, Channels
<1>2. Inv /\ [Next]_vars => [Promise!Next]_(Promise!vars)
  <2> SUFFICES ASSUME Inv, [Next]_vars PROVE Promise!Next \/ UNCHANGED Promise!vars
    OBVIOUS
  <2>1. CASE Next
    BY <2>1, ProxyAssumption, Simulates
  <2>2. CASE UNCHANGED vars
    BY <2>2 DEF vars, Promise!vars
  <2>3. QED
    BY <2>1, <2>2
<1>3. QED
  BY <1>1, <1>2, StreamInv, PTL DEF Spec, ImplementsDuplex, Promise!Spec

=============================================================================
