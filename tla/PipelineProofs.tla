--------------------------- MODULE PipelineProofs ---------------------------
(***************************************************************************)
(* Proofs about Pipeline, for any number of requests and clients, any      *)
(* limit and any gRPC answers; and, before them, about the frames of these *)
(* answers: what the recursive functions inside Concat and DecodeFrom      *)
(* compute, and that the decoder returns the messages of every buffer made *)
(* of whole frames, whatever their number and length.  The last part is    *)
(* about Router, which the pipeline asks for its target: which route of    *)
(* any table it takes, and what it strips of any path.                     *)
(***************************************************************************)
EXTENDS Pipeline, Router, SequenceTheorems, WellFoundedInduction, FiniteSetTheorems, TLAPS

(***************************************************************************)
(* Induction.  A statement about every natural number up to a bound is     *)
(* proved by looking at its least counterexample.                          *)
(***************************************************************************)
Less == {ss \in Nat \X Nat : ss[1] < ss[2]}

LEMMA LeastElement ==
    ASSUME NEW T \in SUBSET Nat, T # {}
    PROVE  \E x \in T : \A y \in T : x <= y
<1>1. IsWellFoundedOn(Less, Nat)
  BY NatLessThanWellFounded DEF OpToRel, Less
<1>2. PICK x \in T : \A y \in T : ~ (<<y, x>> \in Less)
  BY <1>1, WFMin
<1>3. \A y \in T : ~(y < x)
  BY <1>2 DEF Less
<1>4. QED
  BY <1>3

-----------------------------------------------------------------------------
(* Concat *)

(* The recursive function inside Concat. *)
Join(s, t) == s \o t
Upto(seqs) ==
    CHOOSE f : f = [i \in 0..Len(seqs) |-> IF i = 0 THEN <<>> ELSE Join(f[i - 1], seqs[i])]

LEMMA ConcatIsUpto == \A seqs : Concat(seqs) = Upto(seqs)[Len(seqs)]
  BY DEF Concat, Upto, Join

(* Whether f is that function up to n. *)
Follows(f, seqs, n) ==
    f[0] = <<>> /\ \A i \in 1..n : f[i] = Join(f[i - 1], seqs[i])

LEMMA UptoExists ==
    ASSUME NEW S, NEW seqs \in Seq(Seq(S))
    PROVE  \E f \in [0..Len(seqs) -> Seq(S)] : Follows(f, seqs, Len(seqs))
<1> DEFINE N == Len(seqs)
           F == [0..N -> Seq(S)]
           T == {n \in 0..N : ~ \E f \in F : Follows(f, seqs, n)}
<1>1. N \in Nat /\ \A i \in 1..N : seqs[i] \in Seq(S)
  OBVIOUS
<1> HIDE DEF N
<1>2. SUFFICES ASSUME T # {} PROVE FALSE
  <2>1. N \in 0..N
    BY <1>1
  <2>2. QED
    BY <2>1 DEF N
<1>3. PICK n \in T : \A m \in T : n <= m
  <2>1. T \in SUBSET Nat
    BY <1>1
  <2> HIDE DEF T
  <2>2. QED
    BY <1>2, <2>1, LeastElement
<1>4. n # 0
  <2>1. [i \in 0..N |-> <<>>] \in F
    BY <1>1
  <2>2. Follows([i \in 0..N |-> <<>>], seqs, 0)
    BY <1>1 DEF Follows
  <2>3. QED
    BY <2>1, <2>2
<1>5. n - 1 \in 0..N /\ n - 1 \notin T /\ n \in 1..N
  <2>1. n \in 0..N
    BY <1>3
  <2> HIDE DEF T
  <2>2. QED
    BY <1>1, <1>3, <1>4, <2>1
<1>6. PICK f \in F : Follows(f, seqs, n - 1)
  BY <1>5
<1> DEFINE g == [f EXCEPT ![n] = Join(f[n - 1], seqs[n])]
<1>7. Join(f[n - 1], seqs[n]) \in Seq(S)
  BY <1>1, <1>5, ConcatProperties DEF Join
<1>8. g \in F
  BY <1>7
<1>9. Follows(g, seqs, n)
  <2>1. g[n] = Join(f[n - 1], seqs[n]) /\ \A i \in 0..(n - 1) : g[i] = f[i]
    BY <1>1, <1>5
  <2> HIDE DEF g
  <2>2. g[0] = <<>>
    BY <1>5, <1>6, <2>1 DEF Follows
  <2>3. ASSUME NEW i \in 1..n PROVE g[i] = Join(g[i - 1], seqs[i])
    <3>1. CASE i = n
      BY <1>5, <2>1, <3>1
    <3>2. CASE i # n
      <4>1. i \in 1..(n - 1) /\ i \in 0..(n - 1) /\ i - 1 \in 0..(n - 1)
        BY <1>1, <1>5, <3>2
      <4>2. QED
        BY <1>6, <2>1, <4>1 DEF Follows
    <3>3. QED
      BY <3>1, <3>2
  <2>4. QED
    BY <2>2, <2>3 DEF Follows
<1>10. QED
  BY <1>8, <1>9

(* Concat unfolds: it concatenates one sequence after the other. *)
LEMMA UptoDef ==
    ASSUME NEW S, NEW seqs \in Seq(Seq(S))
    PROVE  /\ Upto(seqs) \in [0..Len(seqs) -> Seq(S)]
           /\ Follows(Upto(seqs), seqs, Len(seqs))
<1> DEFINE N == Len(seqs)
           Body(f) == [i \in 0..N |-> IF i = 0 THEN <<>> ELSE Join(f[i - 1], seqs[i])]
<1>1. PICK f \in [0..N -> Seq(S)] : Follows(f, seqs, N)
  BY UptoExists
<1>6. N \in Nat /\ \A i \in 1..N : seqs[i] \in Seq(S)
  OBVIOUS
<1> HIDE DEF N
<1>2. f = Body(f)
  <2>1. \A i \in 0..N : f[i] = IF i = 0 THEN <<>> ELSE Join(f[i - 1], seqs[i])
    BY <1>1, <1>6 DEF Follows
  <2>2. QED
    BY <1>1, <2>1
<1>3. Upto(seqs) = CHOOSE h : h = Body(h)
  BY DEF Upto, N
<1>4. Upto(seqs) = Body(Upto(seqs))
  BY <1>2, <1>3
<1> DEFINE u == Upto(seqs)
<1>5. u = Body(u)
  BY <1>4
<1> HIDE DEF u
<1>7. DOMAIN u = 0..N /\ Follows(u, seqs, N)
  <2>1. DOMAIN u = 0..N /\ \A i \in 0..N : u[i] = IF i = 0 THEN <<>> ELSE Join(u[i - 1], seqs[i])
    BY <1>5
  <2>2. QED
    BY <1>6, <2>1, SMTT(40) DEF Follows
<1>8. \A i \in 0..N : u[i] \in Seq(S)
  <2> DEFINE T == {i \in 0..N : u[i] \notin Seq(S)}
  <2>1. SUFFICES ASSUME T # {} PROVE FALSE
    OBVIOUS
  <2>2. PICK n \in T : \A m \in T : n <= m
    <3>1. T \in SUBSET Nat
      BY <1>6
    <3> HIDE DEF T
    <3>2. QED
      BY <2>1, <3>1, LeastElement
  <2>3. n # 0
    BY <1>7, <2>2, EmptySeq DEF Follows
  <2>4. n \in 1..N /\ n - 1 \in 0..N /\ u[n - 1] \in Seq(S)
    BY <1>6, <2>2, <2>3
  <2>5. u[n] = Join(u[n - 1], seqs[n])
    BY <1>7, <2>4 DEF Follows
  <2>6. QED
    BY <1>6, <2>4, <2>5, ConcatProperties, ZenonT(60) DEF Join
<1>9. u \in [0..N -> Seq(S)]
  BY <1>5, <1>8
<1>10. QED
  BY <1>7, <1>9 DEF u, N

(* The concatenation of the first n sequences. *)
LEMMA ConcatPrefix ==
    ASSUME NEW S, NEW seqs \in Seq(Seq(S)), NEW n \in 0..Len(seqs)
    PROVE  Concat(SubSeq(seqs, 1, n)) = Upto(seqs)[n]
<1> DEFINE p == SubSeq(seqs, 1, n)
           u == Upto(seqs)
           v == Upto(p)
<1>1. Len(seqs) \in Nat /\ \A i \in 1..Len(seqs) : seqs[i] \in Seq(S)
  OBVIOUS
<1>2. p \in Seq(Seq(S)) /\ Len(p) = n /\ \A i \in 1..n : p[i] = seqs[i]
  <2>1. \A i \in 1..n : seqs[i] \in Seq(S)
    BY <1>1
  <2>2. QED
    BY <1>1, <2>1, SubSeqProperties
<1>3. Concat(p) = v[n]
  BY <1>2, ConcatIsUpto
<1>4. Follows(u, seqs, Len(seqs))
  BY UptoDef
<1> HIDE DEF p
<1>5. Follows(v, p, n)
  BY <1>2, UptoDef
<1> HIDE DEF u, v
<1> DEFINE T == {i \in 0..n : u[i] # v[i]}
<1>6. T = {}
  <2>1. SUFFICES ASSUME T # {} PROVE FALSE
    OBVIOUS
  <2>2. T \in SUBSET Nat
    BY <1>1
  <2>3. PICK m \in T : \A k \in T : m <= k
    <3> HIDE DEF T
    <3>1. QED
      BY <2>1, <2>2, LeastElement
  <2>4. m # 0
    BY <1>4, <1>5, <2>3 DEF Follows
  <2>5. m \in 1..n /\ m \in 1..Len(seqs) /\ m - 1 \in 0..n /\ ~(m <= m - 1)
    BY <1>1, <2>3, <2>4
  <2>6. u[m - 1] = v[m - 1]
    BY <2>3, <2>5
  <2>7. u[m] = Join(u[m - 1], seqs[m]) /\ v[m] = Join(v[m - 1], p[m])
    BY <1>4, <1>5, <2>5 DEF Follows
  <2>8. QED
    BY <1>2, <2>3, <2>5, <2>6, <2>7
<1>7. n \in 0..n
  BY <1>1
<1>8. u[n] = v[n]
  BY <1>6, <1>7
<1>9. QED
  BY <1>3, <1>8 DEF p, u

-----------------------------------------------------------------------------
(* Frames *)

LEMMA BeBytes ==
    ASSUME NEW n \in Nat, ((n \div 256) \div 256) \div 256 < 256
    PROVE  /\ \A i \in 1..4 : ToBeBytes(n)[i] \in Byte
           /\ FromBeBytes(ToBeBytes(n)) = n
<1> DEFINE a == n \div 256
           b == a \div 256
           c == b \div 256
<1>1. a \in Nat /\ n = 256 * a + (n % 256) /\ n % 256 \in Int /\ 0 <= n % 256 /\ n % 256 < 256
  OBVIOUS
<1>2. b \in Nat /\ a = 256 * b + (a % 256) /\ a % 256 \in Int /\ 0 <= a % 256 /\ a % 256 < 256
  <2> HIDE DEF a
  <2>1. QED
    BY <1>1
<1>3. c \in Nat /\ b = 256 * c + (b % 256) /\ b % 256 \in Int /\ 0 <= b % 256 /\ b % 256 < 256
  <2> HIDE DEF b
  <2>1. QED
    BY <1>2
<1>4. c % 256 = c /\ c < 256
  <2>1. c < 256
    OBVIOUS
  <2> HIDE DEF c
  <2>2. QED
    BY <1>3, <2>1
<1> DEFINE t == ToBeBytes(n)
<1>5. t[1] = c % 256 /\ t[2] = b % 256 /\ t[3] = a % 256 /\ t[4] = n % 256
  BY DEF ToBeBytes
<1> HIDE DEF a, b, c
<1>6. t[1] = c /\ t[2] = b % 256 /\ t[3] = a % 256 /\ t[4] = n % 256
  BY <1>4, <1>5
<1> HIDE DEF t
<1>7. \A i \in 1..4 : i = 1 \/ i = 2 \/ i = 3 \/ i = 4
  OBVIOUS
<1>8. \A i \in 1..4 : t[i] \in Byte
  BY <1>1, <1>2, <1>3, <1>4, <1>6, <1>7, SMTT(40) DEF Byte
<1>9. FromBeBytes(t) = n
  BY <1>1, <1>2, <1>3, <1>4, <1>6 DEF FromBeBytes
<1>10. QED
  BY <1>8, <1>9 DEF t
(* A framed message: flag, length, payload. *)
LEMMA FramedLayout ==
    ASSUME NEW m \in Message
    PROVE  /\ m.payload \in Seq(Byte) /\ m.flag \in {0, 1}
           /\ Framed(m) \in Seq(Byte)
           /\ Len(Framed(m)) = HeaderLen + Len(m.payload)
           /\ Framed(m)[1] = m.flag
           /\ \A i \in 1..4 : Framed(m)[1 + i] = ToBeBytes(Len(m.payload))[i]
           /\ \A i \in 1..Len(m.payload) : Framed(m)[HeaderLen + i] = m.payload[i]
<1> DEFINE y == m.payload
           head == <<0>>
           size == ToBeBytes(Len(y))
           hs == head \o size
<1>1. /\ y \in Seq(Byte) /\ Len(y) \in Nat /\ ((Len(y) \div 256) \div 256) \div 256 < 256
      /\ m.flag \in {0, 1} /\ {0, 1} \subseteq Byte
  BY DEF Message, Byte
<1>2. head \in Seq(Byte) /\ Len(head) = 1 /\ head[1] = 0
  BY DEF Byte
<1>3. size \in Seq(Byte) /\ Len(size) = 4
  <2>1. \A i \in 1..4 : size[i] \in Byte
    BY <1>1, BeBytes
  <2>2. DOMAIN size = 1..4 /\ Len(size) = 4
    BY DEF ToBeBytes
  <2>3. size = [i \in 1..4 |-> size[i]]
    BY DEF ToBeBytes
  <2> HIDE DEF size
  <2>4. size \in [1..4 -> Byte]
    BY <2>1, <2>3
  <2>5. QED
    BY <2>2, <2>4, SeqDef
<1> HIDE DEF y, head, size
<1>4. /\ hs \in Seq(Byte) /\ Len(hs) = 5 /\ hs[1] = 0
      /\ \A i \in 1..4 : hs[1 + i] = size[i]
  <2>1. /\ hs \in Seq(Byte) /\ Len(hs) = 1 + 4
        /\ \A i \in 1..(1 + 4) : hs[i] = IF i <= 1 THEN head[i] ELSE size[i - 1]
    <3>1. /\ hs \in Seq(Byte) /\ Len(hs) = Len(head) + Len(size)
          /\ \A i \in 1..Len(head) + Len(size) :
                hs[i] = IF i <= Len(head) THEN head[i] ELSE size[i - Len(head)]
      BY <1>2, <1>3, ConcatProperties
    <3>2. QED
      BY <1>2, <1>3, <3>1
  <2> HIDE DEF hs
  <2>2. \A i \in 1..4 : 1 + i \in 1..(1 + 4) /\ ~(1 + i <= 1) /\ (1 + i) - 1 = i
    OBVIOUS
  <2>3. QED
    BY <1>2, <2>1, <2>2
<1> HIDE DEF hs
<1> DEFINE enc == hs \o y
<1>5. /\ enc \in Seq(Byte) /\ Len(enc) = 5 + Len(y)
      /\ \A i \in 1..4 : enc[1 + i] = size[i]
      /\ \A i \in 1..Len(y) : enc[5 + i] = y[i]
  <2>1. /\ enc \in Seq(Byte) /\ Len(enc) = 5 + Len(y)
        /\ \A i \in 1..(5 + Len(y)) : enc[i] = IF i <= 5 THEN hs[i] ELSE y[i - 5]
    <3>1. /\ enc \in Seq(Byte) /\ Len(enc) = Len(hs) + Len(y)
          /\ \A i \in 1..Len(hs) + Len(y) :
                enc[i] = IF i <= Len(hs) THEN hs[i] ELSE y[i - Len(hs)]
      BY <1>1, <1>4, ConcatProperties
    <3>2. QED
      BY <1>1, <1>4, <3>1
  <2> HIDE DEF enc
  <2>2. \A i \in 1..4 : 1 + i \in 1..(5 + Len(y)) /\ 1 + i <= 5
    BY <1>1
  <2>3. \A i \in 1..Len(y) : 5 + i \in 1..(5 + Len(y)) /\ ~(5 + i <= 5) /\ (5 + i) - 5 = i
    BY <1>1
  <2>4. QED
    BY <1>4, <2>1, <2>2, <2>3
<1>6. Framed(m) = [enc EXCEPT ![1] = m.flag]
  BY DEF Framed, encode_grpc_frame, y, head, size, hs
<1> HIDE DEF enc
<1>7. 1 \in 1..Len(enc) /\ m.flag \in Byte
  BY <1>1, <1>5
<1>8. /\ Framed(m) \in Seq(Byte) /\ Len(Framed(m)) = Len(enc)
      /\ \A j \in 1..Len(enc) : Framed(m)[j] = IF j = 1 THEN m.flag ELSE enc[j]
  BY <1>5, <1>6, <1>7, ExceptSeq
<1>9. Framed(m)[1] = m.flag
  BY <1>7, <1>8
<1>10. \A i \in 1..4 : Framed(m)[1 + i] = size[i]
  <2>1. \A i \in 1..4 : 1 + i \in 1..Len(enc) /\ 1 + i # 1
    BY <1>1, <1>5
  <2>2. QED
    BY <1>5, <1>8, <2>1
<1>11. \A i \in 1..Len(y) : Framed(m)[5 + i] = y[i]
  <2>1. \A i \in 1..Len(y) : 5 + i \in 1..Len(enc) /\ 5 + i # 1
    BY <1>1, <1>5
  <2>2. QED
    BY <1>5, <1>8, <2>1
<1>12. QED
  BY <1>1, <1>5, <1>8, <1>9, <1>10, <1>11 DEF y, size, HeaderLen

(* The encoded and the decoded form of the first n messages. *)
FramedSeq(msgs) == [i \in DOMAIN msgs |-> Framed(msgs[i])]
PayloadSeq(msgs) == [i \in DOMAIN msgs |-> msgs[i].payload]
Wired(msgs, n) == Upto(FramedSeq(msgs))[n]
Plain(msgs, n) == Upto(PayloadSeq(msgs))[n]

LEMMA MessagesUnfold ==
    ASSUME NEW msgs \in Seq(Message)
    PROVE  /\ Wired(msgs, 0) = <<>> /\ Plain(msgs, 0) = <<>>
           /\ \A n \in 0..Len(msgs) :
                 /\ Wired(msgs, n) \in Seq(Byte) /\ Plain(msgs, n) \in Seq(Byte)
                 /\ Frames(SubSeq(msgs, 1, n)) = Wired(msgs, n)
                 /\ Payloads(SubSeq(msgs, 1, n)) = Plain(msgs, n)
           /\ \A n \in 1..Len(msgs) :
                 /\ Wired(msgs, n) = Join(Wired(msgs, n - 1), Framed(msgs[n]))
                 /\ Plain(msgs, n) = Join(Plain(msgs, n - 1), msgs[n].payload)
<1> DEFINE N == Len(msgs)
           fs == FramedSeq(msgs)
           ps == PayloadSeq(msgs)
<1>1. N \in Nat /\ DOMAIN msgs = 1..N /\ \A i \in 1..N : msgs[i] \in Message
  OBVIOUS
<1>2. \A i \in 1..N : Framed(msgs[i]) \in Seq(Byte) /\ msgs[i].payload \in Seq(Byte)
  BY <1>1, FramedLayout
<1>3. fs = [i \in 1..N |-> Framed(msgs[i])] /\ ps = [i \in 1..N |-> msgs[i].payload]
  BY <1>1 DEF FramedSeq, PayloadSeq
<1> HIDE DEF N, fs, ps
<1>4. fs \in [1..N -> Seq(Byte)] /\ ps \in [1..N -> Seq(Byte)]
  BY <1>2, <1>3
<1>5. /\ fs \in Seq(Seq(Byte)) /\ Len(fs) = N
      /\ ps \in Seq(Seq(Byte)) /\ Len(ps) = N
  BY <1>1, <1>4
<1>6. /\ Upto(fs) \in [0..N -> Seq(Byte)] /\ Follows(Upto(fs), fs, N)
      /\ Upto(ps) \in [0..N -> Seq(Byte)] /\ Follows(Upto(ps), ps, N)
  BY <1>5, UptoDef
<1>7. ASSUME NEW n \in 0..N
      PROVE  /\ Frames(SubSeq(msgs, 1, n)) = Wired(msgs, n)
             /\ Payloads(SubSeq(msgs, 1, n)) = Plain(msgs, n)
  <2> DEFINE q == SubSeq(msgs, 1, n)
  <2>1. DOMAIN q = 1..n /\ \A i \in 1..n : q[i] = msgs[i]
    <3>1. \A i \in 1..n : msgs[i] \in Message
      BY <1>1
    <3>2. /\ q \in Seq(Message) /\ Len(q) = IF 1 <= n THEN n - 1 + 1 ELSE 0
          /\ \A i \in 1..(n - 1 + 1) : q[i] = msgs[1 + i - 1]
      BY <1>1, <3>1, SubSeqProperties
    <3> HIDE DEF q
    <3>3. Len(q) = n /\ DOMAIN q = 1..Len(q)
      BY <1>1, <3>2
    <3>4. QED
      BY <1>1, <3>2, <3>3
  <2> HIDE DEF q
  <2>2. ASSUME NEW s \in Seq(Seq(Byte)), Len(s) = N
        PROVE  SubSeq(s, 1, n) = [i \in 1..n |-> s[i]]
    <3> DEFINE p == SubSeq(s, 1, n)
    <3>1. \A i \in 1..n : s[i] \in Seq(Byte)
      BY <1>1, <2>2
    <3>2. /\ p \in Seq(Seq(Byte)) /\ Len(p) = IF 1 <= n THEN n - 1 + 1 ELSE 0
          /\ \A i \in 1..(n - 1 + 1) : p[i] = s[1 + i - 1]
      BY <1>1, <3>1, SubSeqProperties
    <3> HIDE DEF p
    <3>3. Len(p) = n /\ p \in [1..n -> Seq(Byte)]
      BY <1>1, <3>2
    <3>4. \A i \in 1..n : p[i] = s[i]
      BY <1>1, <3>2
    <3>5. p = [i \in 1..n |-> s[i]]
      BY <3>3, <3>4
    <3>6. QED
      BY <3>5 DEF p
  <2>3. FramedSeq(q) = SubSeq(fs, 1, n) /\ PayloadSeq(q) = SubSeq(ps, 1, n)
    <3>1. FramedSeq(q) = [i \in 1..n |-> Framed(msgs[i])]
      BY <2>1 DEF FramedSeq
    <3>2. PayloadSeq(q) = [i \in 1..n |-> msgs[i].payload]
      BY <2>1 DEF PayloadSeq
    <3>3. \A i \in 1..n : i \in 1..N
      BY <1>1
    <3>4. QED
      BY <1>3, <1>5, <2>2, <3>1, <3>2, <3>3
  <2>4. Frames(q) = Upto(fs)[n] /\ Payloads(q) = Upto(ps)[n]
    BY <1>5, <2>3, ConcatPrefix DEF Frames, Payloads, FramedSeq, PayloadSeq
  <2>5. QED
    BY <2>4 DEF q, Wired, Plain, fs, ps
<1>8. /\ Wired(msgs, 0) = <<>> /\ Plain(msgs, 0) = <<>>
      /\ \A n \in 0..N : Wired(msgs, n) \in Seq(Byte) /\ Plain(msgs, n) \in Seq(Byte)
  BY <1>6 DEF Follows, Wired, Plain, fs, ps
<1>9. \A n \in 1..N :
         /\ Wired(msgs, n) = Join(Wired(msgs, n - 1), Framed(msgs[n]))
         /\ Plain(msgs, n) = Join(Plain(msgs, n - 1), msgs[n].payload)
  <2>1. \A n \in 1..N : fs[n] = Framed(msgs[n]) /\ ps[n] = msgs[n].payload
    BY <1>3
  <2>2. QED
    BY <1>6, <2>1 DEF Follows, Wired, Plain, fs, ps
<1>10. QED
  BY <1>7, <1>8, <1>9 DEF N
(* What has been sent before is not changed by what is sent after it. *)
LEMMA WiredGrows ==
    ASSUME NEW msgs \in Seq(Message), NEW n \in 0..Len(msgs), NEW m \in n..Len(msgs)
    PROVE  /\ Len(Wired(msgs, n)) <= Len(Wired(msgs, m))
           /\ \A j \in 1..Len(Wired(msgs, n)) : Wired(msgs, m)[j] = Wired(msgs, n)[j]
<1> DEFINE N == Len(msgs)
           w(i) == Wired(msgs, i)
           Extends(i) == /\ Len(w(n)) <= Len(w(i))
                         /\ \A j \in 1..Len(w(n)) : w(i)[j] = w(n)[j]
           T == {i \in n..N : ~Extends(i)}
<1>1. N \in Nat /\ n \in 0..N /\ \A i \in 1..N : msgs[i] \in Message
  OBVIOUS
<1>2. \A i \in 0..N : w(i) \in Seq(Byte) /\ Len(w(i)) \in Nat
  BY MessagesUnfold
<1>3. T = {}
  <2>1. SUFFICES ASSUME T # {} PROVE FALSE
    OBVIOUS
  <2>2. T \in SUBSET Nat
    BY <1>1
  <2>3. PICK i \in T : \A k \in T : i <= k
    <3> HIDE DEF T
    <3>1. QED
      BY <2>1, <2>2, LeastElement
  <2>4. i # n
    BY <1>1, <1>2, <2>3
  <2>5. i \in 1..N /\ i - 1 \in n..N /\ i - 1 \in 0..N /\ ~(i <= i - 1)
    BY <1>1, <2>3, <2>4
  <2>6. Extends(i - 1)
    BY <2>3, <2>5
  <2> HIDE DEF N
  <2>7. w(i) = w(i - 1) \o Framed(msgs[i])
    BY <2>5, MessagesUnfold DEF N, Join
  <2>8. /\ Framed(msgs[i]) \in Seq(Byte) /\ Len(Framed(msgs[i])) \in Nat
        /\ w(i - 1) \in Seq(Byte) /\ Len(w(i - 1)) \in Nat /\ Len(w(n)) \in Nat
    BY <1>1, <1>2, <2>5, FramedLayout, SMTT(40)
  <2> HIDE DEF w
  <2>9. /\ Len(w(i)) = Len(w(i - 1)) + Len(Framed(msgs[i]))
        /\ \A j \in 1..Len(w(i - 1)) + Len(Framed(msgs[i])) :
              w(i)[j] = IF j <= Len(w(i - 1)) THEN w(i - 1)[j] ELSE Framed(msgs[i])[j - Len(w(i - 1))]
    BY <2>7, <2>8, ConcatProperties
  <2>10. \A j \in 1..Len(w(n)) : j \in 1..Len(w(i - 1)) + Len(Framed(msgs[i])) /\ j <= Len(w(i - 1))
    BY <2>6, <2>8
  <2>11. Extends(i)
    BY <2>6, <2>8, <2>9, <2>10
  <2>12. QED
    BY <2>3, <2>11
<1>4. Extends(m)
  BY <1>3
<1>5. QED
  BY <1>4

LEMMA FramesType ==
    ASSUME NEW msgs \in Seq(Message)
    PROVE  /\ Len(msgs) \in Nat
           /\ Frames(msgs) = Wired(msgs, Len(msgs))
           /\ Frames(msgs) \in Seq(Byte)
<1>1. Len(msgs) \in Nat /\ Len(msgs) \in 0..Len(msgs)
  OBVIOUS
<1>2. SubSeq(msgs, 1, Len(msgs)) = msgs
  BY SubSeqFull
<1>3. QED
  BY <1>1, <1>2, MessagesUnfold

-----------------------------------------------------------------------------
(* decode_grpc_frames *)

Decoded == [ok : BOOLEAN, out : Seq(Byte)]

(* The body of the loop, and the recursive function it stands for. *)
Unread(data, offset) == SubSeq(data, offset + 1, Len(data))
Step(f, data, offset) ==
    LET first == FirstFrame(Unread(data, offset))
        rest == f[offset + first.end]
    IN CASE offset = Len(data) -> [ok |-> TRUE, out |-> <<>>]
         [] offset < Len(data) /\ ~first.ok -> Malformed
         [] OTHER -> IF rest.ok THEN [ok |-> TRUE, out |-> first.out \o rest.out] ELSE Malformed
DecodedFrom(data) == CHOOSE f : f = [offset \in 0..Len(data) |-> Step(f, data, offset)]

LEMMA DecodeIsFrom == \A data : decode_grpc_frames(data) = DecodedFrom(data)[0]
  BY DEF decode_grpc_frames, DecodedFrom, Step, Unread

(* A frame that is accepted lies within the data and is not empty. *)
LEMMA FirstFrameType ==
    ASSUME NEW data \in Seq(Byte)
    PROVE  \/ FirstFrame(data) = Malformed
           \/ /\ FirstFrame(data).ok = TRUE
              /\ FirstFrame(data).end \in Nat
              /\ HeaderLen <= FirstFrame(data).end /\ FirstFrame(data).end <= Len(data)
              /\ FirstFrame(data).out = SubSeq(data, HeaderLen + 1, FirstFrame(data).end)
              /\ FirstFrame(data).out \in Seq(Byte)
              /\ HeaderLen <= Len(data) /\ data[1] = 0
              /\ FirstFrame(data).end = HeaderLen + FromBeBytes(SubSeq(data, 2, HeaderLen))
<1> DEFINE size == SubSeq(data, 2, HeaderLen)
           end == HeaderLen + FromBeBytes(size)
           bad == Len(data) < HeaderLen \/ data[1] # 0 \/ end > Len(data)
<1>1. FirstFrame(data) = IF bad THEN Malformed
                         ELSE [ok |-> TRUE, out |-> SubSeq(data, HeaderLen + 1, end), end |-> end]
  BY DEF FirstFrame
<1>2. CASE bad
  BY <1>1, <1>2
<1>3. CASE ~bad
  <2>1. Len(data) \in Nat /\ 5 <= Len(data)
    BY <1>3 DEF HeaderLen
  <2>2. FromBeBytes(size) \in Nat
    <3>1. \A i \in 2..5 : data[i] \in Byte
      BY <2>1, ElementOfSeq
    <3>2. size \in Seq(Byte) /\ Len(size) = 4
      BY <3>1, SubSeqProperties DEF HeaderLen
    <3> HIDE DEF size
    <3>3. size[1] \in Byte /\ size[2] \in Byte /\ size[3] \in Byte /\ size[4] \in Byte
      <4>1. 1 \in 1..Len(size) /\ 2 \in 1..Len(size) /\ 3 \in 1..Len(size) /\ 4 \in 1..Len(size)
        BY <3>2
      <4>2. QED
        BY <3>2, <4>1, ElementOfSeq
    <3>4. \A x \in Byte : x \in Nat
      BY DEF Byte
    <3>5. size[1] \in Nat /\ size[2] \in Nat /\ size[3] \in Nat /\ size[4] \in Nat
      BY <3>3, <3>4
    <3>6. size[1] * 256 + size[2] \in Nat
      BY <3>5
    <3>7. (size[1] * 256 + size[2]) * 256 + size[3] \in Nat
      BY <3>5, <3>6, SMTT(40)
    <3>8. ((size[1] * 256 + size[2]) * 256 + size[3]) * 256 + size[4] \in Nat
      BY <3>5, <3>7, SMTT(40)
    <3>9. QED
      BY <3>8 DEF FromBeBytes
  <2> HIDE DEF size
  <2>3. end \in Nat /\ 5 <= end /\ end <= Len(data)
    BY <1>3, <2>1, <2>2 DEF HeaderLen
  <2>4. data[1] = 0
    BY <1>3
  <2>5. SubSeq(data, HeaderLen + 1, end) \in Seq(Byte)
    <3> HIDE DEF end
    <3>1. \A i \in 6..end : data[i] \in Byte
      BY <2>1, <2>3, ElementOfSeq
    <3>2. QED
      BY <2>3, <3>1, SubSeqProperties DEF HeaderLen
  <2>6. FirstFrame(data) = [ok |-> TRUE, out |-> SubSeq(data, HeaderLen + 1, end), end |-> end]
    BY <1>1, <1>3
  <2>7. end = HeaderLen + FromBeBytes(SubSeq(data, 2, HeaderLen))
    BY DEF size
  <2> HIDE DEF end
  <2>8. QED
    BY <2>1, <2>3, <2>4, <2>5, <2>6, <2>7 DEF HeaderLen
<1>4. QED
  BY <1>2, <1>3
(* One round of the loop looks at later offsets only, and has its type     *)
(* from theirs.                                                            *)
LEMMA StepLocal ==
    ASSUME NEW data \in Seq(Byte), NEW offset \in 0..Len(data), NEW f,
           \A p \in (offset + 1)..Len(data) : f[p] \in Decoded
    PROVE  /\ Step(f, data, offset) \in Decoded
           /\ \A g : (\A p \in (offset + 1)..Len(data) : g[p] = f[p])
                       => Step(g, data, offset) = Step(f, data, offset)
<1> DEFINE N == Len(data)
           d == Unread(data, offset)
           first == FirstFrame(d)
<1>1. N \in Nat /\ offset \in 0..N
  OBVIOUS
<1>2. <<>> \in Seq(Byte) /\ [ok |-> TRUE, out |-> <<>>] \in Decoded /\ Malformed \in Decoded
  BY DEF Decoded, Malformed
<1>3. CASE offset = N
  <2>1. \A h : Step(h, data, offset) = [ok |-> TRUE, out |-> <<>>]
    BY <1>3 DEF Step
  <2>2. QED
    BY <1>2, <2>1
<1>4. CASE offset # N
  <2>1. offset < N
    BY <1>1, <1>4
  <2>2. d \in Seq(Byte) /\ Len(d) = N - offset
    <3>1. \A i \in (offset + 1)..N : data[i] \in Byte
      BY <1>1, ElementOfSeq
    <3>2. /\ d \in Seq(Byte)
          /\ Len(d) = IF offset + 1 <= N THEN N - (offset + 1) + 1 ELSE 0
      BY <1>1, <3>1, SubSeqProperties DEF Unread
    <3> HIDE DEF d
    <3>3. QED
      BY <1>1, <2>1, <3>2
  <2> HIDE DEF N, d
  <2>3. CASE first = Malformed
    <3>1. ~first.ok
      BY <2>3 DEF Malformed
    <3>2. \A h : Step(h, data, offset) = Malformed
      BY <1>4, <2>1, <3>1 DEF Step, N, d
    <3>3. QED
      BY <1>2, <3>2
  <2>4. CASE first # Malformed
    <3>1. /\ first.ok = TRUE /\ first.end \in Nat /\ 5 <= first.end
          /\ first.end <= Len(d) /\ first.out \in Seq(Byte)
      BY <2>2, <2>4, FirstFrameType DEF HeaderLen
    <3> DEFINE next == offset + first.end
    <3> HIDE DEF first
    <3>2. next \in (offset + 1)..N
      BY <1>1, <2>2, <3>1
    <3>3. \A h : Step(h, data, offset) =
                   IF h[next].ok THEN [ok |-> TRUE, out |-> first.out \o h[next].out] ELSE Malformed
      BY <1>4, <3>1 DEF Step, N, d, first
    <3> HIDE DEF next
    <3>4. f[next] \in Decoded
      BY <3>2 DEF N
    <3>5. first.out \o f[next].out \in Seq(Byte)
      BY <3>1, <3>4, ConcatProperties DEF Decoded
    <3>6. Step(f, data, offset) \in Decoded
      <4>1. [ok |-> TRUE, out |-> first.out \o f[next].out] \in Decoded
        BY <3>5 DEF Decoded
      <4>2. QED
        BY <1>2, <3>3, <4>1
    <3>7. ASSUME NEW g, \A p \in (offset + 1)..Len(data) : g[p] = f[p]
          PROVE  Step(g, data, offset) = Step(f, data, offset)
      <4>1. g[next] = f[next]
        BY <3>2, <3>7 DEF N
      <4>2. QED
        BY <3>3, <4>1
    <3>8. QED
      BY <3>6, <3>7
  <2>5. QED
    BY <2>3, <2>4
<1>5. QED
  BY <1>3, <1>4

LEMMA FromExists ==
    ASSUME NEW data \in Seq(Byte)
    PROVE  \E f \in [0..Len(data) -> Decoded] :
              \A offset \in 0..Len(data) : f[offset] = Step(f, data, offset)
<1> DEFINE N == Len(data)
           F == [0..N -> Decoded]
           Solves(f, k) == \A offset \in (N - k)..N : f[offset] = Step(f, data, offset)
           T == {k \in 0..N : ~ \E f \in F : Solves(f, k)}
<1>1. N \in Nat
  OBVIOUS
<1> HIDE DEF N
<1>2. Malformed \in Decoded
  BY DEF Decoded, Malformed
<1>3. ASSUME NEW k \in 0..N, NEW f \in F, \A offset \in (N - k + 1)..N : f[offset] = Step(f, data, offset)
      PROVE  \E g \in F : Solves(g, k)
  <2> DEFINE o == N - k
             g == [f EXCEPT ![o] = Step(f, data, o)]
  <2>1. o \in 0..N /\ o + 1 = N - k + 1
    BY <1>1
  <2> HIDE DEF o
  <2>2. \A p \in (o + 1)..N : f[p] \in Decoded
    BY <1>1, <2>1
  <2>3. Step(f, data, o) \in Decoded
    BY <2>1, <2>2, StepLocal DEF N
  <2>4. g \in F /\ g[o] = Step(f, data, o) /\ \A p \in 0..N : p # o => g[p] = f[p]
    BY <2>1, <2>3
  <2> HIDE DEF g
  <2>5. \A p \in (o + 1)..N : g[p] = f[p] /\ p \in 0..N
    BY <1>1, <2>1, <2>4
  <2>6. ASSUME NEW p \in o..N PROVE g[p] = Step(g, data, p)
    <3>1. p \in 0..N
      BY <1>1, <2>1
    <3>2. \A q \in (p + 1)..N : q \in (o + 1)..N
      BY <1>1, <2>1
    <3>3. \A q \in (p + 1)..N : f[q] \in Decoded /\ g[q] = f[q]
      BY <2>2, <2>5, <3>2
    <3>4. Step(g, data, p) = Step(f, data, p)
      BY <3>1, <3>3, StepLocal DEF N
    <3>5. CASE p = o
      BY <2>4, <3>4, <3>5
    <3>6. CASE p # o
      <4>1. p \in (o + 1)..N
        BY <1>1, <2>1, <3>6
      <4>2. QED
        BY <1>3, <2>1, <2>5, <3>4, <4>1
    <3>7. QED
      BY <3>5, <3>6
  <2>7. Solves(g, k)
    BY <2>6 DEF o
  <2>8. QED
    BY <2>4, <2>7
<1>4. T = {}
  <2>1. SUFFICES ASSUME T # {} PROVE FALSE
    OBVIOUS
  <2>2. T \in SUBSET Nat
    BY <1>1
  <2>3. PICK k \in T : \A j \in T : k <= j
    <3> HIDE DEF T
    <3>1. QED
      BY <2>1, <2>2, LeastElement
  <2>4. k \in 0..N /\ ~ \E f \in F : Solves(f, k)
    BY <2>3
  <2>5. CASE k = 0
    <3> DEFINE f0 == [p \in 0..N |-> Malformed]
    <3>1. f0 \in F
      BY <1>2
    <3> HIDE DEF f0
    <3>2. \A offset \in (N - k + 1)..N : f0[offset] = Step(f0, data, offset)
      BY <1>1, <2>5
    <3> HIDE DEF F, Solves
    <3>3. QED
      BY <1>3, <2>4, <3>1, <3>2
  <2>6. CASE k # 0
    <3>1. k - 1 \in 0..N /\ ~(k <= k - 1) /\ N - (k - 1) = N - k + 1
      BY <1>1, <2>4, <2>6
    <3>2. k - 1 \notin T
      BY <2>3, <3>1
    <3>3. PICK f \in F : Solves(f, k - 1)
      BY <3>1, <3>2
    <3>4. \A offset \in (N - k + 1)..N : f[offset] = Step(f, data, offset)
      BY <3>1, <3>3
    <3> HIDE DEF F, Solves
    <3>5. QED
      BY <1>3, <2>4, <3>4
  <2>7. QED
    BY <2>5, <2>6
<1>5. PICK f \in F : Solves(f, N)
  <2>1. N \in 0..N
    BY <1>1
  <2> HIDE DEF F, Solves
  <2>2. QED
    BY <1>4, <2>1
<1>6. N - N = 0
  BY <1>1
<1>7. QED
  BY <1>5, <1>6 DEF N

(* decode_grpc_frames does what its loop says. *)
LEMMA FromDef ==
    ASSUME NEW data \in Seq(Byte)
    PROVE  /\ DecodedFrom(data) \in [0..Len(data) -> Decoded]
           /\ \A offset \in 0..Len(data) : DecodedFrom(data)[offset] = Step(DecodedFrom(data), data, offset)
<1> DEFINE N == Len(data)
           Body(f) == [offset \in 0..N |-> Step(f, data, offset)]
           u == DecodedFrom(data)
<1>1. N \in Nat
  OBVIOUS
<1>2. PICK f \in [0..N -> Decoded] : \A offset \in 0..N : f[offset] = Step(f, data, offset)
  BY FromExists
<1> HIDE DEF N
<1>3. f = Body(f)
  BY <1>2
<1>4. u = CHOOSE h : h = Body(h)
  BY DEF DecodedFrom, N
<1>5. u = Body(u)
  BY <1>3, <1>4
<1> HIDE DEF u
<1>6. DOMAIN u = 0..N /\ \A offset \in 0..N : u[offset] = Step(u, data, offset)
  BY <1>5
<1> DEFINE T == {k \in 0..N : u[N - k] \notin Decoded}
<1>7. T = {}
  <2>1. SUFFICES ASSUME T # {} PROVE FALSE
    OBVIOUS
  <2>2. T \in SUBSET Nat
    BY <1>1
  <2>3. PICK k \in T : \A j \in T : k <= j
    <3> HIDE DEF T
    <3>1. QED
      BY <2>1, <2>2, LeastElement
  <2>4. ASSUME NEW p \in (N - k + 1)..N PROVE u[p] \in Decoded
    <3>1. N - p \in 0..N /\ ~(k <= N - p) /\ N - (N - p) = p
      BY <1>1, <2>3
    <3>2. N - p \notin T
      BY <2>3, <3>1
    <3>3. QED
      BY <3>1, <3>2
  <2>5. N - k \in 0..N
    BY <1>1, <2>3
  <2>6. Step(u, data, N - k) \in Decoded
    BY <2>4, <2>5, StepLocal DEF N
  <2>7. QED
    BY <1>6, <2>3, <2>5, <2>6
<1>8. \A offset \in 0..N : u[offset] \in Decoded
  <2> SUFFICES ASSUME NEW o \in 0..N PROVE u[o] \in Decoded
    OBVIOUS
  <2>1. N - o \in 0..N /\ N - (N - o) = o
    BY <1>1
  <2>2. QED
    BY <1>7, <2>1
<1>9. u \in [0..N -> Decoded]
  BY <1>5, <1>8
<1>10. QED
  BY <1>6, <1>9 DEF u, N

LEMMA DecodeType ==
    ASSUME NEW data \in Seq(Byte)
    PROVE  decode_grpc_frames(data) \in Decoded
<1>1. 0 \in 0..Len(data)
  OBVIOUS
<1>2. QED
  BY <1>1, DecodeIsFrom, FromDef
-----------------------------------------------------------------------------
(***************************************************************************)
(* The decoder is right about every answer, whole or cut off anywhere:     *)
(* what it accepts is a number of whole, uncompressed frames, and what it  *)
(* returns is their payloads.  The induction is over the messages that are *)
(* left, from the last to the first: Reads is what the loop has found when *)
(* it stands between message i and the next one.                           *)
(***************************************************************************)
Reads(msgs, data, i) ==
    LET here == DecodedFrom(data)[Len(Wired(msgs, i))]
    IN Len(Wired(msgs, i)) <= Len(data) /\ here.ok =>
           \E n \in i..Len(msgs) :
               /\ Len(data) = Len(Wired(msgs, n))
               /\ \A j \in (i + 1)..n : msgs[j].flag = 0
               /\ Plain(msgs, n) = Join(Plain(msgs, i), here.out)

(* One round of the loop, standing between message i - 1 and message i. *)
LEMMA RoundReads ==
    ASSUME NEW msgs \in Seq(Message), NEW L \in 0..Len(Frames(msgs)),
           NEW data, data = SubSeq(Frames(msgs), 1, L),
           NEW i \in 1..Len(msgs), Reads(msgs, data, i)
    PROVE  Reads(msgs, data, i - 1)
<1> DEFINE N == Len(msgs)
           w(k) == Wired(msgs, k)
           o == Len(w(i - 1))
           m == msgs[i]
           fm == Framed(m)
           y == m.payload
           here == DecodedFrom(data)[o]
<1>1. /\ N \in Nat /\ i \in 1..N /\ i - 1 \in 0..N /\ i \in 0..N /\ N \in i..N /\ N \in 0..N
      /\ m \in Message
  OBVIOUS
<1>2. /\ Frames(msgs) = w(N) /\ w(N) \in Seq(Byte) /\ Len(w(N)) \in Nat /\ L \in 0..Len(w(N))
  BY FramesType
<1> HIDE DEF N, w, o, m, fm, y, here
<1>3. /\ data \in Seq(Byte) /\ Len(data) = L /\ \A j \in 1..L : data[j] = w(N)[j]
  <2>1. \A j \in 1..L : w(N)[j] \in Byte
    BY <1>2, ElementOfSeq
  <2>2. /\ data \in Seq(Byte) /\ Len(data) = IF 1 <= L THEN L - 1 + 1 ELSE 0
        /\ \A j \in 1..(L - 1 + 1) : data[j] = w(N)[1 + j - 1]
    BY <1>2, <2>1, SubSeqProperties
  <2>3. QED
    BY <1>2, <2>2
<1>4. /\ w(i) = Join(w(i - 1), fm) /\ Plain(msgs, i) = Join(Plain(msgs, i - 1), y)
      /\ w(i - 1) \in Seq(Byte) /\ w(i) \in Seq(Byte) /\ Plain(msgs, i - 1) \in Seq(Byte)
      /\ o \in Nat
  BY <1>1, MessagesUnfold DEF N, w, o, m, fm, y
<1>5. /\ fm \in Seq(Byte) /\ Len(fm) = 5 + Len(y) /\ y \in Seq(Byte)
      /\ m.flag \in {0, 1} /\ fm[1] = m.flag
      /\ \A k \in 1..4 : fm[1 + k] = ToBeBytes(Len(y))[k]
      /\ \A k \in 1..Len(y) : fm[5 + k] = y[k]
      /\ Len(y) \in Nat /\ Len(fm) \in Nat
  <2>1. y \in Seq(Byte) /\ Len(y) \in Nat
    BY <1>1, FramedLayout DEF y
  <2>2. /\ fm \in Seq(Byte) /\ Len(fm) = 5 + Len(y) /\ m.flag \in {0, 1} /\ fm[1] = m.flag
    BY <1>1, FramedLayout, SMTT(40) DEF HeaderLen, fm, y
  <2>3. \A k \in 1..4 : fm[1 + k] = ToBeBytes(Len(y))[k]
    BY <1>1, FramedLayout, SMTT(40) DEF HeaderLen, fm, y
  <2>4. \A k \in 1..Len(y) : fm[5 + k] = y[k]
    BY <1>1, FramedLayout, SMTT(40) DEF HeaderLen, fm, y
  <2>5. Len(fm) \in Nat
    BY <2>1, <2>2
  <2>6. QED
    BY <2>1, <2>2, <2>3, <2>4, <2>5
<1>5a. o \in Nat /\ Len(fm) \in Nat /\ Len(y) \in Nat /\ Len(fm) = 5 + Len(y)
  BY <1>4, <1>5
<1>6. /\ Len(w(i)) = o + Len(fm)
      /\ \A k \in 1..Len(fm) : w(i)[o + k] = fm[k]
  <2>1. /\ Len(w(i)) = o + Len(fm)
        /\ \A j \in 1..(o + Len(fm)) : w(i)[j] = IF j <= o THEN w(i - 1)[j] ELSE fm[j - o]
    <3>1. w(i) = w(i - 1) \o fm
      BY <1>4 DEF Join
    <3>2. fm \in Seq(Byte) /\ w(i - 1) \in Seq(Byte)
      BY <1>4, <1>5
    <3> DEFINE v == w(i - 1)
    <3>3. v \in Seq(Byte) /\ w(i) = v \o fm /\ o = Len(v)
      BY <3>1, <3>2 DEF o
    <3> HIDE DEF v
    <3>4. /\ Len(v \o fm) = Len(v) + Len(fm)
          /\ \A j \in 1..(Len(v) + Len(fm)) :
                (v \o fm)[j] = IF j <= Len(v) THEN v[j] ELSE fm[j - Len(v)]
      BY <3>2, <3>3, ConcatProperties
    <3>5. QED
      BY <3>3, <3>4 DEF v
  <2>2. \A k \in 1..Len(fm) : o + k \in 1..(o + Len(fm)) /\ ~(o + k <= o) /\ (o + k) - o = k
    BY <1>5a
  <2>3. QED
    BY <2>1, <2>2
<1>7. /\ o <= Len(w(N)) /\ Len(w(i)) <= Len(w(N))
      /\ \A k \in 1..Len(fm) : w(N)[o + k] = fm[k]
  <2>1. Len(w(i)) <= Len(w(N)) /\ \A j \in 1..Len(w(i)) : w(N)[j] = w(i)[j]
    BY <1>1, WiredGrows DEF N, w
  <2>2. \A k \in 1..Len(fm) : o + k \in 1..Len(w(i))
    <3>1. Len(w(i)) = o + Len(fm)
      BY <1>6
    <3>2. QED
      BY <1>5a, <3>1
  <2>3. QED
    <3>1. Len(w(i)) = o + Len(fm) /\ Len(w(N)) \in Nat
      BY <1>2, <1>6
    <3>2. o <= Len(w(N))
      BY <1>5a, <2>1, <3>1
    <3>3. QED
      BY <1>6, <2>1, <2>2, <3>2
<1> SUFFICES ASSUME o <= L, here.ok
             PROVE  \E n \in (i - 1)..N :
                       /\ L = Len(w(n))
                       /\ \A j \in ((i - 1) + 1)..n : msgs[j].flag = 0
                       /\ Plain(msgs, n) = Join(Plain(msgs, i - 1), here.out)
  BY <1>3 DEF Reads, N, w, o, here
<1>8. /\ DecodedFrom(data) \in [0..L -> Decoded]
      /\ here = Step(DecodedFrom(data), data, o) /\ here \in Decoded
  <2>1. o \in 0..L
    BY <1>2, <1>4
  <2>2. QED
    BY <1>3, <2>1, FromDef DEF here
<1>9. CASE o = L
  <2>1. here.out = <<>>
    BY <1>3, <1>8, <1>9 DEF Step
  <2>2. Plain(msgs, i - 1) = Join(Plain(msgs, i - 1), <<>>)
    BY <1>4, ConcatEmptySeq DEF Join
  <2>3. i - 1 \in (i - 1)..N /\ ((i - 1) + 1)..(i - 1) = {}
    BY <1>1
  <2>4. QED
    BY <1>9, <2>1, <2>2, <2>3 DEF o
<1>10. CASE o # L
  <2> DEFINE d == Unread(data, o)
             first == FirstFrame(d)
             size == SubSeq(d, 2, HeaderLen)
  <2>1. o < L /\ L \in Nat
    BY <1>2, <1>4, <1>10
  <2>2. d \in Seq(Byte) /\ Len(d) = L - o /\ \A k \in 1..(L - o) : d[k] = data[o + k]
    <3>1. \A j \in (o + 1)..L : data[j] \in Byte
      BY <1>2, <1>3, <1>4, ElementOfSeq, SMTT(40)
    <3>2. /\ d \in Seq(Byte) /\ Len(d) = IF o + 1 <= L THEN L - (o + 1) + 1 ELSE 0
          /\ \A k \in 1..(L - (o + 1) + 1) : d[k] = data[(o + 1) + k - 1]
      BY <1>3, <1>4, <2>1, <3>1, SubSeqProperties DEF Unread
    <3> HIDE DEF d
    <3>3. \A k \in 1..(L - o) : (o + 1) + k - 1 = o + k
      BY <1>4, <2>1
    <3>4. L - (o + 1) + 1 = L - o
      BY <1>4, <2>1
    <3>5. QED
      BY <1>4, <2>1, <3>2, <3>3, <3>4
  <2> HIDE DEF d
  <2>3. \A k \in 1..Len(fm) : k <= Len(d) => d[k] = fm[k]
    <3> SUFFICES ASSUME NEW k \in 1..Len(fm), k <= Len(d) PROVE d[k] = fm[k]
      OBVIOUS
    <3>1. k \in 1..(L - o) /\ o + k \in 1..L
      BY <1>4, <1>5, <2>1, <2>2
    <3>2. QED
      BY <1>3, <1>7, <2>2, <3>1
  <2>4. first # Malformed
    <3>1. SUFFICES ASSUME first = Malformed PROVE FALSE
      OBVIOUS
    <3>2. ~first.ok
      BY <3>1 DEF Malformed
    <3>3. here = Malformed
      BY <1>3, <1>8, <1>10, <2>1, <3>2 DEF Step, d
    <3>4. QED
      BY <3>3 DEF Malformed
  <2>5. /\ first.ok = TRUE /\ first.end \in Nat /\ 5 <= first.end /\ first.end <= Len(d)
        /\ first.out = SubSeq(d, 6, first.end) /\ first.out \in Seq(Byte)
        /\ 5 <= Len(d) /\ d[1] = 0 /\ first.end = 5 + FromBeBytes(size)
    <3>1. HeaderLen = 5 /\ HeaderLen + 1 = 6
      BY DEF HeaderLen
    <3>2. QED
      BY <2>2, <2>4, <3>1, FirstFrameType
  <2>5a. Len(d) \in Nat /\ Len(d) = L - o /\ 5 <= Len(d) /\ first.end \in Nat /\ first.end <= Len(d) /\ 5 <= first.end
    BY <2>2, <2>5
  <2>6. m.flag = 0
    <3>1. 1 \in 1..Len(fm) /\ 1 <= Len(d)
      BY <1>5a, <2>5a
    <3>2. QED
      BY <1>5, <2>3, <2>5, <3>1
  <2>7. first.end = 5 + Len(y)
    <3> DEFINE b == ToBeBytes(Len(y))
    <3>1. size[1] = b[1] /\ size[2] = b[2] /\ size[3] = b[3] /\ size[4] = b[4]
      <4>1. \A k \in 2..5 : k \in 1..Len(fm) /\ k <= Len(d) /\ k \in 1..Len(d)
        BY <1>5a, <2>5a
      <4>2. \A k \in 2..5 : d[k] \in Byte /\ d[k] = fm[k]
        BY <2>2, <2>3, <4>1, ElementOfSeq
      <4>3. \A k \in 1..(5 - 2 + 1) : size[k] = d[2 + k - 1]
        BY <4>2, SubSeqProperties DEF HeaderLen
      <4> HIDE DEF size
      <4>4. size[1] = d[2] /\ size[2] = d[3] /\ size[3] = d[4] /\ size[4] = d[5]
        BY <4>3
      <4>5. fm[2] = b[1] /\ fm[3] = b[2] /\ fm[4] = b[3] /\ fm[5] = b[4]
        <5> HIDE DEF b
        <5>1. \A k \in 1..4 : fm[1 + k] = b[k]
          BY <1>5 DEF b
        <5>2. fm[1 + 1] = b[1] /\ fm[1 + 2] = b[2] /\ fm[1 + 3] = b[3] /\ fm[1 + 4] = b[4]
          BY <5>1
        <5>3. QED
          BY <5>2
      <4> HIDE DEF b
      <4>6. d[2] = fm[2] /\ d[3] = fm[3] /\ d[4] = fm[4] /\ d[5] = fm[5]
        BY <4>2
      <4>7. QED
        BY <4>4, <4>5, <4>6
    <3> HIDE DEF size, b
    <3>2. FromBeBytes(size) = FromBeBytes(b)
      BY <3>1 DEF FromBeBytes
    <3>3. ((Len(y) \div 256) \div 256) \div 256 < 256
      BY <1>1 DEF Message, y
    <3>4. FromBeBytes(b) = Len(y)
      BY <1>5, <3>3, BeBytes DEF b
    <3>5. QED
      BY <2>5, <3>2, <3>4
  <2>8. o + first.end = Len(w(i)) /\ Len(w(i)) <= L /\ first.end = Len(fm)
    <3>0. Len(w(i)) = o + Len(fm)
      BY <1>6
    <3> HIDE DEF first
    <3>1. QED
      BY <1>5a, <2>1, <2>5a, <2>7, <3>0
  <2>9. first.out = y
    <3> DEFINE out == first.out
    <3>1. \A k \in 6..first.end : k \in 1..Len(d)
      BY <1>4, <2>1, <2>2, <2>5, SMTT(40)
    <3>2. \A k \in 6..first.end : d[k] \in Byte
      BY <2>2, <3>1, ElementOfSeq
    <3> HIDE DEF first
    <3>3. /\ out \in Seq(Byte)
          /\ Len(out) = IF 6 <= first.end THEN first.end - 6 + 1 ELSE 0
          /\ \A k \in 1..(first.end - 6 + 1) : out[k] = d[6 + k - 1]
      BY <2>5, <3>2, SubSeqProperties, SMTT(40)
    <3>4. Len(out) = Len(y)
      BY <1>5a, <2>5a, <2>7, <3>3
    <3>5. ASSUME NEW k \in 1..Len(y) PROVE out[k] = y[k]
      <4>1. /\ k \in 1..(first.end - 6 + 1) /\ 6 + k - 1 = 5 + k
            /\ 5 + k \in 1..Len(fm) /\ 5 + k <= Len(d)
        BY <1>5a, <2>5a, <2>7, <2>8
      <4>2. QED
        <5>1. out[k] = d[5 + k]
          BY <3>3, <4>1
        <5>2. d[5 + k] = fm[5 + k]
          BY <2>3, <4>1
        <5>3. fm[5 + k] = y[k]
          BY <1>5
        <5>4. QED
          BY <5>1, <5>2, <5>3
    <3> HIDE DEF out
    <3>6. out = y
      BY <1>5, <3>3, <3>4, <3>5, SeqEqual, SMTT(40)
    <3>7. QED
      BY <3>6 DEF out
  <2> DEFINE rest == DecodedFrom(data)[Len(w(i))]
  <2>10. rest.ok /\ here.out = first.out \o rest.out
    <3>1. here = IF rest.ok THEN [ok |-> TRUE, out |-> first.out \o rest.out] ELSE Malformed
      BY <1>3, <1>8, <1>10, <2>1, <2>5, <2>8 DEF Step, d
    <3> HIDE DEF rest, first
    <3>2. rest.ok
      BY <3>1 DEF Malformed
    <3>3. QED
      BY <3>1, <3>2
  <2>11. rest \in Decoded
    BY <1>4, <1>8, <2>1, <2>8
  <2>12. PICK n \in i..N :
           /\ L = Len(w(n))
           /\ \A j \in (i + 1)..n : msgs[j].flag = 0
           /\ Plain(msgs, n) = Join(Plain(msgs, i), rest.out)
    BY <1>3, <2>8, <2>10 DEF Reads, N, w
  <2> HIDE DEF rest, first
  <2>13. Plain(msgs, n) = Join(Plain(msgs, i - 1), here.out)
    <3>1. rest.out \in Seq(Byte)
      BY <2>11 DEF Decoded
    <3>2. Plain(msgs, n) = (Plain(msgs, i - 1) \o y) \o rest.out
      BY <1>4, <2>12 DEF Join
    <3>3. (Plain(msgs, i - 1) \o y) \o rest.out = Plain(msgs, i - 1) \o (y \o rest.out)
      <4> DEFINE p == Plain(msgs, i - 1)
                 z == rest.out
      <4>1. p \in Seq(Byte) /\ y \in Seq(Byte) /\ z \in Seq(Byte)
        BY <1>4, <1>5, <3>1
      <4> HIDE DEF p, z
      <4>2. (p \o y) \o z = p \o (y \o z)
        BY <4>1, ConcatAssociative, SMTT(40)
      <4>3. QED
        BY <4>2 DEF p, z
    <3>4. QED
      BY <2>9, <2>10, <3>2, <3>3 DEF Join
  <2>14. \A j \in ((i - 1) + 1)..n : msgs[j].flag = 0
    <3> SUFFICES ASSUME NEW j \in ((i - 1) + 1)..n PROVE msgs[j].flag = 0
      OBVIOUS
    <3>1. j = i \/ j \in (i + 1)..n
      BY <1>1
    <3>2. QED
      BY <2>6, <2>12, <3>1 DEF m
  <2>15. n \in (i - 1)..N
    BY <1>1
  <2>16. QED
    BY <2>12, <2>13, <2>14, <2>15
<1>11. QED
  BY <1>9, <1>10

-----------------------------------------------------------------------------
(* decode_grpc_frames accepts an answer, of which any number of bytes at   *)
(* the end may be missing, only if it is a sequence of whole frames whose  *)
(* messages are not compressed, and returns exactly their payloads.        *)
THEOREM DecodesWholeFrames ==
    ASSUME NEW msgs \in Seq(Message), NEW L \in 0..Len(Frames(msgs)),
           decode_grpc_frames(SubSeq(Frames(msgs), 1, L)).ok
    PROVE  \E n \in 0..Len(msgs) :
              /\ SubSeq(Frames(msgs), 1, L) = Frames(SubSeq(msgs, 1, n))
              /\ \A i \in 1..n : msgs[i].flag = 0
              /\ decode_grpc_frames(SubSeq(Frames(msgs), 1, L)).out = Payloads(SubSeq(msgs, 1, n))
<1> DEFINE N == Len(msgs)
           all == Frames(msgs)
           data == SubSeq(all, 1, L)
           T == {k \in 0..N : ~Reads(msgs, data, N - k)}
<1>1. N \in Nat /\ all = Wired(msgs, N) /\ all \in Seq(Byte) /\ Len(all) \in Nat
  BY FramesType
<1>2. /\ L \in 0..Len(all)
      /\ data \in Seq(Byte) /\ Len(data) = L /\ \A j \in 1..L : data[j] = all[j]
  <2> HIDE DEF all
  <2>1. L \in 0..Len(all)
    BY DEF all
  <2>2. \A j \in 1..L : all[j] \in Byte
    BY <1>1, <2>1, ElementOfSeq
  <2>3. /\ data \in Seq(Byte) /\ Len(data) = IF 1 <= L THEN L - 1 + 1 ELSE 0
        /\ \A j \in 1..(L - 1 + 1) : data[j] = all[1 + j - 1]
    BY <1>1, <2>1, <2>2, SubSeqProperties
  <2> HIDE DEF data
  <2>4. QED
    BY <1>1, <2>1, <2>3
<1> HIDE DEF data
<1>3. Reads(msgs, data, N)
  <2> SUFFICES ASSUME Len(Wired(msgs, N)) <= Len(data)
               PROVE  \E n \in N..N :
                        /\ Len(data) = Len(Wired(msgs, n))
                        /\ \A j \in (N + 1)..n : msgs[j].flag = 0
                        /\ Plain(msgs, n) =
                             Join(Plain(msgs, N), DecodedFrom(data)[Len(Wired(msgs, N))].out)
    BY DEF Reads
  <2>1. Len(Wired(msgs, N)) = L
    <3> HIDE DEF N, all
    <3>1. QED
      BY <1>1, <1>2
  <2>2. DecodedFrom(data)[L] = Step(DecodedFrom(data), data, L)
    BY <1>1, <1>2, FromDef
  <2>3. DecodedFrom(data)[L].out = <<>>
    BY <1>2, <2>2 DEF Step
  <2>4. N \in 0..N /\ N \in N..N /\ (N + 1)..N = {}
    BY <1>1
  <2>5. Plain(msgs, N) \in Seq(Byte)
    BY <2>4, MessagesUnfold
  <2>6. Plain(msgs, N) = Join(Plain(msgs, N), <<>>)
    BY <2>5, ConcatEmptySeq DEF Join
  <2> HIDE DEF N
  <2>7. QED
    BY <1>2, <2>1, <2>3, <2>4, <2>6
<1>4. T = {}
  <2>1. SUFFICES ASSUME T # {} PROVE FALSE
    OBVIOUS
  <2>2. T \in SUBSET Nat
    BY <1>1
  <2>3. PICK k \in T : \A j \in T : k <= j
    <3> HIDE DEF T
    <3>1. QED
      BY <2>1, <2>2, LeastElement
  <2> HIDE DEF N
  <2>4. k \in 0..N /\ ~Reads(msgs, data, N - k)
    BY <2>3
  <2>5. k # 0
    <3>1. N - 0 = N
      BY <1>1
    <3>2. QED
      BY <1>3, <2>4, <3>1
  <2>6. /\ k - 1 \in 0..N /\ ~(k <= k - 1)
        /\ N - (k - 1) \in 1..N /\ (N - (k - 1)) - 1 = N - k
    BY <1>1, <2>4, <2>5
  <2>7. Reads(msgs, data, N - (k - 1))
    BY <2>3, <2>6
  <2>8. Reads(msgs, data, (N - (k - 1)) - 1)
    BY <1>2, <2>6, <2>7, RoundReads DEF N, all, data
  <2>9. QED
    BY <2>4, <2>6, <2>8
<1>5. Reads(msgs, data, 0)
  <2>1. N \in 0..N /\ N - N = 0
    BY <1>1
  <2> HIDE DEF N
  <2>2. QED
    BY <1>4, <2>1
<1>6. /\ Wired(msgs, 0) = <<>> /\ Plain(msgs, 0) = <<>> /\ Len(<<>>) = 0
  BY MessagesUnfold
<1>7. decode_grpc_frames(data) = DecodedFrom(data)[0] /\ DecodedFrom(data)[0] \in Decoded
  BY <1>1, <1>2, DecodeIsFrom, FromDef
<1>8. PICK n \in 0..N :
        /\ L = Len(Wired(msgs, n))
        /\ \A j \in 1..n : msgs[j].flag = 0
        /\ Plain(msgs, n) = Join(<<>>, decode_grpc_frames(data).out)
  <2>1. DecodedFrom(data)[Len(Wired(msgs, 0))].ok
    BY <1>6, <1>7 DEF data
  <2>2. Len(Wired(msgs, 0)) <= Len(data)
    BY <1>1, <1>2, <1>6
  <2>3. PICK n \in 0..N :
          /\ Len(data) = Len(Wired(msgs, n))
          /\ \A j \in (0 + 1)..n : msgs[j].flag = 0
          /\ Plain(msgs, n) = Join(Plain(msgs, 0), DecodedFrom(data)[Len(Wired(msgs, 0))].out)
    BY <1>5, <2>1, <2>2 DEF Reads
  <2>4. QED
    BY <1>2, <1>6, <1>7, <2>3
<1>9. Payloads(SubSeq(msgs, 1, n)) = decode_grpc_frames(data).out
  <2>1. decode_grpc_frames(data).out \in Seq(Byte)
    BY <1>7 DEF Decoded
  <2>2. Join(<<>>, decode_grpc_frames(data).out) = decode_grpc_frames(data).out
    BY <2>1, ConcatEmptySeq DEF Join
  <2>3. QED
    BY <1>8, <2>2, MessagesUnfold
<1>10. data = Frames(SubSeq(msgs, 1, n))
  <2> DEFINE v == Wired(msgs, n)
  <2>1. v = Frames(SubSeq(msgs, 1, n)) /\ v \in Seq(Byte)
    BY MessagesUnfold
  <2>2. N \in n..N
    BY <1>1
  <2>3. \A j \in 1..Len(v) : all[j] = v[j]
    BY <1>1, <2>2, WiredGrows
  <2> HIDE DEF v, all
  <2>4. Len(v) = L
    BY <1>8 DEF v
  <2>5. \A j \in 1..L : data[j] = v[j]
    BY <1>2, <2>3, <2>4
  <2>6. data = v
    BY <1>2, <2>1, <2>4, <2>5, SeqEqual
  <2>7. QED
    BY <2>1, <2>6
<1>11. QED
  BY <1>8, <1>9, <1>10 DEF data

-----------------------------------------------------------------------------
(***************************************************************************)
(* The inductive invariant says, stage by stage, what a handler has        *)
(* already established about its request and what it has left behind.      *)
(***************************************************************************)

(* The request is one of a route that forwards it, and its body is in. *)
Proxied(r) == input[r].path = "route" /\ input[r].kind # "ws" /\ input[r].body = "fits"

(* What the guards passed so far have ruled out. *)
Guarded(r) ==
    /\ pc[r] \notin {"idle", "respond", "done", "dropped"} => ~RefusedByLayer(r)
    /\ pc[r] \in {"received", "body", "record"} => ~IsAdmin(r)
    /\ pc[r] = "body" => input[r].path = "route" /\ input[r].kind # "ws"
    /\ pc[r] = "chain" => IsAdmin(r) \/ Proxied(r)
    /\ pc[r] \in {"connect", "send"} => input[r].kind \in Zmq
    /\ pc[r] = "recv" => input[r].kind = "zmq_req"
    /\ pc[r] = "call" => input[r].kind \notin Zmq

(* The chain charges a request once, and every stage past it has paid. *)
Charges(r) ==
    /\ pc[r] \in {"idle", "received", "body", "chain"} => r \notin charged
    /\ pc[r] \in {"extract", "dispatch", "connect", "send", "recv", "call"} => r \in charged
    /\ pc[r] \in {"connect", "send", "recv", "call"} => ~IsAdmin(r) /\ Encodable(r)

(* The handler has yet to choose a status; it is over. *)
Working == {"received", "body", "chain", "extract", "dispatch", "connect", "send",
            "recv", "call"}
Settled == Answered \cup {"dropped"}

(* The record is made between the choice of the status and the answer. *)
Recorded(r) ==
    /\ pc[r] \notin Settled \cup {"finalize"} => records[r] = <<>>
    /\ pc[r] \in Answered \cup {"finalize"} =>
          records[r] = IF IsAdmin(r) \/ RefusedByLayer(r) THEN <<>> ELSE <<status[r]>>
    /\ records[r] = <<>> \/ records[r] = <<status[r]>>

(* 101 answers a well-formed upgrade of a WebSocket route, nothing else. *)
Upgraded(r) ==
    /\ status[r] = 101 =>
          /\ input[r].path = "route" /\ ~RefusedByLayer(r)
          /\ input[r].kind = "ws" /\ input[r].valid
    /\ pc[r] = "session" => status[r] = 101

Stages == \A r \in Requests : Guarded(r) /\ Charges(r) /\ Recorded(r) /\ Upgraded(r)

(* Only what is asked of charged requests, without the count. *)
ChargedAreAdmitted ==
    \A r \in charged : input[r].cred /\ ~RefusedByLayer(r) /\ (IsAdmin(r) \/ Proxied(r))

ChargedBy(k) == {r \in charged : input[r].client = k}
Accounted == \A k \in Clients : Limit - budget[k] <= Cardinality(ChargedBy(k))

Inv ==
    /\ TypeOK /\ IsFiniteSet(charged)
    /\ Stages /\ ChargedAreAdmitted /\ UpstreamOnlyWhenAdmitted /\ Accounted

(* What the bytes of an upstream's answer are, and what decoding makes of  *)
(* them.                                                                   *)
LEMMA WireType ==
    ASSUME NEW u \in GrpcReplies
    PROVE  Wire(u) \in Seq(Byte)
<1>1. u \in GrpcReply /\ u.missing <= Len(Frames(u.msgs))
  BY PipelineAssumption DEF PipelineAssumption
<1>2. Frames(u.msgs) \in Seq(Byte)
  BY <1>1, FramesType DEF GrpcReply
<1> DEFINE all == Frames(u.msgs)
           n == Len(all) - u.missing
<1>3. all \in Seq(Byte) /\ n \in 0..Len(all)
  BY <1>1, <1>2 DEF GrpcReply
<1> HIDE DEF all, n
<1>4. SubSeq(all, 1, n) \in Seq(Byte)
  <2>1. \A i \in 1..n : all[i] \in Byte
    BY <1>3, ElementOfSeq
  <2>2. QED
    BY <1>3, <2>1, SubSeqProperties
<1>5. QED
  BY <1>4 DEF Wire, all, n

(* The middleware chain: auth looks at the request before the limiter      *)
(* does, so what is charged has credentials and a budget.                  *)
LEMMA ChainOutcome ==
    ASSUME NEW r \in Requests
    PROVE  /\ ~input[r].cred => Passed(r) = 1
           /\ input[r].cred /\ budget[input[r].client] = 0 => Passed(r) = 2
           /\ input[r].cred /\ budget[input[r].client] # 0 => Passed(r) = 3
<1> DEFINE refusing == {i \in 1..3 : Refuses(MiddlewareOrder[i], r)}
           Stops(n) == refusing \cap 1..n = {} /\ (n = 3 \/ n + 1 \in refusing)
<1>1. DOMAIN MiddlewareOrder = 1..3 /\ Len(MiddlewareOrder) = 3
  BY DEF MiddlewareOrder
<1>2. Passed(r) = CHOOSE n \in 0..3 : Stops(n)
  BY <1>1 DEF Passed
<1>3. /\ 1 \notin refusing
      /\ 2 \in refusing <=> ~input[r].cred
      /\ 3 \in refusing <=> budget[input[r].client] = 0
  BY DEF MiddlewareOrder, Refuses
<1> HIDE DEF refusing
<1>4. CASE ~input[r].cred
  <2>1. \A n \in 0..3 : Stops(n) <=> n = 1
    BY <1>3, <1>4
  <2>2. QED
    BY <1>2, <1>4, <2>1
<1>5. CASE input[r].cred /\ budget[input[r].client] = 0
  <2>1. \A n \in 0..3 : Stops(n) <=> n = 2
    BY <1>3, <1>5
  <2>2. QED
    BY <1>2, <1>5, <2>1
<1>6. CASE input[r].cred /\ budget[input[r].client] # 0
  <2>1. \A n \in 0..3 : Stops(n) <=> n = 3
    BY <1>3, <1>6
  <2>2. QED
    BY <1>2, <1>6, <2>1
<1>7. QED
  BY <1>4, <1>5, <1>6

(* What RunChain does, with the chain worked out. *)
LEMMA ChainStep ==
    ASSUME NEW r \in Requests, RunChain(r)
    PROVE  /\ pc[r] = "chain"
           /\ UNCHANGED <<input, records, touched, bodies>>
           /\ \/ /\ ~input[r].cred
                 /\ Answer(r, 401) /\ UNCHANGED <<budget, charged>>
              \/ /\ input[r].cred /\ budget[input[r].client] = 0
                 /\ Answer(r, 429) /\ UNCHANGED <<budget, charged>>
              \/ /\ input[r].cred /\ budget[input[r].client] # 0
                 /\ Continue(r, IF input[r].path = "admin_body" THEN "extract" ELSE "dispatch")
                 /\ Charge(r)
<1>1. Len(MiddlewareOrder) = 3
  BY DEF MiddlewareOrder
<1>2. CASE ~input[r].cred
  BY <1>1, <1>2, ChainOutcome DEF RunChain, RefusalStatus, MiddlewareOrder
<1>3. CASE input[r].cred /\ budget[input[r].client] = 0
  BY <1>1, <1>3, ChainOutcome DEF RunChain, RefusalStatus, MiddlewareOrder
<1>4. CASE input[r].cred /\ budget[input[r].client] # 0
  BY <1>1, <1>4, ChainOutcome DEF RunChain, RefusalStatus, MiddlewareOrder
<1>5. QED
  BY <1>2, <1>3, <1>4

-----------------------------------------------------------------------------
(* An upstream is reached from two stages only, both past the encoder, or  *)
(* from an upgraded session.                                               *)
Reaches(r) ==
    \/ touched' = touched
    \/ touched' = touched \cup {r} /\ pc[r] \in {"send", "call", "session"}

LEMMA TouchedStay ==
    ASSUME Inv, UNCHANGED <<input, touched>>, charged \subseteq charged',
           \A q \in Requests :
              pc[q] \in Settled => pc'[q] \in Settled /\ records'[q] = records[q]
    PROVE  UpstreamOnlyWhenAdmitted'
<1> SUFFICES ASSUME NEW q \in touched
             PROVE  /\ input[q].path = "route" /\ ~RefusedByLayer(q)
                    /\ IF input[q].kind = "ws" THEN UpgradeAnswered(q)' ELSE Admitted(q)'
  BY DEF UpstreamOnlyWhenAdmitted, RefusedByLayer
<1>1. q \in Requests
  BY DEF Inv, TypeOK
<1>2. /\ input[q].path = "route" /\ ~RefusedByLayer(q)
      /\ IF input[q].kind = "ws" THEN UpgradeAnswered(q) ELSE Admitted(q)
  BY DEF Inv, UpstreamOnlyWhenAdmitted
<1>3. CASE input[q].kind = "ws"
  BY <1>1, <1>2, <1>3 DEF UpgradeAnswered, Settled
<1>4. CASE input[q].kind # "ws"
  BY <1>2, <1>4 DEF Admitted, Encodable
<1>5. QED
  BY <1>2, <1>3, <1>4

LEMMA ReachedIsAdmitted ==
    ASSUME Inv, NEW r \in Requests, NEW p, Goto(r, p), Reaches(r),
           pc[r] \in Settled => p \in Settled, UNCHANGED <<input, charged, records>>
    PROVE  touched' \subseteq Requests /\ UpstreamOnlyWhenAdmitted'
<1>1. touched' \subseteq Requests
  BY DEF Reaches, Inv, TypeOK
<1>2. SUFFICES ASSUME NEW q \in touched'
               PROVE  /\ input[q].path = "route" /\ ~RefusedByLayer(q)
                      /\ IF input[q].kind = "ws" THEN UpgradeAnswered(q)' ELSE Admitted(q)
  BY <1>1 DEF UpstreamOnlyWhenAdmitted, RefusedByLayer, Admitted, Encodable
<1>3. pc[q] \in Settled => pc'[q] \in Settled
  BY <1>1, <1>2 DEF Goto, Inv, TypeOK
<1>4. CASE q \in touched
  BY <1>3, <1>4 DEF Inv, UpstreamOnlyWhenAdmitted, UpgradeAnswered, Settled
<1>5. CASE q = r /\ pc[r] \in {"send", "call"}
  BY <1>5 DEF Inv, Stages, Charges, ChargedAreAdmitted, Proxied, IsAdmin, Admitted
<1>6. CASE q = r /\ pc[r] = "session"
  <2>1. /\ input[r].path = "route" /\ ~RefusedByLayer(r)
        /\ input[r].kind = "ws" /\ input[r].valid /\ records[r] = <<101>>
    BY <1>6 DEF Inv, Stages, Upgraded, Recorded, Answered, IsAdmin
  <2>2. pc'[r] \in Settled
    BY <1>3, <1>6 DEF Settled, Answered
  <2>3. QED
    BY <1>6, <2>1, <2>2 DEF UpgradeAnswered, Settled
<1>7. QED
  BY <1>2, <1>4, <1>5, <1>6 DEF Reaches

(* The steps that answer a request, or choose where its handler goes next, *)
(* and leave the budget and the charges alone.                             *)
LEMMA AnswerKeepsInv ==
    ASSUME Inv, NEW r \in Requests, NEW s \in Nat, Answer(r, s), Reaches(r),
           pc[r] \in Working,
           s = 101 => input[r].path = "route" /\ input[r].kind = "ws" /\ input[r].valid,
           UNCHANGED <<input, records, budget, charged>>,
           sent' \in [Requests -> {<<>>} \cup {<<u>> : u \in GrpcReplies}],
           got' \in [Requests -> Seq(Byte)]
    PROVE  Inv'
<1>0. touched' \subseteq Requests /\ UpstreamOnlyWhenAdmitted'
  BY ReachedIsAdmitted DEF Answer, Working, Settled, Answered
<1>1. TypeOK'
  BY <1>0 DEF Answer, Goto, IsAdmin, Inv, TypeOK, Stage
<1>2. Stages'
  <2> SUFFICES ASSUME NEW q \in Requests
               PROVE  (Guarded(q) /\ Charges(q) /\ Recorded(q) /\ Upgraded(q))'
    BY DEF Stages
  <2>1. Guarded(q) /\ Charges(q) /\ Recorded(q) /\ Upgraded(q)
    BY DEF Inv, Stages
  <2>2. CASE q = r
    <3>1. pc'[r] = IF IsAdmin(r) THEN "finalize" ELSE "record"
      BY DEF Answer, Goto, Inv, TypeOK
    <3>2. status'[r] = s
      BY DEF Answer, Inv, TypeOK
    <3>3. ~RefusedByLayer(r) /\ records[r] = <<>>
      BY <2>1, <2>2 DEF Working, Guarded, Recorded, Settled, Answered
    <3>4. QED
      BY <2>2, <3>1, <3>2, <3>3 DEF Guarded, Charges, Recorded, Upgraded, IsAdmin,
         RefusedByLayer, Settled, Answered
  <2>3. CASE q # r
    <3>1. pc'[q] = pc[q] /\ status'[q] = status[q]
      BY <2>3 DEF Answer, Goto, Inv, TypeOK
    <3>2. QED
      BY <2>1, <3>1 DEF Guarded, Charges, Recorded, Upgraded, IsAdmin, RefusedByLayer,
         Proxied, Encodable
  <2>4. QED
    BY <2>2, <2>3
<1>3. QED
  BY <1>0, <1>1, <1>2
     DEF Inv, ChargedAreAdmitted, Accounted, ChargedBy, IsAdmin, RefusedByLayer, Proxied

LEMMA GotoKeepsInv ==
    ASSUME Inv, NEW r \in Requests, NEW p \in Stage, Goto(r, p), Reaches(r),
           pc[r] \in Settled => p \in Settled,
           UNCHANGED <<input, status, records, budget, charged, bodies>>,
           (Guarded(r) /\ Charges(r) /\ Recorded(r) /\ Upgraded(r))'
    PROVE  Inv'
<1>0. touched' \subseteq Requests /\ UpstreamOnlyWhenAdmitted'
  BY ReachedIsAdmitted
<1>1. TypeOK'
  BY <1>0 DEF Goto, Inv, TypeOK, bodies
<1>2. Stages'
  <2> SUFFICES ASSUME NEW q \in Requests
               PROVE  (Guarded(q) /\ Charges(q) /\ Recorded(q) /\ Upgraded(q))'
    BY DEF Stages
  <2>1. CASE q = r
    BY <2>1
  <2>2. CASE q # r
    BY <2>2 DEF Goto, Inv, TypeOK, Stages, Guarded, Charges, Recorded, Upgraded, IsAdmin,
         RefusedByLayer, Proxied, Encodable
  <2>3. QED
    BY <2>1, <2>2
<1>3. QED
  BY <1>0, <1>1, <1>2
     DEF Inv, ChargedAreAdmitted, Accounted, ChargedBy, IsAdmin, RefusedByLayer, Proxied

(* The invariant holds of every behaviour: one step per action. *)
LEMMA InvHolds == Spec => []Inv
<1>1. Init => Inv
  <2> SUFFICES ASSUME Init PROVE Inv
    OBVIOUS
  <2> USE PipelineAssumption DEF PipelineAssumption, Init
  <2>1. TypeOK
    BY DEF TypeOK, Stage
  <2>2. Stages
    BY DEF Stages, Guarded, Charges, Recorded, Upgraded, Settled, Answered
  <2>3. IsFiniteSet(charged)
    BY FS_EmptySet
  <2>4. Accounted
    <3> SUFFICES ASSUME NEW k \in Clients PROVE Limit - budget[k] <= Cardinality(ChargedBy(k))
      BY DEF Accounted
    <3>1. ChargedBy(k) = {}
      BY DEF ChargedBy
    <3>2. QED
      BY <3>1, FS_EmptySet
  <2>5. QED
    BY <2>1, <2>2, <2>3, <2>4 DEF Inv, ChargedAreAdmitted, UpstreamOnlyWhenAdmitted
<1>2. Inv /\ [Next]_vars => Inv'
  <2> SUFFICES ASSUME Inv, [Next]_vars PROVE Inv'
    OBVIOUS
  <2>0. /\ sent \in [Requests -> {<<>>} \cup {<<u>> : u \in GrpcReplies}]
        /\ got \in [Requests -> Seq(Byte)]
    BY DEF Inv, TypeOK
  <2>1. ASSUME NEW r \in Requests, Arrive(r) PROVE Inv'
    <3>1. TypeOK'
      <4>1. pc' \in [Requests -> Stage]
        BY <2>1 DEF Arrive, Continue, Goto, Inv, TypeOK, Stage
      <4>2. status' \in [Requests -> Nat]
        <5>1. status' = status \/ status' = [status EXCEPT ![r] = 413]
          BY <2>1 DEF Arrive, Continue
        <5>2. status \in [Requests -> Nat]
          BY DEF Inv, TypeOK
        <5>3. QED
          BY <5>1, <5>2
      <4>3. QED
        BY <2>1, <4>1, <4>2 DEF Arrive, Inv, TypeOK, bodies
    <3>2. Stages'
      BY <2>1 DEF Arrive, Continue, Goto, Inv, TypeOK, Stages, Guarded, Charges, Recorded, Upgraded, Settled, Answered,
         IsAdmin, Zmq, RefusedByLayer, Proxied, Encodable
    <3>3. UpstreamOnlyWhenAdmitted'
      BY <2>1, TouchedStay DEF Arrive, Continue, Goto, Inv, TypeOK, Settled, Answered
    <3>4. QED
      BY <2>1, <3>1, <3>2, <3>3 DEF Arrive, Inv, ChargedAreAdmitted, Accounted, ChargedBy,
         IsAdmin, RefusedByLayer, Proxied
  <2>2. ASSUME NEW r \in Requests, Route(r) PROVE Inv'
    <3>0. /\ pc[r] = "received" /\ Reaches(r)
          /\ UNCHANGED <<input, records, budget, charged, touched, bodies>>
      BY <2>2 DEF Route, Reaches
    <3>1. CASE \E s \in {400, 404, 426} : Answer(r, s)
      BY <2>0, <3>0, <3>1, AnswerKeepsInv DEF bodies, Working
    <3>1a. CASE Answer(r, 101) /\ input[r].path = "route" /\ input[r].kind = "ws" /\ input[r].valid
      BY <2>0, <3>0, <3>1a, AnswerKeepsInv DEF bodies, Working
    <3>2. CASE Continue(r, "body") /\ input[r].path = "route" /\ input[r].kind # "ws"
      <4>1. /\ pc[r] = "received" /\ Goto(r, "body") /\ Reaches(r)
            /\ input[r].path = "route" /\ input[r].kind # "ws"
            /\ UNCHANGED <<input, status, records, budget, charged, bodies>>
        BY <2>2, <3>2 DEF Route, Continue, Reaches
      <4>2. (Guarded(r) /\ Charges(r) /\ Recorded(r) /\ Upgraded(r))'
        BY <4>1 DEF Goto, Inv, TypeOK, Stages, Guarded, Charges, Recorded, Upgraded,
           Settled, Answered, IsAdmin, RefusedByLayer, Proxied, Encodable, Zmq
      <4>3. QED
        BY <4>1, <4>2, GotoKeepsInv DEF Stage, Settled, Answered
    <3>3. QED
      BY <2>2, <3>1, <3>1a, <3>2, SMTT(40) DEF Route, Inv, TypeOK, Input, Stages, Guarded, IsAdmin
  <2>3. ASSUME NEW r \in Requests, ReadBody(r) PROVE Inv'
    <3>1. CASE Answer(r, 413)
      BY <2>0, <2>3, <3>1, AnswerKeepsInv DEF ReadBody, bodies, Reaches, Working
    <3>2. CASE Continue(r, "chain") /\ input[r].body = "fits"
      <4>1. /\ pc[r] = "body" /\ Goto(r, "chain") /\ Reaches(r)
            /\ input[r].body = "fits"
            /\ UNCHANGED <<input, status, records, budget, charged, bodies>>
        BY <2>3, <3>2 DEF ReadBody, Continue, Reaches
      <4>2. (Guarded(r) /\ Charges(r) /\ Recorded(r) /\ Upgraded(r))'
        BY <4>1 DEF Goto, Inv, TypeOK, Stages, Guarded, Charges, Recorded, Upgraded,
           Settled, Answered, IsAdmin, RefusedByLayer, Proxied, Encodable, Zmq
      <4>3. QED
        BY <4>1, <4>2, GotoKeepsInv DEF Stage, Settled, Answered
    <3>3. QED
      BY <2>3, <3>1, <3>2 DEF ReadBody
  <2>4. ASSUME NEW r \in Requests, RunChain(r) PROVE Inv'
    <3>1. CASE \E s \in {401, 429} : Answer(r, s) /\ UNCHANGED <<budget, charged>>
      <4>1. /\ pc[r] = "chain"
            /\ UNCHANGED <<input, records, touched, bodies>>
        BY <2>4, ChainStep
      <4>2. QED
        BY <2>0, <3>1, <4>1, AnswerKeepsInv DEF bodies, Reaches, Working
    <3>2. CASE /\ input[r].cred /\ budget[input[r].client] # 0
               /\ Continue(r, IF input[r].path = "admin_body" THEN "extract" ELSE "dispatch")
               /\ Charge(r)
      <4> DEFINE c == input[r].client
      <4>1. /\ pc[r] = "chain" /\ r \notin charged
            /\ ~RefusedByLayer(r) /\ (IsAdmin(r) \/ Proxied(r))
            /\ c \in Clients /\ budget[c] \in 1..Limit
            /\ Limit \in Nat
        <5>1. pc[r] = "chain" /\ Limit \in Nat
          BY <2>4, ChainStep, PipelineAssumption DEF PipelineAssumption
        <5>2. r \notin charged /\ ~RefusedByLayer(r) /\ (IsAdmin(r) \/ Proxied(r))
          BY <5>1 DEF Inv, Stages, Guarded, Charges
        <5>3. c \in Clients
          BY DEF Inv, TypeOK, Input
        <5>4. budget[c] \in 0..Limit
          BY <5>3 DEF Inv, TypeOK
        <5>5. QED
          BY <3>2, <5>1, <5>2, <5>3, <5>4
      <4>2. /\ UNCHANGED <<input, records, touched, bodies, status>>
            /\ charged' = charged \cup {r} /\ budget' = [budget EXCEPT ![c] = @ - 1]
        BY <2>4, <3>2, ChainStep DEF Charge, Continue
      <4>3. /\ pc' = [pc EXCEPT ![r] = pc'[r]]
            /\ pc'[r] \in {"extract", "dispatch"}
        BY <3>2 DEF Continue, Goto, Inv, TypeOK
      <4>4. TypeOK'
        <5>1. budget' \in [Clients -> 0..Limit]
          BY <4>1, <4>2 DEF Inv, TypeOK
        <5>2. QED
          BY <4>2, <4>3, <5>1 DEF Inv, TypeOK, Stage, bodies
      <4>5. Stages'
        BY <4>1, <4>2, <4>3 DEF Inv, TypeOK, Stages, Guarded, Charges, Recorded, Upgraded, Settled, Answered, IsAdmin,
           RefusedByLayer, Proxied, Encodable
      <4>6. ChargedAreAdmitted' /\ UpstreamOnlyWhenAdmitted'
        <5>1. ChargedAreAdmitted'
          BY <3>2, <4>1, <4>2 DEF Inv, ChargedAreAdmitted, IsAdmin, RefusedByLayer, Proxied
        <5>2. \A q \in Requests : pc[q] \in Settled => pc'[q] \in Settled
          BY <4>1, <4>3 DEF Inv, TypeOK, Settled, Answered
        <5>3. QED
          BY <4>2, <5>1, <5>2, TouchedStay
      <4>7. IsFiniteSet(charged')
        BY <4>2, FS_AddElement DEF Inv
      <4>8. Accounted'
        <5> SUFFICES ASSUME NEW k \in Clients
                     PROVE  Limit - budget'[k] <= Cardinality(ChargedBy(k)')
          BY DEF Accounted
        <5>1. Limit - budget[k] <= Cardinality(ChargedBy(k))
          BY DEF Inv, Accounted
        <5>2. IsFiniteSet(ChargedBy(k)) /\ Cardinality(ChargedBy(k)) \in Nat
          BY FS_Subset, FS_CardinalityType DEF Inv, ChargedBy
        <5>3. CASE k = c
          <6>1. ChargedBy(k)' = ChargedBy(k) \cup {r} /\ r \notin ChargedBy(k)
            BY <4>1, <4>2, <5>3 DEF ChargedBy
          <6>2. Cardinality(ChargedBy(k)') = Cardinality(ChargedBy(k)) + 1
            BY <5>2, <6>1, FS_AddElement
          <6>3. budget'[k] = budget[k] - 1
            BY <4>1, <4>2, <5>3 DEF Inv, TypeOK
          <6> HIDE DEF c
          <6>4. QED
            BY <4>1, <5>1, <5>2, <5>3, <6>2, <6>3
        <5>4. CASE k # c
          <6>1. ChargedBy(k)' = ChargedBy(k) /\ budget'[k] = budget[k]
            BY <4>1, <4>2, <5>4 DEF ChargedBy, Inv, TypeOK
          <6>2. QED
            BY <5>1, <6>1
        <5>5. QED
          BY <5>3, <5>4
      <4>9. QED
        BY <4>4, <4>5, <4>6, <4>7, <4>8 DEF Inv
    <3>3. QED
      BY <2>4, <3>1, <3>2, ChainStep
  <2>5. ASSUME NEW r \in Requests, AdminBody(r) PROVE Inv'
    <3>1. CASE \E s \in {413, 422} : Answer(r, s)
      BY <2>0, <2>5, <3>1, AnswerKeepsInv DEF AdminBody, bodies, Reaches, Working
    <3>2. CASE Continue(r, "dispatch")
      <4>1. /\ pc[r] = "extract" /\ Goto(r, "dispatch") /\ Reaches(r)
            /\ UNCHANGED <<input, status, records, budget, charged, bodies>>
        BY <2>5, <3>2 DEF AdminBody, Continue, Reaches
      <4>2. (Guarded(r) /\ Charges(r) /\ Recorded(r) /\ Upgraded(r))'
        BY <4>1 DEF Goto, Inv, TypeOK, Stages, Guarded, Charges, Recorded, Upgraded,
           Settled, Answered, IsAdmin, RefusedByLayer, Proxied, Encodable, Zmq
      <4>3. QED
        BY <4>1, <4>2, GotoKeepsInv DEF Stage, Settled, Answered
    <3>3. QED
      BY <2>5, <3>1, <3>2 DEF AdminBody
  <2>6. ASSUME NEW r \in Requests, Dispatch(r) PROVE Inv'
    <3>1. CASE \E s \in {200, 400, 405} : Answer(r, s)
      BY <2>0, <2>6, <3>1, AnswerKeepsInv DEF Dispatch, bodies, Reaches, Working
    <3>2. CASE /\ Continue(r, IF input[r].kind \in Zmq THEN "connect" ELSE "call")
               /\ ~IsAdmin(r) /\ Encodable(r)
      <4>1. PICK p \in {"connect", "call"} :
              Continue(r, p) /\ (p = "connect" <=> input[r].kind \in Zmq)
        BY <3>2
      <4>2. pc[r] = "dispatch" /\ UNCHANGED <<input, records, budget, charged, touched, bodies>>
        BY <2>6 DEF Dispatch
      <4>3. (Guarded(r) /\ Charges(r) /\ Recorded(r) /\ Upgraded(r))'
        BY <3>2, <4>1, <4>2 DEF Continue, Goto, Inv, TypeOK, Stages, Guarded, Charges, Recorded, Upgraded, Settled, Answered,
           IsAdmin, RefusedByLayer, Proxied, Encodable
      <4>4. QED
        BY <4>1, <4>2, <4>3, GotoKeepsInv DEF Continue, Stage, Reaches, Settled, Answered
    <3>3. QED
      BY <2>6, <3>1, <3>2 DEF Dispatch, Encodable
  <2>7. ASSUME NEW r \in Requests, ZmqConnected(r) PROVE Inv'
    <3>1. /\ pc[r] = "connect" /\ Goto(r, "send") /\ Reaches(r)
          /\ UNCHANGED <<input, status, records, budget, charged, bodies>>
      BY <2>7 DEF ZmqConnected, Continue, Reaches
    <3>2. (Guarded(r) /\ Charges(r) /\ Recorded(r) /\ Upgraded(r))'
      BY <3>1 DEF Goto, Inv, TypeOK, Stages, Guarded, Charges, Recorded, Upgraded,
         Settled, Answered, IsAdmin, RefusedByLayer, Proxied, Encodable, Zmq
    <3>3. QED
      BY <3>1, <3>2, GotoKeepsInv DEF Stage, Settled, Answered
  <2>8. ASSUME NEW r \in Requests, ZmqSent(r) PROVE Inv'
    <3>1. CASE Answer(r, 202)
      BY <2>0, <2>8, <3>1, AnswerKeepsInv DEF ZmqSent, bodies, Reaches, Working
    <3>2. CASE Continue(r, "recv") /\ input[r].kind = "zmq_req"
      <4>1. /\ pc[r] = "send" /\ Goto(r, "recv") /\ Reaches(r)
            /\ input[r].kind = "zmq_req"
            /\ UNCHANGED <<input, status, records, budget, charged, bodies>>
        BY <2>8, <3>2 DEF ZmqSent, Continue, Reaches
      <4>2. (Guarded(r) /\ Charges(r) /\ Recorded(r) /\ Upgraded(r))'
        <5>1. pc'[r] = "recv"
          BY <4>1 DEF Goto, Inv, TypeOK
        <5>2. Guarded(r) /\ Charges(r) /\ Recorded(r) /\ Upgraded(r)
          BY DEF Inv, Stages
        <5>3. Guarded(r)'
          BY <4>1, <5>1, <5>2 DEF Guarded, IsAdmin, RefusedByLayer, Proxied, Zmq
        <5>4. Charges(r)'
          BY <4>1, <5>1, <5>2 DEF Charges, IsAdmin, Encodable
        <5>5. Recorded(r)'
          BY <4>1, <5>1, <5>2 DEF Recorded, Settled, Answered, IsAdmin, RefusedByLayer
        <5>6. Upgraded(r)'
          BY <4>1, <5>1, <5>2 DEF Upgraded, RefusedByLayer
        <5>7. QED
          BY <5>3, <5>4, <5>5, <5>6
      <4>3. QED
        BY <4>1, <4>2, GotoKeepsInv DEF Stage, Settled, Answered
    <3>3. QED
      BY <2>8, <3>1, <3>2 DEF ZmqSent
  <2>9. ASSUME NEW r \in Requests, UpstreamActs(r) PROVE Inv'
    <3>1. /\ pc[r] = "call" /\ Goto(r, "call") /\ Reaches(r)
          /\ UNCHANGED <<input, status, records, budget, charged, bodies>>
      BY <2>9 DEF UpstreamActs, Goto, Reaches, Inv, TypeOK
    <3>2. (Guarded(r) /\ Charges(r) /\ Recorded(r) /\ Upgraded(r))'
      BY <3>1 DEF Goto, Inv, TypeOK, Stages, Guarded, Charges, Recorded, Upgraded,
         Settled, Answered, IsAdmin, RefusedByLayer, Proxied, Encodable, Zmq
    <3>3. QED
      BY <3>1, <3>2, GotoKeepsInv DEF Stage, Settled, Answered
  <2>10. ASSUME NEW r \in Requests, UpstreamReplies(r) PROVE Inv'
    <3>1. /\ pc[r] \in {"call", "recv"}
          /\ UNCHANGED <<input, records, budget, charged, touched>>
      BY <2>10 DEF UpstreamReplies
    <3>2. CASE GrpcAnswer(r)
      <4>1. PICK s \in GrpcStatus, u \in GrpcReplies :
              LET decoded == IF s \in Success THEN Decode(Wire(u))
                                              ELSE [ok |-> TRUE, out |-> Wire(u)]
              IN /\ Answer(r, IF decoded.ok THEN s ELSE 502)
                 /\ sent' = [sent EXCEPT ![r] = <<u>>]
                 /\ got' = [got EXCEPT ![r] = decoded.out]
        BY <3>2 DEF GrpcAnswer
      <4> DEFINE decoded == IF s \in Success THEN Decode(Wire(u))
                                             ELSE [ok |-> TRUE, out |-> Wire(u)]
      <4>2. decoded.out \in Seq(Byte)
        BY WireType, DecodeType DEF Decode, Decoded
      <4> HIDE DEF decoded
      <4>3. /\ sent' \in [Requests -> {<<>>} \cup {<<v>> : v \in GrpcReplies}]
            /\ got' \in [Requests -> Seq(Byte)]
        BY <2>0, <4>1, <4>2 DEF decoded
      <4>4. \E t \in Nat \ {101} : Answer(r, t)
        BY <4>1 DEF GrpcStatus, HttpStatus, decoded
      <4>5. QED
        BY <3>1, <4>3, <4>4, AnswerKeepsInv DEF Reaches, Working
    <3>3. CASE input[r].kind # "grpc" /\ UNCHANGED bodies
      <4>1. PICK s \in Reply(input[r].kind) : Answer(r, s)
        BY <2>10, <3>3 DEF UpstreamReplies
      <4>2. /\ input[r].kind \in Transports
            /\ pc[r] = "recv" => input[r].kind = "zmq_req"
            /\ pc[r] = "call" => input[r].kind \notin Zmq \cup {"ws"}
        BY <3>1 DEF Inv, TypeOK, Input, Stages, Guarded, Charges, ChargedAreAdmitted, Proxied
      <4>3. input[r].kind \in {"http", "graphql", "zmq_req", "mqtt", "amqp"}
        BY <3>1, <3>3, <4>2 DEF Transports, Zmq
      <4>4. s \in Nat \ {101}
        BY <4>3 DEF Reply, HttpStatus, GraphqlStatus, ZmqReplyStatus, PublishStatus
      <4>5. QED
        BY <2>0, <3>1, <3>3, <4>1, <4>4, AnswerKeepsInv DEF bodies, Reaches, Working
    <3>4. QED
      BY <2>10, <3>2, <3>3 DEF UpstreamReplies
  <2>11. ASSUME NEW r \in Requests, UpstreamFails(r) \/ UpstreamTimesOut(r) PROVE Inv'
    BY <2>0, <2>11, AnswerKeepsInv DEF UpstreamFails, UpstreamTimesOut, bodies, Reaches, Working
  <2>12. ASSUME NEW r \in Requests, Record(r) PROVE Inv'
    <3>1. records[r] = <<>> /\ ~IsAdmin(r) /\ ~RefusedByLayer(r) /\ status[r] \in Nat
      BY <2>12 DEF Record, Inv, Stages, Recorded, Guarded, TypeOK, Settled, Answered
    <3>2. records' = [records EXCEPT ![r] = <<status[r]>>]
      BY <2>12, <3>1 DEF Record
    <3>3. TypeOK'
      BY <2>12, <3>1, <3>2 DEF Record, Goto, Inv, TypeOK, Stage, bodies
    <3>4. Stages'
      BY <2>12, <3>1, <3>2 DEF Record, Goto, Inv, TypeOK, Stages, Guarded, Charges, Recorded, Upgraded, Settled, Answered,
         IsAdmin, Zmq, RefusedByLayer, Proxied, Encodable
    <3>5. UpstreamOnlyWhenAdmitted'
      BY <2>12, <3>2, TouchedStay DEF Record, Goto, Inv, TypeOK, Settled, Answered
    <3>6. QED
      BY <2>12, <3>3, <3>4, <3>5 DEF Record, Inv, ChargedAreAdmitted, Accounted, ChargedBy,
         IsAdmin, RefusedByLayer, Proxied
  <2>13. ASSUME NEW r \in Requests, Finalize(r) PROVE Inv'
    <3>1. /\ pc[r] = "finalize" /\ Goto(r, "respond") /\ Reaches(r)
          /\ UNCHANGED <<input, status, records, budget, charged, bodies>>
      BY <2>13 DEF Finalize, Reaches
    <3>2. (Guarded(r) /\ Charges(r) /\ Recorded(r) /\ Upgraded(r))'
      BY <3>1 DEF Goto, Inv, TypeOK, Stages, Guarded, Charges, Recorded, Upgraded,
         Settled, Answered, IsAdmin, RefusedByLayer, Proxied, Encodable, Zmq
    <3>3. QED
      BY <3>1, <3>2, GotoKeepsInv DEF Stage, Settled, Answered
  <2>13a. ASSUME NEW r \in Requests, Respond(r) PROVE Inv'
    <3>1. PICK p \in {"session", "done"} : Goto(r, p) /\ (p = "session" <=> status[r] = 101)
      BY <2>13a DEF Respond
    <3>2. /\ pc[r] = "respond"
          /\ UNCHANGED <<input, status, records, budget, charged, touched, bodies>>
      BY <2>13a DEF Respond
    <3>3. (Guarded(r) /\ Charges(r) /\ Recorded(r) /\ Upgraded(r))'
      BY <3>1, <3>2 DEF Goto, Inv, TypeOK, Stages, Guarded, Charges, Recorded, Upgraded,
         Settled, Answered, IsAdmin, RefusedByLayer
    <3>4. QED
      BY <3>1, <3>2, <3>3, GotoKeepsInv DEF Stage, Reaches, Settled, Answered
  <2>13b. ASSUME NEW r \in Requests, WsSessionEnds(r) PROVE Inv'
    <3>1. /\ pc[r] = "session" /\ Goto(r, "done") /\ Reaches(r)
          /\ UNCHANGED <<input, status, records, budget, charged, bodies>>
      BY <2>13b DEF WsSessionEnds, Reaches
    <3>2. (Guarded(r) /\ Charges(r) /\ Recorded(r) /\ Upgraded(r))'
      BY <3>1 DEF Goto, Inv, TypeOK, Stages, Guarded, Charges, Recorded, Upgraded,
         Settled, Answered, IsAdmin, RefusedByLayer, Proxied, Encodable, Zmq
    <3>3. QED
      BY <3>1, <3>2, GotoKeepsInv DEF Stage, Settled, Answered
  <2>13c. ASSUME NEW r \in Requests, WsConnected(r) PROVE Inv'
    <3>1. /\ pc[r] = "session" /\ Goto(r, "session") /\ Reaches(r)
          /\ UNCHANGED <<input, status, records, budget, charged, bodies>>
      BY <2>13c DEF WsConnected, Goto, Reaches, Inv, TypeOK
    <3>2. (Guarded(r) /\ Charges(r) /\ Recorded(r) /\ Upgraded(r))'
      BY <3>1 DEF Goto, Inv, TypeOK, Stages, Guarded, Charges, Recorded, Upgraded,
         Settled, Answered, IsAdmin, RefusedByLayer, Proxied, Encodable, Zmq
    <3>3. QED
      BY <3>1, <3>2, GotoKeepsInv DEF Stage, Settled, Answered
  <2>14. ASSUME NEW r \in Requests, Disconnect(r) PROVE Inv'
    <3>1. /\ pc[r] \notin {"idle", "done", "dropped"} /\ Goto(r, "dropped") /\ Reaches(r)
          /\ UNCHANGED <<input, status, records, budget, charged, bodies>>
      BY <2>14 DEF Disconnect, Reaches
    <3>2. (Guarded(r) /\ Charges(r) /\ Recorded(r) /\ Upgraded(r))'
      BY <3>1 DEF Goto, Inv, TypeOK, Stages, Guarded, Charges, Recorded, Upgraded,
         Settled, Answered, IsAdmin, RefusedByLayer, Proxied, Encodable, Zmq
    <3>3. QED
      BY <3>1, <3>2, GotoKeepsInv DEF Stage, Settled, Answered
  <2>15. CASE Exit
    <3>1. TypeOK'
      BY <2>15 DEF Exit, Inv, TypeOK, Stage, bodies
    <3>2. Stages'
      BY <2>15 DEF Exit, Inv, TypeOK, Stages, Guarded, Charges, Recorded, Upgraded, Settled, Answered, IsAdmin,
         RefusedByLayer, Proxied, Encodable
    <3>3. UpstreamOnlyWhenAdmitted'
      BY <2>15, TouchedStay DEF Exit, Settled, Answered
    <3>4. QED
      BY <2>15, <3>1, <3>2, <3>3 DEF Exit, Inv, ChargedAreAdmitted, Accounted, ChargedBy,
         IsAdmin, RefusedByLayer, Proxied
  <2>16. CASE Refill
    <3>1. PICK after \in [Clients -> 0..Limit] :
            (\A k \in Clients : after[k] >= budget[k]) /\ budget' = after
      BY <2>16 DEF Refill
    <3>2. TypeOK'
      BY <2>16, <3>1 DEF Refill, Inv, TypeOK, bodies
    <3>3. Accounted'
      <4> SUFFICES ASSUME NEW k \in Clients
                   PROVE  Limit - budget'[k] <= Cardinality(ChargedBy(k)')
        BY DEF Accounted
      <4>1. ChargedBy(k)' = ChargedBy(k)
        BY <2>16 DEF Refill, ChargedBy
      <4>2. Cardinality(ChargedBy(k)) \in Nat
        BY FS_Subset, FS_CardinalityType DEF Inv, ChargedBy
      <4>3. Limit - budget[k] <= Cardinality(ChargedBy(k))
        BY DEF Inv, Accounted
      <4>4. budget[k] \in 0..Limit /\ budget'[k] \in 0..Limit /\ budget'[k] >= budget[k]
        BY <3>1 DEF Inv, TypeOK
      <4>5. QED
        BY <4>1, <4>2, <4>3, <4>4, PipelineAssumption DEF PipelineAssumption
    <3>4. QED
      BY <2>16, <3>2, <3>3 DEF Refill, Inv, Stages, Guarded, Charges, Recorded, Upgraded, Settled, Answered,
         ChargedAreAdmitted, UpstreamOnlyWhenAdmitted, Admitted, UpgradeAnswered, IsAdmin, RefusedByLayer, Proxied,
         Encodable
  <2>17. CASE UNCHANGED vars
    BY <2>17 DEF vars, bodies, Inv, TypeOK, Stages, Guarded, Charges, Recorded, Upgraded, Settled, Answered,
       ChargedAreAdmitted, UpstreamOnlyWhenAdmitted, Admitted, UpgradeAnswered, Accounted, ChargedBy, IsAdmin,
       RefusedByLayer, Proxied, Encodable
  <2>18. QED
    BY <2>1, <2>2, <2>3, <2>4, <2>5, <2>6, <2>7, <2>8, <2>9, <2>10, <2>11, <2>12, <2>13,
       <2>13a, <2>13c, <2>13b, <2>14, <2>15, <2>16, <2>17 DEF Next, HandlerStep
<1>3. QED
  BY <1>1, <1>2, PTL DEF Spec

-----------------------------------------------------------------------------
(* The type invariant; that a client's budget stays in 0..Limit is what    *)
(* makes the check and the charge of is_rate_limited one step.             *)
THEOREM TypeCorrect == Spec => []TypeOK
BY InvHolds, PTL DEF Inv

(* RecordedOnceAsAnswered: record_request is called exactly once for every *)
(* request that handle_request answers, with the status that is answered.  *)
THEOREM MetricsTellTheTruth == Spec => []RecordedOnceAsAnswered
<1>1. Inv => RecordedOnceAsAnswered
  <2> SUFFICES ASSUME Inv, NEW r \in Requests
               PROVE  /\ pc[r] \in Answered =>
                            records[r] = IF IsAdmin(r) \/ RefusedByLayer(r) THEN <<>> ELSE <<status[r]>>
                      /\ Len(records[r]) <= 1
    BY DEF RecordedOnceAsAnswered
  <2>1. Recorded(r)
    BY DEF Inv, Stages
  <2>2. CASE records[r] = <<>>
    BY <2>1, <2>2 DEF Recorded
  <2>3. CASE records[r] = <<status[r]>>
    <3>1. Len(records[r]) = 1
      BY <2>3
    <3>2. QED
      BY <2>1, <3>1 DEF Recorded
  <2>4. QED
    BY <2>1, <2>2, <2>3 DEF Recorded
<1>2. QED
  BY <1>1, InvHolds, PTL

(* UpstreamOnlyWhenAdmitted: no interleaving gets a request that was not   *)
(* routed, authenticated, charged and encoded to an upstream, but for the  *)
(* backend of a WebSocket route, reached without credentials or charge for *)
(* upgrades that were answered 101 and recorded.                           *)
THEOREM UpstreamGuarded == Spec => []UpstreamOnlyWhenAdmitted
BY InvHolds, PTL DEF Inv

(* OnlyAdmittedAreCharged: the chain asks auth before the limiter, so what *)
(* is missing from a client's budget was taken by its own admitted         *)
(* requests.                                                               *)
THEOREM ChargesAreEarned == Spec => []OnlyAdmittedAreCharged
<1>1. Inv => OnlyAdmittedAreCharged
  BY DEF Inv, ChargedAreAdmitted, Accounted, ChargedBy, Proxied, OnlyAdmittedAreCharged
<1>2. QED
  BY <1>1, InvHolds, PTL

-----------------------------------------------------------------------------
(* GrpcComplete is inductive once it is known that the upstream's answer   *)
(* is there only when the status has been chosen.                          *)
Arrived ==
    \A r \in Requests :
        sent[r] # <<>> => pc[r] \in {"record", "finalize"} \cup Settled

(* What GrpcComplete asks of one request. *)
Complete(r) ==
    sent[r] # <<>> /\ status[r] \in Success =>
        \E n \in 0..Len(sent[r][1].msgs) :
            LET whole == SubSeq(sent[r][1].msgs, 1, n)
            IN /\ Wire(sent[r][1]) = Frames(whole)
               /\ \A i \in 1..n : whole[i].flag = 0
               /\ got[r] = Payloads(whole)

LEMMA CompleteByDecode ==
    ASSUME NEW u \in GrpcReplies, Decode(Wire(u)).ok
    PROVE  \E n \in 0..Len(u.msgs) :
              LET whole == SubSeq(u.msgs, 1, n)
              IN /\ Wire(u) = Frames(whole)
                 /\ \A i \in 1..n : whole[i].flag = 0
                 /\ Decode(Wire(u)).out = Payloads(whole)
<1> DEFINE msgs == u.msgs
           L == Len(Frames(msgs)) - u.missing
<1>1. u \in GrpcReply /\ u.missing <= Len(Frames(u.msgs))
  BY PipelineAssumption DEF PipelineAssumption
<1>2. msgs \in Seq(Message) /\ Frames(msgs) \in Seq(Byte) /\ u.missing \in Nat
  BY <1>1, FramesType DEF GrpcReply
<1>3. L \in 0..Len(Frames(msgs)) /\ Wire(u) = SubSeq(Frames(msgs), 1, L)
  <2>1. Len(Frames(msgs)) \in Nat
    BY <1>2
  <2>2. QED
    BY <1>1, <1>2, <2>1 DEF Wire
<1>4. decode_grpc_frames(SubSeq(Frames(msgs), 1, L)).ok
  BY <1>3 DEF Decode
<1> HIDE DEF L, msgs
<1>5. PICK n \in 0..Len(msgs) :
        /\ SubSeq(Frames(msgs), 1, L) = Frames(SubSeq(msgs, 1, n))
        /\ \A i \in 1..n : msgs[i].flag = 0
        /\ decode_grpc_frames(SubSeq(Frames(msgs), 1, L)).out = Payloads(SubSeq(msgs, 1, n))
  BY <1>2, <1>3, <1>4, DecodesWholeFrames
<1>6. \A i \in 1..n : SubSeq(msgs, 1, n)[i] = msgs[i]
  <2>1. Len(msgs) \in Nat /\ \A i \in 1..n : msgs[i] \in Message
    BY <1>2
  <2>2. \A i \in 1..(n - 1 + 1) : SubSeq(msgs, 1, n)[i] = msgs[1 + i - 1]
    BY <2>1, SubSeqProperties
  <2>3. QED
    BY <2>1, <2>2
<1>7. QED
  BY <1>3, <1>5, <1>6 DEF Decode, msgs

(* GrpcComplete: for every answer an upstream may frame, cut off anywhere, *)
(* a client that is told 2xx has the payloads of all that arrived, and     *)
(* that was whole frames: a cut inside a frame never passes, one between   *)
(* two frames does.                                                        *)
THEOREM GrpcNothingLost == Spec => []GrpcComplete
<1>1. Init => Arrived /\ GrpcComplete
  BY DEF Init, Arrived, GrpcComplete
<1>2. Inv /\ Arrived /\ GrpcComplete /\ [Next]_vars => Arrived' /\ GrpcComplete'
  <2> SUFFICES ASSUME Inv, Arrived, GrpcComplete, [Next]_vars PROVE Arrived' /\ GrpcComplete'
    OBVIOUS
  <2> DEFINE Last == {"record", "finalize"} \cup Settled
  <2>1. \A r \in Requests : Complete(r)
    BY DEF GrpcComplete, Complete
  <2>2. SUFFICES Arrived' /\ \A r \in Requests : Complete(r)'
    BY DEF GrpcComplete, Complete
  (* Any step but a gRPC answer leaves the bodies alone, and changes the   *)
  (* status only of requests that have no answer yet.                      *)
  <2>3. CASE /\ UNCHANGED bodies
             /\ \A q \in Requests :
                   pc[q] \in Last => pc'[q] \in Last /\ status'[q] = status[q]
    BY <2>1, <2>3 DEF Arrived, Complete, bodies
  <2>4. ASSUME NEW r \in Requests, pc[r] \in {"call", "recv"}, GrpcAnswer(r)
        PROVE  Arrived' /\ \A q \in Requests : Complete(q)'
    <3>1. PICK s \in GrpcStatus, u \in GrpcReplies :
            LET decoded == IF s \in Success THEN Decode(Wire(u))
                                            ELSE [ok |-> TRUE, out |-> Wire(u)]
            IN /\ Answer(r, IF decoded.ok THEN s ELSE 502)
               /\ sent' = [sent EXCEPT ![r] = <<u>>]
               /\ got' = [got EXCEPT ![r] = decoded.out]
      BY <2>4 DEF GrpcAnswer
    <3> DEFINE decoded == IF s \in Success THEN Decode(Wire(u))
                                           ELSE [ok |-> TRUE, out |-> Wire(u)]
    <3>2. /\ pc'[r] \in Last /\ status'[r] = IF decoded.ok THEN s ELSE 502
          /\ sent'[r] = <<u>> /\ got'[r] = decoded.out
          /\ \A q \in Requests \ {r} : /\ pc'[q] = pc[q] /\ status'[q] = status[q]
                                        /\ sent'[q] = sent[q] /\ got'[q] = got[q]
      <4> HIDE DEF decoded
      <4>1. /\ Answer(r, IF decoded.ok THEN s ELSE 502)
            /\ sent' = [sent EXCEPT ![r] = <<u>>] /\ got' = [got EXCEPT ![r] = decoded.out]
        BY <3>1 DEF decoded
      <4>2. QED
        BY <4>1 DEF Answer, Goto, Inv, TypeOK
    <3>3. Arrived'
      BY <3>2 DEF Arrived
    <3>4. ASSUME NEW q \in Requests, q # r PROVE Complete(q)'
      BY <2>1, <3>2, <3>4 DEF Complete
    <3>5. Complete(r)'
      <4>1. SUFFICES ASSUME status'[r] \in Success
                     PROVE  \E n \in 0..Len(u.msgs) :
                              LET whole == SubSeq(u.msgs, 1, n)
                              IN /\ Wire(u) = Frames(whole)
                                 /\ \A i \in 1..n : whole[i].flag = 0
                                 /\ got'[r] = Payloads(whole)
        BY <3>2 DEF Complete
      <4>2. 502 \notin Success
        BY DEF Success
      <4>3. decoded.ok /\ s \in Success
        BY <3>2, <4>1, <4>2
      <4>4. decoded = Decode(Wire(u))
        BY <4>3
      <4>5. QED
        BY <3>2, <4>3, <4>4, CompleteByDecode
    <3>6. QED
      BY <3>3, <3>4, <3>5
  <2>5. CASE \E r \in Requests : UpstreamReplies(r)
    <3>1. PICK r \in Requests : UpstreamReplies(r)
      BY <2>5
    <3>2. pc[r] \in {"call", "recv"}
      BY <3>1 DEF UpstreamReplies
    <3>3. CASE GrpcAnswer(r)
      BY <2>4, <3>2, <3>3
    <3>4. CASE ~GrpcAnswer(r)
      <4>1. UNCHANGED bodies /\ \E s : Answer(r, s)
        BY <3>1, <3>4 DEF UpstreamReplies
      <4>2. QED
        BY <2>3, <3>2, <4>1 DEF Answer, Goto, Inv, TypeOK, Settled, Answered
    <3>5. QED
      BY <3>3, <3>4
  <2>6. CASE \E r \in Requests : \/ ReadBody(r) \/ RunChain(r) \/ AdminBody(r) \/ Dispatch(r)
                                 \/ Route(r) \/ ZmqConnected(r) \/ ZmqSent(r)
    <3>1. PICK r \in Requests : \/ ReadBody(r) \/ RunChain(r) \/ AdminBody(r) \/ Dispatch(r)
                               \/ Route(r) \/ ZmqConnected(r) \/ ZmqSent(r)
      BY <2>6
    <3>2. /\ UNCHANGED bodies /\ pc[r] \notin Last
          /\ (\E s : Answer(r, s)) \/ (\E p : Continue(r, p))
      BY <3>1, ChainStep DEF ReadBody, AdminBody, Dispatch, Route, ZmqConnected, ZmqSent,
         Settled, Answered
    <3>3. QED
      BY <2>3, <3>2 DEF Answer, Continue, Goto, Inv, TypeOK
  <2>7. CASE \E r \in Requests : UpstreamFails(r) \/ UpstreamTimesOut(r)
    BY <2>3, <2>7 DEF UpstreamFails, UpstreamTimesOut, Answer, Goto, Inv, TypeOK, Settled,
       Answered
  <2>8. CASE \E r \in Requests : Arrive(r)
    BY <2>3, <2>8 DEF Arrive, Continue, Goto, Inv, TypeOK, Settled, Answered
  <2>9. CASE \E r \in Requests : \/ UpstreamActs(r) \/ Record(r) \/ Finalize(r)
                                 \/ Respond(r) \/ WsConnected(r) \/ WsSessionEnds(r)
                                 \/ Disconnect(r)
    BY <2>3, <2>9 DEF UpstreamActs, Record, Finalize, Respond, WsConnected, WsSessionEnds,
       Disconnect, Goto, Inv, TypeOK, Settled, Answered
  <2>10. CASE Refill \/ Exit \/ UNCHANGED vars
    BY <2>3, <2>10 DEF Refill, Exit, vars, Settled, Answered
  <2>11. QED
    BY <2>5, <2>6, <2>7, <2>8, <2>9, <2>10 DEF Next, HandlerStep
<1>3. QED
  BY <1>1, <1>2, InvHolds, PTL DEF Spec

-----------------------------------------------------------------------------
(* Choosing the route *)

(***************************************************************************)
(* Sorted is defined by where the sort puts each route, Place, which       *)
(* counts the routes that are not after it.  That this is a permutation,   *)
(* so that every route has a place and every place a route, is a matter of *)
(* counting: routes in order have strictly growing places between 1 and    *)
(* the number of routes, so no two share one, and none is left empty.      *)
(***************************************************************************)

(* Characters, among them the one the router looks for. *)
Alphabet == STRING \cup {"/"}

LEMMA PathsAreStrings ==
    ASSUME NEW p \in Seq(STRING)
    PROVE  p \in Seq(Alphabet) /\ "/" \in Alphabet
BY SeqMonotonic DEF Alphabet

(* Route j is not after route i. *)
UpTo(routes, j, i) ==
    \/ Len(routes[j].path) > Len(routes[i].path)
    \/ Len(routes[j].path) = Len(routes[i].path) /\ j <= i

LEMMA PlaceCounts ==
    ASSUME NEW routes, NEW i
    PROVE  Place(routes, i) = Cardinality({j \in DOMAIN routes : UpTo(routes, j, i)})
<1> DEFINE D == {j \in DOMAIN routes :
                    \/ Len(routes[j].path) > Len(routes[i].path)
                    \/ Len(routes[j].path) = Len(routes[i].path) /\ j <= i}
<1>1. D = {j \in DOMAIN routes : UpTo(routes, j, i)}
  BY DEF UpTo
<1>2. Place(routes, i) = Cardinality(D)
  BY DEF Place
<1>3. QED
  BY <1>1, <1>2

LEMMA PlaceGrows ==
    ASSUME NEW n \in Nat, NEW routes, DOMAIN routes = 1..n,
           \A i \in 1..n : Len(routes[i].path) \in Nat
    PROVE  /\ \A i \in 1..n : Place(routes, i) \in 1..n
           /\ \A i \in 1..n, j \in 1..n :
                 UpTo(routes, i, j) /\ i # j => Place(routes, i) < Place(routes, j)
<1> DEFINE D(i) == {j \in 1..n : UpTo(routes, j, i)}
<1>1. IsFiniteSet(1..n) /\ Cardinality(1..n) = n
  BY FS_Interval
<1>2. ASSUME NEW i \in 1..n
      PROVE  /\ IsFiniteSet(D(i)) /\ Cardinality(D(i)) <= n /\ Cardinality(D(i)) \in Nat
             /\ Place(routes, i) = Cardinality(D(i)) /\ i \in D(i)
  <2>1. D(i) \in SUBSET (1..n)
    OBVIOUS
  <2>2. i \in D(i)
    BY DEF UpTo
  <2>3. Place(routes, i) = Cardinality(D(i))
    BY PlaceCounts
  <2> HIDE DEF D
  <2>4. QED
    BY <1>1, <2>1, <2>2, <2>3, FS_Subset, FS_CardinalityType
<1>3. ASSUME NEW i \in 1..n PROVE Place(routes, i) \in 1..n
  <2> HIDE DEF D
  <2>1. Cardinality(D(i)) # 0
    BY <1>2, FS_EmptySet
  <2>2. QED
    BY <1>2, <2>1
<1>4. ASSUME NEW i \in 1..n, NEW j \in 1..n, UpTo(routes, i, j), i # j
      PROVE  Place(routes, i) < Place(routes, j)
  <2>1. ASSUME NEW k \in 1..n, UpTo(routes, k, i) PROVE UpTo(routes, k, j)
    BY <1>4, <2>1 DEF UpTo
  <2>2. D(i) \in SUBSET D(j)
    BY <2>1
  <2>3. j \notin D(i)
    BY <1>4 DEF UpTo
  <2>4. /\ IsFiniteSet(D(i)) /\ Cardinality(D(i)) \in Nat /\ Place(routes, i) = Cardinality(D(i))
        /\ IsFiniteSet(D(j)) /\ Cardinality(D(j)) \in Nat /\ Place(routes, j) = Cardinality(D(j))
        /\ j \in D(j)
    BY <1>2
  <2> HIDE DEF D
  <2>5. Cardinality(D(i)) <= Cardinality(D(j)) /\ Cardinality(D(i)) # Cardinality(D(j))
    BY <2>2, <2>3, <2>4, FS_Subset
  <2>6. QED
    BY <2>4, <2>5
<1>5. QED
  BY <1>3, <1>4

(* Of two routes, one is not after the other. *)
LEMMA UpToTotal ==
    ASSUME NEW n \in Nat, NEW routes, \A i \in 1..n : Len(routes[i].path) \in Nat,
           NEW i \in 1..n, NEW j \in 1..n
    PROVE  UpTo(routes, i, j) \/ UpTo(routes, j, i)
BY DEF UpTo

LEMMA PlaceIsPermutation ==
    ASSUME NEW n \in Nat, NEW routes, DOMAIN routes = 1..n,
           \A i \in 1..n : Len(routes[i].path) \in Nat
    PROVE  /\ \A i \in 1..n, j \in 1..n :
                 Place(routes, i) = Place(routes, j) => i = j
           /\ \A k \in 1..n : \E i \in 1..n : Place(routes, i) = k
<1> DEFINE f == [i \in 1..n |-> Place(routes, i)]
<1>1. \A i \in 1..n : Place(routes, i) \in 1..n
  BY PlaceGrows
<1>2. ASSUME NEW i \in 1..n, NEW j \in 1..n, Place(routes, i) = Place(routes, j)
      PROVE  i = j
  <2>1. i # j => Place(routes, i) < Place(routes, j) \/ Place(routes, j) < Place(routes, i)
    BY UpToTotal, PlaceGrows
  <2>2. QED
    BY <1>1, <1>2, <2>1
<1>3. f \in Injection(1..n, 1..n)
  <2>1. f \in [1..n -> 1..n]
    BY <1>1
  <2>2. \A a \in 1..n, b \in 1..n : f[a] = f[b] => a = b
    BY <1>2
  <2> HIDE DEF f
  <2>3. IsInjective(f)
    BY <2>1, <2>2 DEF IsInjective
  <2>4. QED
    BY <2>1, <2>3 DEF Injection
<1>4. f \in Surjection(1..n, 1..n)
  <2>1. IsFiniteSet(1..n)
    BY FS_Interval
  <2> HIDE DEF f
  <2>2. QED
    BY <1>3, <2>1, FS_Injection
<1>5. \A k \in 1..n : \E i \in 1..n : f[i] = k
  BY <1>4 DEF Surjection
<1>6. QED
  BY <1>2, <1>5

(* What Router::new sorts: every place holds the one route that belongs    *)
(* there.                                                                  *)
LEMMA SortedHolds ==
    ASSUME NEW n \in Nat, NEW routes, DOMAIN routes = 1..n,
           \A i \in 1..n : Len(routes[i].path) \in Nat
    PROVE  /\ DOMAIN Sorted(routes) = 1..n
           /\ \A i \in 1..n : Sorted(routes)[Place(routes, i)] = routes[i]
<1>1. DOMAIN Sorted(routes) = 1..n
  BY DEF Sorted
<1>2. ASSUME NEW i \in 1..n PROVE Sorted(routes)[Place(routes, i)] = routes[i]
  <2> DEFINE k == Place(routes, i)
             c == CHOOSE j \in 1..n : Place(routes, j) = k
  <2>1. k \in 1..n
    BY PlaceGrows
  <2>2. Sorted(routes)[k] = routes[c]
    BY <2>1 DEF Sorted
  <2>3. c \in 1..n /\ Place(routes, c) = k
    OBVIOUS
  <2> HIDE DEF c
  <2>4. c = i
    BY <2>3, PlaceIsPermutation
  <2>5. QED
    BY <2>2, <2>4
<1>3. QED
  BY <1>1, <1>2

-----------------------------------------------------------------------------
(* Prefixes *)

LEMMA SubSeqAt ==
    ASSUME NEW S, NEW p \in Seq(S), NEW n \in 0..Len(p)
    PROVE  /\ SubSeq(p, 1, n) \in Seq(S) /\ Len(SubSeq(p, 1, n)) = n
           /\ \A i \in 1..n : SubSeq(p, 1, n)[i] = p[i]
           /\ From(p, n) \in Seq(S) /\ Len(From(p, n)) = Len(p) - n
           /\ \A i \in 1..(Len(p) - n) : From(p, n)[i] = p[n + i]
<1>1. Len(p) \in Nat /\ n \in Nat /\ n <= Len(p) /\ \A i \in 1..Len(p) : p[i] \in S
  BY ElementOfSeq
<1>2. /\ SubSeq(p, 1, n) \in Seq(S) /\ Len(SubSeq(p, 1, n)) = n
      /\ \A i \in 1..n : SubSeq(p, 1, n)[i] = p[i]
  BY <1>1
<1>3. /\ SubSeq(p, n + 1, Len(p)) \in Seq(S) /\ Len(SubSeq(p, n + 1, Len(p))) = Len(p) - n
      /\ \A i \in 1..(Len(p) - n) : SubSeq(p, n + 1, Len(p))[i] = p[n + i]
  BY <1>1
<1>4. QED
  BY <1>2, <1>3 DEF From

(* p starts with r if it has r's characters in r's places. *)
LEMMA StartsWithAt ==
    ASSUME NEW S, NEW p \in Seq(S), NEW r \in Seq(S)
    PROVE  StartsWith(p, r) <=> Len(r) <= Len(p) /\ \A i \in 1..Len(r) : p[i] = r[i]
<1>1. CASE Len(r) <= Len(p)
  <2>1. Len(r) \in 0..Len(p)
    BY <1>1
  <2> DEFINE v == SubSeq(p, 1, Len(r))
  <2>2. v \in Seq(S) /\ Len(v) = Len(r) /\ \A i \in 1..Len(r) : v[i] = p[i]
    BY <2>1, SubSeqAt
  <2> HIDE DEF v
  <2>3. v = r <=> \A i \in 1..Len(r) : p[i] = r[i]
    BY <2>2, SeqEqual
  <2>4. QED
    BY <1>1, <2>3 DEF StartsWith, v
<1>2. CASE ~(Len(r) <= Len(p))
  BY <1>2 DEF StartsWith
<1>3. QED
  BY <1>1, <1>2

LEMMA StartsWithChar ==
    ASSUME NEW S, NEW p \in Seq(S), NEW c \in S
    PROVE  StartsWith(p, <<c>>) <=> Len(p) >= 1 /\ p[1] = c
<1>1. <<c>> \in Seq(S) /\ Len(<<c>>) = 1 /\ <<c>>[1] = c /\ Len(p) \in Nat
  OBVIOUS
<1>2. StartsWith(p, <<c>>) <=> Len(<<c>>) <= Len(p) /\ \A i \in 1..Len(<<c>>) : p[i] = <<c>>[i]
  BY <1>1, StartsWithAt
<1>3. (\A i \in 1..1 : p[i] = <<c>>[i]) <=> p[1] = c
  BY <1>1
<1>4. QED
  BY <1>1, <1>2, <1>3

(* The two ways of saying that a route covers a path. *)
Covers(r, p) ==
    LET dir == IF r[Len(r)] = "/" THEN r ELSE Append(r, "/")
    IN p = r \/ (Len(dir) <= Len(p) /\ SubSeq(p, 1, Len(dir)) = dir)

LEMMA MatchesIsCovers ==
    ASSUME NEW p \in Seq(Alphabet), NEW t, t.path \in Seq(Alphabet), Len(t.path) > 0
    PROVE  PrefixMatches(t, p) <=> Covers(t.path, p)
<1> DEFINE r == t.path
           d == Append(r, "/")
<1>1. r \in Seq(Alphabet) /\ Len(r) \in Nat /\ Len(r) > 0 /\ Len(p) \in Nat /\ "/" \in Alphabet
  BY DEF Alphabet
<1>2. /\ d \in Seq(Alphabet) /\ Len(d) = Len(r) + 1 /\ d[Len(r) + 1] = "/"
      /\ \A i \in 1..Len(r) : d[i] = r[i]
  BY <1>1
<1>3. p = r <=> Len(p) = Len(r) /\ \A i \in 1..Len(r) : p[i] = r[i]
  BY <1>1, SeqEqual
<1>4. StartsWith(p, r) <=> Len(r) <= Len(p) /\ \A i \in 1..Len(r) : p[i] = r[i]
  BY <1>1, StartsWithAt
<1>5. StartsWith(p, d) <=> Len(d) <= Len(p) /\ \A i \in 1..Len(d) : p[i] = d[i]
  BY <1>2, StartsWithAt, ZenonT(60)
<1>6. Len(r) <= Len(p) =>
         (StartsWith(From(p, Len(r)), <<"/">>) <=> Len(p) > Len(r) /\ p[Len(r) + 1] = "/")
  <2> SUFFICES ASSUME Len(r) <= Len(p)
               PROVE  StartsWith(From(p, Len(r)), <<"/">>) <=> Len(p) > Len(r) /\ p[Len(r) + 1] = "/"
    OBVIOUS
  <2> DEFINE v == From(p, Len(r))
  <2>1. Len(r) \in 0..Len(p)
    BY <1>1
  <2>2. v \in Seq(Alphabet) /\ Len(v) = Len(p) - Len(r) /\ \A i \in 1..(Len(p) - Len(r)) : v[i] = p[Len(r) + i]
    BY <2>1, SubSeqAt, ZenonT(60)
  <2> HIDE DEF v, r
  <2>3. StartsWith(v, <<"/">>) <=> Len(v) >= 1 /\ v[1] = "/"
    BY <1>1, <2>2, StartsWithChar
  <2>4. QED
    BY <1>1, <2>2, <2>3 DEF v
<1>7. CASE r[Len(r)] = "/"
  <2>1. Covers(r, p) <=> p = r \/ StartsWith(p, r)
    BY <1>7 DEF Covers, StartsWith
  <2>2. PrefixMatches(t, p) <=> StartsWith(p, r)
    BY <1>7 DEF PrefixMatches
  <2> HIDE DEF r
  <2>3. Covers(r, p) <=> PrefixMatches(t, p)
    BY <1>1, <1>3, <1>4, <2>1, <2>2
  <2>4. QED
    BY <2>3 DEF r
<1>8. CASE r[Len(r)] # "/"
  <2>1. Covers(r, p) <=> p = r \/ StartsWith(p, d)
    BY <1>8 DEF Covers, StartsWith
  <2>2. PrefixMatches(t, p) <=>
           /\ StartsWith(p, r)
           /\ Len(p) = Len(r) \/ StartsWith(From(p, Len(r)), <<"/">>)
    BY <1>8 DEF PrefixMatches
  <2> HIDE DEF r, d
  <2>3. StartsWith(p, d) <=> StartsWith(p, r) /\ Len(p) > Len(r) /\ p[Len(r) + 1] = "/"
    <3>1. ASSUME StartsWith(p, d) PROVE StartsWith(p, r) /\ Len(p) > Len(r) /\ p[Len(r) + 1] = "/"
      <4>1. Len(r) + 1 \in 1..Len(d) /\ \A i \in 1..Len(r) : i \in 1..Len(d)
        BY <1>1, <1>2
      <4>2. QED
        BY <1>1, <1>2, <1>4, <1>5, <3>1, <4>1
    <3>2. ASSUME StartsWith(p, r), Len(p) > Len(r), p[Len(r) + 1] = "/" PROVE StartsWith(p, d)
      <4>1. \A i \in 1..Len(d) : i \in 1..Len(r) \/ i = Len(r) + 1
        BY <1>1, <1>2
      <4>2. QED
        BY <1>1, <1>2, <1>4, <1>5, <3>2, <4>1
    <3>3. QED
      BY <3>1, <3>2
  <2>4. Covers(r, p) <=> PrefixMatches(t, p)
    BY <1>1, <1>3, <1>4, <1>6, <2>1, <2>2, <2>3
  <2>5. QED
    BY <2>4 DEF r
<1>9. QED
  BY <1>7, <1>8

-----------------------------------------------------------------------------
(* Router::route *)

Configured ==
    /\ \E n \in Nat : config \in [1..n -> RouteConfig]
    /\ path \in RequestPaths

(* The first route of the sorted table that matches is the most specific   *)
(* of the configuration's.                                                 *)
LEMMA RouteChooses ==
    ASSUME Configured, RouterRoute
    PROVE  /\ \/ chosen' = <<>> /\ (Covering = {} \/ ~WellFormed(method))
              \/ \E i \in Covering :
                    /\ chosen' = <<config[i]>>
                    /\ \A j \in Covering :
                          \/ Len(config[j].path) < Len(config[i].path)
                          \/ Len(config[j].path) = Len(config[i].path) /\ i <= j
           /\ chosen' = <<>> \/ \E t \in RouteConfig :
                                   chosen' = <<t>> /\ PrefixMatches(t, path)
<1>1. PICK n \in Nat : config \in [1..n -> RouteConfig]
  BY DEF Configured
<1>2. ASSUME NEW i \in 1..n
      PROVE  /\ config[i] \in RouteConfig
             /\ config[i].path \in Seq(Alphabet) /\ Len(config[i].path) \in Nat /\ Len(config[i].path) > 0
  <2>1. config[i] \in RouteConfig
    BY <1>1
  <2>2. config[i].path \in RoutePaths
    BY <2>1 DEF RouteConfig
  <2>3. config[i].path \in Seq(STRING) /\ Len(config[i].path) > 0
    BY <2>2, RouterAssumption
  <2>4. config[i].path \in Seq(Alphabet)
    BY <2>3, PathsAreStrings
  <2>5. QED
    BY <2>1, <2>3, <2>4, LenProperties
<1>3. path \in Seq(Alphabet)
  BY PathsAreStrings, RouterAssumption DEF Configured
<1>4. DOMAIN config = 1..n
  BY <1>1
<1> DEFINE routes == Sorted(config)
           P(i) == Place(config, i)
           allows(t) == MethodAllowed(t, method)
           hits == {k \in DOMAIN routes :
                       WellFormed(method) /\ PrefixMatches(routes[k], path)
                       /\ allows(routes[k])}
<1>5. Covering = {i \in 1..n : allows(config[i]) /\ PrefixMatches(config[i], path)}
  <2>1. ASSUME NEW i \in 1..n
        PROVE  PrefixMatches(config[i], path) <=> Covers(config[i].path, path)
    BY <1>2, <1>3, MatchesIsCovers
  <2>2. ASSUME NEW i \in 1..n
        PROVE  allows(config[i]) <=>
                  \/ config[i].methods = {}
                  \/ Upper(method) \in {Upper(a) : a \in config[i].methods}
    BY DEF MethodAllowed
  <2>3. Covering =
           {i \in 1..n :
              /\ \/ config[i].methods = {}
                 \/ Upper(method) \in {Upper(a) : a \in config[i].methods}
              /\ Covers(config[i].path, path)}
    BY <1>4, Zenon DEF Covering, Covers
  <2>4. QED
    BY <2>1, <2>2, <2>3
<1>6. DOMAIN routes = 1..n /\ \A i \in 1..n : routes[P(i)] = config[i]
  BY <1>2, <1>4, SortedHolds
<1>7. /\ \A i \in 1..n : P(i) \in 1..n
      /\ \A i \in 1..n, j \in 1..n : UpTo(config, i, j) /\ i # j => P(i) < P(j)
  BY <1>2, <1>4, PlaceGrows
<1>8. \A k \in 1..n : \E i \in 1..n : P(i) = k
  BY <1>2, <1>4, PlaceIsPermutation
<1>9. chosen' = IF hits = {} THEN <<>> ELSE <<routes[CHOOSE k \in hits : \A l \in hits : k <= l]>>
  BY DEF RouterRoute
<1>10. \A i \in 1..n : P(i) \in hits <=> WellFormed(method) /\ i \in Covering
  <2> TAKE i \in 1..n
  <2>1. P(i) \in 1..n /\ routes[P(i)] = config[i]
    BY <1>6, <1>7
  <2> HIDE DEF routes, P, allows
  <2>2. QED
    BY <1>5, <1>6, <2>1
<1>11. hits \in SUBSET (1..n)
  BY <1>6
<1>12. CASE hits = {}
  <2>1. Covering = {} \/ ~WellFormed(method)
    <3> HIDE DEF hits, P, routes
    <3>1. Covering \subseteq 1..n
      BY <1>5
    <3>2. QED
      BY <1>10, <1>12, <3>1
  <2>2. QED
    BY <1>9, <1>12, <2>1
<1>13. CASE hits # {}
  <2> DEFINE k == CHOOSE k \in hits : \A l \in hits : k <= l
  <2>1. k \in hits /\ \A l \in hits : k <= l
    <3> HIDE DEF hits
    <3>1. hits \in SUBSET Nat
      BY <1>11
    <3>2. \E m \in hits : \A l \in hits : m <= l
      BY <1>13, <3>1, LeastElement
    <3>3. QED
      BY <3>2
  <2>2. chosen' = <<routes[k]>>
    BY <1>9, <1>13
  <2> HIDE DEF k, hits
  <2>3. PICK i \in 1..n : P(i) = k
    BY <1>8, <1>11, <2>1
  <2>4. i \in Covering /\ chosen' = <<config[i]>>
    <3> HIDE DEF P, routes
    <3>1. QED
      BY <1>6, <1>10, <2>1, <2>2, <2>3
  <2>5. ASSUME NEW j \in Covering
        PROVE  \/ Len(config[j].path) < Len(config[i].path)
               \/ Len(config[j].path) = Len(config[i].path) /\ i <= j
    <3>1. j \in 1..n
      BY <1>5
    <3> HIDE DEF P, routes
    <3>2. WellFormed(method)
      BY <1>10, <2>1, <2>3
    <3>3. P(j) \in hits
      BY <1>10, <3>1, <3>2
    <3>4. P(i) <= P(j)
      BY <2>1, <2>3, <3>3
    <3>5. ~(UpTo(config, j, i) /\ j # i)
      BY <1>7, <3>1, <3>4
    <3>6. UpTo(config, i, j)
      <4>1. UpTo(config, i, j) \/ UpTo(config, j, i)
        BY <1>2, <3>1, UpToTotal
      <4>2. CASE i = j
        BY <4>1, <4>2
      <4>3. QED
        BY <3>5, <4>1, <4>2
    <3>7. QED
      BY <1>2, <3>1, <3>6 DEF UpTo
  <2>6. config[i] \in RouteConfig /\ PrefixMatches(config[i], path)
    BY <1>2, <1>5, <2>4
  <2>7. QED
    BY <2>4, <2>5, <2>6
<1>14. QED
  BY <1>12, <1>13

(***************************************************************************)
(* MostSpecific is about the moment of choosing; the invariant adds what   *)
(* keeps it true and what the forwarding step rests on.                    *)
(***************************************************************************)
RouterInv ==
    /\ Configured
    /\ stage \in {"received", "routed", "forwarded"}
    /\ chosen = <<>> \/ \E t \in RouteConfig :
                           chosen = <<t>> /\ PrefixMatches(t, path)
    /\ stage = "forwarded" =>
          chosen # <<>> /\ forward = Stripped(path, chosen[1].path)
    /\ MostSpecific

LEMMA RouterInvHolds == RouterSpec => []RouterInv
<1>1. RouterInit => RouterInv
  <2> SUFFICES ASSUME RouterInit PROVE RouterInv
    OBVIOUS
  <2>1. PICK n \in 0..MaxRoutes : config \in [1..n -> RouteConfig]
    BY DEF RouterInit
  <2>2. n \in Nat
    BY <2>1, RouterAssumption
  <2>3. Configured
    BY <2>1, <2>2 DEF RouterInit, Configured
  <2>4. QED
    BY <2>3 DEF RouterInit, RouterInv, MostSpecific
<1>2. RouterInv /\ [RouterNext]_routerVars => RouterInv'
  <2> SUFFICES ASSUME RouterInv, [RouterNext]_routerVars PROVE RouterInv'
    OBVIOUS
  <2>1. ASSUME UNCHANGED <<config, method, path>> PROVE Covering' = Covering /\ Configured'
    BY <2>1 DEF Covering, Configured, RouterInv
  <2>2. CASE RouterRoute
    <3>1. UNCHANGED <<config, method, path>> /\ stage' = "routed"
      BY <2>2 DEF RouterRoute
    <3>2. /\ \/ chosen' = <<>> /\ (Covering = {} \/ ~WellFormed(method))
             \/ \E i \in Covering :
                   /\ chosen' = <<config[i]>>
                   /\ \A j \in Covering :
                         \/ Len(config[j].path) < Len(config[i].path)
                         \/ Len(config[j].path) = Len(config[i].path) /\ i <= j
          /\ chosen' = <<>> \/ \E t \in RouteConfig :
                                  chosen' = <<t>> /\ PrefixMatches(t, path)
      BY <2>2, RouteChooses, Zenon DEF RouterInv
    <3>3. MostSpecific'
      BY <2>1, <3>1, <3>2, Zenon DEF MostSpecific
    <3>4. QED
      BY <2>1, <3>1, <3>2, <3>3 DEF RouterInv
  <2>3. CASE Forward
    <3>1. /\ UNCHANGED <<config, method, path, chosen>> /\ stage' = "forwarded" /\ stage = "routed"
          /\ chosen # <<>> /\ forward' = Stripped(path, chosen[1].path)
      BY <2>3 DEF Forward
    <3>2. MostSpecific'
      BY <2>1, <3>1, Zenon DEF RouterInv, MostSpecific
    <3>3. QED
      BY <2>1, <3>1, <3>2 DEF RouterInv
  <2>4. CASE UNCHANGED routerVars
    <3>1. UNCHANGED <<config, method, path, chosen, stage, forward>>
      BY <2>4 DEF routerVars
    <3>2. MostSpecific'
      BY <2>1, <3>1, Zenon DEF RouterInv, MostSpecific
    <3>3. QED
      BY <2>1, <3>1, <3>2 DEF RouterInv
  <2>5. QED
    BY <2>2, <2>3, <2>4 DEF RouterNext
<1>3. QED
  BY <1>1, <1>2, PTL DEF RouterSpec

(* MostSpecific: however many routes are configured, in whatever order and *)
(* with whatever paths, the stable sort and the first match of             *)
(* Router::route give the longest route that covers the request, of        *)
(* several as long the first configured, and none only if none covers it.  *)
THEOREM LongestPrefixWins == RouterSpec => []MostSpecific
<1>1. RouterInv => MostSpecific
  BY DEF RouterInv
<1>2. QED
  BY <1>1, RouterInvHolds, PTL

-----------------------------------------------------------------------------
(* Segments *)

(* The recursive function inside Segments, and its step. *)
Extend(segs, c) == [segs EXCEPT ![Len(segs)] = Append(@, c)]
AddChar(segs, p, i) ==
    IF p[i] = "/" THEN segs
    ELSE IF i > 1 /\ p[i - 1] # "/" THEN Extend(segs, p[i]) ELSE Append(segs, <<p[i]>>)
SegsOf(p) ==
    CHOOSE f : f = [i \in 0..Len(p) |-> IF i = 0 THEN <<>> ELSE AddChar(f[i - 1], p, i)]

LEMMA SegmentsIsSegsOf == \A p : Segments(p) = SegsOf(p)[Len(p)]
  BY DEF Segments, SegsOf, AddChar, Extend

LEMMA AddCharCases ==
    ASSUME NEW segs, NEW p, NEW i
    PROVE  /\ p[i] = "/" => AddChar(segs, p, i) = segs
           /\ p[i] # "/" /\ i > 1 /\ p[i - 1] # "/" => AddChar(segs, p, i) = Extend(segs, p[i])
           /\ p[i] # "/" /\ ~(i > 1 /\ p[i - 1] # "/") => AddChar(segs, p, i) = Append(segs, <<p[i]>>)
BY Zenon DEF AddChar

(* Whether f is that function up to n. *)
Splits(f, p, n) ==
    f[0] = <<>> /\ \A i \in 1..n : f[i] = AddChar(f[i - 1], p, i)

LEMMA SegsExist ==
    ASSUME NEW p, Len(p) \in Nat
    PROVE  \E f : f = [i \in 0..Len(p) |-> f[i]] /\ Splits(f, p, Len(p))
<1> DEFINE N == Len(p)
           Table0(f) == f = [i \in 0..N |-> f[i]]
           T == {n \in 0..N : ~ \E f : Table0(f) /\ Splits(f, p, n)}
<1>1. N \in Nat
  OBVIOUS
<1> HIDE DEF N
<1>2. SUFFICES ASSUME T # {} PROVE FALSE
  <2>1. N \in 0..N
    BY <1>1
  <2>2. QED
    BY <2>1 DEF N
<1>3. PICK n \in T : \A m \in T : n <= m
  <2>1. T \in SUBSET Nat
    BY <1>1
  <2> HIDE DEF T
  <2>2. QED
    BY <1>2, <2>1, LeastElement
<1>4. n # 0
  <2> DEFINE z == [i \in 0..N |-> <<>>]
  <2>1. Table0(z) /\ Splits(z, p, 0)
    BY <1>1 DEF Splits
  <2>2. QED
    BY <2>1
<1>5. n - 1 \in 0..N /\ n - 1 \notin T /\ n \in 1..N
  <2>1. n \in 0..N
    BY <1>3
  <2> HIDE DEF T
  <2>2. QED
    BY <1>1, <1>3, <1>4, <2>1
<1>6. PICK f : Table0(f) /\ Splits(f, p, n - 1)
  BY <1>5
<1> DEFINE g == [i \in 0..N |-> IF i = n THEN AddChar(f[n - 1], p, n) ELSE f[i]]
<1>7. Table0(g)
  OBVIOUS
<1>8. Splits(g, p, n)
  <2>1. g[n] = AddChar(f[n - 1], p, n) /\ \A i \in 0..(n - 1) : g[i] = f[i]
    BY <1>1, <1>5
  <2> HIDE DEF g
  <2>2. g[0] = <<>>
    <3>1. 0 \in 0..(n - 1) /\ f[0] = <<>>
      BY <1>1, <1>5, <1>6 DEF Splits
    <3>2. QED
      BY <2>1, <3>1
  <2>3. ASSUME NEW i \in 1..n PROVE g[i] = AddChar(g[i - 1], p, i)
    <3>1. CASE i = n
      BY <1>5, <2>1, <3>1
    <3>2. CASE i # n
      <4>1. i \in 1..(n - 1) /\ i \in 0..(n - 1) /\ i - 1 \in 0..(n - 1)
        BY <1>1, <1>5, <3>2
      <4>2. QED
        BY <1>6, <2>1, <4>1 DEF Splits
    <3>3. QED
      BY <3>1, <3>2
  <2>4. QED
    BY <2>2, <2>3 DEF Splits
<1>9. QED
  BY <1>5, <1>7, <1>8

(* Segments unfolds: it looks at one character after the other. *)
LEMMA SegsOfDef ==
    ASSUME NEW p, Len(p) \in Nat
    PROVE  Splits(SegsOf(p), p, Len(p))
<1> DEFINE N == Len(p)
           Body(f) == [i \in 0..N |-> IF i = 0 THEN <<>> ELSE AddChar(f[i - 1], p, i)]
<1>1. PICK f : f = [i \in 0..N |-> f[i]] /\ Splits(f, p, N)
  BY SegsExist
<1>2. N \in Nat
  OBVIOUS
<1> HIDE DEF N
<1>3. f = Body(f)
  <2>1. \A i \in 0..N : f[i] = IF i = 0 THEN <<>> ELSE AddChar(f[i - 1], p, i)
    BY <1>1, <1>2 DEF Splits
  <2>2. QED
    BY <1>1, <2>1
<1>4. SegsOf(p) = CHOOSE h : h = Body(h)
  BY DEF SegsOf, N
<1>5. SegsOf(p) = Body(SegsOf(p))
  BY <1>3, <1>4
<1> DEFINE u == SegsOf(p)
<1>6. u = Body(u)
  BY <1>5
<1> HIDE DEF u
<1>7. \A i \in 0..N : u[i] = IF i = 0 THEN <<>> ELSE AddChar(u[i - 1], p, i)
  BY <1>6
<1>8. Splits(u, p, N)
  BY <1>2, <1>7, SMTT(40) DEF Splits
<1>9. QED
  BY <1>8 DEF u, N

LEMMA ExtendType ==
    ASSUME NEW A, NEW b \in Seq(Seq(A)), Len(b) > 0, NEW c \in A
    PROVE  /\ Extend(b, c) \in Seq(Seq(A)) /\ Len(Extend(b, c)) = Len(b)
           /\ \A j \in 1..Len(b) : Extend(b, c)[j] = IF j = Len(b) THEN Append(b[j], c) ELSE b[j]
<1>1. Len(b) \in Nat /\ Len(b) \in 1..Len(b)
  BY LenProperties
<1>2. b[Len(b)] \in Seq(A)
  BY <1>1, ElementOfSeq
<1>3. Append(b[Len(b)], c) \in Seq(A)
  BY <1>2
<1>4. Extend(b, c) = [b EXCEPT ![Len(b)] = Append(b[Len(b)], c)]
  BY DEF Extend
<1> DEFINE e == Append(b[Len(b)], c)
<1> HIDE DEF e
<1>5. /\ [b EXCEPT ![Len(b)] = e] \in Seq(Seq(A)) /\ Len([b EXCEPT ![Len(b)] = e]) = Len(b)
      /\ \A j \in 1..Len(b) : [b EXCEPT ![Len(b)] = e][j] = IF j = Len(b) THEN e ELSE b[j]
  BY <1>1, <1>3, ExceptSeq DEF e
<1>6. QED
  BY <1>4, <1>5 DEF e

(* Extending the last segment of a longer list. *)
LEMMA ExtendRight ==
    ASSUME NEW A, NEW a \in Seq(Seq(A)), NEW b \in Seq(Seq(A)), Len(b) > 0, NEW c \in A
    PROVE  Extend(a \o b, c) = a \o Extend(b, c)
<1> DEFINE u == Extend(a \o b, c)
           e == Extend(b, c)
           v == a \o e
           m == a \o b
<1>1. /\ m \in Seq(Seq(A)) /\ Len(m) = Len(a) + Len(b) /\ Len(a) \in Nat /\ Len(b) \in Nat
      /\ \A i \in 1..(Len(a) + Len(b)) : m[i] = IF i <= Len(a) THEN a[i] ELSE b[i - Len(a)]
  BY ConcatProperties, LenProperties
<1>1a. Len(m) = Len(a) + Len(b) /\ Len(a) \in Nat /\ Len(b) \in Nat
  BY <1>1
<1>2. /\ e \in Seq(Seq(A)) /\ Len(e) = Len(b)
      /\ \A j \in 1..Len(b) : e[j] = IF j = Len(b) THEN Append(b[j], c) ELSE b[j]
  BY ExtendType
<1> HIDE DEF e, m
<1>3. /\ v \in Seq(Seq(A)) /\ Len(v) = Len(a) + Len(b)
      /\ \A i \in 1..(Len(a) + Len(b)) : v[i] = IF i <= Len(a) THEN a[i] ELSE e[i - Len(a)]
  <2>1. /\ v \in Seq(Seq(A)) /\ Len(v) = Len(a) + Len(e)
        /\ \A i \in 1..(Len(a) + Len(e)) : v[i] = IF i <= Len(a) THEN a[i] ELSE e[i - Len(a)]
    BY <1>2, ConcatProperties
  <2> HIDE DEF v
  <2>2. QED
    BY <1>2, <2>1
<1>4. /\ u \in Seq(Seq(A)) /\ Len(u) = Len(m)
      /\ \A j \in 1..Len(m) : u[j] = IF j = Len(m) THEN Append(m[j], c) ELSE m[j]
  <2>1. Len(m) > 0
    BY <1>1
  <2>2. /\ Extend(m, c) \in Seq(Seq(A)) /\ Len(Extend(m, c)) = Len(m)
        /\ \A j \in 1..Len(m) : Extend(m, c)[j] = IF j = Len(m) THEN Append(m[j], c) ELSE m[j]
    BY <1>1, <2>1, ExtendType
  <2>3. QED
    BY <2>2 DEF m
<1> HIDE DEF u, v
<1>5. ASSUME NEW i \in 1..Len(u) PROVE u[i] = v[i]
  <2>1. i \in 1..(Len(a) + Len(b))
    BY <1>1, <1>4
  <2>2. CASE i <= Len(a)
    <3>1. i # Len(m) /\ i \in 1..Len(m)
      BY <1>1a, <2>1, <2>2
    <3>2. u[i] = m[i] /\ m[i] = a[i] /\ v[i] = a[i]
      BY <1>1, <1>3, <1>4, <2>1, <2>2, <3>1
    <3>3. QED
      BY <3>2
  <2>3. CASE i > Len(a)
    <3>1. PICK j \in 1..Len(b) : i = Len(a) + j /\ i - Len(a) = j
      <4>1. i - Len(a) \in 1..Len(b) /\ i = Len(a) + (i - Len(a))
        BY <1>1a, <2>1, <2>3
      <4>2. QED
        BY <4>1, Zenon
    <3>2. m[i] = b[j] /\ v[i] = e[j] /\ (i = Len(m) <=> j = Len(b))
      <4>1. ~(i <= Len(a))
        BY <1>1a, <2>1, <2>3
      <4>2. m[i] = b[i - Len(a)] /\ v[i] = e[i - Len(a)]
        BY <1>1, <1>3, <2>1, <4>1
      <4>3. i = Len(m) <=> j = Len(b)
        <5>1. Len(a) \in Nat /\ Len(b) \in Nat /\ Len(m) = Len(a) + Len(b)
          BY <1>1a
        <5>2. i = Len(a) + j
          BY <3>1
        <5>3. i = Len(m) => j = Len(b)
          BY <5>1, <5>2
        <5>4. j = Len(b) => i = Len(m)
          BY <5>1, <5>2
        <5>5. QED
          BY <5>3, <5>4, Zenon
      <4>4. QED
        BY <3>1, <4>2, <4>3
    <3>3. i \in 1..Len(m)
      BY <1>1a, <2>1
    <3>4. u[i] = IF i = Len(m) THEN Append(m[i], c) ELSE m[i]
      BY <1>4, <3>3
    <3>5. QED
      BY <1>2, <3>2, <3>4
  <2>4. QED
    BY <1>1, <2>1, <2>2, <2>3
<1>6. u = v
  BY <1>1, <1>3, <1>4, <1>5, SeqEqual
<1>7. QED
  BY <1>6 DEF u, v, e, m

LEMMA AppendRight ==
    ASSUME NEW A, NEW a \in Seq(A), NEW b \in Seq(A), NEW x \in A
    PROVE  a \o Append(b, x) = Append(a \o b, x)
<1> DEFINE u == a \o Append(b, x)
           v == Append(a \o b, x)
<1>1. Append(b, x) \in Seq(A) /\ a \o b \in Seq(A)
  OBVIOUS
<1>2. u \in Seq(A) /\ v \in Seq(A) /\ Len(u) = Len(a) + Len(b) + 1 /\ Len(v) = Len(u)
  BY <1>1
<1>3. ASSUME NEW i \in 1..Len(u) PROVE u[i] = v[i]
  <2>1. CASE i <= Len(a)
    BY <1>1, <1>2, <2>1
  <2>2. CASE i > Len(a) /\ i <= Len(a) + Len(b)
    BY <1>1, <1>2, <2>2
  <2>3. CASE i = Len(a) + Len(b) + 1
    BY <1>1, <1>2, <2>3
  <2>4. QED
    BY <1>2, <2>1, <2>2, <2>3
<1>4. QED
  BY <1>2, <1>3, SeqEqual

(* Segments are sequences, and after a character other than "/" there is   *)
(* one to extend.                                                          *)
LEMMA SegsType ==
    ASSUME NEW A, NEW p \in Seq(A)
    PROVE  \A i \in 0..Len(p) :
              /\ SegsOf(p)[i] \in Seq(Seq(A))
              /\ i > 0 /\ p[i] # "/" => Len(SegsOf(p)[i]) > 0
<1> DEFINE N == Len(p)
           u == SegsOf(p)
           Good(i) == u[i] \in Seq(Seq(A)) /\ (i > 0 /\ p[i] # "/" => Len(u[i]) > 0)
           T == {i \in 0..N : ~Good(i)}
<1>1. N \in Nat /\ Splits(u, p, N) /\ \A i \in 1..N : p[i] \in A
  BY LenProperties, ElementOfSeq, SegsOfDef
<1> HIDE DEF u, N
<1>2. SUFFICES ASSUME T # {} PROVE FALSE
  BY DEF u, N
<1>3. PICK n \in T : \A m \in T : n <= m
  <2>1. T \in SUBSET Nat
    BY <1>1
  <2> HIDE DEF T
  <2>2. QED
    BY <1>2, <2>1, LeastElement
<1>4. n # 0
  <2>1. Good(0)
    BY <1>1, EmptySeq DEF Splits
  <2>2. QED
    BY <2>1
<1>5. n \in 1..N /\ n - 1 \in 0..N /\ n - 1 \notin T
  <2>1. n \in 0..N
    BY <1>3
  <2> HIDE DEF T
  <2>2. QED
    BY <1>1, <1>3, <1>4, <2>1
<1>6. Good(n - 1) /\ u[n] = AddChar(u[n - 1], p, n) /\ p[n] \in A
  BY <1>1, <1>5 DEF Splits
<1>7. Good(n)
  <2>1. CASE p[n] = "/"
    BY <1>6, <2>1 DEF AddChar
  <2>2. CASE p[n] # "/" /\ n > 1 /\ p[n - 1] # "/"
    <3>1. u[n] = Extend(u[n - 1], p[n])
      BY <1>6, <2>2 DEF AddChar
    <3>2. u[n - 1] \in Seq(Seq(A)) /\ Len(u[n - 1]) > 0
      BY <1>5, <1>6, <2>2
    <3>3. QED
      BY <1>6, <3>1, <3>2, ExtendType
  <2>3. CASE p[n] # "/" /\ ~(n > 1 /\ p[n - 1] # "/")
    <3>1. u[n] = Append(u[n - 1], <<p[n]>>)
      BY <1>6, <2>3 DEF AddChar
    <3>2. <<p[n]>> \in Seq(A) /\ u[n - 1] \in Seq(Seq(A))
      BY <1>6
    <3>3. u[n] \in Seq(Seq(A)) /\ Len(u[n]) = Len(u[n - 1]) + 1 /\ Len(u[n - 1]) \in Nat
      BY <3>1, <3>2, AppendProperties, LenProperties
    <3>4. QED
      BY <3>3
  <2>4. QED
    BY <2>1, <2>2, <2>3
<1>8. QED
  BY <1>3, <1>7

(* A character that means the same at m of p as at n of q does to the      *)
(* segments a \o b what it does to b alone.                                *)
SameChar(A, b, p, m, q, n) ==
    /\ q[n] \in A /\ p[m] = q[n]
    /\ q[n] # "/" => ((m > 1 /\ p[m - 1] # "/") <=> (n > 1 /\ q[n - 1] # "/"))
    /\ n > 1 /\ q[n - 1] # "/" => Len(b) > 0

LEMMA AddCharRight ==
    ASSUME NEW A, NEW a \in Seq(Seq(A)), NEW b \in Seq(Seq(A)), NEW p, NEW m, NEW q, NEW n,
           SameChar(A, b, p, m, q, n)
    PROVE  AddChar(a \o b, p, m) = a \o AddChar(b, q, n)
<1>s. /\ q[n] \in A /\ p[m] = q[n]
      /\ q[n] # "/" => ((m > 1 /\ p[m - 1] # "/") <=> (n > 1 /\ q[n - 1] # "/"))
      /\ n > 1 /\ q[n - 1] # "/" => Len(b) > 0
  BY Zenon DEF SameChar
<1> DEFINE starts(x, i) == ~(i > 1 /\ x[i - 1] # "/")
<1>0. ASSUME NEW s, NEW x, NEW i, x[i] = "/" PROVE AddChar(s, x, i) = s
  BY <1>0, Zenon DEF AddChar
<1>e. ASSUME NEW s, NEW x, NEW i, x[i] # "/", ~starts(x, i) PROVE AddChar(s, x, i) = Extend(s, x[i])
  BY <1>e, Zenon DEF AddChar
<1>n. ASSUME NEW s, NEW x, NEW i, x[i] # "/", starts(x, i) PROVE AddChar(s, x, i) = Append(s, <<x[i]>>)
  BY <1>n, Zenon DEF AddChar
<1>h. q[n] # "/" => (starts(p, m) <=> starts(q, n))
  BY <1>s, Zenon
<1>g. ~starts(q, n) => Len(b) > 0
  BY <1>s, Zenon
<1> HIDE DEF starts
<1>1. CASE q[n] = "/"
  <2>1. AddChar(a \o b, p, m) = a \o b
    BY <1>s, <1>0, <1>1, Zenon
  <2>2. AddChar(b, q, n) = b
    BY <1>s, <1>0, <1>1, Zenon
  <2>3. QED
    BY <2>1, <2>2, Zenon
<1>2. CASE q[n] # "/" /\ ~starts(q, n)
  <2>1. AddChar(a \o b, p, m) = Extend(a \o b, p[m])
    BY <1>s, <1>e, <1>h, <1>2, Zenon
  <2>2. AddChar(b, q, n) = Extend(b, q[n])
    BY <1>e, <1>2, Zenon
  <2>3. Len(b) > 0
    BY <1>g, <1>2, Zenon
  <2>4. PICK c \in A : c = q[n]
    BY <1>s, Zenon
  <2>5. Extend(a \o b, c) = a \o Extend(b, c)
    BY <2>3, ExtendRight
  <2>6. QED
    BY <1>s, <2>1, <2>2, <2>4, <2>5, Zenon
<1>3. CASE q[n] # "/" /\ starts(q, n)
  <2>1. AddChar(a \o b, p, m) = Append(a \o b, <<p[m]>>)
    BY <1>s, <1>n, <1>h, <1>3, Zenon
  <2>2. AddChar(b, q, n) = Append(b, <<q[n]>>)
    BY <1>n, <1>3, Zenon
  <2>3. PICK c \in A : c = q[n]
    BY <1>s, Zenon
  <2>4. <<c>> \in Seq(A)
    OBVIOUS
  <2>5. a \o Append(b, <<c>>) = Append(a \o b, <<c>>)
    BY <2>4, AppendRight
  <2>6. QED
    BY <1>s, <2>1, <2>2, <2>3, <2>5, Zenon
<1>4. QED
  BY <1>1, <1>2, <1>3, Zenon

(* The segments of two paths put together, where no segment runs across    *)
(* the seam.                                                               *)
LEMMA SegmentsSplit ==
    ASSUME NEW A, NEW r \in Seq(A), NEW q \in Seq(A),
           \/ Len(q) = 0
           \/ q[1] = "/"
           \/ Len(r) > 0 /\ r[Len(r)] = "/"
    PROVE  Segments(r \o q) = Segments(r) \o Segments(q)
<1> DEFINE p == r \o q
           k == Len(r)
           N == Len(q)
           u == SegsOf(p)
           v == SegsOf(r)
           w == SegsOf(q)
<1>1. p \in Seq(A) /\ Len(p) = k + N /\ k \in Nat /\ N \in Nat
  BY ConcatProperties, LenProperties
<1>2. ASSUME NEW i \in 1..k PROVE p[i] = r[i]
  <2>1. i \in 1..(Len(r) + Len(q)) /\ i <= Len(r)
    BY <1>1
  <2>2. QED
    BY <2>1, ConcatProperties
<1>3. ASSUME NEW i \in 1..N PROVE p[k + i] = q[i]
  <2>1. PICK j \in Nat : j = k + i
    BY <1>1
  <2>2. j \in 1..(Len(r) + Len(q)) /\ ~(j <= Len(r)) /\ j - Len(r) = i
    BY <1>1, <2>1
  <2>3. p[j] = q[j - Len(r)]
    BY <2>2, ConcatProperties
  <2>4. QED
    BY <2>1, <2>2, <2>3
<1>4. Splits(u, p, k + N) /\ Splits(v, r, k) /\ Splits(w, q, N)
  <2> HIDE DEF p
  <2>1. Len(p) \in Nat /\ Len(r) \in Nat /\ Len(q) \in Nat
    BY <1>1
  <2>2. Splits(u, p, Len(p)) /\ Splits(v, r, Len(r)) /\ Splits(w, q, Len(q))
    BY <2>1, SegsOfDef
  <2>3. QED
    BY <1>1, <2>2
<1>5. v[k] \in Seq(Seq(A)) /\ \A i \in 0..N : w[i] \in Seq(Seq(A))
  <2>1. k \in 0..k
    BY <1>1
  <2>2. QED
    BY <2>1, SegsType
<1>5a. \A i \in 0..N : i > 0 /\ q[i] # "/" => Len(w[i]) > 0
  BY SegsType
<1>6. /\ \A i \in 1..N : q[i] \in A
      /\ N = 0 \/ q[1] = "/" \/ (k > 0 /\ r[k] = "/")
  BY ElementOfSeq
<1> HIDE DEF p, k, N, u, v, w
(* What is made of the first path does not depend on the second. *)
<1>7. u[k] = v[k]
  <2> DEFINE T == {i \in 0..k : u[i] # v[i]}
  <2>1. SUFFICES ASSUME T # {} PROVE FALSE
    <3>1. k \in 0..k
      BY <1>1
    <3>2. QED
      BY <3>1
  <2>2. PICK n \in T : \A m \in T : n <= m
    <3>1. T \in SUBSET Nat
      BY <1>1
    <3> HIDE DEF T
    <3>2. QED
      BY <2>1, <3>1, LeastElement
  <2>3. n # 0
    BY <1>4 DEF Splits
  <2>4. n \in 1..k /\ n \in 1..(k + N) /\ n - 1 \in 0..k /\ n - 1 \notin T
    <3>1. n \in 0..k
      BY <2>2
    <3> HIDE DEF T
    <3>2. QED
      BY <1>1, <2>2, <2>3, <3>1
  <2>5. u[n] = AddChar(u[n - 1], p, n) /\ v[n] = AddChar(v[n - 1], r, n) /\ u[n - 1] = v[n - 1]
    BY <1>4, <2>4 DEF Splits
  <2>6. p[n] = r[n] /\ (n > 1 => p[n - 1] = r[n - 1])
    <3>1. n > 1 => n - 1 \in 1..k
      BY <1>1, <2>4
    <3>2. QED
      BY <1>2, <2>4, <3>1
  <2>7. u[n] = v[n]
    BY <2>5, <2>6 DEF AddChar
  <2>8. QED
    BY <2>2, <2>7
(* From there on, every character does to both what it does to the second. *)
<1>8. u[k + N] = v[k] \o w[N]
  <2> DEFINE T == {i \in 0..N : u[k + i] # v[k] \o w[i]}
  <2>1. SUFFICES ASSUME T # {} PROVE FALSE
    <3>1. N \in 0..N
      BY <1>1
    <3>2. QED
      BY <3>1
  <2>2. PICK n \in T : \A m \in T : n <= m
    <3>0. T \in SUBSET (0..N)
      BY Zenon
    <3>1. T \in SUBSET Nat
      <4> HIDE DEF T
      <4>1. QED
        BY <1>1, <3>0
    <3> HIDE DEF T
    <3>2. QED
      BY <2>1, <3>1, LeastElement
  <2>3. n # 0
    <3>1. w[0] = <<>> /\ v[k] \o <<>> = v[k] /\ k + 0 = k
      BY <1>1, <1>4, <1>5, ConcatEmptySeq DEF Splits
    <3>2. u[k + 0] = v[k] \o w[0]
      BY <1>7, <3>1
    <3>3. QED
      BY <3>2
  <2>4. n \in 1..N /\ n - 1 \in 0..N /\ n - 1 \notin T /\ k + n \in 1..(k + N) /\ k + n - 1 = k + (n - 1)
    <3>1. n \in 0..N
      BY <2>2
    <3> HIDE DEF T
    <3>2. QED
      BY <1>1, <2>2, <2>3, <3>1
  <2>5. u[k + (n - 1)] = v[k] \o w[n - 1]
    BY <2>4
  <2> HIDE DEF T
  <2>6. PICK m \in 1..(k + N) : m = k + n
    BY <2>4, Zenon
  <2>7. m \in Nat /\ m - 1 = k + (n - 1) /\ n \in Nat /\ n > 0 /\ m >= n
    BY <1>1, <2>4, <2>6
  <2>8. u[m] = AddChar(v[k] \o w[n - 1], p, m)
    <3>1. u[m] = AddChar(u[m - 1], p, m)
      BY <1>4, <2>6, Zenon DEF Splits
    <3>2. u[m - 1] = v[k] \o w[n - 1]
      BY <2>5, <2>7
    <3>3. QED
      BY <3>1, <3>2, Zenon
  <2>9. w[n] = AddChar(w[n - 1], q, n)
    BY <1>4, <2>4 DEF Splits
  <2>10. AddChar(v[k] \o w[n - 1], p, m) = v[k] \o AddChar(w[n - 1], q, n)
    <3>1. q[n] \in A
      BY <1>6, <2>4
    <3>2. p[m] = q[n]
      BY <1>3, <2>4, <2>6
    <3>3. v[k] \in Seq(Seq(A)) /\ w[n - 1] \in Seq(Seq(A))
      BY <1>5, <2>4
    <3>4. n > 1 => n - 1 \in 1..N /\ p[m - 1] = q[n - 1] /\ m > 1
      <4>1. SUFFICES ASSUME n > 1 PROVE n - 1 \in 1..N /\ p[m - 1] = q[n - 1] /\ m > 1
        OBVIOUS
      <4>2. n - 1 \in 1..N /\ m > 1
        BY <1>1, <2>4, <2>7, <4>1
      <4>3. QED
        BY <1>3, <2>7, <4>2
    <3>5. n > 1 /\ q[n - 1] # "/" => Len(w[n - 1]) > 0
      <4>1. SUFFICES ASSUME n > 1, q[n - 1] # "/" PROVE Len(w[n - 1]) > 0
        OBVIOUS
      <4>2. n - 1 \in 0..N /\ n - 1 > 0
        BY <1>1, <2>4, <4>1
      <4>3. QED
        BY <1>5a, <4>1, <4>2
    <3>6. q[n] # "/" => ((m > 1 /\ p[m - 1] # "/") <=> (n > 1 /\ q[n - 1] # "/"))
      <4>1. CASE n > 1
        BY <3>4, <4>1
      <4>2. CASE n = 1
        <5>1. SUFFICES ASSUME q[1] # "/", m > 1 PROVE p[m - 1] = "/"
          BY <4>2
        <5>2. N # 0 /\ m - 1 = k /\ k > 0 /\ k \in 1..k
          BY <1>1, <2>4, <2>7, <4>2, <5>1
        <5>3. r[k] = "/"
          BY <1>6, <5>1, <5>2
        <5>4. QED
          BY <1>2, <5>2, <5>3
      <4>3. QED
        BY <2>7, <4>1, <4>2
    <3>7. PICK a \in Seq(Seq(A)), b \in Seq(Seq(A)) : a = v[k] /\ b = w[n - 1]
      BY <3>3, Zenon
    <3>8. n > 1 /\ q[n - 1] # "/" => Len(b) > 0
      BY <3>5, <3>7, Zenon
    <3>9. SameChar(A, b, p, m, q, n)
      BY <3>1, <3>2, <3>6, <3>8, Zenon DEF SameChar
    <3>10. AddChar(a \o b, p, m) = a \o AddChar(b, q, n)
      BY <3>9, AddCharRight
    <3>11. QED
      BY <3>7, <3>10, Zenon
  <2>11. u[k + n] = v[k] \o w[n]
    BY <2>6, <2>8, <2>9, <2>10
  <2>12. QED
    BY <2>2, <2>11 DEF T
<1>9. Segments(p) = u[k + N] /\ Segments(r) = v[k] /\ Segments(q) = w[N]
  BY <1>1, SegmentsIsSegsOf DEF u, v, w, k, N
<1>10. QED
  BY <1>8, <1>9 DEF p

(* strip_prefix on a path that the route matches. *)
LEMMA StripKeeps ==
    ASSUME NEW p \in Seq(Alphabet), NEW t, t.path \in Seq(Alphabet), Len(t.path) > 0,
           PrefixMatches(t, p)
    PROVE  /\ Stripped(p, t.path)[1] = "/"
           /\ Segments(p) = Segments(t.path) \o Segments(Stripped(p, t.path))
<1> DEFINE r == t.path
           q == From(p, Len(r))
           s == <<"/">>
           f == Stripped(p, r)
<1>1. /\ r \in Seq(Alphabet) /\ Len(r) \in Nat /\ Len(r) > 0 /\ Len(p) \in Nat
      /\ Len(r) <= Len(p) /\ \A i \in 1..Len(r) : p[i] = r[i]
  BY StartsWithAt DEF PrefixMatches
<1>2. s \in Seq(Alphabet) /\ Len(s) = 1 /\ s[1] = "/" /\ s[Len(s)] = "/"
  BY DEF Alphabet
<1>3. q \in Seq(Alphabet) /\ Len(q) = Len(p) - Len(r) /\ \A i \in 1..(Len(p) - Len(r)) : q[i] = p[Len(r) + i]
  <2>1. Len(r) \in 0..Len(p)
    BY <1>1
  <2>2. QED
    BY <2>1, SubSeqAt, ZenonT(60)
<1>4. p = r \o q
  <2> DEFINE v == r \o q
  <2>1. /\ v \in Seq(Alphabet) /\ Len(v) = Len(r) + Len(q)
        /\ \A i \in 1..(Len(r) + Len(q)) : v[i] = IF i <= Len(r) THEN r[i] ELSE q[i - Len(r)]
    <3> HIDE DEF r, q
    <3>1. QED
      BY <1>1, <1>3, ConcatProperties
  <2> HIDE DEF r, q, v
  <2>2. ASSUME NEW i \in 1..Len(p) PROVE v[i] = p[i]
    <3>1. i \in 1..(Len(r) + Len(q))
      BY <1>1, <1>3
    <3>2. CASE i <= Len(r)
      BY <1>1, <2>1, <3>1, <3>2
    <3>3. CASE ~(i <= Len(r))
      <4>1. i - Len(r) \in 1..(Len(p) - Len(r)) /\ Len(r) + (i - Len(r)) = i
        BY <1>1, <3>3
      <4>2. q[i - Len(r)] = p[i]
        BY <1>3, <4>1
      <4>3. QED
        BY <2>1, <3>1, <3>3, <4>2
    <3>4. QED
      BY <3>2, <3>3
  <2>3. Len(v) = Len(p)
    BY <1>1, <1>3, <2>1
  <2>4. p = v
    BY <2>1, <2>2, <2>3, SeqEqual
  <2>5. QED
    BY <2>4 DEF v
<1>5. StartsWith(q, s) <=> Len(q) >= 1 /\ q[1] = "/"
  <2> HIDE DEF q
  <2>1. QED
    BY <1>3, StartsWithChar DEF Alphabet
<1>6. Len(q) = 0 \/ q[1] = "/" \/ r[Len(r)] = "/"
  <2>1. Len(p) = Len(r) \/ StartsWith(q, s) \/ r[Len(r)] = "/"
    BY DEF PrefixMatches
  <2> HIDE DEF r, q, s
  <2>2. QED
    BY <1>1, <1>3, <1>5, <2>1
<1>7. Segments(p) = Segments(r) \o Segments(q)
  <2> HIDE DEF r, q
  <2>1. Segments(r \o q) = Segments(r) \o Segments(q)
    BY <1>1, <1>3, <1>6, SegmentsSplit
  <2>2. QED
    BY <1>4, <2>1
<1>8. f = IF StartsWith(q, s) THEN q ELSE s \o q
  BY DEF Stripped
<1> HIDE DEF f, q
<1>9. CASE StartsWith(q, s)
  BY <1>5, <1>7, <1>8, <1>9 DEF f
<1>10. CASE ~StartsWith(q, s)
  <2>1. f = s \o q
    BY <1>8, <1>10
  <2>2. Segments(s \o q) = Segments(s) \o Segments(q)
    <3> HIDE DEF s
    <3>1. Len(s) > 0 /\ s[Len(s)] = "/"
      BY <1>2
    <3>2. QED
      BY <1>2, <1>3, <3>1, SegmentsSplit
  <2>3. Segments(s) = <<>>
    <3> DEFINE u == SegsOf(s)
    <3> HIDE DEF u, s
    <3>1. Splits(u, s, 1)
      <4>1. Len(s) \in Nat
        BY <1>2
      <4>2. Splits(SegsOf(s), s, Len(s))
        BY <4>1, SegsOfDef
      <4>3. QED
        BY <1>2, <4>2 DEF u
    <3>2. u[0] = <<>> /\ u[1] = AddChar(u[0], s, 1)
      <4>1. 1 \in 1..1 /\ 1 - 1 = 0
        OBVIOUS
      <4>2. QED
        BY <3>1, <4>1 DEF Splits
    <3>3. u[1] = <<>>
      BY <1>2, <3>2 DEF AddChar
    <3>4. QED
      BY <1>2, <3>3, SegmentsIsSegsOf DEF u
  <2>4. Segments(q) \in Seq(Seq(Alphabet))
    <3>1. Len(q) \in 0..Len(q)
      BY <1>3, LenProperties
    <3>2. QED
      BY <1>3, <3>1, SegsType, SegmentsIsSegsOf
  <2>5. Segments(f) = Segments(q)
    BY <2>1, <2>2, <2>3, <2>4, ConcatEmptySeq
  <2>6. f[1] = "/"
    <3>1. 1 \in 1..(Len(s) + Len(q)) /\ 1 <= Len(s)
      <4>1. Len(q) \in Nat
        BY <1>3, LenProperties
      <4>2. QED
        BY <1>2, <4>1
    <3>2. (s \o q)[1] = s[1]
      <4> HIDE DEF s
      <4>1. QED
        BY <1>2, <1>3, <3>1, ConcatProperties
    <3>3. QED
      BY <1>2, <2>1, <3>2
  <2>7. QED
    BY <1>7, <2>5, <2>6 DEF f
<1>11. QED
  BY <1>9, <1>10

(* StripKeepsSegments: for routes and paths of any length, with slashes    *)
(* doubled, trailing or alone, strip_prefix takes the route's segments off *)
(* the front of the path and leaves every other one whole.                 *)
THEOREM StripTakesWholeSegments == RouterSpec => []StripKeepsSegments
<1>1. RouterInv => StripKeepsSegments
  <2> SUFFICES ASSUME RouterInv, stage = "forwarded"
               PROVE  /\ forward[1] = "/"
                      /\ Segments(path) = Segments(chosen[1].path) \o Segments(forward)
    BY DEF StripKeepsSegments
  <2>1. PICK t \in RouteConfig : chosen = <<t>> /\ PrefixMatches(t, path)
    BY DEF RouterInv
  <2>2. chosen[1] = t /\ forward = Stripped(path, t.path)
    BY <2>1 DEF RouterInv
  <2>3. t.path \in RoutePaths /\ path \in RequestPaths
    BY <2>1 DEF RouteConfig, RouterInv, Configured
  <2>4. t.path \in Seq(STRING) /\ Len(t.path) > 0 /\ path \in Seq(STRING)
    BY <2>3, RouterAssumption
  <2>5. t.path \in Seq(Alphabet) /\ path \in Seq(Alphabet)
    BY <2>4, PathsAreStrings
  <2>6. /\ Stripped(path, t.path)[1] = "/"
        /\ Segments(path) = Segments(t.path) \o Segments(Stripped(path, t.path))
    BY <2>1, <2>4, <2>5, StripKeeps
  <2>7. QED
    BY <2>2, <2>6
<1>2. QED
  BY <1>1, RouterInvHolds, PTL

=============================================================================
