----------------------------- MODULE GrpcFrames -----------------------------
(***************************************************************************)
(* The gRPC wire format (src/src/protocols/grpc.rs): a message travels as  *)
(* one flag byte, its length in four bytes, most significant first, and    *)
(* its payload.  A response is any number of such frames.                  *)
(***************************************************************************)
EXTENDS Naturals, Sequences

HeaderLen == 5

Byte == 0..255

(* A message is compressed if its flag is 1, and its length has to fit the *)
(* u32 of the header.                                                      *)
Message == {m \in [flag : {0, 1}, payload : Seq(Byte)] : ((Len(m.payload) \div 256) \div 256) \div 256 < 256}

(* u32::to_be_bytes and u32::from_be_bytes. *)
ToBeBytes(n) ==
    <<(((n \div 256) \div 256) \div 256) % 256, ((n \div 256) \div 256) % 256, (n \div 256) % 256, n % 256>>
FromBeBytes(b) == ((b[1] * 256 + b[2]) * 256 + b[3]) * 256 + b[4]

encode_grpc_frame(payload) == <<0>> \o ToBeBytes(Len(payload)) \o payload

Malformed == [ok |-> FALSE, out |-> <<>>]

(* The first frame of `data`: too short, compressed or truncated, or its   *)
(* payload and where it ends.                                              *)
FirstFrame(data) ==
    LET end == HeaderLen + FromBeBytes(SubSeq(data, 2, HeaderLen))
    IN IF Len(data) < HeaderLen \/ data[1] # 0 \/ end > Len(data)
       THEN Malformed
       ELSE [ok |-> TRUE, out |-> SubSeq(data, HeaderLen + 1, end), end |-> end]

(* Returns the first payload and ignores what follows it. *)
decode_grpc_frame(data) ==
    LET first == FirstFrame(data)
    IN [ok |-> first.ok, out |-> first.out]

(* Walks every frame; one bad frame spoils the response. *)
decode_grpc_frames(data) ==
    LET From[offset \in 0..Len(data)] ==
            LET first == FirstFrame(SubSeq(data, offset + 1, Len(data)))
                rest == From[offset + first.end]
            IN CASE offset = Len(data) -> [ok |-> TRUE, out |-> <<>>]
                 [] offset < Len(data) /\ ~first.ok -> Malformed
                 [] OTHER -> IF rest.ok
                             THEN [ok |-> TRUE, out |-> first.out \o rest.out]
                             ELSE Malformed
    IN From[0]

Concat(seqs) ==
    LET Upto[i \in 0..Len(seqs)] ==
            IF i = 0 THEN <<>> ELSE Upto[i - 1] \o seqs[i]
    IN Upto[Len(seqs)]

(* How a server frames messages. *)
Framed(m) == [encode_grpc_frame(m.payload) EXCEPT ![1] = m.flag]
Frames(msgs) == Concat([i \in DOMAIN msgs |-> Framed(msgs[i])])
Payloads(msgs) == Concat([i \in DOMAIN msgs |-> msgs[i].payload])

=============================================================================
