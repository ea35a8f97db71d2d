----------------------------- MODULE HashStream -----------------------------
(***************************************************************************)
(* SHA256 over a stream, HMAC and PBKDF2 (sha256.c), around a compression  *)
(* function that is left free: the state of a context is the sequence of   *)
(* blocks compressed so far, so that two digests are equal here only if    *)
(* they are for every compression function.  A byte is a token; the first  *)
(* byte of a digest carries the state it is the digest of.  The buffer is  *)
(* kept with whatever earlier calls left in it.                            *)
(***************************************************************************)
EXTENDS Naturals, Sequences, FiniteSets

CONSTANTS
  CountLimit,  \* the bit count is a uint64_t: modulo CountLimit
  Chunks,      \* lengths passed to an update
  MaxMessage,  \* bound on the length of a stream
  Keys, Salts, Rounds, Outputs   \* lengths of keys and salts, c, dkLen

\* The first len bytes of an input called name.
Bytes(name, len) == [k \in 1 .. len |-> <<name, k>>]
Value(v) == <<"value", v>>
Zeros(len) == [k \in 1 .. len |-> Value(0)]

\* Big-endian bytes (of a number below 2^31, all that fits here).
be32enc(v) == [k \in 1 .. 4 |-> Value((v \div (256 ^ (4 - k))) % 256)]
be64enc(v) == Zeros(4) \o be32enc(v)

(***************************************************************************)
(* The context.                                                            *)
(***************************************************************************)
SHA256_Init == [state |-> <<>>, count |-> 0, buf |-> Bytes("stack", 64)]

SHA256_Transform(state, block) == Append(state, block)
be32enc_vect(state) ==
  [k \in 1 .. 32 |-> IF k = 1 THEN <<"digest", state>> ELSE <<"further", k>>]

\* What insecure_memzero leaves of a context.
Cleared == [state |-> <<>>, count |-> 0, buf |-> Zeros(64)]

Buffered(ctx) == (ctx.count \div 8) % 64
PAD == <<Value(128)>> \o Zeros(63)
Put(buf, r, in) ==
  [k \in 1 .. 64 |-> IF k > r /\ k <= r + Len(in) THEN in[k - r] ELSE buf[k]]

SHA256_Update(ctx, in) ==
  LET r == Buffered(ctx)
      count == (ctx.count + 8 * Len(in)) % CountLimit
      first == Put(ctx.buf, r, SubSeq(in, 1, 64 - r))
      rest == SubSeq(in, 65 - r, Len(in))
      whole == Len(rest) \div 64
      blocks == [b \in 1 .. whole |-> SubSeq(rest, 64 * b - 63, 64 * b)]
  IN  IF Len(in) < 64 - r
        THEN [ctx EXCEPT !.count = count, !.buf = Put(ctx.buf, r, in)]
        ELSE [state |-> SHA256_Transform(ctx.state, first) \o blocks, count |-> count,
              buf |-> Put(first, 0, SubSeq(rest, 64 * whole + 1, Len(rest)))]

SHA256_Pad(ctx) ==
  LET r == Buffered(ctx)
      length == be64enc(ctx.count)
      full == Put(ctx.buf, r, SubSeq(PAD, 1, 64 - r))
  IN  IF r < 56
        THEN SHA256_Transform(ctx.state,
               Put(Put(ctx.buf, r, SubSeq(PAD, 1, 56 - r)), 56, length))
        ELSE SHA256_Transform(SHA256_Transform(ctx.state, full),
               Put(Put(full, 0, Zeros(56)), 56, length))

SHA256_Final(ctx) == be32enc_vect(SHA256_Pad(ctx))
SHA256_Buf(in) == SHA256_Final(SHA256_Update(SHA256_Init, in))

(***************************************************************************)
(* HMAC: a key of more than 64 bytes is hashed first.                      *)
(***************************************************************************)
Xored(key, with) ==
  [k \in 1 .. 64 |-> IF k <= Len(key) THEN <<with, key[k]>> ELSE <<with, Value(0)>>]

HMAC_SHA256_Init(key) ==
  LET K == IF Len(key) > 64 THEN SHA256_Buf(key) ELSE key
  IN  [ictx |-> SHA256_Update(SHA256_Init, Xored(K, "ipad")),
       octx |-> SHA256_Update(SHA256_Init, Xored(K, "opad"))]

HMAC_SHA256_Update(h, in) == [h EXCEPT !.ictx = SHA256_Update(@, in)]
HMAC_SHA256_Final(h) == SHA256_Final(SHA256_Update(h.octx, SHA256_Final(h.ictx)))
HMAC_SHA256_Buf(key, in) == HMAC_SHA256_Final(HMAC_SHA256_Update(HMAC_SHA256_Init(key), in))

(***************************************************************************)
(* PBKDF2.  For c = 1, whole blocks of output and a short enough salt, the *)
(* last block of both hashes is padded beforehand and each output block    *)
(* costs two compressions; otherwise every block is an HMAC of its own.    *)
(***************************************************************************)
PadRefused(ctx) == Buffered(ctx) >= 56

\* Variant: the context is padded with one byte too few.
Pad_Almost_short(ctx) ==
  LET length == be64enc(ctx.count)
      padded == SHA256_Update(ctx, SubSeq(PAD, 1, 55 - Buffered(ctx)))
  IN  SHA256_Update([padded EXCEPT !.buf[64] = length[8]], SubSeq(length, 1, 7))

SHA256_Pad_Almost(ctx) ==
  LET length == be64enc(ctx.count)
      padded == SHA256_Update(ctx, SubSeq(PAD, 1, 56 - Buffered(ctx)))
  IN  SHA256_Update([padded EXCEPT !.buf[64] = length[8]], SubSeq(length, 1, 7))

IsFast(saltlen, c, dkLen) == c = 1 /\ dkLen % 32 = 0 /\ saltlen % 64 <= 51

FastPrepared(passwd, salt) ==
  LET h == HMAC_SHA256_Update(HMAC_SHA256_Init(passwd), salt)
      counted == HMAC_SHA256_Update(h, Zeros(4))
  IN  [refused |-> \/ Buffered(counted.ictx) < Buffered(h.ictx)
                   \/ PadRefused(counted.ictx),
       ivec |-> Buffered(h.ictx),
       ictx |-> SHA256_Pad_Almost(counted.ictx),
       octx |-> SHA256_Pad_Almost([h.octx EXCEPT !.count = @ + 256])]

FastBlock(f, i) ==
  LET inner == SHA256_Transform(f.ictx.state, Put(f.ictx.buf, f.ivec, be32enc(i)))
  IN  be32enc_vect(SHA256_Transform(f.octx.state,
                                    Put(f.octx.buf, 0, be32enc_vect(inner))))

\* Blocks of output that are xored are kept as the set of them.
GenericBlock(passwd, salt, c, i) ==
  LET P == HMAC_SHA256_Init(passwd)
      PS == HMAC_SHA256_Update(P, salt)
      U[k \in 1 .. c] ==
        IF k = 1 THEN HMAC_SHA256_Final(HMAC_SHA256_Update(PS, be32enc(i)))
                 ELSE HMAC_SHA256_Final(HMAC_SHA256_Update(P, U[k - 1]))
  IN  {U[k] : k \in 1 .. c}

\* The output, block by block; the last one may be cut short.
PBKDF2_SHA256(passwd, salt, c, dkLen) ==
  LET f == FastPrepared(passwd, salt)
      fast == IsFast(Len(salt), c, dkLen) /\ ~ f.refused
      clen(i) == IF dkLen - 32 * (i - 1) > 32 THEN 32 ELSE dkLen - 32 * (i - 1)
  IN  [i \in 1 .. (dkLen + 31) \div 32 |->
         IF fast THEN [xor |-> {FastBlock(f, i)}, len |-> 32]
                 ELSE [xor |-> GenericBlock(passwd, salt, c, i), len |-> clen(i)]]

(***************************************************************************)
(* The module at work: streams are hashed in pieces, keys derived.         *)
(***************************************************************************)
VARIABLES
  job,  \* what is being computed, with its arguments
  ctx,  \* the context of a stream
  out   \* the last result

vars == <<job, ctx, out>>

Idle == [kind |-> "none"]

Init == job = Idle /\ ctx = SHA256_Init /\ out = <<>>

Message(from, to) == SubSeq(Bytes("message", to), from + 1, to)

Begin ==
  /\ job.kind \in {"none", "done"}
  /\ job' = [kind |-> "stream", len |-> 0]
  /\ ctx' = SHA256_Init /\ out' = <<>>

Update(len) ==
  /\ job.kind = "stream" /\ job.len + len <= MaxMessage
  /\ job' = [job EXCEPT !.len = @ + len]
  /\ ctx' = SHA256_Update(ctx, Message(job.len, job.len + len))
  /\ UNCHANGED out

Final ==
  /\ job.kind = "stream"
  /\ job' = [kind |-> "done", len |-> job.len]
  /\ out' = SHA256_Final(ctx)
  /\ ctx' = Cleared

Mac(key, len) ==
  /\ job.kind = "none"
  /\ job' = [kind |-> "mac", key |-> key, len |-> len]
  /\ out' = HMAC_SHA256_Buf(Bytes("key", key), Bytes("message", len))
  /\ UNCHANGED ctx

Derive(key, salt, c, dkLen) ==
  /\ job.kind = "none"
  /\ job' = [kind |-> "derive", key |-> key, salt |-> salt, c |-> c, dkLen |-> dkLen]
  /\ out' = PBKDF2_SHA256(Bytes("key", key), Bytes("salt", salt), c, dkLen)
  /\ UNCHANGED ctx

Next ==
  \/ Begin \/ Final
  \/ \E len \in Chunks : Update(len)
  \/ \E key \in Keys, len \in Salts : Mac(key, len)
  \/ \E key \in Keys, salt \in Salts, c \in Rounds, dkLen \in Outputs :
       Derive(key, salt, c, dkLen)

Spec == Init /\ [][Next]_vars

(***************************************************************************)
(* References: the definitions of FIPS 180-4, RFC 2104 and RFC 8018.       *)
(***************************************************************************)
Padded(m) ==
  m \o <<Value(128)>> \o Zeros((119 - (Len(m) % 64)) % 64) \o be64enc(8 * Len(m))

BlocksOf(m) == [b \in 1 .. Len(m) \div 64 |-> SubSeq(m, 64 * b - 63, 64 * b)]
HashOf(m) == be32enc_vect(BlocksOf(Padded(m)))

MacOf(key, m) ==
  LET K == IF Len(key) > 64 THEN HashOf(key) ELSE key
  IN  HashOf(Xored(K, "opad") \o HashOf(Xored(K, "ipad") \o m))

DerivedOf(key, salt, c, i) ==
  LET U[k \in 1 .. c] == MacOf(key, IF k = 1 THEN salt \o be32enc(i) ELSE U[k - 1])
  IN  {U[k] : k \in 1 .. c}

(***************************************************************************)
(* What the module promises.                                               *)
(***************************************************************************)

\* However a message is cut into updates, what was compressed are its whole
\* blocks and what is buffered is the rest, whatever earlier blocks left in
\* the buffer; and the digest is that of the padded message, at each length
\* around the limits of a block.  HMAC and PBKDF2 agree with their definitions
\* for keys on both sides of a block and for each salt, also where PBKDF2
\* takes its short cut, which places the counter and the lengths in blocks it
\* has padded before.
DigestsMatch ==
  /\ job.kind = "stream" =>
       /\ ctx.state = BlocksOf(Message(0, job.len))
       /\ SubSeq(ctx.buf, 1, Buffered(ctx)) = Message(job.len - (job.len % 64), job.len)
       /\ ctx.count = (8 * job.len) % CountLimit
  /\ job.kind = "done" => out = HashOf(Message(0, job.len))
  /\ job.kind = "mac" =>
       out = MacOf(Bytes("key", job.key), Bytes("message", job.len))
  /\ job.kind = "derive" =>
       /\ Len(out) = (job.dkLen + 31) \div 32
       /\ \A i \in 1 .. Len(out) :
            /\ out[i].xor = DerivedOf(Bytes("key", job.key), Bytes("salt", job.salt),
                                      job.c, i)
            /\ out[i].len = IF i < Len(out) \/ job.dkLen % 32 = 0 THEN 32
                                                                   ELSE job.dkLen % 32
=============================================================================
