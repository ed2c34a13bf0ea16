-------------------------------- MODULE Crypt ---------------------------------
(***************************************************************************)
(* The ciphers and digests of ulib (base/crypt_*.c), as streams: a message *)
(* is handed over in pieces, and the context that is kept between two      *)
(* calls must make the pieces one message again.                           *)
(*                                                                         *)
(* AES in CBC mode and RC4 are computed on bytes.  A 32-bit word is the    *)
(* tuple of its bytes, the highest first, which is what GETU32 and PUTU32  *)
(* read and write; the ten lookup tables are given by the formulas of the  *)
(* comment above them, and a block is four words.  A sender encrypts and a *)
(* receiver decrypts, each in pieces of its own.                           *)
(*                                                                         *)
(* MD5, SHA-1 and SHA-256 differ in how they buffer, count and pad.  Their *)
(* compression functions are free: the chaining value is the sequence of   *)
(* the blocks that were compressed.  A counter word has WordBits bits, and *)
(* a byte of a digested block is a pair that says where it comes from.     *)
(***************************************************************************)
EXTENDS Integers, Sequences, SequencesExt, FiniteSets, FiniteSetsExt

CONSTANTS
  Algs,       \* the algorithms to run
  Cases,      \* of AES: [kbits, key, iv, text], text a sequence of blocks
  Rc4Size,    \* of RC4: the number of values of a byte, 256 in the code
  Rc4Key,     \* a sequence of such bytes
  Rc4Text,
  WordBits,   \* 32 in the code
  MaxLen,     \* of a digested message, in bytes
  Pieces      \* the lengths it is handed over in

VARIABLES
  alg,        \* "aes", "rc4", "md5", "sha1" or "sha256"
  given,      \* of AES: the case
  ctx,        \* the context of the sender, or of the digest
  peer,       \* the context of the receiver
  sent,       \* what was encrypted so far
  got,        \* what was decrypted of it
  fed,        \* the number of bytes digested so far
  final       \* is the digest finalized?

vars == <<alg, given, ctx, peer, sent, got, fed, final>>

None == <<>>
Byte == 0..255

-----------------------------------------------------------------------------
(* Bytes and words.                                                        *)

RECURSIVE XorBits(_, _)
XorBits(x, y) == IF x = 0 /\ y = 0 THEN 0 ELSE ((x + y) % 2) + 2 * XorBits(x \div 2, y \div 2)

XorTable == [x \in Byte |-> [y \in Byte |-> XorBits(x, y)]]

Xor(x, y) == XorTable[x][y]

XorWord(v, w) == <<Xor(v[1], w[1]), Xor(v[2], w[2]), Xor(v[3], w[3]), Xor(v[4], w[4])>>

Xor4(t, u, v, w) == XorWord(XorWord(t, u), XorWord(v, w))

XorBlock(x, y) == <<XorWord(x[1], y[1]), XorWord(x[2], y[2]), XorWord(x[3], y[3]), XorWord(x[4], y[4])>>

\* The field of AES: doubling is modulo x^8 + x^4 + x^3 + x + 1.
Double == [x \in Byte |-> IF x < 128 THEN 2 * x ELSE Xor(2 * x - 256, 27)]

\* Its product, bit by bit of x.
RECURSIVE Product(_, _)
Product(x, y) == IF x = 0 THEN 0 ELSE Xor((x % 2) * y, Double[Product(x \div 2, y)])

Times == [f \in 0..15 |-> [x \in Byte |-> Product(f, x)]]

InverseOf == [x \in Byte |-> IF x = 0 THEN 0 ELSE CHOOSE y \in Byte : Product(x, y) = 1]

RotateByte(x, k) == ((x * 2^k) % 256) + ((x * 2^k) \div 256)

Affine(y) == Xor(Xor(Xor(y, RotateByte(y, 1)), Xor(RotateByte(y, 2), RotateByte(y, 3))),
                 Xor(RotateByte(y, 4), 99))

S == [x \in Byte |-> Affine(InverseOf[x])]

Si == [y \in Byte |-> CHOOSE x \in Byte : S[x] = y]

Column(x, f) == <<Times[f[1]][x], Times[f[2]][x], Times[f[3]][x], Times[f[4]][x]>>

Te0 == [x \in Byte |-> Column(S[x], <<2, 1, 1, 3>>)]
Te1 == [x \in Byte |-> Column(S[x], <<3, 2, 1, 1>>)]
Te2 == [x \in Byte |-> Column(S[x], <<1, 3, 2, 1>>)]
Te3 == [x \in Byte |-> Column(S[x], <<1, 1, 3, 2>>)]
Te4 == [x \in Byte |-> Column(S[x], <<1, 1, 1, 1>>)]
Td0 == [x \in Byte |-> Column(Si[x], <<14, 9, 13, 11>>)]
Td1 == [x \in Byte |-> Column(Si[x], <<11, 14, 9, 13>>)]
Td2 == [x \in Byte |-> Column(Si[x], <<13, 11, 14, 9>>)]
Td3 == [x \in Byte |-> Column(Si[x], <<9, 13, 11, 14>>)]
Td4 == [x \in Byte |-> Column(Si[x], <<1, 1, 1, 1>>)]

rcon == <<1, 2, 4, 8, 16, 32, 64, 128, 27, 54>>

-----------------------------------------------------------------------------
(* The key schedules.                                                      *)

SubWord(w) == <<Te4[w[1]][1], Te4[w[2]][2], Te4[w[3]][3], Te4[w[4]][4]>>

RotWord(w) == <<w[2], w[3], w[4], w[1]>>

\* One more word: the first of every nk is mixed, with 256 bits also the fifth.
Expand(rk, nk) ==
  LET i == Len(rk)
      temp == Last(rk)
      mixed == IF i % nk = 0 THEN XorWord(SubWord(RotWord(temp)), <<rcon[i \div nk], 0, 0, 0>>)
               ELSE IF nk = 8 /\ i % nk = 4 THEN SubWord(temp)
               ELSE temp
  IN  Append(rk, XorWord(rk[i - nk + 1], mixed))

RECURSIVE Schedule(_, _, _)
Schedule(rk, nk, n) == IF Len(rk) = n THEN rk ELSE Schedule(Expand(rk, nk), nk, n)

\* The return value and the schedule it leaves in ks.
aes_setks_encrypt(keybuf, kbits, ks) ==
  IF kbits \notin {128, 192, 256} THEN [status |-> -2, ks |-> ks]
  ELSE LET rounds == IF kbits = 128 THEN 10 ELSE IF kbits = 192 THEN 12 ELSE 14
       IN  [status |-> 0,
            ks |-> [rounds |-> rounds, rd_key |-> Schedule(keybuf, kbits \div 32, 4 * (rounds + 1))]]

InvMixColumn(w) == Xor4(Td0[Te4[w[1]][4]], Td1[Te4[w[2]][4]], Td2[Te4[w[3]][4]], Td3[Te4[w[4]][4]])

\* The round keys in the opposite order, all but the first and the last mixed.
aes_setks_decrypt(keybuf, kbits, ks) ==
  LET r == aes_setks_encrypt(keybuf, kbits, ks)
      n == r.ks.rounds
      word(i, j) == r.ks.rd_key[4 * (n - i) + j + 1]
      rd_key == [k \in 1..(4 * (n + 1)) |->
                   LET i == (k - 1) \div 4
                       w == word(i, (k - 1) % 4)
                   IN  IF i \in 1..(n - 1) THEN InvMixColumn(w) ELSE w]
  IN  IF r.status < 0 THEN r ELSE [r EXCEPT !.ks.rd_key = rd_key]

-----------------------------------------------------------------------------
(* One block.  The state is four words, s[0] to s[3].                      *)

RoundKey(ks, r) == SubSeq(ks.rd_key, 4 * r + 1, 4 * r + 4)

\* Word i of the state, and the ones after it, around.
At(s, i) == s[((i - 1) % 4) + 1]

EncryptWord(s, i) ==
  Xor4(Te0[s[i][1]], Te1[At(s, i + 1)[2]], Te2[At(s, i + 2)[3]], Te3[At(s, i + 3)[4]])
EncryptRound(s) == <<EncryptWord(s, 1), EncryptWord(s, 2), EncryptWord(s, 3), EncryptWord(s, 4)>>

EncryptLastWord(s, i) ==
  <<Te4[s[i][1]][1], Te4[At(s, i + 1)[2]][2], Te4[At(s, i + 2)[3]][3], Te4[At(s, i + 3)[4]][4]>>
EncryptLast(s) == <<EncryptLastWord(s, 1), EncryptLastWord(s, 2), EncryptLastWord(s, 3), EncryptLastWord(s, 4)>>

DecryptWord(s, i) ==
  Xor4(Td0[s[i][1]], Td1[At(s, i + 3)[2]], Td2[At(s, i + 2)[3]], Td3[At(s, i + 1)[4]])
DecryptRound(s) == <<DecryptWord(s, 1), DecryptWord(s, 2), DecryptWord(s, 3), DecryptWord(s, 4)>>

DecryptLastWord(s, i) ==
  <<Td4[s[i][1]][1], Td4[At(s, i + 3)[2]][2], Td4[At(s, i + 2)[3]][3], Td4[At(s, i + 1)[4]][4]>>
DecryptLast(s) == <<DecryptLastWord(s, 1), DecryptLastWord(s, 2), DecryptLastWord(s, 3), DecryptLastWord(s, 4)>>

\* The loops do two rounds a turn and leave in the middle of the last turn; t
\* is the states so far.
RoundCount(ks) == 2 * (ks.rounds \div 2)

RECURSIVE EncryptRounds(_, _)
EncryptRounds(t, ks) ==
  IF Len(t) = RoundCount(ks) THEN Last(t)
  ELSE EncryptRounds(Append(t, XorBlock(EncryptRound(Last(t)), RoundKey(ks, Len(t)))), ks)

RECURSIVE DecryptRounds(_, _)
DecryptRounds(t, ks) ==
  IF Len(t) = RoundCount(ks) THEN Last(t)
  ELSE DecryptRounds(Append(t, XorBlock(DecryptRound(Last(t)), RoundKey(ks, Len(t)))), ks)

aes_ecb_encrypt(in, ks) ==
  LET s == EncryptRounds(<<XorBlock(in, RoundKey(ks, 0))>>, ks)
  IN  XorBlock(EncryptLast(s), RoundKey(ks, RoundCount(ks)))

aes_ecb_decrypt(in, ks) ==
  LET s == DecryptRounds(<<XorBlock(in, RoundKey(ks, 0))>>, ks)
  IN  XorBlock(DecryptLast(s), RoundKey(ks, RoundCount(ks)))

\* Blocks in, blocks out, and the vector to go on with, which is left in iv.
aes_cbc_encrypt(in, c) ==
  FoldLeft(LAMBDA x, blk : LET y == aes_ecb_encrypt(XorBlock(blk, x.iv), c.ks)
                           IN  [x EXCEPT !.out = Append(@, y), !.iv = y],
           [out |-> <<>>, iv |-> c.iv], in)

aes_cbc_decrypt(in, c) ==
  FoldLeft(LAMBDA x, blk : [x EXCEPT !.out = Append(@, XorBlock(aes_ecb_decrypt(blk, c.ks), x.iv)),
                                     !.iv = blk],
           [out |-> <<>>, iv |-> c.iv], in)

-----------------------------------------------------------------------------
(* RC4.                                                                    *)

Rc4Byte == 0..(Rc4Size - 1)
Swap(f, i, j) == [f EXCEPT ![i] = f[j], ![j] = f[i]]

rc4_setks(buf) ==
  LET step(k, i) == LET j == (k.j + k.state[i] + buf[(i % Len(buf)) + 1]) % Rc4Size
                    IN  [state |-> Swap(k.state, i, j), j |-> j]
      k == FoldLeft(step, [state |-> [i \in Rc4Byte |-> i], j |-> 0], [i \in 1..Rc4Size |-> i - 1])
  IN  [state |-> k.state, x |-> 0, y |-> 0]

rc4_crypt(buf, ks) ==
  FoldLeft(LAMBDA r, byte :
             LET x == (r.ks.x + 1) % Rc4Size
                 y == (r.ks.y + r.ks.state[x]) % Rc4Size
                 state == Swap(r.ks.state, x, y)
             IN  [out |-> Append(r.out, Xor(byte, state[(state[x] + state[y]) % Rc4Size])),
                  ks |-> [state |-> state, x |-> x, y |-> y]],
           [out |-> <<>>, ks |-> ks], buf)

-----------------------------------------------------------------------------
(* The digests.                                                            *)

BLOCK == 64
Msg(k) == <<"msg", k>>
Const(v) == <<"const", v>>
WordByte(w, i) == <<"byte", i, w>>            \* byte i of word w, 0 the lowest
BigEndian(w) == [k \in 1..4 |-> WordByte(w, 4 - k)]
LittleEndian(w) == [k \in 1..4 |-> WordByte(w, k - 1)]
Zeros(n) == [k \in 1..n |-> Const(0)]
padding == <<Const(128)>> \o Zeros(BLOCK - 1)
Digest(n) == [k \in 1..n |-> <<"digest", k>>]   \* the chaining value as bytes
Garbage == [k \in 1..BLOCK |-> <<"garbage", k>>]
Wrap(n) == n % 2^WordBits

\* memcpy of data to offset "at" of a buffer.
Store(buf, at, data) ==
  [k \in 1..BLOCK |-> IF k - at \in 1..Len(data) THEN data[k - at] ELSE buf[k]]

From(data, n) == SubSeq(data, n + 1, Len(data))
Blocks(data) == [k \in 1..(Len(data) \div BLOCK) |-> SubSeq(data, BLOCK * (k - 1) + 1, BLOCK * k)]
Rest(data) == From(data, BLOCK * (Len(data) \div BLOCK))

sha256_init == [totalLength |-> 0, hash |-> <<>>, bufferLength |-> 0, buffer |-> Garbage]

\* One call for each of the blocks.
SHA256Guts(sc, cbufs) == [sc EXCEPT !.hash = @ \o cbufs]

\* Fill the buffer that was begun, compress whole blocks, begin a new buffer.
sha256_update(sc, data) ==
  LET copy(c, d) == [c EXCEPT !.buffer = Store(@, c.bufferLength, d),
                              !.bufferLength = @ + Len(d),
                              !.totalLength = (@ + 8 * Len(d)) % 2^(2 * WordBits)]
      bytesToCopy == IF sc.bufferLength = 0 THEN 0 ELSE Min({BLOCK - sc.bufferLength, Len(data)})
      c1 == copy(sc, SubSeq(data, 1, bytesToCopy))
      c2 == IF c1.bufferLength = BLOCK THEN [SHA256Guts(c1, <<c1.buffer>>) EXCEPT !.bufferLength = 0] ELSE c1
      left == From(data, bytesToCopy)
      c3 == [SHA256Guts(c2, Blocks(left)) EXCEPT
               !.totalLength = (@ + 8 * BLOCK * Len(Blocks(left))) % 2^(2 * WordBits)]
  IN  copy(c3, Rest(left))

sha256_finalize(sc) ==
  LET gap == 120 - sc.bufferLength
      bytesToPad == IF gap > BLOCK THEN gap - BLOCK ELSE gap
      lengthPad == BigEndian(sc.totalLength \div 2^WordBits) \o BigEndian(Wrap(sc.totalLength))
  IN  sha256_update(sha256_update(sc, SubSeq(padding, 1, bytesToPad)), lengthPad)

sha1_init == [hash |-> <<>>, nblocks |-> 0, count |-> 0, buf |-> Garbage]

sha1_transform(hd, blocks) == [hd EXCEPT !.hash = @ \o blocks]

\* sha1_update(hd, NULL, 0)
sha1_flush(hd) ==
  IF hd.count = BLOCK
  THEN [sha1_transform(hd, <<hd.buf>>) EXCEPT !.count = 0, !.nblocks = Wrap(@ + 1)]
  ELSE hd

sha1_update(hd, inbuf) ==
  LET copy(h, d) == [h EXCEPT !.buf = Store(@, h.count, d), !.count = @ + Len(d)]
      h0 == sha1_flush(hd)
      n == IF h0.count = 0 THEN 0 ELSE Min({Len(inbuf), BLOCK - h0.count})
      h1 == sha1_flush(copy(h0, SubSeq(inbuf, 1, n)))
      left == From(inbuf, n)
      h2 == [sha1_transform(h1, Blocks(left)) EXCEPT !.nblocks = Wrap(@ + Len(Blocks(left)))]
  IN  copy(h2, Rest(left))

\* The length in bits, from the number of blocks and of bytes in the buffer.
sha1_length(hd) ==
  LET lsb == Wrap(hd.nblocks * 64)
      bytes == Wrap(lsb + hd.count)
      msb == (hd.nblocks \div 2^(WordBits - 6)) + (IF bytes < lsb THEN 1 ELSE 0)
  IN  BigEndian(Wrap(msb * 8) + (bytes \div 2^(WordBits - 3))) \o BigEndian(Wrap(bytes * 8))

\* Mutant of sha1_finalize: 56 bytes are taken to leave room for the length.
sha1_finalize_late(hd0) ==
  LET hd == sha1_flush(hd0)
      padded == Store(hd.buf, hd.count, padding)
      h1 == IF hd.count <= 56 THEN [hd EXCEPT !.buf = padded, !.count = 56]
            ELSE [sha1_flush([hd EXCEPT !.buf = padded, !.count = BLOCK]) EXCEPT !.buf = Store(@, 0, Zeros(56))]
      h2 == [h1 EXCEPT !.buf = Store(@, 56, sha1_length(hd))]
  IN  [sha1_transform(h2, <<h2.buf>>) EXCEPT !.buf = Store(@, 0, Digest(20))]

sha1_finalize(hd0) ==
  LET hd == sha1_flush(hd0)
      padded == Store(hd.buf, hd.count, padding)
      h1 == IF hd.count < 56 THEN [hd EXCEPT !.buf = padded, !.count = 56]
            ELSE [sha1_flush([hd EXCEPT !.buf = padded, !.count = BLOCK]) EXCEPT !.buf = Store(@, 0, Zeros(56))]
      h2 == [h1 EXCEPT !.buf = Store(@, 56, sha1_length(hd))]
  IN  [sha1_transform(h2, <<h2.buf>>) EXCEPT !.buf = Store(@, 0, Digest(20))]

md5_init == [lo |-> 0, hi |-> 0, hash |-> <<>>, in |-> Garbage, digest |-> None]

md5_transform(c, blocks) == [c EXCEPT !.hash = @ \o blocks]

mdi(c) == (c.lo \div 8) % BLOCK

\* The counters first, then byte after byte into the buffer, which is compressed
\* whenever it is full and still holds the last block then.
md5_update(c, buf) ==
  LET bits == Wrap(Len(buf) * 8)
      carry == IF Wrap(c.lo + bits) < c.lo THEN 1 ELSE 0
      c1 == [c EXCEPT !.lo = Wrap(@ + bits),
                      !.hi = Wrap(@ + carry + (Wrap(Len(buf)) \div 2^(WordBits - 3)))]
      data == SubSeq(c.in, 1, mdi(c)) \o buf
      full == Blocks(data)
      last == IF full = <<>> THEN c.in ELSE Last(full)
  IN  [md5_transform(c1, full) EXCEPT !.in = Store(last, 0, Rest(data))]

md5_finalize(c) ==
  LET padlen == IF mdi(c) < 56 THEN 56 - mdi(c) ELSE 120 - mdi(c)
      c1 == md5_update(c, SubSeq(padding, 1, padlen))
      c2 == md5_transform(c1, <<SubSeq(c1.in, 1, 56) \o LittleEndian(c.lo) \o LittleEndian(c.hi)>>)
  IN  [c2 EXCEPT !.digest = Digest(16)]

-----------------------------------------------------------------------------
Ciphers == {"aes", "rc4"}
Digests == {"md5", "sha1", "sha256"}
Text == IF alg = "aes" THEN given.text ELSE Rc4Text

Init ==
  /\ alg \in Algs
  /\ given \in IF alg = "aes" THEN Cases ELSE {None}
  /\ ctx = CASE alg = "md5" -> md5_init [] alg = "sha1" -> sha1_init [] alg = "sha256" -> sha256_init
             [] OTHER -> None
  /\ peer = None /\ sent = <<>> /\ got = <<>> /\ fed = 0 /\ final = FALSE

\* Both ends take the key; a length AES does not have is refused.
SetKey ==
  /\ alg \in Ciphers /\ ctx = None
  /\ IF alg = "rc4" THEN ctx' = rc4_setks(Rc4Key) /\ peer' = rc4_setks(Rc4Key)
     ELSE LET e == aes_setks_encrypt(given.key, given.kbits, None)
              d == aes_setks_decrypt(given.key, given.kbits, None)
          IN  /\ e.status = 0 /\ d.status = 0
              /\ ctx' = [ks |-> e.ks, iv |-> given.iv] /\ peer' = [ks |-> d.ks, iv |-> given.iv]
  /\ UNCHANGED <<alg, given, sent, got, fed, final>>

Encrypt ==
  /\ alg \in Ciphers /\ ctx # None
  /\ \E n \in 0..(Len(Text) - Len(sent)) :
       LET in == SubSeq(Text, Len(sent) + 1, Len(sent) + n)
           r == IF alg = "aes" THEN aes_cbc_encrypt(in, ctx) ELSE rc4_crypt(in, ctx)
       IN  /\ sent' = sent \o r.out
           /\ ctx' = IF alg = "aes" THEN [ctx EXCEPT !.iv = r.iv] ELSE r.ks
  /\ UNCHANGED <<alg, given, peer, got, fed, final>>

Decrypt ==
  /\ alg \in Ciphers /\ ctx # None
  /\ \E n \in 0..(Len(sent) - Len(got)) :
       LET in == SubSeq(sent, Len(got) + 1, Len(got) + n)
           r == IF alg = "aes" THEN aes_cbc_decrypt(in, peer) ELSE rc4_crypt(in, peer)
       IN  /\ got' = got \o r.out
           /\ peer' = IF alg = "aes" THEN [peer EXCEPT !.iv = r.iv] ELSE r.ks
  /\ UNCHANGED <<alg, given, ctx, sent, fed, final>>

Message(from, n) == [k \in 1..n |-> Msg(from + k)]

Update ==
  /\ alg \in Digests /\ ~final
  /\ \E n \in Pieces :
       /\ fed + n <= MaxLen
       /\ ctx' = CASE alg = "md5" -> md5_update(ctx, Message(fed, n))
                   [] alg = "sha1" -> sha1_update(ctx, Message(fed, n))
                   [] alg = "sha256" -> sha256_update(ctx, Message(fed, n))
       /\ fed' = fed + n
  /\ UNCHANGED <<alg, given, peer, sent, got, final>>

Finalize ==
  /\ alg \in Digests /\ ~final
  /\ ctx' = CASE alg = "md5" -> md5_finalize(ctx)
              [] alg = "sha1" -> sha1_finalize(ctx)
              [] alg = "sha256" -> sha256_finalize(ctx)
  /\ final' = TRUE
  /\ UNCHANGED <<alg, given, peer, sent, got, fed>>

Next == SetKey \/ Encrypt \/ Decrypt \/ Update \/ Finalize

Spec == Init /\ [][Next]_vars

-----------------------------------------------------------------------------
(* AES by its definition: a block is four columns of four bytes, and every *)
(* round substitutes, shifts rows, mixes columns and adds a round key.     *)

ShiftedBytes(x) == [c \in 1..4 |-> [r \in 1..4 |-> S[At(x, c + r - 1)[r]]]]

MixedColumn(y) ==
  LET mix(r) == Xor(Xor(Times[2][y[r]], Times[3][At(y, r + 1)]), Xor(At(y, r + 2), At(y, r + 3)))
  IN  <<mix(1), mix(2), mix(3), mix(4)>>

RECURSIVE StandardRounds(_, _)
StandardRounds(t, ks) ==
  LET y == ShiftedBytes(Last(t))
      z == <<MixedColumn(y[1]), MixedColumn(y[2]), MixedColumn(y[3]), MixedColumn(y[4])>>
  IN  IF Len(t) = ks.rounds THEN y
      ELSE StandardRounds(Append(t, XorBlock(z, RoundKey(ks, Len(t)))), ks)

Standard(x, ks) == XorBlock(StandardRounds(<<XorBlock(x, RoundKey(ks, 0))>>, ks), RoundKey(ks, ks.rounds))

\* However a text is cut into pieces at either end, the receiver has a prefix of
\* it, and what was sent is the chain of blocks AES defines, with the round keys
\* in the order of the schedule; for the inputs of test/aes.cpp it is what the
\* test expects (crypt_aes.c, crypt_rc4.c).
DecryptionInverts ==
  alg \in Ciphers =>
    /\ got = SubSeq(Text, 1, Len(got))
    /\ alg = "aes" =>
         /\ \A i \in DOMAIN sent :
              sent[i] = Standard(XorBlock(Text[i], IF i = 1 THEN given.iv ELSE sent[i - 1]), ctx.ks)
         /\ sent # <<>> /\ given.expect # None => sent[1] = given.expect

\* Message, 0x80, zeros, and the length in bits in the last eight bytes.
Padded(n, word(_), high) ==
  LET lo == word(Wrap(8 * n))
      hi == word(Wrap((8 * n) \div 2^WordBits))
  IN  Message(0, n) \o <<Const(128)>> \o Zeros((55 - n) % BLOCK)
        \o (IF high THEN hi \o lo ELSE lo \o hi)

Buffered ==
  CASE alg = "md5" -> SubSeq(ctx.in, 1, mdi(ctx))
    [] alg = "sha1" -> SubSeq(ctx.buf, 1, ctx.count)
    [] alg = "sha256" -> SubSeq(ctx.buffer, 1, ctx.bufferLength)

\* However a message is cut into pieces, and wherever its end falls in a block,
\* the blocks compressed are those of the message padded as the digest defines,
\* also when its length in bits passes the lower counter word (crypt_md5.c,
\* crypt_sha1.c, crypt_sha256.c).
PiecesMakeOneMessage ==
  alg \in Digests =>
    IF final
    THEN FlattenSeq(ctx.hash) = IF alg = "md5" THEN Padded(fed, LittleEndian, FALSE)
                                               ELSE Padded(fed, BigEndian, TRUE)
    ELSE FlattenSeq(ctx.hash) \o Buffered = Message(0, fed)

\* A stream is the same stream in whatever pieces it is handed over: ciphers and
\* digests keep in their contexts all that the next call needs (crypt_aes.c,
\* crypt_rc4.c, crypt_md5.c, crypt_sha1.c, crypt_sha256.c).
StreamsSurvivePieces == DecryptionInverts /\ PiecesMakeOneMessage

=============================================================================
