-------------------------------- MODULE Fips202 --------------------------------
(***************************************************************************)
(* The SHA-3 permutation, sponge and stream functions of kyber/fips202.c.  *)
(* No state: a keccak_state is the set of the positions, 64 * lane + bit,  *)
(* of the bits that are 1 in uint64_t s[25], so that ^ is the symmetric    *)
(* difference and a rotation moves positions.  Byte strings are sequences; *)
(* load64, store64 and the s[i/8] ^= byte << 8*(i%8) of the code are all   *)
(* "byte i holds positions 8 * i to 8 * i + 7".                            *)
(***************************************************************************)
EXTENDS Integers, Sequences, FiniteSetsExt

(* A function, made a table of its values by the comparison.                *)
Tabulate(f) == CASE f = f -> f

NROUNDS   == 24
StateBits == 0..(25 * 64 - 1)

(* The word constants, each as the positions of its bits.                   *)
KeccakF_RoundConstants == <<
  {0},                  {1, 7, 15},            {1, 3, 7, 15, 63},
  {15, 31, 63},         {0, 1, 3, 7, 15},      {0, 31},
  {0, 7, 15, 31, 63},   {0, 3, 15, 63},        {1, 3, 7},
  {3, 7},               {0, 3, 15, 31},        {1, 3, 31},
  {0, 1, 3, 7, 15, 31}, {0, 1, 3, 7, 63},      {0, 3, 7, 15, 63},
  {0, 1, 15, 63},       {1, 15, 63},           {7, 63},
  {1, 3, 15},           {1, 3, 31, 63},        {0, 7, 15, 31, 63},
  {7, 15, 63},          {0, 31},               {3, 15, 31, 63} >>

(* For each lane of the next state, plane by plane, the lane of this one    *)
(* that the unrolled code loads into BCa..BCu for it, and its rotation.     *)
PlaneB == << <<0, 0>>,  <<6, 44>>, <<12, 43>>, <<18, 21>>, <<24, 14>> >>
PlaneG == << <<3, 28>>, <<9, 20>>, <<10, 3>>,  <<16, 45>>, <<22, 61>> >>
PlaneK == << <<1, 1>>,  <<7, 6>>,  <<13, 25>>, <<19, 8>>,  <<20, 18>> >>

PlaneM == << <<4, 27>>, <<5, 36>>, <<11, 10>>, <<17, 15>>, <<23, 56>> >>
PlaneS == << <<2, 62>>, <<8, 55>>, <<14, 39>>, <<15, 41>>, <<21, 2>> >>

LoadedFrom == PlaneB \o PlaneG \o PlaneK \o PlaneM \o PlaneS

(* Where rotation and transposition take each bit.                          *)
Moved ==
  Tabulate([b \in StateBits |->
    LET to == CHOOSE d \in 1..25 : LoadedFrom[d][1] = b \div 64
    IN  64 * (to - 1) + (((b % 64) + LoadedFrom[to][2]) % 64)])

(* The bit c columns to the right of b, in the same plane of five lanes.    *)
Right(b, c) == 320 * (b \div 320) + (((b % 320) + 64 * c) % 320)

Right1 == Tabulate([b \in StateBits |-> Right(b, 1)])
Right3 == Tabulate([b \in StateBits |-> Right(b, 3)])
Right4 == Tabulate([b \in StateBits |-> Right(b, 4)])

RotatedBy1 == Tabulate([b \in 0..319 |-> 64 * (b \div 64) + ((b + 1) % 64)])

Plane(s, y) == {b % 320 : b \in {c \in s : c \div 320 = y}}

(* BCa..BCu: the parities of the columns; Da..Du from them.                 *)
ColumnParity(s) ==
  SymDiff(SymDiff(Plane(s, 0), Plane(s, 1)),
          SymDiff(SymDiff(Plane(s, 2), Plane(s, 3)), Plane(s, 4)))

ThetaEffect(p) == SymDiff({Right1[b] : b \in p},
                          {RotatedBy1[Right4[b]] : b \in p})

Theta(s) == LET d == ThetaEffect(ColumnParity(s))
            IN  SymDiff(s, UNION {{b + 320 * y : b \in d} : y \in 0..4})

(* BCx ^ (~BCy & BCz), with y and z the next two lanes of the plane.        *)
Chi(s) == SymDiff(s, {Right3[b] : b \in {c \in s : Right4[c] \notin s}})

(* (The cases here and below always hold; they have a state computed before *)
(* it is worked on.)                                                        *)
KeccakRound(s, round) ==
  CASE s \subseteq StateBits ->
    SymDiff(Chi({Moved[b] : b \in Theta(s)}), KeccakF_RoundConstants[round])

(* Two rounds, A to E and E to A, per turn of the code's loop.              *)
Rounds[state \in SUBSET StateBits, n \in 0..NROUNDS] ==
  IF n = 0 THEN state ELSE KeccakRound(Rounds[state, n - 1], n)

KeccakF1600_StatePermute(state) ==
  CASE state \subseteq StateBits -> Rounds[state, NROUNDS]

---------------------------------------------------------------------------
(* Bytes in and out of the state.                                           *)

Bytes == Seq(0..255)

ByteBits == Tabulate([v \in 0..255 |-> {i \in 0..7 : (v \div 2^i) % 2 = 1}])

(* The bytes of in, the first one at byte pos.                              *)
BitsAt(in, pos) ==
  UNION {{8 * (pos + i - 1) + b : b \in ByteBits[in[i]]} : i \in 1..Len(in)}

ByteAt(s, i) ==
  LET bit(b) == IF 8 * i + b \in s THEN 2^b ELSE 0
  IN  bit(0) + bit(1) + bit(2) + bit(3) + bit(4) + bit(5) + bit(6) + bit(7)

(* n bytes of s, from byte pos on.                                          *)
BytesFrom(s, pos, n) == << >> \o [i \in 1..n |-> ByteAt(s, pos + i - 1)]

Take(s, n) == SubSeq(s, 1, n)
Drop(s, n) == SubSeq(s, n + 1, Len(s))

(* The state with in, which its block holds from byte pos on.               *)
Xored(s, pos, in) == SymDiff(s, BitsAt(in, pos))

(* Absorb a chunk into a state that holds pos bytes of its block already.   *)
keccak_absorb[s \in SUBSET StateBits, pos \in Nat, r \in Nat, in \in Bytes] ==
  IF pos + Len(in) < r
  THEN [s |-> Xored(s, pos, in), pos |-> pos + Len(in)]
  ELSE keccak_absorb[KeccakF1600_StatePermute(Xored(s, pos, Take(in, r - pos))),
                     0, r, Drop(in, r - pos)]

keccak_finalize(s, pos, r, p) ==
  SymDiff(Xored(s, pos, <<p>>), {64 * (r \div 8 - 1) + 63})

(* outlen bytes, permuting whenever the block is used up (pos = r).         *)
keccak_squeeze[s \in SUBSET StateBits, pos \in Nat, r \in Nat, outlen \in Nat] ==
  IF outlen = 0 THEN [out |-> << >>, s |-> s, pos |-> pos]
  ELSE LET t    == IF pos = r THEN KeccakF1600_StatePermute(s) ELSE s
           from == IF pos = r THEN 0 ELSE pos
           end  == IF from + outlen < r THEN from + outlen ELSE r
       IN  [keccak_squeeze[t, end, r, outlen - (end - from)]
              EXCEPT !.out = BytesFrom(t, from, end - from) \o @]

(* A whole message and its padding, block by block, from state s.           *)
AbsorbOnce[s \in SUBSET StateBits, r \in Nat, in \in Bytes, p \in 0..255] ==
  IF Len(in) < r
  THEN SymDiff(Xored(s, 0, Append(in, p)), {64 * ((r - 1) \div 8) + 63})
  ELSE AbsorbOnce[KeccakF1600_StatePermute(Xored(s, 0, Take(in, r))),
                  r, Drop(in, r), p]

keccak_absorb_once(r, in, p) == AbsorbOnce[{}, r, in, p]

keccak_squeezeblocks[s \in SUBSET StateBits, r \in Nat, nblocks \in Nat] ==
  IF nblocks = 0 THEN [s |-> s, out |-> << >>]
  ELSE LET t == KeccakF1600_StatePermute(s)
       IN  [keccak_squeezeblocks[t, r, nblocks - 1]
              EXCEPT !.out = BytesFrom(t, 0, r) \o @]

---------------------------------------------------------------------------
(* The stream functions.  A keccak_state is [s, pos]; rate is               *)
(* SHAKE128_RATE or SHAKE256_RATE.                                          *)

SHAKE128_RATE == 168
SHAKE256_RATE == 136
SHA3_256_RATE == 136
SHA3_512_RATE == 72

shake_init == [s |-> {}, pos |-> 0]

shake_absorb(state, rate, in) == keccak_absorb[state.s, state.pos, rate, in]

shake_finalize(state, rate) ==
  [s |-> keccak_finalize(state.s, state.pos, rate, 31), pos |-> rate]

shake_squeeze(state, rate, outlen) ==
  keccak_squeeze[state.s, state.pos, rate, outlen]

shake_absorb_once(rate, in) ==
  [s |-> keccak_absorb_once(rate, in, 31), pos |-> rate]

shake_squeezeblocks(state, rate, nblocks) ==
  LET q == keccak_squeezeblocks[state.s, rate, nblocks]
  IN  [out |-> q.out, s |-> q.s, pos |-> state.pos]

(* Whole blocks first, then what is left of outlen.                         *)
shake(rate, outlen, in) ==
  LET nblocks == outlen \div rate
      blocks  == shake_squeezeblocks(shake_absorb_once(rate, in), rate, nblocks)
      rest    == shake_squeeze(blocks, rate, outlen - nblocks * rate)
  IN  blocks.out \o rest.out

sha3(rate, outlen, in) ==
  BytesFrom(KeccakF1600_StatePermute(keccak_absorb_once(rate, in, 6)),
            0, outlen)

sha3_256(in) == sha3(SHA3_256_RATE, 32, in)
sha3_512(in) == sha3(SHA3_512_RATE, 64, in)
================================================================================
