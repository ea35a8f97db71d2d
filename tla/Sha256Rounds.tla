---------------------------- MODULE Sha256Rounds ----------------------------
(***************************************************************************)
(* The compression function of SHA256 (sha256.c).  The eight working       *)
(* variables stay where they are: from round to round each takes the next  *)
(* role, by its index.  x ^ y of one Maj is kept as y ^ z of the next.     *)
(* Beside them run the rounds of FIPS 180-4, 6.2.2, which pass a .. h on.  *)
(***************************************************************************)
EXTENDS Words

CONSTANTS
  Messages,   \* blocks of 64 bytes
  MaxBlocks   \* how many are compressed into one state

VARIABLES
  state,   \* uint32_t state[8]
  S,       \* the working variables
  y_xor_z, \* y ^ z of the next Maj
  W,       \* the message schedule as far as it is made
  i,       \* the next round, 64 when they are over
  blocks,  \* blocks compressed or being compressed
  fips     \* a .. h of the standard, its last 16 words, and its state

roundsVars == <<state, S, y_xor_z, W, i, blocks, fips>>

\* The round constants, <<hi, lo>>.
Krnd == <<
  <<17034, 12184>>, <<28983, 17553>>, <<46528, 64463>>, <<59829, 56229>>,
  <<14678, 49755>>, <<23025, 4593>>, <<37439, 33444>>, <<43804, 24277>>,
  <<55303, 43672>>, <<4739, 23297>>, <<9265, 34238>>, <<21772, 32195>>,
  <<29374, 23924>>, <<32990, 45566>>, <<39900, 1703>>, <<49563, 61812>>,
  <<58523, 27073>>, <<61374, 18310>>, <<4033, 40390>>, <<9228, 41420>>,
  <<11753, 11375>>, <<19060, 33962>>, <<23728, 43484>>, <<30457, 35034>>,
  <<38974, 20818>>, <<43057, 50797>>, <<45059, 10184>>, <<48985, 32711>>,
  <<50912, 3059>>, <<54695, 37191>>, <<1738, 25425>>, <<5161, 10599>>,
  <<10167, 2693>>, <<11803, 8504>>, <<19756, 28156>>, <<21304, 3347>>,
  <<25866, 29524>>, <<30314, 2747>>, <<33218, 51502>>, <<37490, 11397>>,
  <<41663, 59553>>, <<43034, 26187>>, <<49739, 35696>>, <<51052, 20899>>,
  <<53650, 59417>>, <<54937, 1572>>, <<62478, 13701>>, <<4202, 41072>>,
  <<6564, 49430>>, <<7735, 27656>>, <<10056, 30540>>, <<13488, 48309>>,
  <<14620, 3251>>, <<20184, 43594>>, <<23452, 51791>>, <<26670, 28659>>,
  <<29839, 33518>>, <<30885, 25455>>, <<33992, 30740>>, <<36039, 520>>,
  <<37054, 65530>>, <<42064, 27883>>, <<48889, 41975>>, <<50801, 30962>> >>

Ch(x, y, z) == Xor(And(x, Xor(y, z)), z)
Maj(xy, y, yz) == Xor(y, And(xy, yz))
S0(x) == Xor(Xor(RotateRight(x, 2), RotateRight(x, 13)), RotateRight(x, 22))
S1(x) == Xor(Xor(RotateRight(x, 6), RotateRight(x, 11)), RotateRight(x, 25))
s0(x) == Xor(Xor(RotateRight(x, 7), RotateRight(x, 18)), ShiftRight(x, 3))
s1(x) == Xor(Xor(RotateRight(x, 17), RotateRight(x, 19)), ShiftRight(x, 10))

initial_state ==
  [k \in 0 .. 7 |->
    <<<<27145, 58983>>, <<47975, 44677>>, <<15470, 62322>>, <<42319, 62778>>,
      <<20750, 21119>>, <<39685, 26764>>, <<8067, 55723>>, <<23520, 52505>>>>[k + 1]]

be32dec_vect(block) == [k \in 1 .. 16 |-> be32dec(SubSeq(block, 4 * k - 3, 4 * k))]

\* Sixteen more words.
MSCH(words) ==
  LET More[k \in 0 .. 16] ==
        IF k = 0 THEN words
        ELSE LET w == More[k - 1]
                 t == Len(w) + 1
             IN  Append(w, Add(Add(s1(w[t - 2]), w[t - 7]), Add(s0(w[t - 15]), w[t - 16])))
  IN  More[16]

\* y ^ z before the first of 16 rounds.
FirstXor(regs) == Xor(regs[1], regs[2])

\* Variant: the roles move on the other way round.
Reg_up(role, r) == (role + (r % 16)) % 8

\* RNDr: the register that has a role in round r.
Reg(role, r) == (64 + role - (r % 16)) % 8

(***************************************************************************)
(* The standard: Ch, Maj, one round, and one more word of the schedule.    *)
(***************************************************************************)
FipsCh(p, q, r) == Xor(And(p, q), And(Not(p), r))
FipsMaj(p, q, r) == Xor(Xor(And(p, q), And(p, r)), And(q, r))

FipsRound(v, k, w) ==
  LET T1 == Add(Add(v[8], S1(v[5])), Add(FipsCh(v[5], v[6], v[7]), Add(k, w)))
      T2 == Add(S0(v[1]), FipsMaj(v[1], v[2], v[3]))
  IN  <<Add(T1, T2), v[1], v[2], v[3], Add(v[4], T1), v[5], v[6], v[7]>>

FipsWord(last) == Add(Add(s1(last[15]), last[10]), Add(s0(last[2]), last[1]))
InOrder(hash) == [k \in 1 .. 8 |-> hash[k - 1]]

RoundsInit ==
  /\ state = initial_state
  /\ S = initial_state /\ y_xor_z = FirstXor(S)
  /\ W = <<>> /\ i = 64 /\ blocks = 0
  /\ fips = [v |-> InOrder(state), last |-> <<>>, hash |-> InOrder(state)]

\* SHA256_Transform up to its loop.
Prepare(block) ==
  /\ i = 64 /\ blocks < MaxBlocks
  /\ blocks' = blocks + 1
  /\ W' = be32dec_vect(block)
  /\ S' = state /\ i' = 0
  /\ y_xor_z' = FirstXor(state)
  /\ fips' = [fips EXCEPT !.v = fips.hash, !.last = be32dec_vect(block)]
  /\ UNCHANGED state

\* One RND.  After each 16 but the last the schedule grows; after the last
\* the working variables are added to the state.
RND ==
  LET Role(k) == S[Reg(k, i)]
      x_xor_y == Xor(Role(0), Role(1))
      h == Add(Add(Role(7), S1(Role(4))),
               Add(Ch(Role(4), Role(5), Role(6)), Add(W[i + 1], Krnd[i + 1])))
      h2 == Add(h, Add(S0(Role(0)), Maj(x_xor_y, Role(1), y_xor_z)))
      v == FipsRound(fips.v, Krnd[i + 1], fips.last[1])
  IN  /\ i < 64 /\ i' = i + 1
      /\ S' = [S EXCEPT ![Reg(3, i)] = Add(Role(3), h), ![Reg(7, i)] = h2]
      /\ y_xor_z' = IF i' % 16 = 0 THEN FirstXor(S') ELSE x_xor_y
      /\ W' = IF i' \in {16, 32, 48} THEN MSCH(W) ELSE W
      /\ state' = IF i' = 64 THEN [k \in 0 .. 7 |-> Add(state[k], S'[k])] ELSE state
      /\ fips' = [v |-> v, last |-> Append(Tail(fips.last), FipsWord(fips.last)),
                  hash |-> IF i' = 64 THEN [k \in 1 .. 8 |-> Add(fips.hash[k], v[k])]
                                     ELSE fips.hash]
      /\ UNCHANGED blocks

RoundsNext == RND \/ \E block \in Messages : Prepare(block)

\* After every round the registers are the a .. h of the standard, read by
\* their roles, and the state is its hash: the rotation by index, the kept
\* y ^ z and the schedule made in pieces change nothing.
RoundsMatch ==
  /\ \A role \in 0 .. 7 : S[Reg(role, i)] = fips.v[role + 1]
  /\ y_xor_z = Xor(fips.v[2], fips.v[3])
  /\ InOrder(state) = fips.hash
=============================================================================
