---------------------------- MODULE FeeEstimate ----------------------------
(***************************************************************************)
(* One send from the administrator's wallet: the handler of wallet/send    *)
(* (main.go) and estimateSendFee (admin.go), which guesses the fee of a    *)
(* transaction whose size depends on the coins it spends, which depend on  *)
(* the fee.  Amounts are base units, sizes bytes, rates units per 1000     *)
(* bytes.                                                                  *)
(*                                                                         *)
(* The node is external: it has a list of coins, and is said to take them  *)
(* in the same order (admin.go:414-418).                                   *)
(***************************************************************************)
EXTENDS Integers, Sequences, FiniteSets

CONSTANTS Wallets,   \* sequences of coins, as listunspent gives them
          Amounts,   \* amounts to send, in base units
          Rates,     \* pairs <<minrelayfeekb, feerate>> of the node
          Fees       \* fees the form may ask for, 0 for none

UTXO == [value : Nat, hybrid : BOOLEAN, spendable : BOOLEAN]

ASSUME FeeAssumption ==
  /\ Wallets \subseteq Seq(UTXO)
  /\ Amounts \subseteq Nat /\ Fees \subseteq Nat
  /\ Rates \subseteq (Nat \ {0}) \X Nat

MaxRounds == 12

VARIABLES
  utxos, amountSat, minRelay, feerate, reqFee,   \* what the send starts from
  state,          \* of the estimate, then of the handler
  round,          \* rounds of the estimate
  fee, inputs, size,   \* its fee, and the transaction it had in mind
  sent            \* the fee given to the node

request == <<utxos, amountSat, minRelay, feerate, reqFee>>
feeVars == <<request, state, round, fee, inputs, size, sent>>

Max2(a, b) == IF a >= b THEN a ELSE b

\* The coins that count, what a set of coins is worth, and the bytes it takes.
Coins    == {i \in DOMAIN utxos : utxos[i].spendable /\ utxos[i].value > 0}
Value(C) ==
  LET total[i \in 0 .. Len(utxos)] ==
        IF i = 0 THEN 0 ELSE total[i - 1] + (IF i \in C THEN utxos[i].value ELSE 0)
  IN  total[Len(utxos)]
InputSize(C) ==
  LET hybrid == {i \in C : utxos[i].hybrid}
  IN  5418 * Cardinality(hybrid) + 149 * Cardinality(C \ hybrid)

\* The coins are taken in order until they pay the amount and the fee f.
UpTo(i)  == {j \in Coins : j <= i}
Taken(f) == {i \in Coins : Value(UpTo(i - 1)) < amountSat + f}
Pays(C, f) == Value(C) >= amountSat + f

\* The bytes of a transaction with these outputs, and of the one that pays f,
\* which has no output for the change if there is none.
SizeWith(C, outputs) == 10 + InputSize(C) + outputs * 34 + 32
SizePaying(f) ==
  SizeWith(Taken(f), IF Value(Taken(f)) = amountSat + f THEN 1 ELSE 2)

\* Per 1000 bytes, rounded up.  (Variant: rounded down.)
ForSize(rate, s) == (s * rate + 999) \div 1000
Rounded(rate, s) == (s * rate) \div 1000
MinFee(s) == ForSize(minRelay, s)
NextFeeFloor(s) == Rounded(feerate, s)
NextFee(s) == Max2(ForSize(feerate, s), MinFee(s))

-----------------------------------------------------------------------------
FeeInit ==
  /\ utxos \in Wallets /\ amountSat \in Amounts /\ reqFee \in Fees
  /\ \E r \in Rates : minRelay = r[1] /\ feerate = Max2(r[2], r[1])
  /\ state = "begin"
  /\ round = 0 /\ fee = 0 /\ inputs = 0 /\ size = 0
  /\ sent = 0

\* The node cannot be asked for its coins, or they are worth less than the amount.
Refuse ==
  /\ state = "begin"
  /\ state' = "noEstimate"
  /\ UNCHANGED <<request, round, fee, inputs, size, sent>>

Begin ==
  /\ state = "begin"
  /\ Pays(Coins, 0)
  /\ state' = "round"
  /\ fee' = minRelay
  /\ UNCHANGED <<request, round, inputs, size, sent>>

\* In a round, the coins run out,
RunOut ==
  /\ state = "round"
  /\ Taken(fee) = {} \/ ~Pays(Taken(fee), fee)
  /\ state' = "insufficient"
  /\ UNCHANGED <<request, round, fee, inputs, size, sent>>

Rounding(newSize) ==
  /\ state = "round"
  /\ Taken(fee) # {} /\ Pays(Taken(fee), fee)
  /\ inputs' = Cardinality(Taken(fee))
  /\ size' = newSize
  /\ round' = round + 1
  /\ fee' = NextFee(size')
  /\ state' = IF fee' = fee \/ round' = MaxRounds THEN "estimated" ELSE "round"
  /\ UNCHANGED <<request, sent>>

\* Variant: the size is not set back to 0 for a new round.
RoundAddsUp == Rounding(size + SizePaying(fee))

\* or a fee comes out; it is the one returned when it is the one assumed, and
\* in the last round whether it is or not.
Round == Rounding(SizePaying(fee))

-----------------------------------------------------------------------------
(* The handler.                                                            *)

Estimated == state = "estimated"

\* No fee was asked for, and there is none to fill in; or the fee is too low.
Reject ==
  /\ \/ state \in {"noEstimate", "insufficient"} /\ reqFee = 0
     \/ Estimated /\ reqFee > 0 /\ reqFee < MinFee(size)
  /\ state' = "rejected"
  /\ UNCHANGED <<request, round, fee, inputs, size, sent>>

Sending(mayHaveFee) ==
  /\ \/ state \in {"noEstimate", "insufficient"} /\ reqFee > 0
     \/ Estimated /\ mayHaveFee
  /\ sent' = IF reqFee = 0 THEN fee ELSE reqFee
  /\ state' = IF Estimated THEN "sent" ELSE "sentBlind"
  /\ UNCHANGED <<request, round, fee, inputs, size>>

\* Variant: a fee that was asked for is not compared.
SendAnyFee == Sending(TRUE)

\* The node is given the fee asked for, or the estimate; blindly if there is none.
Send == Sending(reqFee = 0 \/ reqFee >= MinFee(size))

FeeEnded == state \in {"rejected", "sent", "sentBlind"} /\ UNCHANGED feeVars

FeeNext == Refuse \/ Begin \/ RunOut \/ Round \/ Reject \/ Send \/ FeeEnded

FeeSpec == FeeInit /\ [][FeeNext]_feeVars

-----------------------------------------------------------------------------
\* The type invariant.
FeeTypeOK ==
  /\ utxos \in Wallets /\ amountSat \in Amounts /\ reqFee \in Fees
  /\ minRelay \in Nat \ {0} /\ feerate \in Nat
  /\ state \in {"begin", "noEstimate", "round", "insufficient", "estimated",
                "rejected", "sent", "sentBlind"}
  /\ round \in 0..MaxRounds
  /\ fee \in Nat /\ inputs \in Nat /\ size \in Nat /\ sent \in Nat

\* The estimate of a fee that was assumed before it came out is exact: for that
\* fee the coins taken are worth amount and fee, and the size is theirs.  When
\* the rounds run out this may fail, but the fee still pays for the size returned
\* with it (admin.go:460-503).
EstimateSound ==
  state = "estimated" =>
    /\ fee >= MinFee(size)
    /\ round < MaxRounds => /\ inputs = Cardinality(Taken(fee))
                            /\ size = SizePaying(fee)
                            /\ Pays(Taken(fee), fee)

\* A send never goes to the node without a fee, nor, if there was an estimate,
\* with less than the minimum for its size (main.go:332-350).
FeePaysRelay ==
  /\ state \in {"sent", "sentBlind"} => sent > 0
  /\ state = "sent" => sent >= MinFee(size)

\* The estimate says that the balance is insufficient only if it is: no number
\* of the coins, in their order, is worth amount and fee with change left, for a
\* fee that is not below the one the rounds start from (minRelay, which is the
\* fee of 1000 bytes: a smaller transaction may be refused although it could be paid).
RefusedIfShort ==
  state = "insufficient" =>
    \A i \in Coins :
      LET f == NextFee(SizeWith(UpTo(i), 2)) IN
      f >= minRelay => Value(UpTo(i)) <= amountSat + f

\* admin.go:414-416: "mirrors the node's coin selection order, so the estimated
\* input count (and therefore transaction size) matches what sendfromaddress
\* will really sign".
EstimateMatchesSend ==
  state = "sent" /\ reqFee = 0 => inputs = Cardinality(Taken(sent)) /\ size = SizePaying(sent)
=============================================================================
