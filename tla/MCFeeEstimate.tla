--------------------------- MODULE MCFeeEstimate ---------------------------
(* FeeEstimate for wallets of up to three coins, and for two with many     *)
(* small ones, where every coin added costs about what it is worth.        *)
EXTENDS FeeEstimate

Coin(v, h, s) == [value |-> v, hybrid |-> h, spendable |-> s]

MCKinds == {Coin(100, FALSE, TRUE), Coin(600, FALSE, TRUE), Coin(2000, FALSE, TRUE),
            Coin(6000, TRUE, TRUE), Coin(9000, FALSE, FALSE)}

Small(v) == [i \in 1..40 |-> Coin(v, FALSE, TRUE)]

MCFewCoins == UNION {[1..n -> MCKinds] : n \in 0..3}
MCWallets  == MCFewCoins \cup {Small(100), Small(150)}

\* An amount may round to 0.  472 is what a hybrid coin of 6000 is worth without its fee at 1000.
MCPositive == {100, 472, 1500}
MCAmounts == {0} \cup MCPositive
MCRates   == {<<1000, 0>>, <<1000, 2500>>, <<1500, 1200>>}
MCFees    == {0, 300, 6000}
=============================================================================
