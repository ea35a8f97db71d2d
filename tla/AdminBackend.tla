---------------------------- MODULE AdminBackend ----------------------------
(***************************************************************************)
(* The administrator's side of the server (admin.go): the account, which   *)
(* every handler goes through (AdminAuth), and a send from the wallet once *)
(* the handler was let in (FeeEstimate).  The two share no state, so turn  *)
(* picks the one that is run.                                              *)
(***************************************************************************)
EXTENDS AdminAuth, FeeEstimate

VARIABLE turn

BackendInit ==
  /\ turn \in {"account", "send"} /\ Init /\ FeeInit
  /\ turn = "account" =>
       /\ utxos = CHOOSE w \in Wallets : TRUE
       /\ amountSat = CHOOSE a \in Amounts : TRUE
       /\ reqFee = CHOOSE f \in Fees : TRUE
       /\ minRelay = (CHOOSE r \in Rates : TRUE)[1]
       /\ feerate = Max2((CHOOSE r \in Rates : TRUE)[2], minRelay)

AccountTurn == turn = "account" /\ Next /\ UNCHANGED <<turn, feeVars>>
SendTurn == turn = "send" /\ FeeNext /\ UNCHANGED <<turn, vars>>

BackendNext == AccountTurn \/ SendTurn

\* While a send is run the account stays as it is at first, where none of
\* the actions its fairness is about is enabled.
BackendSpec == BackendInit /\ [][BackendNext]_<<turn, vars, feeVars>> /\ LockFairness
=============================================================================
