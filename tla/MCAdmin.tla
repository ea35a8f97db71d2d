------------------------------ MODULE MCAdmin ------------------------------
(* AdminBackend with the handlers of MCAdminAuth and the wallets of        *)
(* MCFeeEstimate.                                                          *)
EXTENDS AdminBackend, MCAdminAuth, MCFeeEstimate
=============================================================================
