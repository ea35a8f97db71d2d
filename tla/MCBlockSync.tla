---------------------------- MODULE MCBlockSync ----------------------------
(* BlockSync for two nodes that have three blocks between them (a fourth   *)
(* one while another is on its way), two of which are sent at a time.      *)
EXTENDS BlockSync

CONSTANTS n1, n2
=============================================================================
