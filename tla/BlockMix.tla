------------------------------ MODULE BlockMix ------------------------------
(***************************************************************************)
(* The five blockmix functions of yespower-opt.c.  A block of 64 bytes is  *)
(* a term: the set of what was xored into it, so that xor is symmetric     *)
(* difference; PWXFORM and SALSA20 are free functions, PWXFORM also of how *)
(* often it was called before, as it changes the S-boxes.                  *)
(***************************************************************************)
EXTENDS Naturals

CONSTANT Widths   \* r; the functions without a context have r = 1

VARIABLES
  call,  \* the function and its r
  stage, \* "start", "loop" or "done"
  idx,   \* its i
  reg,   \* X
  mem,   \* Bin1, Bin2 and Bout
  result \* what it returns

mixVars == <<call, stage, idx, reg, mem, result>>

XOR(a, b) == (a \ b) \cup (b \ a)
PWX(k, v) == {<<"pwxform", k, v>>}
SALSA(v) == {<<"salsa20", v>>}

Row(name, r) == [k \in 0 .. 2 * r - 1 |-> {<<name, k>>}]
Last == 2 * call.r - 1

MixInit ==
  /\ call = [fn |-> "none", r |-> 1] /\ stage = "done" /\ idx = 0
  /\ reg = {} /\ mem = [Bin1 |-> <<>>, Bin2 |-> <<>>, Bout |-> <<>>] /\ result = {}

CallMix(fn, r) ==
  /\ call.fn = "none"
  /\ call' = [fn |-> fn, r |-> r] /\ stage' = "start" /\ idx' = 0
  /\ mem' = [Bin1 |-> Row("in1", r), Bin2 |-> Row("in2", r), Bout |-> Row("old", r)]
  /\ UNCHANGED <<reg, result>>

Return(v) == stage' = "done" /\ result' = v

(***************************************************************************)
(* Without a context: one block each, no S-boxes.                          *)
(***************************************************************************)
blockmix_salsa ==
  /\ call.fn = "salsa" /\ stage = "start"
  /\ LET first == SALSA(XOR(mem.Bin1[1], mem.Bin1[0]))
         second == SALSA(XOR(first, mem.Bin1[1]))
     IN  /\ mem' = [mem EXCEPT !.Bout[0] = first, !.Bout[1] = second]
         /\ reg' = second
         /\ Return({})
  /\ UNCHANGED <<call, idx>>

blockmix_salsa_xor ==
  /\ call.fn = "salsa_xor" /\ stage = "start"
  /\ LET X0 == XOR(XOR(mem.Bin1[1], mem.Bin2[1]), mem.Bin1[0])
         first == SALSA(XOR(X0, mem.Bin2[0]))
         second == SALSA(XOR(XOR(first, mem.Bin1[1]), mem.Bin2[1]))
     IN  /\ mem' = [mem EXCEPT !.Bout[0] = first, !.Bout[1] = second]
         /\ reg' = second
         /\ Return(second)
  /\ UNCHANGED <<call, idx>>

(***************************************************************************)
(* blockmix: one block in each turn of the loop, the last one by SALSA20.  *)
(***************************************************************************)
blockmix_start ==
  /\ call.fn = "blockmix" /\ stage = "start"
  /\ reg' = mem.Bin1[Last] /\ stage' = "loop"
  /\ UNCHANGED <<call, idx, mem, result>>

blockmix ==
  /\ call.fn = "blockmix" /\ stage = "loop"
  /\ LET v == PWX(idx, XOR(reg, mem.Bin1[idx]))
     IN  \/ /\ idx >= Last
            /\ mem' = [mem EXCEPT !.Bout[idx] = SALSA(v)]
            /\ reg' = SALSA(v) /\ Return({}) /\ UNCHANGED idx
         \/ /\ idx < Last
            /\ mem' = [mem EXCEPT !.Bout[idx] = v]
            /\ reg' = v /\ idx' = idx + 1 /\ UNCHANGED <<stage, result>>
  /\ UNCHANGED call

(***************************************************************************)
(* blockmix_xor and blockmix_xor_save: two blocks in each turn.            *)
(***************************************************************************)
pair_start ==
  /\ call.fn \in {"xor", "save"} /\ stage = "start"
  /\ reg' = XOR(mem.Bin1[Last], mem.Bin2[Last]) /\ stage' = "loop"
  /\ UNCHANGED <<call, idx, mem, result>>

\* The two values X takes in a turn.
Turn1 == PWX(idx, XOR(XOR(reg, mem.Bin1[idx]), mem.Bin2[idx]))
Turn2 == PWX(idx + 1, XOR(XOR(Turn1, mem.Bin1[idx + 1]), mem.Bin2[idx + 1]))

\* The second block of the turn is the last one, or the loop goes on.
Second == IF idx >= Last - 1 THEN SALSA(Turn2) ELSE Turn2
NextTurn ==
  /\ reg' = Second
  /\ \/ idx >= Last - 1 /\ Return(Second) /\ UNCHANGED idx
     \/ idx < Last - 1 /\ idx' = idx + 2 /\ UNCHANGED <<stage, result>>

blockmix_xor ==
  /\ call.fn = "xor" /\ stage = "loop"
  /\ mem' = [mem EXCEPT !.Bout[idx] = Turn1, !.Bout[idx + 1] = Second]
  /\ NextTurn
  /\ UNCHANGED call

\* Variant: Bin1 is overwritten before Bin2 takes it in.
save_late ==
  /\ call.fn = "save" /\ stage = "loop"
  /\ mem' = [mem EXCEPT
       !.Bin2[idx] = XOR(mem.Bin2[idx], Turn1), !.Bin1[idx] = Turn1,
       !.Bin2[idx + 1] = XOR(mem.Bin2[idx + 1], Second), !.Bin1[idx + 1] = Second]
  /\ NextTurn
  /\ UNCHANGED call

\* Bin2 keeps Bin1 ^ Bin2, Bin1 is the output.
blockmix_xor_save ==
  /\ call.fn = "save" /\ stage = "loop"
  /\ mem' = [mem EXCEPT
       !.Bin2[idx] = XOR(mem.Bin2[idx], mem.Bin1[idx]), !.Bin1[idx] = Turn1,
       !.Bin2[idx + 1] = XOR(mem.Bin2[idx + 1], mem.Bin1[idx + 1]), !.Bin1[idx + 1] = Second]
  /\ NextTurn
  /\ UNCHANGED call

MixNext ==
  \/ blockmix_salsa \/ blockmix_salsa_xor
  \/ blockmix_start \/ blockmix
  \/ pair_start \/ blockmix_xor \/ blockmix_xor_save
  \/ \E fn \in {"salsa", "salsa_xor"} : CallMix(fn, 1)
  \/ \E fn \in {"blockmix", "xor", "save"}, r \in Widths : CallMix(fn, r)

(***************************************************************************)
(* The definition: BlockMix of one row, with Salsa20 alone (scrypt's, for  *)
(* r = 1) or with pwxform.                                                 *)
(***************************************************************************)
Textbook(B, last, simple) ==
  LET V[k \in 0 .. last] ==
        LET v == XOR(IF k = 0 THEN B[last] ELSE V[k - 1], B[k])
        IN  IF simple THEN SALSA(v) ELSE PWX(k, v)
  IN  [k \in 0 .. last |-> IF ~ simple /\ k = last THEN SALSA(V[k]) ELSE V[k]]

Simple == call.fn \in {"salsa", "salsa_xor"}
Mixed(first, second) == [k \in 0 .. Last |-> XOR(first[k], second[k])]

\* Every function computes BlockMix of its row, or of the xor of its two
\* rows, whatever it unrolls; the one that saves leaves their xor in V and
\* its result in X; and what it returns is the last block, from which the
\* next row is chosen.
MixMatches ==
  stage = "done" /\ call.fn # "none" =>
    LET in1 == Row("in1", call.r)
        in2 == Row("in2", call.r)
        row == IF call.fn \in {"salsa", "blockmix"} THEN in1 ELSE Mixed(in1, in2)
        out == IF call.fn = "save" THEN mem.Bin1 ELSE mem.Bout
    IN  /\ out = Textbook(row, Last, Simple)
        /\ call.fn = "save" => mem.Bin2 = row /\ mem.Bout = Row("old", call.r)
        /\ call.fn # "save" => mem.Bin1 = in1 /\ mem.Bin2 = in2
        /\ call.fn \notin {"salsa", "blockmix"} => result = out[Last]
=============================================================================
