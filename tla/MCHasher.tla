------------------------------ MODULE MCHasher ------------------------------
(* An instance of Hasher for TLC. *)
EXTENDS Hasher

Prm(ver, rows, width, pers) ==
  [version |-> ver, N |-> rows, r |-> width, pers_ok |-> pers]

\* Both versions with both numbers of rows, small and large r, and one set
\* of parameters for every reason to refuse a call.
MCParams ==
  {Prm("1.0", 16, 1, TRUE), Prm("1.0", 16, 2, TRUE), Prm("1.0", 32, 1, TRUE),
   Prm("0.5", 16, 2, TRUE), Prm("0.5", 32, 1, TRUE),
   Prm("1.0", 31, 1, TRUE), Prm("1.0", 18, 1, TRUE), Prm("1.0", 8, 1, TRUE),
   Prm("1.0", 64, 1, TRUE), Prm("0.5", 16, 0, TRUE), Prm("1.0", 16, 3, TRUE),
   Prm("1.0", 16, 1, FALSE), Prm("2.0", 16, 1, TRUE)}

\* Every mask of the loops meets 0, its largest value, and values in between.
MCVals == {0, 1, 2, 5, 11, 15, 31}

\* No difficulty and a negative one; half a unit, one, and two and a half;
\* whole and broken numbers; the largest that fits, and one that does not.
MCDifficulties ==
  {<<0, 1>>, <<-1, 2>>, <<1, 20>>, <<1, 10>>, <<1, 4>>, <<1, 1>>, <<3, 2>>, <<7, 3>>,
   <<63, 10>>, <<8, 1>>}

\* The padded message "abc", and blocks with all bits in use.
Abc == [k \in 1 .. 64 |-> CASE k <= 3 -> 96 + k
                            [] k = 4 -> 128
                            [] k = 64 -> 24
                            [] OTHER -> 0]
Varied(m) == [k \in 1 .. 64 |-> (k * k * m + 200) % 256]
Ones == [k \in 1 .. 64 |-> 255]

MCMessages == {Abc, Varied(7), Ones}
MCInputs == {Varied(1), Varied(3), Ones}
=============================================================================
