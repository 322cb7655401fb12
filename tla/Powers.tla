------------------------------- MODULE Powers -------------------------------
(***************************************************************************)
(* Powers of two as the provers can be told about them.                    *)
(***************************************************************************)
EXTENDS Integers

Pow2(n) ==
    LET upTo[k \in 0 .. n] == IF k = 0 THEN 1 ELSE 2 * upTo[k - 1]
    IN  upTo[n]
=============================================================================
