------------------------------- MODULE Powers -------------------------------
(***************************************************************************)
(* Powers of two, as the shifts of sharded.go use them.  They are defined  *)
(* by doubling, so that their laws can be proved.                          *)
(***************************************************************************)
EXTENDS Integers

\* 1 << k.
Pow2(k) ==
    LET p[i \in 0 .. k] == IF i = 0 THEN 1 ELSE 2 * p[i - 1]
    IN  p[k]
=============================================================================
