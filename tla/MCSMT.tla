------------------------------- MODULE MCSMT --------------------------------
(***************************************************************************)
(* A small instance of SMT: paths of three bits, and keys whose paths are  *)
(* given by number, so that siblings at the last level, forks below a long *)
(* common prefix and leaves just under the root all occur.                 *)
(***************************************************************************)
EXTENDS SMTInvariant, TLC

\* The path whose bits spell the number k.
MCPathOf == [k \in Keys |-> [b \in 0 .. Depth - 1 |-> (k \div 2 ^ (Depth - 1 - b)) % 2]]

\* No action tells one value from another.
MCSymmetry == Permutations(Values)
=============================================================================
