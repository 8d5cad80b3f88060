------------------------------ MODULE MCArena -------------------------------
(***************************************************************************)
(* A small instance of Arena: slabs of two bytes, and values that are      *)
(* empty, fill a slab exactly, share one, leave a gap or need one of their *)
(* own.                                                                    *)
(***************************************************************************)
EXTENDS Arena

MCPayloads == {<< >>, <<1>>, <<2, 1, 1>>}

MCPayloadsEmpty == {<< >>, <<1>>}
=============================================================================
