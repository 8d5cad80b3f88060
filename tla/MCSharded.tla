----------------------------- MODULE MCSharded ------------------------------
(***************************************************************************)
(* A small instance of Sharded: the digest of key k routes it to shard     *)
(* k \div 2, and its path in that shard is k.                              *)
(***************************************************************************)
EXTENDS Sharded

MCPathOf  == [k \in Keys |-> [b \in 0 .. Depth - 1 |-> (k \div 2 ^ (Depth - 1 - b)) % 2]]
MCShardOf == [k \in Keys |-> (k \div 2) % Pow2(ShardBits)]
=============================================================================
