------------------------------ MODULE MapStore ------------------------------
(***************************************************************************)
(* What a MapStore promises the tree: Set, Get and Delete on a map.  The   *)
(* in-memory stores keyed by [32]byte panic on a key of another length.    *)
(* FixedSizeMap (mapstore_fixed.go) is this module as it stands;           *)
(* ArenaFixedSizeMap (module Arena) implements it.                         *)
(***************************************************************************)
EXTENDS Naturals

CONSTANTS StoreKeys,   \* the keys the store is called with
          FixedKeys,   \* those of them that are 32 bytes long
          Payloads,    \* the values it is called with
          Missing      \* marks a key the store does not hold

VARIABLES contents,    \* the map
          result       \* what the last call returned

vars == <<contents, result>>

Fresh         == [status |-> "fresh"]
Ok(k)         == [status |-> "ok", key |-> k]
OkValue(k, v) == [status |-> "ok", key |-> k, value |-> v]
InvalidKey(k) == [status |-> "InvalidKeyError", key |-> k]
Panic(k)      == [status |-> "panic", key |-> k]

Init ==
    /\ contents = [k \in StoreKeys |-> Missing]
    /\ result = Fresh

\* toFixedKey.
BadKey(k) ==
    /\ k \notin FixedKeys
    /\ result' = Panic(k)
    /\ UNCHANGED contents

Get(k) ==
    /\ k \in FixedKeys
    /\ result' = IF contents[k] = Missing THEN InvalidKey(k) ELSE OkValue(k, contents[k])
    /\ UNCHANGED contents

Set(k, v) ==
    /\ k \in FixedKeys
    /\ contents' = [contents EXCEPT ![k] = v]
    /\ result' = Ok(k)

Delete(k) ==
    /\ k \in FixedKeys
    /\ contents' = [contents EXCEPT ![k] = Missing]
    /\ result' = IF contents[k] = Missing THEN InvalidKey(k) ELSE Ok(k)

\* Dropping the whole store (the arena only).
Reset ==
    /\ contents' = [k \in StoreKeys |-> Missing]
    /\ result' = Fresh

Next ==
    \/ \E k \in StoreKeys : \/ BadKey(k) \/ Get(k) \/ Delete(k)
                            \/ \E v \in Payloads : Set(k, v)
    \/ Reset

Spec == Init /\ [][Next]_vars
=============================================================================
