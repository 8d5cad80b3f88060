-------------------------- MODULE AuthenticatedMap --------------------------
(***************************************************************************)
(* What SparseMerkleTree promises its caller: a map from paths to values   *)
(* that one call at a time reads or writes.  A call ends in one step.  It  *)
(* either takes effect as a whole and reports success, or reports an error *)
(* and leaves the map as it was, whatever happens to the stores below.     *)
(***************************************************************************)
EXTENDS Naturals

CONSTANTS Locations,   \* the paths
          Content,     \* the non-default values
          Default,     \* the value that stands for "remove"
          Nothing      \* marks a location with no value

VARIABLES contents,    \* the map
          call,        \* the running call
          outcome      \* what the last call reported

vars == <<contents, call, outcome>>

NoCall == [kind |-> "none"]

Calls ==
    [kind : {"update"}, path : Locations, value : Content \cup {Default}]
        \cup [kind : {"prove"}, path : Locations, value : {Default}]

Init ==
    /\ contents = [p \in Locations |-> Nothing]
    /\ call = NoCall
    /\ outcome = "none"

Begin(c) ==
    /\ call = NoCall
    /\ call' = c
    /\ outcome' = "none"
    /\ UNCHANGED contents

Write ==
    /\ call # NoCall /\ call.kind = "update"
    /\ contents' = [contents EXCEPT ![call.path] =
                       IF call.value = Default THEN Nothing ELSE call.value]
    /\ call' = NoCall
    /\ outcome' = "ok"

Read ==
    /\ call # NoCall /\ call.kind = "prove"
    /\ call' = NoCall
    /\ outcome' = "proof"
    /\ UNCHANGED contents

Fail ==
    /\ call # NoCall
    /\ call' = NoCall
    /\ outcome' = "error"
    /\ UNCHANGED contents

Next == (\E c \in Calls : Begin(c)) \/ Write \/ Read \/ Fail

Spec == Init /\ [][Next]_vars
=============================================================================
