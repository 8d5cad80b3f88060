---------------------------- MODULE BulkForRoot -----------------------------
(***************************************************************************)
(* BulkUpdate on a tree whose stores hold several roots: UpdateForRoot and *)
(* SetRoot (module SMTForRoot) between batches (module Bulk).              *)
(***************************************************************************)
EXTENDS Bulk, SMTForRoot

bothVars == <<bulkVars, held, whole>>

BothInit == RootInit /\ BatchInit

BothNext ==
    \/ /\ ~running /\ (CallForRoot \/ \E r \in held : SetRoot(r))
       /\ UNCHANGED batchVars
    \/ StepForRoot /\ UNCHANGED batchVars
    \/ /\ \/ \E pairs \in Batches : BulkUpdate(pairs)
          \/ BulkDelete \/ BulkDeleteFailed \/ BulkWalk
       /\ UNCHANGED <<held, whole>>

BothSpec == BothInit /\ [][BothNext]_bothVars

\* "a BulkUpdate of N (key, value) pairs must produce the same root that you'd
\* get by calling Update on each pair sequentially in input order"
\* (bulk_equivalence_test.go), for batches that name each key once.
BulkEquivalent ==
    [][endsOk /\ IsInjective([j \in DOMAIN bulk.pairs |-> bulk.pairs[j][1]])
         => after = Iterated(before, bulk.pairs)]_bothVars
=============================================================================
