----------------------------- MODULE SMTProofs ------------------------------
(***************************************************************************)
(* The tree together with a verifier: what VerifyProof and                 *)
(* VerifyCompactProof say of the proofs that Prove and ProveUpdatable      *)
(* return, in every reachable state of the tree.                           *)
(***************************************************************************)
EXTENDS SMT, Proofs

proved == reply.status = "proof"

\* The value that the root of the proof commits to, as a caller sees it.
valueOf(p) ==
    IF CommittedValue(reply.root, p) = Absent THEN DefaultValue
    ELSE CommittedValue(reply.root, p)

AnyValue == Values \cup {DefaultValue}

\* A proof that Prove returned convinces the verifier of the value that the
\* root commits to at that key, and of no other; used for any other key it never
\* convinces the verifier of a value that key does not have (doProveForRoot in
\* smt.go against verifyProofWithUpdates in proofs.go).
ProofDecides ==
    proved =>
        /\ VerifyProof(reply, reply.root, reply.path, valueOf(reply.path))
        /\ \A p \in Paths : \A v \in AnyValue :
               VerifyProof(reply, reply.root, p, v) => v = valueOf(p)

\* CompactProof always accepts such a proof, and its compact form verifies for
\* exactly the same keys and values (CompactProof, DecompactProof and
\* VerifyCompactProof in proofs.go).
CompactAgrees ==
    proved =>
        /\ sanityCheck(reply)
        /\ \A p \in Paths : \A v \in AnyValue :
               VerifyCompactProof(CompactProof(reply), reply.root, p, v)
                   <=> VerifyProof(reply, reply.root, p, v)

\* The walk to p in the complete tree of the entries L ends at this level.
walkLength(L, p) == CHOOSE d \in 0 .. Depth :
    /\ ~Big(Below(L, p, d))
    /\ \A c \in 0 .. d - 1 : Big(Below(L, p, c))

\* The proof for p in the tree of the map m, by definition of that tree.
ProofOf(m, p, updatable) ==
    LET L     == EntriesOf(m)
        n     == walkLength(L, p)
        up    == [j \in 1 .. n |-> SubtreeRoot(Beside(L, p, n + 1 - j), n + 1 - j)]
        other == {e \in Below(L, p, n) : e[1] # p}
    IN  [SideNodes |-> up,
         NonMembershipLeafData |->
            IF other = {} THEN << >>
            ELSE LET e == CHOOSE e \in other : TRUE
                 IN  <<LeafData(e[1], digest(e[2]))>>,
         SiblingData |-> IF updatable /\ n > 0 THEN <<Data(up[1])>> ELSE << >>]

\* Prove and ProveUpdatable return the proof that the map alone determines: the
\* order of earlier writes, deletes and failed calls leaves no trace in it, so
\* two peers with equal roots give equal proofs (doProveForRoot in smt.go).
ProofCanonical ==
    proved => \E updatable \in BOOLEAN :
        LET proof == ProofOf(CommittedMap(reply.root), reply.path, updatable)
        IN  \A f \in DOMAIN proof : reply[f] = proof[f]
=============================================================================
