-------------------------------- MODULE Gate --------------------------------
(***************************************************************************)
(* What provably_verifier::verify and provably_mpp::gate promise, as one   *)
(* predicate of a receipt and an expectation.  Verifier.tla is the code    *)
(* that computes it.                                                       *)
(*                                                                         *)
(* An Expectation is a record of manifest ([id, hosts]), notary_pubkey     *)
(* (option), served_output_digest, payment_reference,                      *)
(* served_request_digest (option) and recomputed, the sequence of          *)
(* [id, digest] pairs the buyer obtained by re-running interior nodes.     *)
(***************************************************************************)
EXTENDS Receipt

\* expect.recomputed.iter().find(|(id, _)| id == node.id): the first pair.
RecomputedDigest(expect, id) ==
    LET hits == {i \in DOMAIN expect.recomputed : expect.recomputed[i].id = id}
    IN  IF hits = {} THEN None
        ELSE Some(expect.recomputed[CHOOSE i \in hits :
                                        \A j \in hits : i <= j].digest)

\* The ids the sold output depends on: the least set with output_node that is
\* closed under the inputs of interior nodes.  A leg ends the walk, and so
\* does an id the receipt has no node for.
Expands(receipt, id) == HasNode(receipt, id) /\ ~IsLeg(NodeOf(receipt, id))

Closed(receipt, S) ==
    /\ receipt.output_node \in S
    /\ \A id \in S : Expands(receipt, id) =>
            Range(NodeOf(receipt, id).inputs) \subseteq S

Mentioned(receipt) ==
    {receipt.output_node}
        \cup UNION {Range(receipt.nodes[i].inputs) : i \in DOMAIN receipt.nodes}

Ancestors(receipt) ==
    {id \in Mentioned(receipt) :
        \A S \in SUBSET Mentioned(receipt) : Closed(receipt, S) => id \in S}

\* The attestations leg_ancestors is to return.
LegsOf(receipt, ids) ==
    {NodeOf(receipt, id).proof.att :
        id \in {x \in ids : HasNode(receipt, x) /\ IsLeg(NodeOf(receipt, x))}}

\* Manifest, delivered bytes and payment.
BindingsHold(receipt, expect) ==
    /\ receipt.manifest_id = expect.manifest.id
    /\ HasNode(receipt, receipt.output_node)
    /\ NodeOf(receipt, receipt.output_node).output_digest
            = expect.served_output_digest
    /\ receipt.payment_reference = Some(expect.payment_reference)

\* The sold output rests on at least one leg, and on no leg that answered
\* another request than the buyer's.
Answers(legs, digest) ==
    legs # {} /\ \A att \in legs : att.claim.request_digest = digest

RequestBound(receipt, expect) ==
    expect.served_request_digest # None =>
        Answers(LegsOf(receipt, Ancestors(receipt)),
                expect.served_request_digest[1])

LegHolds(expect, node) ==
    LET att == node.proof.att
    IN  /\ VerifyProof(att) = "Ok"
        /\ att.claim.host \in expect.manifest.hosts
        /\ node.output_digest = att.claim.response_digest
        /\ expect.notary_pubkey # None =>
                NotaryPubkey(att) = expect.notary_pubkey[1]

NodeHolds(receipt, expect, node) ==
    /\ \A k \in DOMAIN node.inputs : HasNode(receipt, node.inputs[k])
    /\ IF IsLeg(node)
       THEN LegHolds(expect, node)
       ELSE RecomputedDigest(expect, node.id) = Some(node.output_digest)

\* gate(): true iff every check of verify() passes.
GatePasses(receipt, expect) ==
    /\ BindingsHold(receipt, expect)
    /\ RequestBound(receipt, expect)
    /\ \A i \in DOMAIN receipt.nodes :
            NodeHolds(receipt, expect, receipt.nodes[i])
=============================================================================
