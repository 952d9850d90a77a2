------------------------------ MODULE Verifier ------------------------------
(***************************************************************************)
(* provably_verifier::verify and leg_ancestors as they run: the bindings,  *)
(* the depth-first walk with its explicit stack and `seen` set, the loop   *)
(* over the nodes.  verify() is a library function over whatever receipt   *)
(* was decoded from the wire, so the inputs range over arbitrary node      *)
(* lists: ids may repeat, edges may dangle or form cycles.                 *)
(***************************************************************************)
EXTENDS Gate

CONSTANTS Nodes, Receipts, Expectations, NodeIds

\* The shape of the inputs, no more than the Rust types give.
ASSUME NodesAssumption ==
    \A n \in Nodes : /\ n.id \in NodeIds
                     /\ n.inputs \in Seq(NodeIds)
ASSUME ReceiptsAssumption ==
    \A r \in Receipts : /\ r.output_node \in NodeIds
                        /\ r.nodes \in Seq(Nodes)

VARIABLES
    receipt, expect,   \* the arguments
    pc,                \* where verify() is
    stack, seen, legs, \* the locals of leg_ancestors
    next,              \* index of the next node of the final loop
    checks             \* the Vec<Check> built so far

vars == <<receipt, expect, pc, stack, seen, legs, next, checks>>

Check(name, passed) == [name |-> name, passed |-> passed]
AllPassed == \A c \in checks : c.passed

Init ==
    /\ receipt \in Receipts /\ expect \in Expectations
    /\ pc = "bindings"
    /\ stack = << >> /\ seen = {} /\ legs = {}
    /\ next = 1 /\ checks = {}

\* Manifest, delivered output and payment; then leg_ancestors is called when
\* the buyer binds its request.
BindingChecks(r, e) ==
    { Check(<<"manifest matches">>, r.manifest_id = e.manifest.id),
      IF HasNode(r, r.output_node)
      THEN Check(<<"delivered bytes match output node">>,
                 NodeOf(r, r.output_node).output_digest = e.served_output_digest)
      ELSE Check(<<"output node exists">>, FALSE),
      Check(<<"bound to this payment">>,
            r.payment_reference = Some(e.payment_reference)) }

CheckBindings ==
    /\ pc = "bindings"
    /\ checks' = BindingChecks(receipt, expect)
    /\ IF expect.served_request_digest # None
       THEN pc' = "walk" /\ stack' = <<receipt.output_node>>
       ELSE pc' = "nodes" /\ stack' = stack
    /\ UNCHANGED <<receipt, expect, seen, legs, next>>

\* One turn of leg_ancestors' loop: pop an id; skip it when already seen, else
\* take its leg, or push its inputs, or drop an id without a node.
Top == stack[Len(stack)]
Popped == SubSeq(stack, 1, Len(stack) - 1)

\* Mutant: the walk does not skip an id it has seen.
VisitAgain ==
    /\ pc = "walk" /\ stack # << >>
    /\ seen' = seen \cup {Top}
    /\ IF Expands(receipt, Top)
       THEN stack' = Popped \o NodeOf(receipt, Top).inputs
       ELSE stack' = Popped
    /\ legs' = legs \cup LegsOf(receipt, {Top})
    /\ UNCHANGED <<receipt, expect, pc, next, checks>>

\* Mutant: the walk goes on through the inputs a leg names.
VisitThroughLegs ==
    /\ pc = "walk" /\ stack # << >>
    /\ seen' = seen \cup {Top}
    /\ IF Top \notin seen /\ HasNode(receipt, Top)
       THEN /\ stack' = Popped \o NodeOf(receipt, Top).inputs
            /\ legs' = legs \cup LegsOf(receipt, {Top})
       ELSE stack' = Popped /\ legs' = legs
    /\ UNCHANGED <<receipt, expect, pc, next, checks>>

Visit ==
    /\ pc = "walk" /\ stack # << >>
    /\ seen' = seen \cup {Top}
    /\ IF Top \notin seen /\ Expands(receipt, Top)
       THEN stack' = Popped \o NodeOf(receipt, Top).inputs
       ELSE stack' = Popped
    /\ IF Top \notin seen
       THEN legs' = legs \cup LegsOf(receipt, {Top})
       ELSE legs' = legs
    /\ UNCHANGED <<receipt, expect, pc, next, checks>>

BindRequest ==
    /\ pc = "walk" /\ stack = << >>
    /\ checks' = checks \cup
            {Check(<<"output answers the buyer's request">>,
                   Answers(legs, expect.served_request_digest[1]))}
    /\ pc' = "nodes"
    /\ UNCHANGED <<receipt, expect, stack, seen, legs, next>>

\* The checks one node contributes.
LegChecks(e, node) ==
    LET att == node.proof.att
    IN  { Check(<<"leg proof valid", node.id>>, VerifyProof(att) = "Ok"),
          Check(<<"host allowed", node.id>>, att.claim.host \in e.manifest.hosts),
          Check(<<"output == leg response", node.id>>,
                node.output_digest = att.claim.response_digest) }
        \cup IF e.notary_pubkey = None THEN {}
             ELSE {Check(<<"notary key matches pinned", node.id>>,
                         NotaryPubkey(att) = e.notary_pubkey[1])}

\* Mutant: an interior node the buyer did not re-run is waved through.
InteriorChecksLenient(e, node) ==
    LET digest == RecomputedDigest(e, node.id)
    IN  IF digest # None
        THEN {Check(<<"recompute matches", node.id>>,
                    digest[1] = node.output_digest)}
        ELSE {}

InteriorChecks(e, node) ==
    LET digest == RecomputedDigest(e, node.id)
    IN  IF digest # None
        THEN {Check(<<"recompute matches", node.id>>,
                    digest[1] = node.output_digest)}
        ELSE {Check(<<"recompute NOT re-verified", node.id>>, FALSE)}

NodeChecks(r, e, node) ==
    { Check(<<"input resolves", node.id, node.inputs[k]>>,
            HasNode(r, node.inputs[k])) : k \in DOMAIN node.inputs }
    \cup IF IsLeg(node) THEN LegChecks(e, node) ELSE InteriorChecks(e, node)

\* Mutant: the loop skips every other node.
CheckNodeStride ==
    /\ pc = "nodes" /\ next <= Len(receipt.nodes)
    /\ checks' = checks \cup NodeChecks(receipt, expect, receipt.nodes[next])
    /\ next' = next + 2
    /\ UNCHANGED <<receipt, expect, pc, stack, seen, legs>>

CheckNode ==
    /\ pc = "nodes" /\ next <= Len(receipt.nodes)
    /\ checks' = checks \cup NodeChecks(receipt, expect, receipt.nodes[next])
    /\ next' = next + 1
    /\ UNCHANGED <<receipt, expect, pc, stack, seen, legs>>

Return ==
    /\ pc = "nodes" /\ next > Len(receipt.nodes)
    /\ pc' = "done"
    /\ UNCHANGED <<receipt, expect, stack, seen, legs, next, checks>>

\* verify() has returned; nothing is left to run.
Returned == pc = "done" /\ UNCHANGED vars

Next == CheckBindings \/ Visit \/ BindRequest \/ CheckNode \/ Return \/ Returned

\* verify() runs to completion on one thread, so its steps are weakly fair.
Spec == Init /\ [][Next]_vars
FairSpec == Spec /\ WF_vars(Next)
-----------------------------------------------------------------------------
TypeOK ==
    /\ receipt \in Receipts /\ expect \in Expectations
    /\ pc \in {"bindings", "walk", "nodes", "done"}
    /\ stack \in Seq(NodeIds) /\ seen \subseteq NodeIds
    /\ next \in 1 .. Len(receipt.nodes) + 1
    /\ \A c \in checks : c.passed \in BOOLEAN

\* verify() decides exactly the gate: when it has returned, every check passed
\* if and only if the receipt meets the closed-form predicate, whatever the
\* shape of the receipt's graph.
VerifyDecidesGate == pc = "done" => (AllPassed <=> GatePasses(receipt, expect))

\* leg_ancestors never visits a node the sold output does not depend on, and
\* when its stack is empty it has found every leg it does depend on.
WalkFindsAncestors ==
    pc = "walk" =>
        /\ seen \cup Range(stack) \subseteq Ancestors(receipt)
        /\ stack = << >> => legs = LegsOf(receipt, Ancestors(receipt))

\* verify() returns on every receipt, cyclic ones included.
VerifyReturns == <>(pc = "done")
=============================================================================
