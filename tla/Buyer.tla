-------------------------------- MODULE Buyer --------------------------------
(***************************************************************************)
(* The paying agent (examples/buyer): fund a wallet, pin the notary key,   *)
(* ask, pay the challenge, ask again, re-run the interior transform over   *)
(* the shipped materials and verify.  Wherever the code calls expect(), a  *)
(* failure ends the process: outcome "crashed".                            *)
(***************************************************************************)
EXTENDS World

VARIABLES buyer, pinned   \* where each buyer is; the key it pinned
buyerVars == <<buyer, pinned>>

Outcomes == {"verified", "rejected", "declined", "crashed"}

BuyerInit ==
    /\ buyer = [p \in Purchases |-> "start"]
    /\ pinned = [p \in Purchases |-> None]

Goto(p, place) == buyer' = [buyer EXCEPT ![p] = place]

\* The faucet funds the wallet, or the buyer ends.
FundWallet(p) ==
    /\ buyer[p] = "start"
    /\ \/ Goto(p, "funded") /\ UNCHANGED faults
       \/ Goto(p, "crashed") /\ Fault(p)
    /\ UNCHANGED <<processVars, http, link, tls, ledger, pinned>>

\* NOTARY_PUBKEY, or the key the reseller serves at /notary/pubkey.
PinKey(p) ==
    /\ buyer[p] = "funded"
    /\ \/ /\ env.buyer.NOTARY_PUBKEY # None
          /\ pinned' = [pinned EXCEPT ![p] = env.buyer.NOTARY_PUBKEY]
          /\ Goto(p, "pinned") /\ UNCHANGED faults
       \/ /\ env.buyer.NOTARY_PUBKEY = None /\ app # None
          /\ pinned' = [pinned EXCEPT ![p] = Some(app[1].notary_pubkey)]
          /\ Goto(p, "pinned") /\ UNCHANGED faults
       \/ \* the fetch fails
          /\ env.buyer.NOTARY_PUBKEY = None
          /\ Goto(p, "crashed") /\ Fault(p) /\ UNCHANGED pinned
    /\ UNCHANGED <<processVars, http, link, tls, ledger>>

\* The first POST of send_with_payment, without a credential.
Ask(p) ==
    /\ buyer[p] = "pinned"
    /\ Post(p, Asked(RequestBody(p), None))
    /\ Goto(p, "asked")
    /\ UNCHANGED <<processVars, link, tls, ledger, pinned>>

Challenged(p) == /\ buyer[p] = "asked" /\ http[p].at = "buyer"
                 /\ http[p].status = 402 /\ http[p].challenge

\* send_with_payment answers a 402: pay its challenge on chain and repeat the
\* request with the credential.  A payment that fails ends the buyer.
Pay(p) ==
    /\ Challenged(p)
    /\ \/ /\ ledger' = [ledger EXCEPT ![p] = Some(clock)]
          /\ Post(p, Asked(RequestBody(p), Some(Reference(p))))
          /\ Goto(p, "paid")
       \/ Goto(p, "crashed") /\ Fault(p) /\ UNCHANGED <<ledger, http>>
    /\ UNCHANGED <<processVars, link, tls, pinned>>

\* A response other than 2xx is printed and the buyer returns.
Decline(p) ==
    /\ buyer[p] \in {"asked", "paid"} /\ http[p].at = "buyer"
    /\ http[p].status # 200 /\ ~Challenged(p)
    /\ Goto(p, "declined")
    /\ UNCHANGED <<worldVars, pinned>>

\* send_with_payment or bytes() fails.
Lose(p) ==
    /\ buyer[p] \in {"asked", "paid"} /\ http[p] = Hangup
    /\ Goto(p, "crashed")
    /\ UNCHANGED <<worldVars, pinned>>

-----------------------------------------------------------------------------
\* Mutant: a material is trusted as soon as the receipt has a node for it.
MaterialPresent(receipt, materials, id) == HasNode(receipt, id)

\* Which shipped materials are the bytes the receipt commits to.
MaterialMatches(receipt, materials, id) ==
    /\ HasNode(receipt, id)
    /\ NodeOf(receipt, id).output_digest = Sha256(materials[id])

Trusted(receipt, materials) ==
    {id \in DOMAIN materials : MaterialMatches(receipt, materials, id)}

\* Re-run every interior node whose inputs are all trusted and whose
\* transform is known, in the order of the receipt.
Recomputed(receipt, materials) ==
    LET output(node) == Rerun(node.proof.fn_id,
                              [k \in DOMAIN node.inputs |-> materials[node.inputs[k]]])
        rerun == {k \in DOMAIN receipt.nodes :
                    LET node == receipt.nodes[k]
                    IN  /\ ~IsLeg(node)
                        /\ Range(node.inputs) \subseteq Trusted(receipt, materials)
                        /\ output(node) # None}
        nth(j) == receipt.nodes[CHOOSE k \in rerun :
                                    Cardinality({i \in rerun : i <= k}) = j]
    IN  [j \in 1 .. Cardinality(rerun) |->
            [id |-> nth(j).id, digest |-> Sha256(output(nth(j))[1])]]

\* Mutant: the key is pinned but not passed on.
PinnedKeyIgnored(p) == None
PinnedKey(p) == pinned[p]

\* What the buyer verifies the receipt against.
Expectation(p, response, receipt, materials) ==
    [manifest |-> Manifest(MANIFEST_ID, {ExpectedUpstream(env)}),
     notary_pubkey |-> PinnedKey(p),
     served_output_digest |-> Sha256(response.body),
     payment_reference |-> response.payment[1],
     served_request_digest |-> Some(Sha256(RequestBody(p))),
     recomputed |-> Recomputed(receipt, materials)]

\* Every material check and every check of verify() passes.
Accepts(receipt, materials, expect) ==
    Trusted(receipt, materials) = DOMAIN materials /\ GatePasses(receipt, expect)

\* A 200: decode the three headers (a missing or malformed one ends the
\* buyer), then verify.
Check200(p) ==
    /\ buyer[p] = "paid" /\ http[p].at = "buyer" /\ http[p].status = 200
    /\ \E receipt \in {FromHeader(http[p].receipt)},
          materials \in {MaterialsFromHeader(http[p].materials)} :
         IF None \in {materials, http[p].payment, receipt}
         THEN Goto(p, "crashed")
         ELSE \E expect \in {Expectation(p, http[p], receipt[1], materials[1])} :
                Goto(p, IF Accepts(receipt[1], materials[1], expect)
                        THEN "verified" ELSE "rejected")
    /\ UNCHANGED <<worldVars, pinned>>

BuyerStep(p) ==
    \/ FundWallet(p) \/ PinKey(p) \/ Ask(p) \/ Pay(p) \/ Decline(p) \/ Lose(p)
    \/ Check200(p)
=============================================================================
