----------------------------- MODULE MCVerifier -----------------------------
(***************************************************************************)
(* Bounded inputs for Verifier.  Ids "a", "b", "c"; receipts of at most    *)
(* two nodes with any ids (so ids repeat and edges dangle) and of three    *)
(* nodes with distinct ids (so there are diamonds, chains and cycles of    *)
(* length three).                                                          *)
(***************************************************************************)
EXTENDS Verifier

MCNodeIds == {"a", "b", "c"}

Claim(request, response) ==
    LegClaim("upstream", [method |-> "POST", path |-> "/"], request, response,
             200, 0)

Trusted == FromSeed("trusted seed")
Good  == Attest(Trusted, Claim("asked", "answer"))
Other == Attest(Trusted, Claim("another", "answer"))
Alien == [Good EXCEPT !.claim.host = "elsewhere"]
Rogue == Attest(FromSeed("rogue seed"), Claim("asked", "answer"))
NotHex == [Good EXCEPT !.proof.signature.key = BadHex]

InteriorInputs == {<< >>, <<"a">>, <<"b", "c">>, <<"c", "a">>, <<"a", "b">>}

NodesNamed(ids) ==
    {[id |-> id, inputs |-> << >>, output_digest |-> "answer",
      proof |-> Leg(att)] : id \in ids, att \in {Good, Other}}
    \cup
    {[id |-> id, inputs |-> ins, output_digest |-> "verdict",
      proof |-> Recompute("starts_with_yes")] : id \in ids, ins \in InteriorInputs}

\* Legs a node check must refuse, and a leg that (oddly) names inputs.
OddLegs ==
    {[id |-> "b", inputs |-> << >>, output_digest |-> "answer",
      proof |-> Leg(att)] : att \in {Alien, Rogue, NotHex}}
    \cup {[id |-> "b", inputs |-> <<"c">>, output_digest |-> "verdict",
           proof |-> Leg(Good)]}

MCNodes == NodesNamed(MCNodeIds) \cup OddLegs

NodeLists ==
    {<<n>> : n \in MCNodes}
    \cup {<<m, n>> : m \in MCNodes, n \in MCNodes}
    \cup {<<l, m, n>> : l \in NodesNamed({"a"}), m \in NodesNamed({"b"}),
                        n \in NodesNamed({"c"})}

MCReceipts ==
    {[manifest_id |-> "harness", nodes |-> ns, output_node |-> out,
      payment_reference |-> ref] :
        ns \in NodeLists, out \in {"a", "c"}, ref \in {Some("tx")}}
    \cup {[manifest_id |-> m, nodes |-> <<n>>, output_node |-> "a",
           payment_reference |-> ref] :
             m \in {"harness", "other"}, n \in NodesNamed({"a"}),
             ref \in {None, Some("tx"), Some("tx2")}}

Expect(pin, request, recomputed, served) ==
    [manifest |-> Manifest("harness", {"upstream"}),
     notary_pubkey |-> pin, served_output_digest |-> served,
     payment_reference |-> "tx", served_request_digest |-> request,
     recomputed |-> recomputed]

Pair(id, digest) == [id |-> id, digest |-> digest]
Reran == <<Pair("a", "verdict"), Pair("b", "verdict"), Pair("c", "verdict")>>

MCExpectations ==
    { Expect(Some(PublicKeyHex(Trusted)), Some("asked"), Reran, "verdict"),
      Expect(Some(PublicKeyHex(Trusted)), Some("asked"), << >>, "answer"),
      Expect(None, None, Reran, "verdict"),
      Expect(None, Some("asked"), <<Pair("b", "answer")>> \o Reran, "verdict") }
=============================================================================
