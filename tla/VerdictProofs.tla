---------------------------- MODULE VerdictProofs ----------------------------
(***************************************************************************)
(* What the buyer's verdict on a purchase means: the gate and the material *)
(* checks evaluated on the receipt the reseller makes, and with them that  *)
(* VERIFIED is genuine, that a rejection has a cause and that an honest    *)
(* run is verified.  Last, buyer, reseller, notary and their environment   *)
(* implement the exchange: every step of theirs pays, answers, accepts,    *)
(* rejects or fails one purchase, or does nothing the exchange can see.    *)
(***************************************************************************)
EXTENDS ProvablyProofs

\* The headers carry what was put into them.
LEMMA HeaderRoundTrip ==
    ASSUME NEW v
    PROVE  FromHeader(ToHeader(v)) = Some(v)
BY DEF FromHeader, ToHeader, Base64, Json

\* The buyer decodes the materials header into what the reseller encoded.
LEMMA MaterialsRoundTrip ==
    ASSUME NEW output
    PROVE  MaterialsFromHeader(MaterialsToHeader([id \in {"leg0"} |-> output]))
                = Some([id \in {"leg0"} |-> output])
<1> DEFINE m == [id \in {"leg0"} |-> output]
           e == [id \in {"leg0"} |-> Base64(output)]
<1>1. MaterialsToHeader(m) = ToHeader(e)
  BY DEF MaterialsToHeader
<1>2. FromHeader(ToHeader(e)) = Some(e) /\ Some(e) # None /\ Some(e)[1] = e
  BY HeaderRoundTrip DEF Some, None
<1>3. \A id \in DOMAIN e : e[id][1] = "base64url"
  BY DEF Base64
<1>4. [id \in DOMAIN e |-> e[id][2]] = m
  BY DEF Base64
<1> HIDE DEF m, e
<1>5. MaterialsFromHeader(ToHeader(e)) = Some([id \in DOMAIN e |-> e[id][2]])
  BY <1>2, <1>3 DEF MaterialsFromHeader
<1> QED
  BY <1>1, <1>4, <1>5 DEF m

-----------------------------------------------------------------------------
\* The receipt has two nodes.
LegNode(leg) == [id |-> "leg0", inputs |-> << >>,
                 output_digest |-> leg.claim.response_digest, proof |-> Leg(leg)]
VerdictNode(verdict) == [id |-> "verdict", inputs |-> <<"leg0">>,
                         output_digest |-> Sha256(verdict),
                         proof |-> Recompute(VERDICT_FN_ID)]

\* What verify() reads of the reseller's receipt: a leg, a verdict over it, a payment.
LEMMA HarnessNodes ==
    ASSUME NEW leg, NEW verdict, NEW ref, NEW r, r = HarnessReceipt(leg, verdict, ref)
    PROVE  /\ r.manifest_id = MANIFEST_ID /\ r.output_node = "verdict"
           /\ r.payment_reference = ref
           /\ DOMAIN r.nodes = {1, 2}
           /\ r.nodes[1] = LegNode(leg) /\ r.nodes[2] = VerdictNode(verdict)
           /\ \A id : HasNode(r, id) <=> id \in {"leg0", "verdict"}
           /\ NodeOf(r, "leg0") = LegNode(leg) /\ NodeOf(r, "verdict") = VerdictNode(verdict)
<1>1. /\ r.manifest_id = MANIFEST_ID /\ r.output_node = "verdict"
      /\ r.payment_reference = ref
      /\ r.nodes = <<LegNode(leg), VerdictNode(verdict)>>
  BY DEF HarnessReceipt, LegNode, VerdictNode
<1>2. /\ DOMAIN r.nodes = {1, 2}
      /\ r.nodes[1] = LegNode(leg) /\ r.nodes[2] = VerdictNode(verdict)
  BY <1>1
<1>3. LegNode(leg).id = "leg0" /\ VerdictNode(verdict).id = "verdict"
  BY DEF LegNode, VerdictNode
<1>4. \A id : HasNode(r, id) <=> id \in {"leg0", "verdict"}
  BY <1>2, <1>3 DEF HasNode
<1>5. NodeOf(r, "leg0") = r.nodes[1]
  <2> DEFINE Last(i) == /\ r.nodes[i].id = "leg0"
                        /\ \A j \in DOMAIN r.nodes : r.nodes[j].id = "leg0" => j <= i
  <2>1. \A i \in DOMAIN r.nodes : Last(i) <=> i = 1
    BY <1>2, <1>3
  <2>2. (CHOOSE i \in DOMAIN r.nodes : Last(i)) = 1
    BY <1>2, <2>1
  <2> QED
    BY <2>2 DEF NodeOf
<1>6. NodeOf(r, "verdict") = r.nodes[2]
  <2> DEFINE Last(i) == /\ r.nodes[i].id = "verdict"
                        /\ \A j \in DOMAIN r.nodes : r.nodes[j].id = "verdict" => j <= i
  <2>1. \A i \in DOMAIN r.nodes : Last(i) <=> i = 2
    BY <1>2, <1>3
  <2>2. (CHOOSE i \in DOMAIN r.nodes : Last(i)) = 2
    BY <1>2, <2>1
  <2> QED
    BY <2>2 DEF NodeOf
<1> QED
  BY <1>1, <1>2, <1>4, <1>5, <1>6

\* Its one leg is an ancestor of what is sold.
LEMMA HarnessLegs ==
    ASSUME NEW leg, NEW verdict, NEW ref, NEW r, r = HarnessReceipt(leg, verdict, ref)
    PROVE  LegsOf(r, Ancestors(r)) = {leg}
<1>1. /\ IsLeg(LegNode(leg)) /\ LegNode(leg).proof.att = leg
      /\ ~IsLeg(VerdictNode(verdict)) /\ VerdictNode(verdict).inputs = <<"leg0">>
      /\ Range(<<"leg0">>) = {"leg0"}
  BY DEF LegNode, VerdictNode, IsLeg, Leg, Recompute, Range
<1>2. "leg0" \in Mentioned(r)
  BY <1>1, HarnessNodes DEF Mentioned
<1>3. ASSUME NEW S, Closed(r, S) PROVE "leg0" \in S
  BY <1>1, <1>3, HarnessNodes DEF Closed, Expands
<1>4. "leg0" \in Ancestors(r)
  BY <1>2, <1>3 DEF Ancestors
<1>5. \A x : HasNode(r, x) /\ IsLeg(NodeOf(r, x)) <=> x = "leg0"
  BY <1>1, HarnessNodes
<1> QED
  BY <1>1, <1>4, <1>5, HarnessNodes DEF LegsOf

\* The buyer re-runs the verdict over a trusted answer.
LEMMA HarnessRecomputed ==
    ASSUME NEW leg, NEW ref, NEW output, NEW verdict,
           verdict = StartsWithYes(output),
           NEW r, r = HarnessReceipt(leg, verdict, ref),
           NEW m, m = [id \in {"leg0"} |-> output],
           Trusted(r, m) = {"leg0"}
    PROVE  Recomputed(r, m) = <<[id |-> "verdict", digest |-> Sha256(verdict)]>>
<1> DEFINE out(node) == Rerun(node.proof.fn_id,
                              [k \in DOMAIN node.inputs |-> m[node.inputs[k]]])
           rerun == {k \in DOMAIN r.nodes :
                        LET node == r.nodes[k]
                        IN  /\ ~IsLeg(node)
                            /\ Range(node.inputs) \subseteq Trusted(r, m)
                            /\ out(node) # None}
           nth(j) == r.nodes[CHOOSE k \in rerun : Cardinality({i \in rerun : i <= k}) = j]
<1>1. /\ IsLeg(LegNode(leg)) /\ ~IsLeg(VerdictNode(verdict))
      /\ VerdictNode(verdict).inputs = <<"leg0">> /\ Range(<<"leg0">>) = {"leg0"}
      /\ VerdictNode(verdict).proof.fn_id = VERDICT_FN_ID
      /\ VerdictNode(verdict).id = "verdict"
  BY DEF LegNode, VerdictNode, IsLeg, Leg, Recompute, Range
<1>2. out(VerdictNode(verdict)) = Some(verdict)
  <2> DEFINE inputs == [k \in DOMAIN <<"leg0">> |-> m[<<"leg0">>[k]]]
  <2>1. inputs # << >> /\ inputs[1] = output
    OBVIOUS
  <2> HIDE DEF inputs
  <2>2. Rerun(VERDICT_FN_ID, inputs) = Some(verdict)
    BY <2>1 DEF Rerun
  <2> QED
    BY <1>1, <2>2 DEF inputs
<1>3. rerun = {2}
  <2>1. Some(verdict) # None
    BY DEF Some, None
  <2>2. /\ DOMAIN r.nodes = {1, 2} /\ r.nodes[1] = LegNode(leg)
        /\ r.nodes[2] = VerdictNode(verdict)
    BY HarnessNodes
  <2>3. 1 \notin rerun
    BY <1>1, <2>2
  <2>4. 2 \in rerun
    <3>1. Range(r.nodes[2].inputs) \subseteq Trusted(r, m)
      BY <1>1, <2>2
    <3>2. out(r.nodes[2]) # None
      BY <1>2, <2>1, <2>2
    <3> HIDE DEF out
    <3> QED
      BY <1>1, <2>2, <3>1, <3>2
  <2>5. rerun \subseteq {1, 2}
    BY <2>2
  <2> HIDE DEF rerun
  <2> QED
    BY <2>3, <2>4, <2>5
<1>4. Cardinality(rerun) = 1
  BY <1>3, FS_Singleton
<1> HIDE DEF rerun
<1>5. nth(1) = VerdictNode(verdict)
  <2>1. {i \in rerun : i <= 2} = {2}
    BY <1>3
  <2>2. Cardinality({2}) = 1
    BY FS_Singleton
  <2>3. (CHOOSE k \in rerun : Cardinality({i \in rerun : i <= k}) = 1) = 2
    BY <1>3, <2>1, <2>2
  <2>4. r.nodes[2] = VerdictNode(verdict)
    BY HarnessNodes
  <2> QED
    BY <2>3, <2>4
<1> HIDE DEF nth, out
<1>6. [j \in 1 .. 1 |-> [id |-> nth(j).id, digest |-> Sha256(out(nth(j))[1])]]
        = <<[id |-> "verdict", digest |-> Sha256(verdict)]>>
  <2>1. Some(verdict)[1] = verdict
    BY DEF Some
  <2> QED
    BY <1>1, <1>2, <1>5, <2>1
<1>7. Recomputed(r, m) = [j \in 1 .. Cardinality(rerun) |->
                            [id |-> nth(j).id, digest |-> Sha256(out(nth(j))[1])]]
  BY DEF Recomputed, rerun, nth, out
<1> QED
  BY <1>4, <1>6, <1>7
-----------------------------------------------------------------------------
\* The one material is the answer the leg commits to, or it is not trusted.
LEMMA HarnessTrusted ==
    ASSUME NEW leg, NEW ref, NEW output, NEW verdict,
           NEW r, r = HarnessReceipt(leg, verdict, ref),
           NEW m, m = [id \in {"leg0"} |-> output]
    PROVE  /\ DOMAIN m = {"leg0"}
           /\ Trusted(r, m) = {"leg0"} <=> leg.claim.response_digest = Sha256(output)
<1>1. NodeOf(r, "leg0").output_digest = leg.claim.response_digest /\ HasNode(r, "leg0")
  <2>1. NodeOf(r, "leg0") = LegNode(leg) /\ HasNode(r, "leg0")
    BY HarnessNodes
  <2> QED
    BY <2>1 DEF LegNode
<1>2. DOMAIN m = {"leg0"} /\ m["leg0"] = output
  OBVIOUS
<1>3. MaterialMatches(r, m, "leg0") <=> leg.claim.response_digest = Sha256(output)
  BY <1>1, <1>2 DEF MaterialMatches
<1> QED
  BY <1>2, <1>3 DEF Trusted

\* What passing every check says of the leg.
LEMMA AcceptedMeans ==
    ASSUME NEW leg, NEW ref, NEW output, NEW verdict,
           NEW r, r = HarnessReceipt(leg, verdict, ref),
           NEW m, m = [id \in {"leg0"} |-> output],
           NEW expect, Accepts(r, m, expect)
    PROVE  /\ leg.claim.response_digest = Sha256(output)
           /\ leg.claim.host \in expect.manifest.hosts
           /\ expect.notary_pubkey # None => NotaryPubkey(leg) = expect.notary_pubkey[1]
<1>1. leg.claim.response_digest = Sha256(output)
  BY HarnessTrusted DEF Accepts
<1>2. NodeHolds(r, expect, LegNode(leg))
  <2>1. 1 \in DOMAIN r.nodes /\ r.nodes[1] = LegNode(leg)
    BY HarnessNodes
  <2> QED
    BY <2>1 DEF Accepts, GatePasses
<1>3. IsLeg(LegNode(leg)) /\ LegNode(leg).proof.att = leg
  BY DEF LegNode, IsLeg, Leg
<1>4. LegHolds(expect, LegNode(leg))
  BY <1>2, <1>3 DEF NodeHolds
<1> QED
  BY <1>1, <1>3, <1>4 DEF LegHolds

\* And what suffices to pass them.
LEMMA GenuineIsAccepted ==
    ASSUME NEW leg, NEW output, NEW verdict, verdict = StartsWithYes(output),
           NEW payment, NEW r, r = HarnessReceipt(leg, verdict, Some(payment)),
           NEW m, m = [id \in {"leg0"} |-> output],
           NEW expect,
           expect.manifest.id = MANIFEST_ID,
           leg.claim.host \in expect.manifest.hosts,
           expect.notary_pubkey # None => NotaryPubkey(leg) = expect.notary_pubkey[1],
           expect.served_output_digest = Sha256(verdict),
           expect.payment_reference = payment,
           expect.served_request_digest = Some(leg.claim.request_digest),
           expect.recomputed = Recomputed(r, m),
           leg.claim.response_digest = Sha256(output),
           VerifyProof(leg) = "Ok"
    PROVE  Accepts(r, m, expect)
<1>1. Trusted(r, m) = {"leg0"} /\ DOMAIN m = {"leg0"}
  BY HarnessTrusted
<1>2. /\ r.manifest_id = MANIFEST_ID /\ r.output_node = "verdict"
      /\ r.payment_reference = Some(payment)
      /\ DOMAIN r.nodes = {1, 2}
      /\ r.nodes[1] = LegNode(leg) /\ r.nodes[2] = VerdictNode(verdict)
      /\ HasNode(r, "leg0") /\ HasNode(r, "verdict")
      /\ NodeOf(r, "verdict") = VerdictNode(verdict)
  BY HarnessNodes
<1>3. /\ IsLeg(LegNode(leg)) /\ LegNode(leg).proof.att = leg
      /\ LegNode(leg).inputs = << >>
      /\ LegNode(leg).output_digest = leg.claim.response_digest
      /\ ~IsLeg(VerdictNode(verdict)) /\ VerdictNode(verdict).inputs = <<"leg0">>
      /\ VerdictNode(verdict).id = "verdict"
      /\ VerdictNode(verdict).output_digest = Sha256(verdict)
  BY DEF LegNode, VerdictNode, IsLeg, Leg, Recompute
<1>4. BindingsHold(r, expect)
  BY <1>2, <1>3 DEF BindingsHold
<1>5. RequestBound(r, expect)
  <2>1. LegsOf(r, Ancestors(r)) = {leg}
    BY HarnessLegs
  <2>2. expect.served_request_digest[1] = leg.claim.request_digest
    BY DEF Some
  <2> QED
    BY <2>1, <2>2 DEF RequestBound, Answers
<1>6. NodeHolds(r, expect, LegNode(leg))
  BY <1>3 DEF NodeHolds, LegHolds
<1>7. RecomputedDigest(expect, "verdict") = Some(Sha256(verdict))
  <2> DEFINE d == expect.recomputed
             hits == {i \in DOMAIN d : d[i].id = "verdict"}
  <2>1. d = <<[id |-> "verdict", digest |-> Sha256(verdict)]>>
    BY <1>1, HarnessRecomputed
  <2>2. hits = {1} /\ d[1].digest = Sha256(verdict)
    BY <2>1
  <2>3. (CHOOSE i \in hits : \A j \in hits : i <= j) = 1
    BY <2>2
  <2> HIDE DEF d
  <2> QED
    BY <2>2, <2>3 DEF RecomputedDigest, d
<1>8. NodeHolds(r, expect, VerdictNode(verdict))
  BY <1>2, <1>3, <1>7 DEF NodeHolds
<1> QED
  BY <1>1, <1>2, <1>4, <1>5, <1>6, <1>8 DEF Accepts, GatePasses
-----------------------------------------------------------------------------
\* What a buyer with a verdict was sold, and what it checked it against.
LEMMA SoldAndChecked ==
    ASSUME NEW p \in Purchases, Inv, buyer[p] \in {"verified", "rejected"}
    PROVE  /\ session[p].pc = "signed" /\ pinned[p] = Some(pinned[p][1])
           /\ \E output \in {tls[p].reply[1].body, Substitute(tls[p].reply[1].body)} :
                \E r \in {HarnessReceipt(session[p].signed[1], StartsWithYes(output),
                                         Some(Reference(p)))},
                   m \in {[id \in {"leg0"} |-> output]} :
                    /\ FromHeader(http[p].receipt) = Some(r)
                    /\ MaterialsFromHeader(http[p].materials) = Some(m)
                    /\ http[p].body = StartsWithYes(output)
                    /\ http[p].payment = Some(Reference(p))
                    /\ buyer[p] = "verified" <=>
                            Accepts(r, m, Expectation(p, http[p], r, m))
<1>1. PurchaseInv(p)
  BY DEF Inv
<1>2. /\ http[p].at = "buyer" /\ http[p].status = 200 /\ http[p].payment # None
      /\ buyer[p] = "verified" <=>
            Accepts(Receipt200(p), Materials200(p),
                    Expectation(p, http[p], Receipt200(p), Materials200(p)))
  BY <1>1 DEF PurchaseInv, VerdictInv
<1>3. session[p].pc = "signed" /\ http[p].payment = Some(Reference(p))
  BY <1>1, <1>2 DEF PurchaseInv, SoldInv
<1>4. PICK output \in {tls[p].reply[1].body, Substitute(tls[p].reply[1].body)} :
            SoldWith(p, output)
  BY <1>1, <1>2 DEF PurchaseInv, SoldInv
<1> DEFINE r == HarnessReceipt(session[p].signed[1], StartsWithYes(output),
                               Some(Reference(p)))
           m == [id \in {"leg0"} |-> output]
<1>5. /\ http[p].receipt = ToHeader(r) /\ http[p].materials = MaterialsToHeader(m)
      /\ http[p].body = StartsWithYes(output)
  BY <1>4 DEF SoldWith, Sold
<1>6. /\ FromHeader(http[p].receipt) = Some(r)
      /\ MaterialsFromHeader(http[p].materials) = Some(m)
  BY <1>5, HeaderRoundTrip, MaterialsRoundTrip
<1> HIDE DEF r, m
<1>7. Receipt200(p) = r /\ Materials200(p) = m
  BY <1>6 DEF Receipt200, Materials200, Some
<1>8. pinned[p] = Some(pinned[p][1])
  BY <1>1 DEF PurchaseInv, BuyerInv
<1> QED
  BY <1>2, <1>3, <1>5, <1>6, <1>7, <1>8 DEF r, m

\* decoded_body() of a response after an interim head is no JSON body.
LEMMA InterimIsNoBody ==
    ASSUME NEW reply \in Replies, NEW output \in {reply.body, Substitute(reply.body)},
           Sha256(DecodedResponse(View(reply, {}))) = Sha256(output)
    PROVE  ~reply.interim /\ output = reply.body
<1> DEFINE view == View(reply, {})
<1>1. reply.body \in Bodies /\ reply.interim \in BOOLEAN
  BY RepliesAssumption
<1>2. DOMAIN output = {"json", "model", "text"}
  BY <1>1 DEF Bodies, Substitute, Body
<1>3. DecodedResponse(view) = output
  BY DEF Sha256
<1>4. view.reply = reply /\ view.hidden = {}
  BY DEF View
<1> HIDE DEF view
<1>5. CASE reply.interim
  <2>1. output = <<"after the interim head", view>>
    BY <1>3, <1>4, <1>5 DEF DecodedResponse
  <2>2. ASSUME NEW x, NEW y PROVE DOMAIN <<x, y>> = {1, 2}
    OBVIOUS
  <2>3. DOMAIN output = {1, 2}
    BY <2>1, <2>2, Zenon
  <2>4. "json" \in {1, 2} /\ "model" \in {1, 2} /\ "text" \in {1, 2}
    BY <1>2, <2>3, Zenon
  <2> QED
    BY <2>4, Zenon
<1> QED
  BY <1>1, <1>3, <1>4, <1>5 DEF DecodedResponse, ShownBody

\* Shown whole, a final response is read as hyper reads it.
LEMMA WholeIsRead ==
    ASSUME NEW reply, ~reply.interim
    PROVE  /\ DecodedResponse(View(reply, {})) = reply.body
           /\ StatusCode(View(reply, {})) = reply.status
<1> DEFINE view == View(reply, {})
<1>1. view.reply = reply /\ view.hidden = {}
  BY DEF View
<1> HIDE DEF view
<1>2. DecodedResponse(view) = reply.body /\ StatusCode(view) = reply.status
  BY <1>1 DEF DecodedResponse, ShownBody, StatusCode
<1> QED
  BY <1>2 DEF view
-----------------------------------------------------------------------------
\* The verdict, at the moment it stands.
LEMMA VerifiedNow == Inv => VerifiedIsGenuine
<1> SUFFICES ASSUME Inv, NEW p \in Purchases, buyer[p] = "verified"
             PROVE  LET receipt == FromHeader(http[p].receipt)[1]
                        leg     == NodeOf(receipt, "leg0").proof.att
                        reply   == tls[p].reply[1]
                    IN  /\ ledger[p] # None /\ ledger[p][1] <= leg.claim.timestamp
                        /\ session[p].signed = Some(leg)
                        /\ pinned[p] = Some(NotaryPubkey(leg))
                        /\ tls[p].host = ExpectedUpstream(env)
                        /\ tls[p].host \in env.certificate
                        /\ DecodedRequest(tls[p].sent[1]) = RequestBody(p)
                        /\ leg.claim.response_status = reply.status
                        /\ MaterialsFromHeader(http[p].materials)[1]["leg0"] = reply.body
                        /\ http[p].body = StartsWithYes(reply.body)
                        /\ receipt.payment_reference = Some(Reference(p))
  BY DEF VerifiedIsGenuine
<1> DEFINE leg == session[p].signed[1]
           reply == tls[p].reply[1]
<1>1. session[p].pc = "signed" /\ pinned[p] = Some(pinned[p][1])
  BY SoldAndChecked
<1>2. PICK output \in {reply.body, Substitute(reply.body)} :
        \E r \in {HarnessReceipt(leg, StartsWithYes(output), Some(Reference(p)))},
           m \in {[id \in {"leg0"} |-> output]} :
              /\ FromHeader(http[p].receipt) = Some(r)
              /\ MaterialsFromHeader(http[p].materials) = Some(m)
              /\ http[p].body = StartsWithYes(output)
              /\ Accepts(r, m, Expectation(p, http[p], r, m))
  BY SoldAndChecked
<1> DEFINE r == HarnessReceipt(leg, StartsWithYes(output), Some(Reference(p)))
           m == [id \in {"leg0"} |-> output]
           expect == Expectation(p, http[p], r, m)
<1>3. /\ FromHeader(http[p].receipt)[1] = r
      /\ MaterialsFromHeader(http[p].materials)[1] = m
      /\ http[p].body = StartsWithYes(output) /\ Accepts(r, m, expect)
  BY <1>2 DEF Some
<1>4. /\ expect.manifest.hosts = {ExpectedUpstream(env)}
      /\ expect.notary_pubkey = pinned[p]
  BY DEF Expectation, Manifest, PinnedKey
<1>5. NodeOf(r, "leg0").proof.att = leg /\ r.payment_reference = Some(Reference(p))
  <2>1. NodeOf(r, "leg0") = LegNode(leg) /\ r.payment_reference = Some(Reference(p))
    BY HarnessNodes
  <2> QED
    BY <2>1 DEF LegNode, Leg
<1>6. m["leg0"] = output
  OBVIOUS
<1>7. /\ leg.claim.response_digest = Sha256(output)
      /\ leg.claim.host \in expect.manifest.hosts
      /\ expect.notary_pubkey # None => NotaryPubkey(leg) = expect.notary_pubkey[1]
  <2> HIDE DEF expect, leg
  <2> QED
    BY <1>3, AcceptedMeans
<1> HIDE DEF r, m, expect, leg, reply
<1>8. /\ leg.claim.host = tls[p].host /\ tls[p].host \in env.certificate
      /\ leg.claim.response_digest = Sha256(DecodedResponse(View(reply, {})))
      /\ leg.claim.response_status = StatusCode(View(reply, {}))
      /\ leg.claim.timestamp = tls[p].opened
      /\ DecodedRequest(tls[p].sent[1]) = RequestBody(p)
      /\ ledger[p] # None /\ ledger[p][1] <= tls[p].opened
      /\ session[p].signed = Some(leg) /\ reply \in Replies
  BY <1>1, SignedLeg DEF leg, reply, IsRequest
<1>9. ~reply.interim /\ output = reply.body
  BY <1>7, <1>8, InterimIsNoBody
<1>10. leg.claim.response_status = reply.status
  BY <1>8, <1>9, WholeIsRead
<1>11. pinned[p] = Some(NotaryPubkey(leg))
  <2>1. pinned[p] # None
    BY <1>1 DEF Some, None
  <2> QED
    BY <1>1, <1>4, <1>7, <2>1
<1>12. tls[p].host = ExpectedUpstream(env)
  BY <1>4, <1>7, <1>8
<1> QED
  BY <1>3, <1>5, <1>6, <1>8, <1>9, <1>10, <1>11, <1>12 DEF reply

\* A buyer that prints VERIFIED paid first, and got the transform of what the
\* upstream it expects answered to its own request, as the notary it pinned
\* signed it: for any number of concurrent purchases, whatever the parties are
\* configured with and however often they are restarted with something else.
THEOREM VerifiedSafe == Spec => []VerifiedIsGenuine
BY VerifiedNow, AlwaysInv, PTL

\* Where nothing else is wrong, the notary was not shown the buyer's request.
RejectedUnread ==
    \A p \in Purchases :
        /\ buyer[p] = "rejected"
        /\ MaterialsFromHeader(http[p].materials)[1]["leg0"] = tls[p].reply[1].body
        /\ tls[p].host = ExpectedUpstream(env)
        /\ pinned[p] = Some(NotaryPubkey(session[p].signed[1]))
        /\ ~tls[p].reply[1].interim
        => DecodedRequest(session[p].sent[1]) # RequestBody(p)

\* The check of what was sold does not fail where it was.
LEMMA RejectedWhy == Inv => RejectedUnread
<1> SUFFICES ASSUME Inv, NEW p \in Purchases, buyer[p] = "rejected",
                    MaterialsFromHeader(http[p].materials)[1]["leg0"]
                          = tls[p].reply[1].body,
                    tls[p].host = ExpectedUpstream(env),
                    pinned[p] = Some(NotaryPubkey(session[p].signed[1])),
                    ~tls[p].reply[1].interim,
                    DecodedRequest(session[p].sent[1]) = RequestBody(p)
             PROVE  FALSE
  BY DEF RejectedUnread
<1> DEFINE leg == session[p].signed[1]
           reply == tls[p].reply[1]
<1>1. session[p].pc = "signed"
  BY SoldAndChecked
<1>2. PICK output \in {reply.body, Substitute(reply.body)} :
        \E r \in {HarnessReceipt(leg, StartsWithYes(output), Some(Reference(p)))},
           m \in {[id \in {"leg0"} |-> output]} :
              /\ MaterialsFromHeader(http[p].materials) = Some(m)
              /\ http[p].body = StartsWithYes(output)
              /\ http[p].payment = Some(Reference(p))
              /\ ~Accepts(r, m, Expectation(p, http[p], r, m))
  BY SoldAndChecked
<1> DEFINE verdict == StartsWithYes(output)
           r == HarnessReceipt(leg, verdict, Some(Reference(p)))
           m == [id \in {"leg0"} |-> output]
           expect == Expectation(p, http[p], r, m)
<1>3. /\ MaterialsFromHeader(http[p].materials)[1] = m
      /\ http[p].body = verdict /\ http[p].payment[1] = Reference(p)
      /\ ~Accepts(r, m, expect)
  BY <1>2 DEF Some
<1>4. output = reply.body
  BY <1>3
<1>5. /\ leg.claim.host = tls[p].host
      /\ leg.claim.request_digest = Sha256(RequestBody(p))
      /\ leg.claim.response_digest = Sha256(DecodedResponse(View(reply, {})))
      /\ VerifyProof(leg) = "Ok"
  BY <1>1, SignedLeg
<1>6. leg.claim.response_digest = Sha256(output)
  BY <1>4, <1>5, WholeIsRead
<1>7. /\ expect.manifest.id = MANIFEST_ID
      /\ expect.manifest.hosts = {ExpectedUpstream(env)}
      /\ expect.notary_pubkey = pinned[p]
      /\ expect.served_output_digest = Sha256(http[p].body)
      /\ expect.payment_reference = http[p].payment[1]
      /\ expect.served_request_digest = Some(Sha256(RequestBody(p)))
      /\ expect.recomputed = Recomputed(r, m)
  BY DEF Expectation, Manifest, PinnedKey
<1>8. expect.notary_pubkey[1] = NotaryPubkey(leg)
  BY <1>7 DEF Some
<1> HIDE DEF expect, leg
<1>9. Accepts(r, m, expect)
  <2>1. leg.claim.host \in expect.manifest.hosts
    BY <1>5, <1>7
  <2> QED
    BY <1>3, <1>5, <1>6, <1>7, <1>8, <2>1, GenuineIsAccepted
<1> QED
  BY <1>3, <1>9

\* Otherwise some byte of the request body the notary was shown is blank.
LEMMA BlankInBody ==
    ASSUME NEW p, NEW sent, NEW shown, IsRequest(p, sent), IsShown(sent, shown),
           DecodedRequest(shown) # RequestBody(p)
    PROVE  "NUL" \in Range(DecodedRequest(shown))
<1> DEFINE n == SplitAt(sent)
           e == Drop(shown, n)
<1>1. PICK i \in n + 1 .. Len(sent) : shown[i] # sent[i]
  BY IntactIsRead
<1>2. /\ sent \in Seq(Token) /\ shown \in Seq(Token) /\ Len(shown) = Len(sent)
      /\ Len(sent) \in Nat /\ n \in 0 .. Len(sent) /\ SplitAt(shown) = n
      /\ DOMAIN sent = 1 .. Len(sent)
  BY LenProperties DEF IsRequest, IsPost, IsShown, Text
<1>3. DecodedRequest(shown) = e
  BY <1>2 DEF DecodedRequest
<1> HIDE DEF n
<1>4. shown[i] = "NUL"
  <2>1. i \in DOMAIN sent
    BY <1>1, <1>2
  <2> QED
    BY <1>1, <2>1 DEF IsShown
<1>5. /\ e \in Seq(Token) /\ Len(e) = Len(sent) - n
      /\ \A k \in 1 .. Len(sent) - n : e[k] = shown[n + k]
  <2>1. n \in 0 .. Len(shown)
    BY <1>2
  <2>2. /\ e \in Seq(Token) /\ Len(e) = Len(shown) - n
        /\ \A k \in 1 .. Len(shown) - n : e[k] = shown[n + k]
    BY <1>2, <2>1, DropProperties
  <2> HIDE DEF e
  <2> QED
    BY <1>2, <2>2
<1> HIDE DEF e
<1> DEFINE k == i - n
<1>6. k \in 1 .. Len(sent) - n /\ n + k = i
  BY <1>1, <1>2
<1>7. DOMAIN e = 1 .. Len(sent) - n
  BY <1>5, LenProperties
<1> HIDE DEF k
<1>8. k \in DOMAIN e /\ e[k] = "NUL"
  BY <1>4, <1>5, <1>6, <1>7
<1> QED
  BY <1>3, <1>8 DEF Range

\* The check of what was sold fails only for cause.
LEMMA RejectsNow == Inv => RejectsForCause
<1> SUFFICES ASSUME Inv, NEW p \in Purchases, buyer[p] = "rejected",
                    MaterialsFromHeader(http[p].materials)[1]["leg0"]
                          = tls[p].reply[1].body,
                    tls[p].host = ExpectedUpstream(env),
                    pinned[p] = Some(NotaryPubkey(session[p].signed[1])),
                    ~tls[p].reply[1].interim
             PROVE  "NUL" \in Range(DecodedRequest(session[p].sent[1]))
  BY DEF RejectsForCause
<1>1. DecodedRequest(session[p].sent[1]) # RequestBody(p)
  BY RejectedWhy DEF RejectedUnread
<1>2. session[p].pc = "signed"
  BY SoldAndChecked
<1>3. IsRequest(p, tls[p].sent[1]) /\ IsShown(tls[p].sent[1], session[p].sent[1])
  BY <1>2, SignedLeg
<1> QED
  BY <1>1, <1>3, BlankInBody

\* A buyer rejects only for cause.  Where the shipped answer is the upstream's,
\* no interim head came before it, the parties agree on the upstream and the
\* notary's key and no byte of the request body was blanked as the api key, every
\* check of the buyer passes: the receipt the reseller makes satisfies the gate
\* whatever the answer.
THEOREM RejectsSafe == Spec => []RejectsForCause
BY RejectsNow, AlwaysInv, PTL
-----------------------------------------------------------------------------
(***************************************************************************)
(* An honest run passes every check: no early return of the three          *)
(* processes is taken unless something outside the code fails.             *)
(***************************************************************************)

\* A purchase in a deployment as documented that nothing has failed so far.
Unfailed(p) == p \notin faults /\ exits = 0 /\ Documented(env)

NotaryKey == PublicKeyHex(SeededNotary(env.notary))

\* Its buyer gets a challenge and then, with the payment's receipt, the
\* upstream's own answer, and has pinned the key of the notary that signs.
BuyerOnTrack(p) ==
    /\ buyer[p] \notin {"rejected", "declined", "crashed"}
    /\ http[p].at # "closed"
    /\ http[p].at = "buyer" /\ buyer[p] = "asked" =>
            http[p].status = 402 /\ http[p].challenge
    /\ http[p].at = "buyer" /\ buyer[p] # "asked" =>
            /\ http[p].status = 200 /\ http[p].payment # None
            /\ http[p].materials =
                    MaterialsToHeader([id \in {"leg0"} |-> tls[p].reply[1].body])
    /\ buyer[p] \notin {"start", "funded"} => pinned[p] = Some(NotaryKey)

\* Every byte of the request body is shown.
IntactBody(sent, shown) == \A i \in SplitAt(sent) + 1 .. Len(sent) : shown[i] = sent[i]

\* Its handler, session and connection wait for each other and nothing else, and
\* the notary is shown the buyer's request body.
ProverOnTrack(p) ==
    /\ link[p].stage # "broken" /\ session[p].pc # "failed" /\ tls[p].stage # "closed"
    /\ sale[p].pc = "committing" =>
            \/ link[p].stage = "commit" /\ tls[p].stage = "none"
            \/ link[p].stage = "proxying" /\ tls[p].stage = "open"
    /\ sale[p].pc = "requested" =>
            link[p].stage = "proxying" /\ tls[p].stage \in {"requested", "replied"}
    /\ tls[p].stage # "none" => tls[p].host = ExpectedUpstream(env)
    /\ tls[p].stage = "replied" => tls[p].reply[1].complete
    /\ link[p].stage = "disclosed" => IntactBody(tls[p].sent[1], link[p].sent)
    /\ session[p].pc \in {"accepted", "signed"} =>
            /\ session[p].host = Some(ExpectedUpstream(env))
            /\ IntactBody(tls[p].sent[1], session[p].sent[1])
    /\ session[p].pc = "signed" => NotaryPubkey(session[p].signed[1]) = NotaryKey
    /\ link[p].stage = "eof" => link[p].bytes # None

\* The invariant of an honest run, on top of the one that always holds.
OnTrack(p) == BuyerOnTrack(p) /\ ProverOnTrack(p)
-----------------------------------------------------------------------------

\* What a reseller that runs as documented runs with.
LEMMA DocumentedReseller ==
    ASSUME ProcessInv, Documented(env), app # None
    PROVE  /\ app[1] = App(ResellerVars(env)) /\ app[1].mode = "honest"
           /\ app[1].upstream_host = ExpectedUpstream(env)
           /\ ExpectedUpstream(env) \in env.certificate
           /\ app[1].api_key # None =>
                    app[1].api_key[1] # << >> /\ env.key_on_wire = None
           /\ Buildable(app[1])
           /\ app[1].notary_pubkey = PublicKeyHex(SeededNotary(ResellerVars(env)))
<1> DEFINE v == ResellerVars(env)
<1>1. app[1] = App(v)
  BY DEF ProcessInv, Some
<1>2. /\ v.RESELLER_MODE \in {None, Some("honest")}
      /\ v.UPSTREAM_HOST = Some(ExpectedUpstream(env))
      /\ ExpectedUpstream(env) \in env.certificate
      /\ IsHeaderValue(<<ExpectedUpstream(env)>>)
      /\ v.UPSTREAM_API_KEY # None =>
            /\ v.UPSTREAM_API_KEY[1] # << >> /\ IsHeaderValue(v.UPSTREAM_API_KEY[1])
            /\ env.key_on_wire = None
      /\ \A h \in Range(App(v).upstream_headers) : IsHeader(h)
  BY DEF Documented, Workable, Some
<1> HIDE DEF v
<1>3. /\ App(v).mode = "honest" /\ App(v).upstream_host = ExpectedUpstream(env)
      /\ App(v).api_key = v.UPSTREAM_API_KEY
      /\ App(v).notary_pubkey = PublicKeyHex(SeededNotary(v))
  BY <1>2 DEF App, None, Some
<1>4. Buildable(App(v))
  BY <1>2, <1>3 DEF Buildable
<1> QED
  BY <1>1, <1>2, <1>3, <1>4 DEF v

\* And a notary.
LEMMA DocumentedNotary ==
    ASSUME ProcessInv, Documented(env), cfg # None
    PROVE  /\ cfg[1].upstream_host = ExpectedUpstream(env)
           /\ PublicKeyHex(cfg[1].notary) = NotaryKey
<1>1. cfg[1] = Config(env.notary)
  BY DEF ProcessInv, Some
<1>2. env.notary.UPSTREAM_HOST = Some(ExpectedUpstream(env))
  BY DEF Documented, Workable
<1> QED
  BY <1>1, <1>2 DEF Config, NotaryKey, Some

\* A purchase that is unfailed after a step was so before, and nothing stopped.
LEMMA UnfailedBefore ==
    ASSUME NEW p \in Purchases, Inv, [Next]_vars, Unfailed(p)'
    PROVE  Unfailed(p) /\ UNCHANGED <<env, exits>> /\ ~ResellerStops /\ ~NotaryStops
<1>1. exits \in Nat
  BY BoundsAssumption DEF Inv, ProcessInv
<1>2. ~ResellerStops /\ ~NotaryStops
  BY <1>1 DEF ResellerStops, NotaryStops, Unfailed
<1>3. UNCHANGED <<env, exits>> /\ faults \subseteq faults'
  <2>1. CASE UNCHANGED vars
    BY <2>1 DEF vars, worldVars, processVars
  <2>2. ASSUME NEW q \in Purchases, Buying(q) PROVE UNCHANGED <<env, exits>> /\ faults \subseteq faults'
    BY <2>2 DEF Buying, BuyerStep, FundWallet, PinKey, Ask, Pay, Decline, Lose, Check200,
       Post, Fault, worldVars, processVars
  <2>3. ASSUME NEW q \in Purchases, Selling(q) PROVE UNCHANGED <<env, exits>> /\ faults \subseteq faults'
    BY <2>3 DEF Selling, ResellerStep, Challenge, Authorize, OpenSession, SendRequest,
       ReadResponse, Abandon, Cancel, Deliver, Fault, processVars
  <2>4. ASSUME NEW q \in Purchases, Notarizing(q) PROVE UNCHANGED <<env, exits>> /\ faults \subseteq faults'
    BY <2>4 DEF Notarizing, NotaryStep, AcceptCommit, AcceptDisclosure, SessionBreaks,
       SignClaim, Fault, processVars
  <2>5. ASSUME NEW q \in Purchases, Upstream(q) \/ Failing(q)
        PROVE  UNCHANGED <<env, exits>> /\ faults \subseteq faults'
    BY <2>5 DEF Upstream, UpstreamReply, UpstreamHangup, Failing, LinkFails, HttpFails,
       Fault, processVars
  <2>6. CASE Lifecycle
    BY <1>2, <2>6 DEF Lifecycle, Serve, Listen, Tick
  <2> QED
    BY <2>1, <2>2, <2>3, <2>4, <2>5, <2>6 DEF Next, AllEnded
<1>4. Documented(env)
  <2>1. Documented(env)' /\ UNCHANGED env
    BY <1>3 DEF Unfailed
  <2> QED
    BY <2>1
<1> QED
  BY <1>2, <1>3, <1>4 DEF Unfailed

\* What each part depends on.
LEMMA BuyerTrackFrame ==
    ASSUME NEW q, BuyerOnTrack(q),
           UNCHANGED <<env, http[q], tls[q], buyer[q], pinned[q]>>
    PROVE  BuyerOnTrack(q)'
BY DEF BuyerOnTrack, NotaryKey

\* A step elsewhere leaves a prover on track.
LEMMA ProverTrackFrame ==
    ASSUME NEW q, ProverOnTrack(q),
           UNCHANGED <<env, link[q], tls[q], session[q], sale[q]>>
    PROVE  ProverOnTrack(q)'
BY DEF ProverOnTrack, NotaryKey

\* The first occurrence of the api key is blanked, so no byte after the place of
\* the x-api-key header is.
LEMMA RedactionSparesBody ==
    ASSUME NEW sent \in Text, NEW key \in Text, KeyAt(sent, key) \in Places(sent, key),
           SplitAt(sent) \in 0 .. Len(sent)
    PROVE  IntactBody(sent, Redacted(sent, Locate(sent, key), Len(key)))
<1> DEFINE first == Locate(sent, key)
           n == SplitAt(sent)
<1>1. first \in Nat /\ first <= KeyAt(sent, key)
  BY PositionOf DEF Locate
<1>2. KeyAt(sent, key) = n - 3 - Len(key)
  BY DEF KeyAt
<1>3. DOMAIN sent = 1 .. Len(sent) /\ Len(sent) \in Nat /\ Len(key) \in Nat
  BY LenProperties DEF Text
<1> HIDE DEF first, n
<1>4. ASSUME NEW i \in n + 1 .. Len(sent)
      PROVE  i \in DOMAIN sent /\ i \notin first .. first + Len(key) - 1
  BY <1>1, <1>2, <1>3 DEF n
<1>5. \A i \in n + 1 .. Len(sent) : Redacted(sent, first, Len(key))[i] = sent[i]
  BY <1>4 DEF Redacted
<1> QED
  BY <1>5 DEF IntactBody, first, n

\* The buyer of an unfailed purchase is not refused, loses nothing and finds
\* nothing to reject.
LEMMA BuyingOnTrack ==
    ASSUME \A r \in Replies : ~r.interim,
           NEW p \in Purchases, Inv, Inv', Unfailed(p), Unfailed(p)', UNCHANGED env,
           OnTrack(p), Buying(p)
    PROVE  OnTrack(p)'
<1>1. /\ PurchaseInv(p) /\ SessionInv(p) /\ ProcessInv /\ PurchaseInv(p)'
      /\ UNCHANGED <<tls, session, link, sale>>
      /\ BuyerOnTrack(p) /\ ProverOnTrack(p)
  BY BuyerParts DEF Inv, NotaryInv, OnTrack
<1>2. ProverOnTrack(p)'
  BY <1>1, ProverTrackFrame
<1> SUFFICES BuyerOnTrack(p)'
  BY <1>2 DEF OnTrack
<1>3. ~Fault(p)
  BY DEF Fault, Unfailed
<1>4. UNCHANGED NotaryKey
  BY DEF NotaryKey
<1>5. CASE FundWallet(p)
  BY <1>1, <1>3, <1>5 DEF FundWallet, Goto, BuyerOnTrack, PurchaseInv, ProcessInv, BuyerInv,
     Idle
<1>6. CASE PinKey(p)
  <2>1. /\ buyer[p] = "funded" /\ buyer'[p] = "pinned" /\ UNCHANGED http
        /\ http[p].at = "idle"
    BY <1>1, <1>3, <1>6 DEF PinKey, Goto, ProcessInv, PurchaseInv, BuyerInv, Idle
  <2>2. pinned'[p] = Some(NotaryKey)
    <3> DEFINE key == env.buyer.NOTARY_PUBKEY
               theirs == PublicKeyHex(SeededNotary(ResellerVars(env)))
    <3>1. OrElse(key, theirs) = NotaryKey
      BY DEF Unfailed, Documented, NotaryKey
    <3>2. key # None => key = Some(key[1])
      <4>1. PICK e \in Envs : env.buyer = e.buyer
        BY <1>1 DEF ProcessInv
      <4> QED
        BY <4>1, ProcessesAssumption
    <3>3. CASE key # None
      <4>1. pinned'[p] = key
        BY <1>1, <1>3, <1>6, <3>3 DEF PinKey, ProcessInv
      <4> QED
        BY <3>1, <3>2, <3>3, <4>1 DEF OrElse
    <3>4. CASE key = None
      <4>1. pinned'[p] = Some(app[1].notary_pubkey) /\ app # None
        BY <1>1, <1>3, <1>6, <3>4 DEF PinKey, ProcessInv
      <4>2. app[1].notary_pubkey = theirs
        BY <1>1, <4>1, DocumentedReseller DEF Unfailed
      <4> QED
        BY <3>1, <3>4, <4>1, <4>2 DEF OrElse
    <3> QED
      BY <3>3, <3>4
  <2> QED
    BY <1>1, <1>4, <2>1, <2>2 DEF BuyerOnTrack
<1>7. CASE Ask(p)
  <2>1. /\ buyer[p] = "pinned" /\ buyer'[p] = "asked" /\ UNCHANGED pinned
        /\ http'[p].at = "reseller"
    BY <1>1, <1>3, <1>7 DEF Ask, Post, Asked, Goto, ProcessInv
  <2> QED
    BY <1>1, <1>4, <2>1 DEF BuyerOnTrack
<1>8. CASE Pay(p)
  <2>1. /\ buyer[p] = "asked" /\ buyer'[p] = "paid" /\ UNCHANGED pinned
        /\ http'[p].at = "reseller"
    BY <1>1, <1>3, <1>8 DEF Pay, Challenged, Post, Asked, Goto, ProcessInv
  <2> QED
    BY <1>1, <1>4, <2>1 DEF BuyerOnTrack
<1>9. CASE Decline(p) \/ Lose(p)
  <2>1. /\ buyer[p] \in {"asked", "paid"}
        /\ http[p] = Hangup \/ (http[p].at = "buyer" /\ http[p].status # 200 /\ ~Challenged(p))
    BY <1>9 DEF Decline, Lose
  <2> QED
    BY <1>1, <2>1 DEF BuyerOnTrack, Challenged, Hangup
<1>10. CASE Check200(p)
  <2>1. /\ buyer[p] = "paid" /\ http[p].at = "buyer" /\ http[p].status = 200
        /\ UNCHANGED <<http, pinned>> /\ buyer'[p] \in {"verified", "rejected", "crashed"}
    BY <1>1, <1>10 DEF Check200, Goto, ProcessInv, worldVars
  <2>2. /\ http[p].payment # None
        /\ http[p].materials = MaterialsToHeader([id \in {"leg0"} |-> tls[p].reply[1].body])
        /\ pinned[p] = Some(NotaryKey)
    BY <1>1, <2>1 DEF BuyerOnTrack
  <2>3. MaterialsFromHeader(http[p].materials)
            = Some([id \in {"leg0"} |-> tls[p].reply[1].body])
    BY <2>2, MaterialsRoundTrip
  <2>4. \E r : FromHeader(http[p].receipt) = Some(r)
    <3>1. PICK output : SoldWith(p, output)
      BY <1>1, <2>1 DEF PurchaseInv, SoldInv
    <3>2. \E r : http[p].receipt = ToHeader(r)
      BY <3>1 DEF SoldWith, Sold
    <3> QED
      BY <3>2, HeaderRoundTrip
  <2>5. None \notin {MaterialsFromHeader(http[p].materials), http[p].payment,
                     FromHeader(http[p].receipt)}
    BY <2>2, <2>3, <2>4 DEF None, Some
  <2>6. buyer'[p] # "crashed"
    BY <1>1, <1>10, <2>5 DEF Check200, Goto, ProcessInv
  <2>7. buyer'[p] # "rejected"
    <3>1. session[p].pc = "signed" /\ tls[p].stage = "replied"
      <4>1. session[p].pc = "signed"
        BY <1>1, <2>1 DEF PurchaseInv, SoldInv
      <4> QED
        BY <4>1, SignedLeg
    <3>2. /\ tls[p].host = ExpectedUpstream(env)
          /\ NotaryPubkey(session[p].signed[1]) = NotaryKey
      BY <1>1, <3>1 DEF ProverOnTrack
    <3>3. ~tls[p].reply[1].interim
      BY <1>1, <3>1 DEF SessionInv, TlsShape
    <3>4. MaterialsFromHeader(http[p].materials)[1]["leg0"] = tls[p].reply[1].body
      BY <2>3 DEF Some
    <3>5. ExpectedUpstream(env)' = ExpectedUpstream(env)
      BY DEF ExpectedUpstream
    <3>6. DecodedRequest(session[p].sent[1]) = RequestBody(p)
      <4>1. IsRequest(p, tls[p].sent[1]) /\ IsShown(tls[p].sent[1], session[p].sent[1])
        BY <3>1, SignedLeg
      <4>2. IntactBody(tls[p].sent[1], session[p].sent[1])
        BY <1>1, <3>1 DEF ProverOnTrack
      <4> QED
        BY <4>1, <4>2, IntactIsRead DEF IntactBody
    <3>7. UNCHANGED <<http[p], tls[p], session[p], pinned[p]>>
      BY <1>1, <2>1
    <3>8. ASSUME buyer'[p] = "rejected" PROVE FALSE
      <4>1. RejectedUnread'
        BY RejectedWhy, PTL
      <4>2. DecodedRequest(session'[p].sent[1]) # RequestBody(p)
        BY <2>2, <3>2, <3>3, <3>4, <3>5, <3>7, <3>8, <4>1 DEF RejectedUnread
      <4> QED
        BY <3>6, <3>7, <4>2
    <3> QED
      BY <3>8
  <2> QED
    BY <1>1, <1>4, <2>1, <2>2, <2>6, <2>7 DEF BuyerOnTrack
<1> QED
  BY <1>5, <1>6, <1>7, <1>8, <1>9, <1>10 DEF Buying, BuyerStep

\* A handler of an unfailed purchase gets past every `?`.
LEMMA SellingOnTrack ==
    ASSUME NEW p \in Purchases, Inv, Unfailed(p), Unfailed(p)', UNCHANGED env,
           OnTrack(p), Selling(p)
    PROVE  OnTrack(p)'
<1>1. /\ PurchaseInv(p) /\ SessionInv(p) /\ ProcessInv /\ NotaryInv /\ app # None
      /\ UNCHANGED <<session, buyer, pinned>>
      /\ BuyerOnTrack(p) /\ ProverOnTrack(p)
  BY DEF Inv, NotaryInv, OnTrack, Selling, ResellerStep, buyerVars
<1>2. ~Fault(p)
  BY DEF Fault, Unfailed
<1>3. UNCHANGED <<NotaryKey, ExpectedUpstream(env)>>
  BY DEF NotaryKey
<1>4. http[p] # Hangup
  BY <1>1 DEF BuyerOnTrack, Hangup
<1>5. /\ app[1] = App(ResellerVars(env)) /\ app[1].mode = "honest"
      /\ app[1].upstream_host = ExpectedUpstream(env)
      /\ ExpectedUpstream(env) \in env.certificate
      /\ app[1].api_key # None => app[1].api_key[1] # << >> /\ env.key_on_wire = None
      /\ Buildable(app[1])
  BY <1>1, DocumentedReseller DEF Unfailed
<1>6. CASE Challenge(p)
  <2>1. /\ http'[p].at = "buyer" /\ http'[p].status = 402 /\ http'[p].challenge
        /\ buyer[p] = "asked" /\ UNCHANGED <<link, tls, sale>>
    BY <1>1, <1>2, <1>4, <1>6 DEF Challenge, Respond, Answered, ProcessInv, PurchaseInv, HttpInv
  <2>2. BuyerOnTrack(p)'
    BY <1>1, <1>3, <2>1 DEF BuyerOnTrack
  <2> QED
    BY <1>1, <2>1, <2>2, ProverTrackFrame DEF OnTrack
<1>7. CASE Authorize(p)
  <2>1. UNCHANGED <<http, link, tls>> /\ sale'[p].pc = "paid"
    <3>1. /\ sale' = [sale EXCEPT ![p] = SaleAt("paid", Some(http[p].body), http[p].credential)]
          /\ UNCHANGED <<http, link, tls>>
      BY <1>2, <1>7 DEF Authorize
    <3> QED
      BY <1>1, <3>1 DEF SaleAt, ProcessInv
  <2>2. ProverOnTrack(p)'
    BY <1>1, <1>3, <2>1 DEF ProverOnTrack
  <2> QED
    BY <1>1, <2>1, <2>2, BuyerTrackFrame DEF OnTrack
<1>8. CASE OpenSession(p)
  <2>1. /\ sale[p].pc = "paid" /\ UNCHANGED <<http, tls>>
        /\ sale'[p].pc = "committing" /\ link'[p].stage = "commit"
    BY <1>1, <1>2, <1>8 DEF OpenSession, SetLink, Commit, Advance, ProcessInv, NotaryInv,
       PurchaseInv, SaleInv, SaleShape
  <2>2. tls[p].stage = "none"
    BY <1>1, <2>1 DEF PurchaseInv, SaleInv, SessionInv, Paired
  <2>3. ProverOnTrack(p)'
    BY <1>1, <1>3, <2>1, <2>2 DEF ProverOnTrack
  <2> QED
    BY <1>1, <2>1, <2>3, BuyerTrackFrame DEF OnTrack
<1>9. CASE SendRequest(p)
  <2>1. tls[p].stage = "open" /\ sale[p].pc = "committing" /\ link[p].stage = "proxying"
    BY <1>1, <1>9 DEF SendRequest, ProverOnTrack
  <2>2. /\ SendTls(p, RequestHead(app[1]) \o sale[p].request[1])
        /\ Advance(p, "requested") /\ UNCHANGED <<http, link>>
    BY <1>5, <1>9, <2>1 DEF SendRequest
  <2>3. /\ tls'[p].stage = "requested" /\ tls'[p].host = tls[p].host
        /\ sale'[p].pc = "requested"
    BY <1>1, <2>1, <2>2 DEF SendTls, Advance, NotaryInv, ProcessInv,
       SessionInv, TlsShape, PurchaseInv, SaleInv, SaleShape
  <2>4. session[p].pc \notin {"accepted", "signed"}
    BY <1>1, <2>1 DEF SessionInv, Paired
  <2>5. ProverOnTrack(p)'
    BY <1>1, <1>3, <2>1, <2>2, <2>3, <2>4 DEF ProverOnTrack
  <2>6. BuyerOnTrack(p)'
    <3>1. http[p].at = "reseller"
      BY <1>4, <2>1, HandlerServes
    <3> QED
      BY <1>1, <1>3, <2>2, <3>1 DEF BuyerOnTrack
  <2> QED
    BY <2>5, <2>6 DEF OnTrack
<1>10. CASE ReadResponse(p)
  <2> DEFINE sent == tls[p].sent[1]
             key == app[1].api_key
  <2>1. /\ sale[p].pc = "requested" /\ tls[p].stage = "replied" /\ UNCHANGED tls
        /\ link[p].stage = "proxying" /\ tls[p].reply[1].complete
    BY <1>1, <1>10 DEF ReadResponse, ProverOnTrack
  <2>2. sent \in Text
    BY <1>1, <2>1 DEF PurchaseInv, PaidFirst, IsRequest, IsPost
  <2>3. ASSUME key # None
        PROVE  /\ key # Some(<< >>) /\ Locate(sent, key[1]) # 0
               /\ IntactBody(sent, Redacted(sent, Locate(sent, key[1]), Len(key[1])))
    <3>1. key = Some(key[1]) /\ key[1] \in Text
      BY <1>1, <2>3, AppIsApp, StringsAreText DEF IsApp, IsOption
    <3>2. KeyAt(sent, key[1]) \in Places(sent, key[1])
      <4>1. Findable(app[1], env.key_on_wire, sent)
        BY <1>1, <2>1 DEF PurchaseInv, SaleInv
      <4> QED
        BY <1>5, <2>3, <4>1 DEF Findable, OrElse
    <3>3. SplitAt(sent) \in 0 .. Len(sent)
      BY <1>1, <2>1 DEF PurchaseInv, PaidFirst, IsRequest
    <3> HIDE DEF sent, key
    <3>4. Locate(sent, key[1]) # 0
      BY <2>2, <3>2, PositionOf DEF Locate
    <3>5. IntactBody(sent, Redacted(sent, Locate(sent, key[1]), Len(key[1])))
      BY <2>2, <3>1, <3>2, <3>3, RedactionSparesBody
    <3>6. key # Some(<< >>)
      BY <1>5, <2>3 DEF Some, key
    <3> QED
      BY <3>4, <3>5, <3>6
  <2>4. PICK shown : Prove(p, shown) /\ IntactBody(sent, shown)
    <3>1. CASE key = None
      <4>1. IntactBody(sent, sent)
        BY DEF IntactBody
      <4>2. key # Some(<< >>)
        BY <3>1 DEF Some, None
      <4>3. Prove(p, sent)
        BY <1>10, <2>1, <3>1, <4>2 DEF ReadResponse
      <4> QED
        BY <4>1, <4>3
    <3>2. CASE key # None
      <4>1. Redact(p, sent, key[1])
        BY <1>10, <2>1, <2>3, <3>2 DEF ReadResponse
      <4>2. Prove(p, Redacted(sent, Locate(sent, key[1]), Len(key[1])))
        BY <2>3, <3>2, <4>1 DEF Redact
      <4> QED
        BY <2>3, <3>2, <4>2
    <3> QED
      BY <3>1, <3>2
  <2>5. /\ link'[p].stage = "disclosed" /\ sale'[p].pc = "proving" /\ UNCHANGED http
        /\ link'[p].sent = shown
    BY <1>1, <2>4 DEF Prove, SetLink, Disclosed, NotaryInv, ProcessInv, PurchaseInv, SaleInv,
       SaleShape
  <2>6. ProverOnTrack(p)'
    BY <1>1, <1>3, <2>1, <2>4, <2>5 DEF ProverOnTrack
  <2> QED
    BY <1>1, <2>1, <2>5, <2>6, BuyerTrackFrame DEF OnTrack
<1>11. CASE Abandon(p) \/ Cancel(p)
  BY <1>1, <1>4, <1>11 DEF Abandon, Cancel, ProverBroke, ProverOnTrack
<1>12. CASE Deliver(p)
  <2>1. /\ sale[p].pc = "proving" /\ link[p].stage = "eof" /\ UNCHANGED <<link, tls>>
        /\ link[p].bytes # None
    BY <1>1, <1>12 DEF Deliver, ProverOnTrack
  <2>2. sale[p].answer[1] = tls[p].reply[1].body
    BY <1>1, <2>1 DEF PurchaseInv, SaleInv, Some
  <2>3. LegOutput(sale[p].answer[1]) = tls[p].reply[1].body
    BY <1>5, <2>2 DEF LegOutput
  <2>4. PICK payment, receipt, body :
            /\ Finish(p, Sold(payment, receipt,
                              MaterialsToHeader([id \in {"leg0"} |-> tls[p].reply[1].body]),
                              body))
            /\ payment # None
    BY <1>2, <1>5, <1>12, <2>1, <2>3 DEF Deliver
  <2>5. /\ http'[p].at = "buyer" /\ http'[p].status = 200 /\ http'[p].payment # None
        /\ http'[p].materials = MaterialsToHeader([id \in {"leg0"} |-> tls[p].reply[1].body])
        /\ sale'[p].pc = "done"
    BY <1>1, <1>4, <2>1, <2>4 DEF Finish, Respond, Advance, Sold, ProcessInv, PurchaseInv,
       SaleInv, SaleShape
  <2>6. buyer[p] = "paid"
    BY <1>1, <1>4, <2>1, HandlerServes DEF PurchaseInv, HttpInv
  <2>7. BuyerOnTrack(p)'
    BY <1>1, <1>3, <2>1, <2>5, <2>6 DEF BuyerOnTrack
  <2>8. ProverOnTrack(p)'
    BY <1>1, <1>3, <2>1, <2>5 DEF ProverOnTrack
  <2> QED
    BY <2>7, <2>8 DEF OnTrack
<1> QED
  BY <1>6, <1>7, <1>8, <1>9, <1>10, <1>11, <1>12 DEF Selling, ResellerStep

\* Nor does its session fail: it dials, accepts and signs.
LEMMA NotarizingOnTrack ==
    ASSUME NEW p \in Purchases, Inv, Unfailed(p), Unfailed(p)', UNCHANGED env,
           OnTrack(p), Notarizing(p)
    PROVE  OnTrack(p)'
<1>1. /\ PurchaseInv(p) /\ SessionInv(p) /\ ProcessInv /\ NotaryInv /\ cfg # None
      /\ UNCHANGED <<http, buyer, pinned, sale>>
      /\ BuyerOnTrack(p) /\ ProverOnTrack(p)
  BY DEF Inv, NotaryInv, OnTrack, Notarizing, NotaryStep, AcceptCommit, AcceptDisclosure,
     SessionBreaks, SignClaim, buyerVars
<1>2. ~Fault(p)
  BY DEF Fault, Unfailed
<1>3. UNCHANGED <<NotaryKey, ExpectedUpstream(env)>>
  BY DEF NotaryKey
<1>4. cfg[1].upstream_host = ExpectedUpstream(env) /\ PublicKeyHex(cfg[1].notary) = NotaryKey
  BY <1>1, DocumentedNotary DEF Unfailed
<1>5. CASE AcceptCommit(p)
  <2>1. /\ session[p].pc = "listening" /\ link[p].stage = "commit" /\ link'[p].stage = "proxying"
        /\ session'[p].pc = "proxying"
        /\ tls'[p].stage = "open" /\ tls'[p].host = ExpectedUpstream(env)
    BY <1>1, <1>2, <1>4, <1>5 DEF AcceptCommit, SetLink, Proxying, Open, NotaryInv, SessionInv,
       SessionShape
  <2>2. ProverOnTrack(p)'
    BY <1>1, <1>3, <2>1 DEF ProverOnTrack
  <2>3. http[p].at # "buyer" \/ buyer[p] = "asked"
    BY <1>1, <2>1 DEF BuyerOnTrack, PurchaseInv, SoldInv
  <2>4. BuyerOnTrack(p)'
    BY <1>1, <1>3, <2>3 DEF BuyerOnTrack
  <2> QED
    BY <2>2, <2>4 DEF OnTrack
<1>6. CASE AcceptDisclosure(p)
  <2>1. /\ session[p].pc = "proxying" /\ link[p].stage = "disclosed" /\ UNCHANGED tls
        /\ link[p].identity
    BY <1>1, <1>6 DEF AcceptDisclosure, PurchaseInv, DisclosureInv
  <2>2. link[p].host = ExpectedUpstream(env)
    <3>1. link[p].host = app[1].upstream_host /\ app # None
      BY <1>1, <2>1 DEF PurchaseInv, SaleInv, Up
    <3> QED
      BY <1>1, <3>1, DocumentedReseller DEF Unfailed
  <2>3. /\ link'[p].stage = "closing" /\ session'[p].pc = "accepted"
        /\ session'[p].host = Some(link[p].host) /\ session'[p].sent = Some(link[p].sent)
    BY <1>1, <1>6, <2>1 DEF AcceptDisclosure, ServerIdentity, SetLink, Closing, NotaryInv,
       SessionInv, SessionShape
  <2>4. session'[p].sent[1] = link[p].sent
    BY <2>3 DEF Some
  <2>5. ProverOnTrack(p)'
    BY <1>1, <1>3, <2>1, <2>2, <2>3, <2>4 DEF ProverOnTrack
  <2> QED
    BY <1>1, <2>1, <2>5, BuyerTrackFrame DEF OnTrack
<1>7. CASE SessionBreaks(p)
  BY <1>1, <1>7 DEF SessionBreaks, ProverOnTrack
<1>8. CASE SignClaim(p)
  <2>1. /\ session[p].pc = "accepted" /\ link[p].stage = "closing" /\ UNCHANGED tls
        /\ session[p].host = Some(ExpectedUpstream(env))
    BY <1>1, <1>8 DEF SignClaim, ProverOnTrack, SessionInv, Paired
  <2>2. Attestable(session[p])
    <3>1. Revealed(session[p].sent[1], session[p].received[1])
      <4>1. session[p].received[1] = View(tls[p].reply[1], {})
        BY <1>1, <2>1 DEF PurchaseInv, DisclosureInv, ShownAs
      <4>2. session[p].received[1].hidden = {}
        BY <4>1 DEF View
      <4>3. "status" \in Parts
        BY DEF Parts
      <4> QED
        BY <4>2, <4>3 DEF Revealed
    <3>2. session[p].host[1] = cfg[1].upstream_host
      BY <1>4, <2>1 DEF Some
    <3> QED
      BY <3>1, <3>2 DEF Attestable
  <2> DEFINE att == Attest(cfg[1].notary, WitnessedClaim(session[p]))
  <2>3. NotaryPubkey(att) = NotaryKey
    BY <1>4 DEF NotaryPubkey, Attest
  <2> HIDE DEF att
  <2>4. /\ session' = [session EXCEPT ![p].pc = "signed", ![p].signed = Some(att)]
        /\ SetLink(p, EndOfFile(Some(att)))
    BY <1>2, <1>8, <2>1, <2>2 DEF SignClaim, Written, att
  <2>5. /\ link'[p].stage = "eof" /\ link'[p].bytes # None
        /\ session'[p].pc = "signed" /\ session'[p].host = session[p].host
        /\ session'[p].sent = session[p].sent
        /\ session'[p].signed[1] = att
    BY <1>1, <2>4 DEF SetLink, EndOfFile, Some, None, NotaryInv, SessionInv, SessionShape
  <2>6. ProverOnTrack(p)'
    BY <1>1, <1>3, <2>1, <2>3, <2>5 DEF ProverOnTrack
  <2> QED
    BY <1>1, <2>1, <2>6, BuyerTrackFrame DEF OnTrack
<1> QED
  BY <1>5, <1>6, <1>7, <1>8 DEF Notarizing, NotaryStep

\* The upstream answers in full, or has failed the purchase; so has a connection
\* that breaks.
LEMMA WorldOnTrack ==
    ASSUME NEW p \in Purchases, Inv, Unfailed(p), Unfailed(p)', UNCHANGED env,
           OnTrack(p), Upstream(p) \/ Failing(p)
    PROVE  OnTrack(p)'
<1>1. /\ PurchaseInv(p) /\ SessionInv(p) /\ NotaryInv
      /\ BuyerOnTrack(p) /\ ProverOnTrack(p)
  BY DEF Inv, NotaryInv, OnTrack
<1>2. ~Fault(p)
  BY DEF Fault, Unfailed
<1>3. UNCHANGED <<NotaryKey, ExpectedUpstream(env)>>
  BY DEF NotaryKey
<1>4. UpstreamReply(p) /\ UNCHANGED <<http, link, buyer, pinned, sale, session>>
  BY <1>2 DEF Upstream, Failing, UpstreamReply, UpstreamHangup, LinkFails, HttpFails, buyerVars
<1>5. /\ tls[p].stage = "requested" /\ tls'[p].stage = "replied"
      /\ UNCHANGED <<tls[p].host, tls[p].sent>> /\ tls'[p].reply[1].complete
  <2>1. PICK reply \in Replies :
            /\ tls' = [tls EXCEPT ![p].stage = "replied", ![p].reply = Some(reply)]
            /\ reply.complete
    BY <1>2, <1>4 DEF UpstreamReply
  <2> QED
    BY <1>1, <1>4, <2>1 DEF UpstreamReply, NotaryInv, SessionInv, TlsShape, Some
<1>6. ProverOnTrack(p)'
  BY <1>1, <1>3, <1>4, <1>5 DEF ProverOnTrack
<1>7. http[p].at # "buyer" \/ buyer[p] = "asked"
  <2>1. session[p].pc # "signed"
    BY <1>1, <1>5 DEF SessionInv, Witnessed
  <2> QED
    BY <1>1, <2>1 DEF BuyerOnTrack, PurchaseInv, SoldInv
<1>8. BuyerOnTrack(p)'
  BY <1>1, <1>3, <1>4, <1>7 DEF BuyerOnTrack
<1> QED
  BY <1>6, <1>8 DEF OnTrack

\* An unfailed purchase stays on track, whoever moves.
Honest == \A p \in Purchases : Unfailed(p) => OnTrack(p)

\* No step of any purchase, server or failure takes it off.
LEMMA HonestStep ==
    ASSUME \A r \in Replies : ~r.interim
    PROVE  Inv /\ Inv' /\ Honest /\ [Next]_vars => Honest'
<1> SUFFICES ASSUME Inv, Inv', Honest, [Next]_vars, NEW p \in Purchases, Unfailed(p)'
             PROVE  OnTrack(p)'
  BY DEF Honest
<1>1. /\ Unfailed(p) /\ OnTrack(p) /\ UNCHANGED <<env, exits>>
      /\ ~ResellerStops /\ ~NotaryStops
  BY UnfailedBefore DEF Honest
<1>2. CASE UNCHANGED <<env, http[p], link[p], tls[p], session[p], sale[p], buyer[p], pinned[p]>>
  BY <1>1, <1>2, BuyerTrackFrame, ProverTrackFrame DEF OnTrack
<1>3. ASSUME NEW q \in Purchases, q # p, Purchasing(q) PROVE OnTrack(p)'
  BY <1>1, <1>2, <1>3 DEF Purchasing, OnlyAt
<1>4. CASE UNCHANGED vars \/ Lifecycle \/ AllEnded
  BY <1>1, <1>2, <1>4 DEF vars, worldVars, processVars, buyerVars, Lifecycle, AllEnded,
     Serve, Listen, Tick
<1>5. ASSUME NEW q \in Purchases, Buying(q) PROVE OnTrack(p)'
  BY <1>1, <1>3, <1>5, BuyingIsLocal, BuyingOnTrack
<1>6. ASSUME NEW q \in Purchases, Selling(q) PROVE OnTrack(p)'
  BY <1>1, <1>3, <1>6, SellingIsLocal, SellingOnTrack
<1>7. ASSUME NEW q \in Purchases, Notarizing(q) \/ Upstream(q) \/ Failing(q)
      PROVE  OnTrack(p)'
  BY <1>1, <1>3, <1>7, OthersAreLocal, NotarizingOnTrack, WorldOnTrack
<1> QED
  BY <1>4, <1>5, <1>6, <1>7 DEF Next

\* README: an honest run passes every check.  With an upstream that sends no
\* interim response, every purchase of a deployment as documented that ends
\* without a failure outside the code ends in VERIFIED, whatever the upstream
\* answers, whatever headers and key are configured and however many purchases
\* run at once.  The assumption is needed: see the run interim.
THEOREM HonestSafe ==
    ASSUME \A r \in Replies : ~r.interim
    PROVE  Spec => []HonestRunVerifies
<1>1. Init => Honest
  <2> SUFFICES ASSUME Init, NEW p \in Purchases PROVE OnTrack(p)
    BY DEF Honest
  <2> QED
    BY DEF Init, WorldInit, BuyerInit, ResellerInit, NotaryInit, OnTrack, BuyerOnTrack,
       ProverOnTrack, Idle, NoLink, NoTls, SaleAt, SessionAt
<1>2. Inv /\ Inv' /\ Honest /\ [Next]_vars => Honest'
  BY HonestStep
<1>3. Honest => HonestRunVerifies
  BY DEF Honest, HonestRunVerifies, Unfailed, OnTrack, BuyerOnTrack, Ended, Outcomes
<1> QED
  BY <1>1, <1>2, <1>3, AlwaysInv, PTL DEF Spec
-----------------------------------------------------------------------------
\* The exchange speaks of the same data.
LEMMA SameData ==
    /\ Abstract!None = None /\ Abstract!Bodies = Bodies
    /\ \A v : Abstract!Some(v) = Some(v)
    /\ \A b : Abstract!StartsWithYes(b) = StartsWithYes(b)
BY DEF Abstract!None, None, Abstract!Bodies, Bodies, Abstract!Some, Some,
   Abstract!StartsWithYes, StartsWithYes, Abstract!Verdict, Verdict, Abstract!Body, Body

\* A step the exchange of q does not see.
Same(q) == /\ PhaseOf(q)' = PhaseOf(q) /\ AnswerOf(q)' = AnswerOf(q)
           /\ ProductOf(q)' = ProductOf(q)
           /\ ledger'[q] = None <=> ledger[q] = None

Elsewhere(p) == \A q \in Purchases \ {p} : Same(q)

\* If no purchase changes for the exchange, the exchange stutters.
LEMMA Unseen ==
    ASSUME \A q \in Purchases : Same(q)
    PROVE  UNCHANGED Abstract!vars
<1>1. [q \in Purchases |-> PhaseOf(q)]' = [q \in Purchases |-> PhaseOf(q)]
  BY DEF Same
<1>2. [q \in Purchases |-> AnswerOf(q)]' = [q \in Purchases |-> AnswerOf(q)]
  BY DEF Same
<1>3. [q \in Purchases |-> ProductOf(q)]' = [q \in Purchases |-> ProductOf(q)]
  BY DEF Same
<1>4. {q \in Purchases : ledger[q] # None}' = {q \in Purchases : ledger[q] # None}
  BY DEF Same
<1> QED
  BY <1>1, <1>2, <1>3, <1>4 DEF Abstract!vars

\* The steps it sees.
LEMMA SeenPay ==
    ASSUME NEW p \in Purchases, Elsewhere(p), PhaseOf(p) = "shopping", ledger[p] = None,
           ledger'[p] # None, PhaseOf(p)' = PhaseOf(p), AnswerOf(p)' = AnswerOf(p),
           ProductOf(p)' = ProductOf(p)
    PROVE  Abstract!Next
<1>1. [q \in Purchases |-> PhaseOf(q)]' = [q \in Purchases |-> PhaseOf(q)]
  BY DEF Elsewhere, Same
<1>2. [q \in Purchases |-> AnswerOf(q)]' = [q \in Purchases |-> AnswerOf(q)]
  BY DEF Elsewhere, Same
<1>3. [q \in Purchases |-> ProductOf(q)]' = [q \in Purchases |-> ProductOf(q)]
  BY DEF Elsewhere, Same
<1>4. {q \in Purchases : ledger[q] # None}'
        = {q \in Purchases : ledger[q] # None} \cup {p}
  BY DEF Elsewhere, Same
<1>5. Abstract!Pay(p)
  BY <1>1, <1>2, <1>3, <1>4 DEF Abstract!Pay
<1> QED
  BY <1>5 DEF Abstract!Next

\* The upstream answers a purchase that was paid for.
LEMMA SeenAnswer ==
    ASSUME NEW p \in Purchases, Elsewhere(p), NEW a \in Bodies,
           ledger[p] # None, ledger'[p] # None, AnswerOf(p) = None, AnswerOf(p)' = Some(a),
           PhaseOf(p)' = PhaseOf(p), ProductOf(p)' = ProductOf(p)
    PROVE  Abstract!Next
<1>1. [q \in Purchases |-> PhaseOf(q)]' = [q \in Purchases |-> PhaseOf(q)]
  BY DEF Elsewhere, Same
<1>2. [q \in Purchases |-> AnswerOf(q)]'
        = [[q \in Purchases |-> AnswerOf(q)] EXCEPT ![p] = Some(a)]
  BY DEF Elsewhere, Same
<1>3. [q \in Purchases |-> ProductOf(q)]' = [q \in Purchases |-> ProductOf(q)]
  BY DEF Elsewhere, Same
<1>4. {q \in Purchases : ledger[q] # None}' = {q \in Purchases : ledger[q] # None}
  BY DEF Elsewhere, Same
<1>5. Abstract!Answer(p)
  BY <1>1, <1>2, <1>3, <1>4, SameData DEF Abstract!Answer
<1> QED
  BY <1>5 DEF Abstract!Next

\* A purchase ends: failed, rejected once there is an answer, or verified with the
\* transform of that answer as its product.
LEMMA SeenEnd ==
    ASSUME NEW p \in Purchases, Elsewhere(p), PhaseOf(p) = "shopping",
           UNCHANGED ledger[p], AnswerOf(p)' = AnswerOf(p),
           \/ PhaseOf(p)' = "failed" /\ ProductOf(p)' = ProductOf(p)
           \/ /\ PhaseOf(p)' = "rejected" /\ ProductOf(p)' = ProductOf(p)
              /\ AnswerOf(p) # None
           \/ /\ PhaseOf(p)' = "verified" /\ AnswerOf(p) # None /\ ledger[p] # None
              /\ ProductOf(p)' = Some(StartsWithYes(AnswerOf(p)[1]))
    PROVE  Abstract!Next
<1>1. [q \in Purchases |-> PhaseOf(q)]'
        = [[q \in Purchases |-> PhaseOf(q)] EXCEPT ![p] = PhaseOf(p)']
  BY DEF Elsewhere, Same
<1>2. [q \in Purchases |-> AnswerOf(q)]' = [q \in Purchases |-> AnswerOf(q)]
  BY DEF Elsewhere, Same
<1>3. [q \in Purchases |-> ProductOf(q)]'
        = [[q \in Purchases |-> ProductOf(q)] EXCEPT ![p] = ProductOf(p)']
  BY DEF Elsewhere, Same
<1>4. {q \in Purchases : ledger[q] # None}' = {q \in Purchases : ledger[q] # None}
  BY DEF Elsewhere, Same
<1>5. ProductOf(p)' = ProductOf(p) =>
        [q \in Purchases |-> ProductOf(q)]' = [q \in Purchases |-> ProductOf(q)]
  BY DEF Elsewhere, Same
<1>6. CASE PhaseOf(p)' = "failed" /\ ProductOf(p)' = ProductOf(p)
  BY <1>1, <1>2, <1>4, <1>5, <1>6 DEF Abstract!Fail, Abstract!Next
<1>7. CASE /\ PhaseOf(p)' = "rejected" /\ ProductOf(p)' = ProductOf(p)
           /\ AnswerOf(p) # None
  BY <1>1, <1>2, <1>4, <1>5, <1>7, SameData DEF Abstract!Reject, Abstract!Next
<1>8. CASE /\ PhaseOf(p)' = "verified" /\ AnswerOf(p) # None /\ ledger[p] # None
           /\ ProductOf(p)' = Some(StartsWithYes(AnswerOf(p)[1]))
  BY <1>1, <1>2, <1>3, <1>4, <1>8, SameData DEF Abstract!Accept, Abstract!Next
<1> QED
  BY <1>6, <1>7, <1>8
-----------------------------------------------------------------------------
\* What the exchange of q depends on.
LEMMA SameFrame ==
    ASSUME NEW q, UNCHANGED <<buyer[q], ledger[q]>>,
           tls'[q].stage = "replied" <=> tls[q].stage = "replied",
           tls[q].stage = "replied" => UNCHANGED tls[q].reply,
           buyer[q] = "verified" => UNCHANGED http[q]
    PROVE  Same(q)
BY DEF Same, PhaseOf, AnswerOf, ProductOf, Ended

\* A step of one purchase is not seen in the others.
LEMMA OthersUnseen ==
    ASSUME NEW p \in Purchases, Purchasing(p)
    PROVE  Elsewhere(p)
<1> SUFFICES ASSUME NEW q \in Purchases, q # p PROVE Same(q)
  BY DEF Elsewhere
<1>1. UNCHANGED <<buyer[q], ledger[q], tls[q], http[q]>>
  BY DEF Purchasing, OnlyAt
<1> QED
  BY <1>1, SameFrame

\* A step seen neither here nor elsewhere is a stutter.
LEMMA OnlyHere ==
    ASSUME NEW p \in Purchases, Elsewhere(p), Same(p)
    PROVE  UNCHANGED Abstract!vars
BY Unseen DEF Elsewhere

\* The buyer's steps: it pays, or its purchase ends.
LEMMA BuyingSeen ==
    ASSUME NEW p \in Purchases, Inv, Inv', Buying(p)
    PROVE  [Abstract!Next]_(Abstract!vars)
<1>1. Elsewhere(p)
  BY BuyingIsLocal, OthersUnseen
<1>2. /\ PurchaseInv(p) /\ ProcessInv /\ PurchaseInv(p)'
      /\ UNCHANGED <<tls, session>>
  BY BuyerParts DEF Inv
<1>3. /\ AnswerOf(p)' = AnswerOf(p)
      /\ buyer[p] \in {"start", "funded", "pinned", "asked", "paid"}
      /\ PhaseOf(p) = "shopping" /\ ProductOf(p) = None
  <2>1. buyer[p] \in {"start", "funded", "pinned", "asked", "paid"}
    BY DEF Buying, BuyerStep, FundWallet, PinKey, Ask, Pay, Challenged, Decline, Lose,
       Check200
  <2> QED
    BY <1>2, <2>1 DEF AnswerOf, PhaseOf, ProductOf, Ended, Outcomes
<1>4. ASSUME buyer'[p] \in {"crashed", "declined"}, UNCHANGED ledger
      PROVE  Abstract!Next
  <2>1. PhaseOf(p)' = "failed" /\ ProductOf(p)' = None
    BY <1>4 DEF PhaseOf, ProductOf, Ended, Outcomes
  <2> QED
    BY <1>1, <1>3, <1>4, <2>1, SeenEnd
<1>5. ASSUME buyer'[p] \in {"funded", "pinned", "asked"}, UNCHANGED ledger
      PROVE  UNCHANGED Abstract!vars
  <2>1. PhaseOf(p)' = "shopping" /\ ProductOf(p)' = None
    BY <1>5 DEF PhaseOf, ProductOf, Ended, Outcomes
  <2>2. Same(p)
    BY <1>3, <1>5, <2>1 DEF Same
  <2> QED
    BY <1>1, <2>2, OnlyHere
<1>6. CASE FundWallet(p) \/ PinKey(p) \/ Ask(p)
  <2>1. /\ buyer'[p] \in {"funded", "pinned", "asked", "crashed"} /\ UNCHANGED ledger
    BY <1>2, <1>6 DEF FundWallet, PinKey, Ask, Goto, ProcessInv
  <2> QED
    BY <1>4, <1>5, <2>1
<1>7. CASE Decline(p) \/ Lose(p)
  <2>1. /\ buyer'[p] \in {"declined", "crashed"} /\ UNCHANGED ledger
    BY <1>2, <1>7 DEF Decline, Lose, Goto, ProcessInv, worldVars
  <2> QED
    BY <1>4, <2>1
<1>8. CASE Pay(p)
  <2>1. CASE Goto(p, "crashed") /\ UNCHANGED ledger
    BY <1>2, <1>4, <2>1 DEF Goto, ProcessInv
  <2>2. CASE ledger' = [ledger EXCEPT ![p] = Some(clock)] /\ Goto(p, "paid")
    <3>1. buyer[p] = "asked" /\ ledger[p] = None
      BY <1>2, <1>8 DEF Pay, Challenged, PurchaseInv, BuyerInv
    <3>2. buyer'[p] = "paid" /\ ledger'[p] # None
      BY <1>2, <2>2 DEF Goto, Some, None, ProcessInv
    <3>3. PhaseOf(p)' = "shopping" /\ ProductOf(p)' = None
      BY <3>2 DEF PhaseOf, ProductOf, Ended, Outcomes
    <3> QED
      BY <1>1, <1>3, <3>1, <3>2, <3>3, SeenPay
  <2> QED
    BY <1>8, <2>1, <2>2 DEF Pay
<1>9. CASE Check200(p)
  <2>1. /\ buyer'[p] \in {"verified", "rejected", "crashed"} /\ UNCHANGED <<ledger, http>>
        /\ http[p].at = "buyer" /\ http[p].status = 200
    BY <1>2, <1>9 DEF Check200, Goto, ProcessInv, worldVars
  <2>2. session[p].pc = "signed"
    BY <1>2, <2>1 DEF PurchaseInv, SoldInv
  <2>3. tls[p].stage = "replied"
    BY <2>2, SignedLeg
  <2>4. AnswerOf(p) = Some(tls[p].reply[1].body) /\ AnswerOf(p) # None
    BY <2>3 DEF AnswerOf, Some, None
  <2>5. CASE buyer'[p] = "crashed"
    BY <1>4, <2>1, <2>5
  <2>6. CASE buyer'[p] = "rejected"
    <3>1. PhaseOf(p)' = "rejected" /\ ProductOf(p)' = None
      BY <2>6 DEF PhaseOf, ProductOf, Ended, Outcomes
    <3> QED
      BY <1>1, <1>3, <2>1, <2>4, <3>1, SeenEnd
  <2>7. CASE buyer'[p] = "verified"
    <3>1. PhaseOf(p)' = "verified" /\ ProductOf(p)' = Some(http'[p].body)
      BY <2>7 DEF PhaseOf, ProductOf, Ended, Outcomes
    <3>2. VerifiedIsGenuine'
      BY VerifiedNow, PTL
    <3>3. ledger'[p] # None /\ http'[p].body = StartsWithYes(tls'[p].reply[1].body)
      BY <2>7, <3>2 DEF VerifiedIsGenuine
    <3>4. AnswerOf(p)[1] = tls'[p].reply[1].body
      BY <1>2, <2>4 DEF Some
    <3>5. ProductOf(p)' = Some(StartsWithYes(AnswerOf(p)[1]))
      BY <3>1, <3>3, <3>4
    <3>6. UNCHANGED ledger[p] /\ ledger[p] # None
      BY <2>1, <3>3
    <3> QED
      BY <1>1, <1>3, <2>4, <3>1, <3>5, <3>6, SeenEnd
  <2> QED
    BY <2>1, <2>5, <2>6, <2>7
<1> QED
  BY <1>6, <1>7, <1>8, <1>9 DEF Buying, BuyerStep

\* A handler never answers a buyer that already has its answer.
LEMMA NothingToSell ==
    ASSUME NEW p \in Purchases, Inv, Selling(p)
    PROVE  http[p].at # "buyer"
<1>1. CASE Challenge(p) \/ Authorize(p)
  BY <1>1 DEF Challenge, Authorize
<1>2. CASE Cancel(p)
  BY <1>2 DEF Cancel, Hangup
<1>3. CASE OpenSession(p) \/ SendRequest(p) \/ ReadResponse(p) \/ Abandon(p) \/ Deliver(p)
  BY <1>3, HandlerServes DEF Hangup, OpenSession, SendRequest, ReadResponse, Abandon, Deliver
<1> QED
  BY <1>1, <1>2, <1>3 DEF Selling, ResellerStep

\* The reseller's handler changes nothing the exchange sees.
LEMMA SellingSeen ==
    ASSUME NEW p \in Purchases, Inv, Selling(p)
    PROVE  UNCHANGED Abstract!vars
<1>1. Elsewhere(p)
  BY SellingIsLocal, OthersUnseen
<1>2. SessionInv(p) /\ PurchaseInv(p) /\ NotaryInv /\ UNCHANGED <<buyer, ledger>>
  BY DEF Inv, NotaryInv, Selling, ResellerStep, Challenge, Authorize, OpenSession,
     SendRequest, ReadResponse, Abandon, Cancel, Deliver, buyerVars
<1>3. buyer[p] # "verified"
  BY <1>2, NothingToSell DEF PurchaseInv, VerdictInv
<1>4. UNCHANGED tls \/ (tls[p].stage = "open" /\ tls'[p].stage = "requested")
  <2>1. CASE SendRequest(p)
    BY <1>2, <2>1 DEF SendRequest, SendTls, NotaryInv, SessionInv, TlsShape
  <2> QED
    BY <2>1 DEF Selling, ResellerStep, Challenge, Authorize, OpenSession, ReadResponse,
       Abandon, Cancel, Deliver
<1>5. Same(p)
  BY <1>2, <1>3, <1>4, SameFrame
<1> QED
  BY <1>1, <1>5, OnlyHere

\* Nor does the notary's session.
LEMMA NotarizingSeen ==
    ASSUME NEW p \in Purchases, Inv, Notarizing(p)
    PROVE  UNCHANGED Abstract!vars
<1>1. Elsewhere(p)
  BY OthersAreLocal, OthersUnseen
<1>2. SessionInv(p) /\ NotaryInv /\ UNCHANGED <<buyer, ledger, http>>
  BY DEF Inv, NotaryInv, Notarizing, NotaryStep, AcceptCommit, AcceptDisclosure,
     SessionBreaks, SignClaim, buyerVars
<1>3. UNCHANGED tls \/ (tls[p].stage = "none" /\ tls'[p].stage = "open")
  BY <1>2 DEF Notarizing, NotaryStep, AcceptCommit, AcceptDisclosure, SessionBreaks,
     SignClaim, NotaryInv, SessionInv, Paired, Open
<1>4. Same(p)
  BY <1>2, <1>3, SameFrame
<1> QED
  BY <1>1, <1>4, OnlyHere

\* The upstream answers a request that was paid for, once.
LEMMA UpstreamSeen ==
    ASSUME NEW p \in Purchases, Inv, Upstream(p)
    PROVE  [Abstract!Next]_(Abstract!vars)
<1>1. Elsewhere(p)
  BY OthersAreLocal, OthersUnseen
<1>2. /\ SessionInv(p) /\ PurchaseInv(p) /\ NotaryInv
      /\ UNCHANGED <<buyer, ledger, http>>
  BY DEF Inv, NotaryInv, Upstream, UpstreamReply, UpstreamHangup, buyerVars
<1>3. CASE UpstreamHangup(p)
  <2>1. tls[p].stage # "replied" /\ tls'[p].stage # "replied"
    BY <1>2, <1>3 DEF UpstreamHangup, NotaryInv, SessionInv, TlsShape
  <2>2. Same(p)
    BY <1>2, <2>1, SameFrame
  <2> QED
    BY <1>1, <2>2, OnlyHere
<1>4. CASE UpstreamReply(p)
  <2>1. PICK reply \in Replies :
            tls' = [tls EXCEPT ![p].stage = "replied", ![p].reply = Some(reply)]
    BY <1>4 DEF UpstreamReply
  <2>2. tls[p].stage = "requested" /\ tls'[p].stage = "replied"
        /\ tls'[p].reply = Some(reply)
    BY <1>2, <1>4, <2>1 DEF UpstreamReply, NotaryInv, SessionInv, TlsShape
  <2>3. AnswerOf(p) = None /\ AnswerOf(p)' = Some(reply.body) /\ reply.body \in Bodies
    BY <2>2, RepliesAssumption DEF AnswerOf, Some
  <2>4. ledger[p] # None
    <3>1. link[p].stage # "none"
      BY <1>2, <2>2 DEF SessionInv, Paired
    <3> QED
      BY <1>2, <3>1 DEF PurchaseInv, PaidFirst
  <2>5. PhaseOf(p)' = PhaseOf(p) /\ ProductOf(p)' = ProductOf(p)
    BY <1>2 DEF PhaseOf, ProductOf, Ended
  <2> QED
    BY <1>1, <1>2, <2>3, <2>4, <2>5, SeenAnswer
<1> QED
  BY <1>3, <1>4 DEF Upstream

\* Nor does a connection that breaks.
LEMMA FailingSeen ==
    ASSUME NEW p \in Purchases, Inv, Failing(p)
    PROVE  UNCHANGED Abstract!vars
<1>1. Elsewhere(p)
  BY OthersAreLocal, OthersUnseen
<1>2. /\ UNCHANGED <<buyer, ledger, tls>> /\ (buyer[p] = "verified" => UNCHANGED http)
  BY DEF Failing, LinkFails, HttpFails, Ended, Outcomes, buyerVars
<1>3. Same(p)
  BY <1>2, SameFrame
<1> QED
  BY <1>1, <1>3, OnlyHere

\* Restarts are invisible to the exchange: what was verified stays so.
LEMMA LifecycleSeen ==
    ASSUME Inv, Lifecycle
    PROVE  UNCHANGED Abstract!vars
<1>1. ASSUME NEW q \in Purchases PROVE Same(q)
  <2>1. UNCHANGED <<buyer, ledger>> /\ SessionInv(q) /\ PurchaseInv(q)
    BY DEF Inv, NotaryInv, Lifecycle, Serve, ResellerStops, Listen, NotaryStops, Tick,
       buyerVars
  <2>2. CASE Serve \/ Listen \/ Tick
    BY <2>1, <2>2, SameFrame DEF Serve, Listen, Tick
  <2>3. CASE ResellerStops
    <3>1. UNCHANGED tls /\ (http[q].at = "buyer" => UNCHANGED http[q])
      BY <2>3 DEF ResellerStops
    <3> QED
      BY <2>1, <3>1, SameFrame DEF PurchaseInv, VerdictInv
  <2>4. CASE NotaryStops
    <3>1. /\ UNCHANGED http
          /\ tls'[q] = IF tls[q].stage \in {"open", "requested"}
                       THEN [tls[q] EXCEPT !.stage = "closed"] ELSE tls[q]
      BY <2>4 DEF NotaryStops
    <3>2. /\ tls'[q].stage = "replied" <=> tls[q].stage = "replied"
          /\ tls[q].stage = "replied" => UNCHANGED tls[q].reply
      BY <2>1, <3>1 DEF SessionInv, TlsShape
    <3> QED
      BY <2>1, <3>1, <3>2, SameFrame
  <2> QED
    BY <2>2, <2>3, <2>4 DEF Lifecycle
<1> QED
  BY <1>1, Unseen

\* Pay first, then the upstream's one answer, then a verdict computed from it:
\* what the three processes do is the exchange, for any number of purchases and
\* whatever fails or restarts.
THEOREM Implements == Spec => ImplementsExchange
<1>1. Init => Abstract!Init
  <2> SUFFICES ASSUME Init PROVE Abstract!Init
    OBVIOUS
  <2>1. ASSUME NEW p \in Purchases
        PROVE  /\ PhaseOf(p) = "shopping" /\ AnswerOf(p) = None /\ ProductOf(p) = None
               /\ ledger[p] = None
    BY DEF Init, WorldInit, BuyerInit, PhaseOf, AnswerOf, ProductOf, Ended, Outcomes, NoTls
  <2> QED
    BY <2>1, SameData DEF Abstract!Init
<1>2. Inv /\ Inv' /\ [Next]_vars => [Abstract!Next]_(Abstract!vars)
  <2> SUFFICES ASSUME Inv, Inv', [Next]_vars PROVE [Abstract!Next]_(Abstract!vars)
    OBVIOUS
  <2>1. CASE UNCHANGED vars
    <3>1. UNCHANGED <<buyer, ledger, tls, http>>
      BY <2>1 DEF vars, worldVars, buyerVars
    <3>2. \A q \in Purchases : Same(q)
      BY <3>1, SameFrame
    <3> QED
      BY <3>2, Unseen
  <2>2. CASE \E p \in Purchases :
                Buying(p) \/ Selling(p) \/ Notarizing(p) \/ Upstream(p) \/ Failing(p)
    BY <2>2, BuyingSeen, SellingSeen, NotarizingSeen, UpstreamSeen, FailingSeen
  <2>3. CASE Lifecycle
    BY <2>3, LifecycleSeen
  <2> QED
    BY <2>1, <2>2, <2>3 DEF Next, AllEnded
<1> QED
  BY <1>1, <1>2, AlwaysInv, PTL DEF Spec, ImplementsExchange, Abstract!Spec
=============================================================================
