--------------------------- MODULE VerifierProofs ---------------------------
(***************************************************************************)
(* verify() decides the gate, for every set of node ids, every receipt     *)
(* over them and every expectation.  The heart of it is leg_ancestors: its *)
(* explicit stack and `seen` set compute the least set of ids closed under *)
(* the inputs of interior nodes, on graphs with cycles, dangling edges and *)
(* repeated ids too.                                                       *)
(***************************************************************************)
EXTENDS Verifier, BytesProofs

\* The walk: what is seen or pending is mentioned by the receipt and belongs
\* to every closed set, and is itself closed up to the pending ids.
WalkInv ==
    pc = "walk" =>
        /\ seen \cup Range(stack) \subseteq Mentioned(receipt)
        /\ \A S \in SUBSET Mentioned(receipt) :
                Closed(receipt, S) => seen \cup Range(stack) \subseteq S
        /\ receipt.output_node \in seen \cup Range(stack)
        /\ \A id \in seen : Expands(receipt, id) =>
                Range(NodeOf(receipt, id).inputs) \subseteq seen \cup Range(stack)
        /\ legs = LegsOf(receipt, seen)

\* What the checks collected so far amount to.
CheckedSoFar ==
    CASE pc = "bindings" -> checks = {}
      [] pc = "walk"     -> AllPassed <=> BindingsHold(receipt, expect)
      [] pc = "nodes"    -> AllPassed <=>
                                /\ BindingsHold(receipt, expect)
                                /\ RequestBound(receipt, expect)
                                /\ \A i \in 1 .. next - 1 :
                                    NodeHolds(receipt, expect, receipt.nodes[i])
      [] pc = "done"     -> AllPassed <=> GatePasses(receipt, expect)

ControlInv ==
    /\ pc \in {"bindings", "walk"} => next = 1
    /\ pc = "walk" => expect.served_request_digest # None
    /\ pc = "bindings" => seen = {} /\ legs = {}

IndInv == TypeOK /\ ControlInv /\ WalkInv /\ CheckedSoFar
-----------------------------------------------------------------------------

\* The map `id -> node` collected from the receipt holds nodes of the receipt:
\* among the nodes with an id there is a last one.
LEMMA NodeOfIsNode ==
    ASSUME NEW r \in Receipts, NEW id, HasNode(r, id)
    PROVE  \E i \in DOMAIN r.nodes : NodeOf(r, id) = r.nodes[i]
<1>1. /\ r.nodes \in Seq(Nodes)
      /\ Len(r.nodes) \in Nat
      /\ DOMAIN r.nodes = 1 .. Len(r.nodes)
  BY ReceiptsAssumption
<1> DEFINE hits == {i \in DOMAIN r.nodes : r.nodes[i].id = id}
           gaps == {Len(r.nodes) - i : i \in hits}
<1>2. gaps \in SUBSET Nat /\ gaps # {}
  <2>1. ASSUME NEW i \in hits PROVE Len(r.nodes) - i \in Nat
    <3>1. i \in 1 .. Len(r.nodes)
      BY <1>1
    <3> QED
      BY <1>1, <3>1
  <2>2. hits # {}
    BY DEF HasNode
  <2> QED
    BY <2>1, <2>2
<1>3. PICK g \in gaps : \A h \in gaps : g <= h
  BY <1>2, LeastNat
<1>4. PICK last \in hits : g = Len(r.nodes) - last
  BY <1>3
<1>5. ASSUME NEW j \in hits PROVE j <= last
  <2>1. Len(r.nodes) - j \in gaps
    OBVIOUS
  <2>2. Len(r.nodes) - last <= Len(r.nodes) - j
    BY <1>3, <1>4, <2>1
  <2>3. j \in Nat /\ last \in Nat
    BY <1>1
  <2> QED
    BY <1>1, <2>2, <2>3
<1>6. \E i \in DOMAIN r.nodes :
        /\ r.nodes[i].id = id
        /\ \A j \in DOMAIN r.nodes : r.nodes[j].id = id => j <= i
  BY <1>4, <1>5
<1> QED
  BY <1>6 DEF NodeOf

\* The inputs of a node the map holds are ids the receipt mentions.
LEMMA InputsMentioned ==
    ASSUME NEW r \in Receipts, NEW id, HasNode(r, id)
    PROVE  /\ NodeOf(r, id).inputs \in Seq(NodeIds)
           /\ Range(NodeOf(r, id).inputs) \subseteq Mentioned(r)
<1>1. PICK i \in DOMAIN r.nodes : NodeOf(r, id) = r.nodes[i]
  BY NodeOfIsNode
<1>2. r.nodes[i] \in Nodes
  BY <1>1, ReceiptsAssumption
<1>3. r.nodes[i].inputs \in Seq(NodeIds)
  BY <1>2, NodesAssumption
<1> QED
  BY <1>1, <1>3 DEF Mentioned

\* Popping the stack loses nothing but its top.
LEMMA PoppedRange ==
    ASSUME stack \in Seq(NodeIds), stack # << >>
    PROVE  /\ Popped \in Seq(NodeIds)
           /\ Top \in NodeIds
           /\ Range(stack) = Range(Popped) \cup {Top}
<1> DEFINE n == Len(stack) - 1
<1>1. n \in Nat /\ Len(stack) = n + 1 /\ DOMAIN stack = 1 .. n + 1
  OBVIOUS
<1>2. Popped = SubSeq(stack, 1, n) /\ Top = stack[n + 1]
  BY <1>1 DEF Popped, Top
<1>3. \A k \in 1 .. n + 1 : stack[k] \in NodeIds
  BY <1>1
<1> HIDE DEF n
<1>4. n + 1 \in 1 .. n + 1 /\ 1 .. n \subseteq 1 .. n + 1
  BY <1>1
<1>5. Top \in NodeIds
  BY <1>2, <1>3, <1>4
<1>6. /\ SubSeq(stack, 1, n) \in Seq(NodeIds)
      /\ Len(SubSeq(stack, 1, n)) = IF 1 <= n THEN n - 1 + 1 ELSE 0
      /\ \A k \in 1 .. n - 1 + 1 : SubSeq(stack, 1, n)[k] = stack[1 + k - 1]
  <2>1. 1 \in Int /\ n \in Int
    BY <1>1
  <2>2. \A k \in 1 .. n : stack[k] \in NodeIds
    BY <1>3, <1>4
  <2> QED
    BY <2>1, <2>2, SubSeqProperties
<1>7. Popped \in Seq(NodeIds)
  BY <1>2, <1>6
<1>8. DOMAIN Popped = 1 .. n
  <2>1. (IF 1 <= n THEN n - 1 + 1 ELSE 0) = n
    BY <1>1
  <2>2. Len(Popped) = n
    BY <1>2, <1>6, <2>1
  <2> QED
    BY <1>7, <2>2
<1>9. ASSUME NEW k \in 1 .. n PROVE Popped[k] = stack[k]
  <2>1. k \in 1 .. n - 1 + 1 /\ 1 + k - 1 = k
    BY <1>1
  <2> QED
    BY <1>2, <1>6, <2>1
<1>10. Range(Popped) = {stack[k] : k \in 1 .. n}
  BY <1>8, <1>9 DEF Range
<1>11. Range(stack) = {stack[k] : k \in 1 .. n + 1}
  BY <1>1 DEF Range
<1>12. \A k \in 1 .. n + 1 : k \in 1 .. n \/ k = n + 1
  BY <1>1
<1> QED
  BY <1>2, <1>4, <1>5, <1>7, <1>10, <1>11, <1>12

\* The checks pushed before the walk all pass exactly when the bindings hold.
LEMMA BindingChecksDecide ==
    ASSUME NEW r, NEW e
    PROVE  (\A c \in BindingChecks(r, e) : c.passed) <=> BindingsHold(r, e)
<1> DEFINE served == NodeOf(r, r.output_node).output_digest = e.served_output_digest
           c1 == Check(<<"manifest matches">>, r.manifest_id = e.manifest.id)
           c2 == IF HasNode(r, r.output_node)
                 THEN Check(<<"delivered bytes match output node">>, served)
                 ELSE Check(<<"output node exists">>, FALSE)
           c3 == Check(<<"bound to this payment">>,
                       r.payment_reference = Some(e.payment_reference))
<1>1. c1.passed <=> r.manifest_id = e.manifest.id
  BY Zenon DEF Check
<1>2. c2.passed <=> HasNode(r, r.output_node) /\ served
  BY Zenon DEF Check
<1>3. c3.passed <=> r.payment_reference = Some(e.payment_reference)
  BY Zenon DEF Check
<1>4. BindingChecks(r, e) = {c1, c2, c3}
  BY Zenon DEF BindingChecks
<1> HIDE DEF c1, c2, c3
<1> QED
  BY <1>1, <1>2, <1>3, <1>4 DEF BindingsHold

\* The checks of a leg all pass exactly when the leg holds.
LEMMA LegChecksDecide ==
    ASSUME NEW e, NEW node
    PROVE  (\A c \in LegChecks(e, node) : c.passed) <=> LegHolds(e, node)
<1> DEFINE att == node.proof.att
           c1 == Check(<<"leg proof valid", node.id>>, VerifyProof(att) = "Ok")
           c2 == Check(<<"host allowed", node.id>>,
                       att.claim.host \in e.manifest.hosts)
           c3 == Check(<<"output == leg response", node.id>>,
                       node.output_digest = att.claim.response_digest)
           c4 == Check(<<"notary key matches pinned", node.id>>,
                       NotaryPubkey(att) = e.notary_pubkey[1])
<1>1. c1.passed <=> VerifyProof(att) = "Ok"
  BY Zenon DEF Check
<1>2. c2.passed <=> att.claim.host \in e.manifest.hosts
  BY Zenon DEF Check
<1>3. c3.passed <=> node.output_digest = att.claim.response_digest
  BY Zenon DEF Check
<1>4. c4.passed <=> NotaryPubkey(att) = e.notary_pubkey[1]
  BY Zenon DEF Check
<1>5. LegChecks(e, node) = {c1, c2, c3} \cup
            (IF e.notary_pubkey = None THEN {} ELSE {c4})
  BY Zenon DEF LegChecks
<1>6. LegHolds(e, node) <=> /\ VerifyProof(att) = "Ok"
                            /\ att.claim.host \in e.manifest.hosts
                            /\ node.output_digest = att.claim.response_digest
                            /\ e.notary_pubkey # None =>
                                    NotaryPubkey(att) = e.notary_pubkey[1]
  BY Zenon DEF LegHolds
<1> HIDE DEF c1, c2, c3, c4
<1> QED
  BY <1>1, <1>2, <1>3, <1>4, <1>5, <1>6

\* The check of an interior node passes exactly when the buyer's first
\* recomputed pair for its id has the node's digest.
LEMMA InteriorChecksDecide ==
    ASSUME NEW e, NEW node
    PROVE  (\A c \in InteriorChecks(e, node) : c.passed)
               <=> RecomputedDigest(e, node.id) = Some(node.output_digest)
<1> DEFINE digest == RecomputedDigest(e, node.id)
           c1 == Check(<<"recompute matches", node.id>>,
                       digest[1] = node.output_digest)
           c2 == Check(<<"recompute NOT re-verified", node.id>>, FALSE)
<1>1. c1.passed <=> digest[1] = node.output_digest
  BY Zenon DEF Check
<1>2. c2.passed <=> FALSE
  BY Zenon DEF Check
<1>3. InteriorChecks(e, node) = IF digest # None THEN {c1} ELSE {c2}
  BY Zenon DEF InteriorChecks
<1>4. digest = None \/ \E v : digest = Some(v)
  BY Zenon DEF RecomputedDigest
<1>5. \A v : Some(v) # None /\ Some(v)[1] = v
  BY DEF Some, None
<1> HIDE DEF c1, c2, digest
<1>6. (\A c \in InteriorChecks(e, node) : c.passed)
        <=> digest = Some(node.output_digest)
  BY <1>1, <1>2, <1>3, <1>4, <1>5
<1> QED
  BY <1>6 DEF digest

\* The checks one node contributes all pass exactly when the node holds.
LEMMA NodeChecksDecide ==
    ASSUME NEW r, NEW e, NEW node
    PROVE  (\A c \in NodeChecks(r, e, node) : c.passed) <=> NodeHolds(r, e, node)
<1> DEFINE c(k) == Check(<<"input resolves", node.id, node.inputs[k]>>,
                         HasNode(r, node.inputs[k]))
           edges == {c(k) : k \in DOMAIN node.inputs}
<1>1. ASSUME NEW k PROVE c(k).passed <=> HasNode(r, node.inputs[k])
  BY Zenon DEF Check, HasNode
<1> HIDE DEF c
<1>2. (\A x \in edges : x.passed)
        <=> \A k \in DOMAIN node.inputs : HasNode(r, node.inputs[k])
  BY <1>1, Zenon
<1>3. NodeChecks(r, e, node) = edges \cup
         (IF IsLeg(node) THEN LegChecks(e, node) ELSE InteriorChecks(e, node))
  BY Zenon DEF NodeChecks, c
<1> HIDE DEF edges
<1>4. (\A x \in NodeChecks(r, e, node) : x.passed) <=>
        /\ \A x \in edges : x.passed
        /\ IF IsLeg(node) THEN \A x \in LegChecks(e, node) : x.passed
                          ELSE \A x \in InteriorChecks(e, node) : x.passed
  BY <1>3
<1> QED
  BY <1>2, <1>4, LegChecksDecide, InteriorChecksDecide, Zenon DEF NodeHolds

\* A check made from a Boolean records one.
LEMMA CheckBoolean ==
    ASSUME NEW n, NEW b \in BOOLEAN PROVE Check(n, b).passed \in BOOLEAN
  BY DEF Check

\* Every check verify() pushes is a Boolean.
LEMMA ChecksBoolean ==
    ASSUME NEW r, NEW e
    PROVE  /\ \A c \in BindingChecks(r, e) : c.passed \in BOOLEAN
           /\ \A node : \A c \in NodeChecks(r, e, node) : c.passed \in BOOLEAN
<1>1. \A c \in BindingChecks(r, e) : \E n : \E b \in BOOLEAN : c = Check(n, b)
  BY Zenon DEF BindingChecks
<1>2. ASSUME NEW node
      PROVE  \A c \in NodeChecks(r, e, node) : \E n : \E b \in BOOLEAN : c = Check(n, b)
  <2>1. \A c \in LegChecks(e, node) : \E n : \E b \in BOOLEAN : c = Check(n, b)
    <3> DEFINE att == node.proof.att
               b1 == VerifyProof(att) = "Ok"
               b2 == att.claim.host \in e.manifest.hosts
               b3 == node.output_digest = att.claim.response_digest
               b4 == NotaryPubkey(att) = e.notary_pubkey[1]
    <3>1. b1 \in BOOLEAN /\ b2 \in BOOLEAN /\ b3 \in BOOLEAN /\ b4 \in BOOLEAN
      BY SMT
    <3>2. LegChecks(e, node) \subseteq
                {Check(<<"leg proof valid", node.id>>, b1),
                 Check(<<"host allowed", node.id>>, b2),
                 Check(<<"output == leg response", node.id>>, b3),
                 Check(<<"notary key matches pinned", node.id>>, b4)}
      BY Zenon DEF LegChecks
    <3> HIDE DEF b1, b2, b3, b4
    <3> QED
      BY <3>1, <3>2, Zenon
  <2>2. \A c \in InteriorChecks(e, node) : \E n : \E b \in BOOLEAN : c = Check(n, b)
    BY Zenon DEF InteriorChecks
  <2>3. \A id : HasNode(r, id) \in BOOLEAN
    BY Zenon DEF HasNode
  <2> DEFINE edges == {Check(<<"input resolves", node.id, node.inputs[k]>>,
                             HasNode(r, node.inputs[k])) : k \in DOMAIN node.inputs}
  <2>4. \A c \in edges : \E n : \E b \in BOOLEAN : c = Check(n, b)
    BY <2>3, Zenon
  <2>5. NodeChecks(r, e, node)
            \subseteq edges \cup LegChecks(e, node) \cup InteriorChecks(e, node)
    BY Zenon DEF NodeChecks
  <2> HIDE DEF edges
  <2> QED
    BY <2>1, <2>2, <2>4, <2>5, Zenon
<1> QED
  BY <1>1, <1>2, CheckBoolean

\* A walk that has emptied its stack has visited exactly the ancestors.
LEMMA WalkComplete ==
    ASSUME TypeOK, WalkInv, pc = "walk"
    PROVE  /\ seen \cup Range(stack) \subseteq Ancestors(receipt)
           /\ stack = << >> => /\ seen = Ancestors(receipt)
                               /\ legs = LegsOf(receipt, Ancestors(receipt))
<1>1. seen \cup Range(stack) \subseteq Ancestors(receipt)
  BY DEF WalkInv, Ancestors
<1>2. ASSUME stack = << >> PROVE seen = Ancestors(receipt)
  <2>1. Range(stack) = {}
    BY <1>2 DEF Range
  <2>2. Closed(receipt, seen) /\ seen \in SUBSET Mentioned(receipt)
    BY <2>1 DEF WalkInv, Closed
  <2>3. Ancestors(receipt) \subseteq seen
    BY <2>2 DEF Ancestors
  <2> QED
    BY <1>1, <2>3
<1> QED
  BY <1>1, <1>2 DEF WalkInv
-----------------------------------------------------------------------------

\* The invariant holds when verify() is entered.
LEMMA InitInv == Init => IndInv
<1> SUFFICES ASSUME Init PROVE IndInv
  OBVIOUS
<1>1. TypeOK
  <2>1. Len(receipt.nodes) \in Nat
    BY ReceiptsAssumption DEF Init
  <2> QED
    BY <2>1 DEF Init, TypeOK
<1> QED
  BY <1>1 DEF Init, IndInv, ControlInv, WalkInv, CheckedSoFar

\* Pushing the bindings and calling leg_ancestors.
LEMMA CheckBindingsInv == IndInv /\ CheckBindings => IndInv'
<1> SUFFICES ASSUME IndInv, CheckBindings PROVE IndInv'
  OBVIOUS
<1>1. receipt \in Receipts /\ receipt.output_node \in NodeIds
  BY ReceiptsAssumption DEF IndInv, TypeOK
<1>2. TypeOK'
  <2>1. stack' \in Seq(NodeIds) /\ pc' \in {"walk", "nodes"}
    <3>1. <<receipt.output_node>> \in Seq(NodeIds) /\ stack \in Seq(NodeIds)
      BY <1>1 DEF IndInv, TypeOK
    <3>2. \/ pc' = "walk" /\ stack' = <<receipt.output_node>>
          \/ pc' = "nodes" /\ stack' = stack
      BY DEF CheckBindings
    <3> QED
      BY <3>1, <3>2
  <2>2. \A c \in checks' : c.passed \in BOOLEAN
    BY ChecksBoolean DEF CheckBindings
  <2>3. /\ receipt' = receipt /\ expect' = expect /\ seen' = seen /\ next' = next
    BY DEF CheckBindings
  <2> QED
    BY <2>1, <2>2, <2>3 DEF IndInv, TypeOK
<1>3. ControlInv'
  BY DEF IndInv, ControlInv, CheckBindings
<1>4. AllPassed' <=> BindingsHold(receipt, expect)
  BY BindingChecksDecide DEF CheckBindings, AllPassed
<1>5. next' = 1 /\ receipt' = receipt /\ expect' = expect
  BY DEF IndInv, ControlInv, CheckBindings
<1>6. CASE expect.served_request_digest # None
  <2>1. pc' = "walk" /\ stack' = <<receipt.output_node>>
    BY <1>6 DEF CheckBindings
  <2>2. seen' = {} /\ legs' = {}
    BY DEF IndInv, ControlInv, CheckBindings
  <2>3. Range(stack') = {receipt.output_node}
    BY <2>1 DEF Range
  <2>4. LegsOf(receipt, {}) = {}
    BY DEF LegsOf
  <2>5. receipt.output_node \in Mentioned(receipt)
    BY DEF Mentioned
  <2>6. WalkInv'
    BY <1>5, <2>2, <2>3, <2>4, <2>5 DEF WalkInv, Closed
  <2>7. CheckedSoFar'
    BY <1>4, <1>5, <2>1 DEF CheckedSoFar
  <2> QED
    BY <1>2, <1>3, <2>6, <2>7 DEF IndInv
<1>7. CASE expect.served_request_digest = None
  <2>1. pc' = "nodes"
    BY <1>7 DEF CheckBindings
  <2>2. RequestBound(receipt, expect)
    BY <1>7 DEF RequestBound
  <2>3. \A i \in 1 .. next' - 1 : NodeHolds(receipt, expect, receipt.nodes[i])
    BY <1>5
  <2>4. CheckedSoFar'
    BY <1>4, <1>5, <2>1, <2>2, <2>3 DEF CheckedSoFar
  <2>5. WalkInv'
    BY <2>1 DEF WalkInv
  <2> QED
    BY <1>2, <1>3, <2>4, <2>5 DEF IndInv
<1> QED
  BY <1>6, <1>7

\* One turn of the walk: an unseen interior id trades its place on the stack
\* for its inputs, any other id leaves the stack, and the visited ids stay
\* closed up to what is pending.
LEMMA VisitInv == IndInv /\ Visit => IndInv'
<1> SUFFICES ASSUME IndInv, Visit PROVE IndInv'
  OBVIOUS
<1> DEFINE pending == seen \cup Range(stack)
<1>1. /\ pc = "walk" /\ pc' = "walk" /\ stack # << >>
      /\ receipt' = receipt /\ expect' = expect /\ next' = next
      /\ checks' = checks /\ seen' = seen \cup {Top}
  BY DEF Visit
<1>2. /\ TypeOK /\ receipt \in Receipts /\ stack \in Seq(NodeIds)
      /\ seen \subseteq NodeIds
  BY DEF IndInv, TypeOK
<1>3. /\ Popped \in Seq(NodeIds) /\ Top \in NodeIds
      /\ Range(stack) = Range(Popped) \cup {Top}
  BY <1>1, <1>2, PoppedRange
<1>4. /\ pending \subseteq Mentioned(receipt)
      /\ \A S \in SUBSET Mentioned(receipt) :
              Closed(receipt, S) => pending \subseteq S
      /\ receipt.output_node \in pending
      /\ \A id \in seen : Expands(receipt, id) =>
              Range(NodeOf(receipt, id).inputs) \subseteq pending
      /\ legs = LegsOf(receipt, seen)
  BY <1>1 DEF IndInv, WalkInv
<1>5. ControlInv' /\ CheckedSoFar'
  BY <1>1 DEF IndInv, ControlInv, CheckedSoFar, AllPassed
<1>6. legs' = LegsOf(receipt, seen')
  <2>1. LegsOf(receipt, seen \cup {Top})
            = LegsOf(receipt, seen) \cup LegsOf(receipt, {Top})
    BY Zenon DEF LegsOf
  <2>2. Top \in seen => seen \cup {Top} = seen
    OBVIOUS
  <2>3. IF Top \notin seen THEN legs' = legs \cup LegsOf(receipt, {Top})
                           ELSE legs' = legs
    BY DEF Visit
  <2> QED
    BY <1>1, <1>4, <2>1, <2>2, <2>3
<1>7. CASE Top \notin seen /\ Expands(receipt, Top)
  <2> DEFINE inputs == NodeOf(receipt, Top).inputs
  <2>1. inputs \in Seq(NodeIds) /\ Range(inputs) \subseteq Mentioned(receipt)
    BY <1>2, <1>7, InputsMentioned DEF Expands
  <2>2. stack' = Popped \o inputs
    BY <1>7 DEF Visit
  <2> HIDE DEF inputs
  <2>3. stack' \in Seq(NodeIds) /\ Range(stack') = Range(Popped) \cup Range(inputs)
    BY <1>3, <2>1, <2>2, RangeConcatenation
  <2>4. (seen \cup Range(stack))' = pending \cup Range(inputs)
    BY <1>1, <1>3, <2>3
  <2>5. ASSUME NEW S \in SUBSET Mentioned(receipt), Closed(receipt, S)
        PROVE  Range(inputs) \subseteq S
    <3>1. Top \in S
      BY <1>3, <1>4, <2>5
    <3> QED
      BY <1>7, <2>5, <3>1 DEF Closed, inputs
  <2>6. \A id \in seen' : Expands(receipt, id) =>
            Range(NodeOf(receipt, id).inputs) \subseteq pending \cup Range(inputs)
    BY <1>1, <1>4 DEF inputs
  <2>7. WalkInv'
    <3> HIDE DEF pending
    <3> QED
      BY <1>1, <1>4, <1>6, <2>1, <2>4, <2>5, <2>6 DEF WalkInv
  <2>8. TypeOK'
    BY <1>1, <1>2, <1>3, <2>3 DEF TypeOK
  <2> QED
    BY <1>5, <2>7, <2>8 DEF IndInv
<1>8. CASE ~(Top \notin seen /\ Expands(receipt, Top))
  <2>1. stack' = Popped
    BY <1>8 DEF Visit
  <2>2. (seen \cup Range(stack))' = pending
    BY <1>1, <1>3, <2>1
  <2>3. \A id \in seen' : Expands(receipt, id) =>
            Range(NodeOf(receipt, id).inputs) \subseteq pending
    BY <1>1, <1>4, <1>8
  <2>4. WalkInv'
    <3> HIDE DEF pending
    <3> QED
      BY <1>1, <1>4, <1>6, <2>2, <2>3 DEF WalkInv
  <2>5. TypeOK'
    BY <1>1, <1>2, <1>3, <2>1 DEF TypeOK
  <2> QED
    BY <1>5, <2>4, <2>5 DEF IndInv
<1> QED
  BY <1>7, <1>8

\* The walk is over: the legs it collected are those of the ancestors, so the
\* check it pushes is the request binding of the gate.
LEMMA BindRequestInv == IndInv /\ BindRequest => IndInv'
<1> SUFFICES ASSUME IndInv, BindRequest PROVE IndInv'
  OBVIOUS
<1> DEFINE bound == Answers(legs, expect.served_request_digest[1])
           c == Check(<<"output answers the buyer's request">>, bound)
<1>1. /\ pc = "walk" /\ pc' = "nodes" /\ stack = << >>
      /\ receipt' = receipt /\ expect' = expect /\ next' = next
      /\ stack' = stack /\ seen' = seen /\ checks' = checks \cup {c}
  BY DEF BindRequest
<1>2. /\ next = 1 /\ expect.served_request_digest # None
      /\ TypeOK /\ WalkInv
      /\ AllPassed <=> BindingsHold(receipt, expect)
  BY <1>1 DEF IndInv, ControlInv, CheckedSoFar
<1>3. legs = LegsOf(receipt, Ancestors(receipt))
  BY <1>1, <1>2, WalkComplete
<1>4. bound <=> RequestBound(receipt, expect)
  BY <1>2, <1>3 DEF RequestBound
<1>5. bound \in BOOLEAN
  BY DEF Answers
<1>6. (c.passed <=> bound) /\ c.passed \in BOOLEAN
  <2> HIDE DEF bound
  <2> QED
    BY <1>5 DEF Check
<1> HIDE DEF c, bound
<1>7. AllPassed' <=> AllPassed /\ c.passed
  BY <1>1 DEF AllPassed
<1>8. \A i \in 1 .. next' - 1 : NodeHolds(receipt, expect, receipt.nodes[i])
  BY <1>1, <1>2
<1>9. CheckedSoFar'
  BY <1>1, <1>2, <1>4, <1>6, <1>7, <1>8 DEF CheckedSoFar
<1>10. TypeOK'
  BY <1>1, <1>2, <1>6 DEF TypeOK
<1> QED
  BY <1>1, <1>9, <1>10 DEF IndInv, ControlInv, WalkInv

\* One turn of the final loop adds one node to the conjunction.
LEMMA CheckNodeInv == IndInv /\ CheckNode => IndInv'
<1> SUFFICES ASSUME IndInv, CheckNode PROVE IndInv'
  OBVIOUS
<1> DEFINE pushed == NodeChecks(receipt, expect, receipt.nodes[next])
           before == /\ BindingsHold(receipt, expect)
                     /\ RequestBound(receipt, expect)
<1>1. /\ pc = "nodes" /\ pc' = "nodes" /\ next' = next + 1
      /\ receipt' = receipt /\ expect' = expect
      /\ stack' = stack /\ seen' = seen
      /\ checks' = checks \cup pushed /\ next <= Len(receipt.nodes)
  BY DEF CheckNode
<1>2. /\ TypeOK /\ next \in 1 .. Len(receipt.nodes) + 1
      /\ Len(receipt.nodes) \in Nat
  BY ReceiptsAssumption DEF IndInv, TypeOK
<1>3. AllPassed <=> /\ before
                    /\ \A i \in 1 .. next - 1 :
                            NodeHolds(receipt, expect, receipt.nodes[i])
  BY <1>1 DEF IndInv, CheckedSoFar
<1>4. (\A c \in pushed : c.passed)
        <=> NodeHolds(receipt, expect, receipt.nodes[next])
  BY NodeChecksDecide
<1>5. \A c \in pushed : c.passed \in BOOLEAN
  BY ChecksBoolean
<1> HIDE DEF pushed, before
<1>6. AllPassed' <=> AllPassed /\ \A c \in pushed : c.passed
  BY <1>1 DEF AllPassed
<1>7. \A i : i \in 1 .. next' - 1 <=> i \in 1 .. next - 1 \/ i = next
  BY <1>1, <1>2
<1>8. AllPassed' <=> /\ before
                     /\ \A i \in 1 .. next' - 1 :
                            NodeHolds(receipt, expect, receipt.nodes[i])
  BY <1>3, <1>4, <1>6, <1>7, Zenon
<1>9. CheckedSoFar'
  BY <1>1, <1>8 DEF CheckedSoFar, before
<1>10. TypeOK'
  BY <1>1, <1>2, <1>5 DEF TypeOK
<1> QED
  BY <1>1, <1>9, <1>10 DEF IndInv, ControlInv, WalkInv

\* At the end of the loop every node has been checked.
LEMMA ReturnInv == IndInv /\ Return => IndInv'
<1> SUFFICES ASSUME IndInv, Return PROVE IndInv'
  OBVIOUS
<1>1. /\ pc = "nodes" /\ pc' = "done" /\ next > Len(receipt.nodes)
      /\ receipt' = receipt /\ expect' = expect /\ next' = next
      /\ stack' = stack /\ seen' = seen /\ checks' = checks
  BY DEF Return
<1>2. /\ TypeOK /\ next \in 1 .. Len(receipt.nodes) + 1
      /\ Len(receipt.nodes) \in Nat
      /\ DOMAIN receipt.nodes = 1 .. Len(receipt.nodes)
  BY ReceiptsAssumption DEF IndInv, TypeOK
<1>3. next - 1 = Len(receipt.nodes)
  BY <1>1, <1>2
<1>4. AllPassed <=> GatePasses(receipt, expect)
  BY <1>1, <1>2, <1>3 DEF IndInv, CheckedSoFar, GatePasses
<1>5. CheckedSoFar'
  BY <1>1, <1>4 DEF CheckedSoFar, AllPassed
<1>6. TypeOK'
  BY <1>1, <1>2 DEF TypeOK
<1> QED
  BY <1>1, <1>5, <1>6 DEF IndInv, ControlInv, WalkInv

\* The invariant is inductive.
LEMMA NextInv == IndInv /\ [Next]_vars => IndInv'
<1>1. IndInv /\ UNCHANGED vars => IndInv'
  BY DEF vars, IndInv, TypeOK, ControlInv, WalkInv, CheckedSoFar, AllPassed
<1> QED
  BY <1>1, CheckBindingsInv, VisitInv, BindRequestInv, CheckNodeInv, ReturnInv
     DEF Next, Returned

\* verify() stays within its inputs: the stack and the visited ids are ids of
\* the receipt and the node index never runs past the end of the list.
THEOREM VerifierTypeOK == Spec => []TypeOK
<1>1. IndInv => TypeOK
  BY DEF IndInv
<1> QED
  BY InitInv, NextInv, <1>1, PTL DEF Spec

\* For every receipt and expectation the checks verify() returns all pass if
\* and only if the closed-form gate holds.
THEOREM VerifyCorrect == Spec => []VerifyDecidesGate
<1>1. IndInv => VerifyDecidesGate
  BY DEF IndInv, CheckedSoFar, VerifyDecidesGate
<1> QED
  BY InitInv, NextInv, <1>1, PTL DEF Spec

\* On every graph, cyclic or not, leg_ancestors visits only ancestors of the
\* sold output and ends with every leg among them.
THEOREM WalkCorrect == Spec => []WalkFindsAncestors
<1>1. IndInv => WalkFindsAncestors
  BY WalkComplete DEF IndInv, WalkFindsAncestors
<1> QED
  BY InitInv, NextInv, <1>1, PTL DEF Spec
=============================================================================
