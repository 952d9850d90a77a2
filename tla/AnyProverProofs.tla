-------------------------- MODULE AnyProverProofs --------------------------
(***************************************************************************)
(* The notary signs only what it witnessed, for every set of provers, every *)
(* request and reply, every configuration it may be restarted with.         *)
(***************************************************************************)
EXTENDS AnyProver, NotaryProofs, BytesProofs

\* What the prover disclosed of its request: each byte as it crossed, or blank.
Masks(some, sent) ==
    \E blank \in SUBSET DOMAIN sent :
        some = [i \in DOMAIN sent |-> IF i \in blank THEN "NUL" ELSE sent[i]]

\* What the prover disclosed are bytes that crossed, and what the session holds
\* is what the prover disclosed, identity included.
ShownInv(p) ==
    /\ tls[p].stage \in {"requested", "replied"} => tls[p].sent[1] \in Requests
    /\ link[p].stage = "disclosed" =>
            /\ shown[p] = Some(link[p])
            /\ Masks(link[p].sent, tls[p].sent[1])
    /\ session[p].pc \in {"accepted", "signed"} =>
            /\ shown[p] = Some(shown[p][1]) /\ shown[p][1].identity
            /\ Masks(shown[p][1].sent, tls[p].sent[1])
            /\ session[p].host = Some(shown[p][1].host)
            /\ session[p].sent = Some(shown[p][1].sent)
            /\ session[p].received = Some(shown[p][1].received)

Inv == /\ NotaryInv /\ DOMAIN shown = Purchases
       /\ \A p \in Purchases : ShownInv(p)
-----------------------------------------------------------------------------

\* A purchase that a step leaves alone stays as it was shown.
LEMMA ShownFrame ==
    ASSUME NEW q, ShownInv(q), UNCHANGED <<link[q], tls[q], session[q], shown[q]>>
    PROVE  ShownInv(q)'
BY DEF ShownInv

\* A step at p that keeps p's part of the invariant keeps the invariant.
LEMMA LocalStep ==
    ASSUME NEW p \in Purchases, Inv, OnlyAt(p), DOMAIN shown' = Purchases,
           \A q \in Purchases \ {p} : UNCHANGED shown[q],
           SessionInv(p)', ShownInv(p)'
    PROVE  Inv'
<1>1. ASSUME NEW q \in Purchases, q # p PROVE ShownInv(q)'
  BY <1>1, ShownFrame DEF Inv, OnlyAt
<1> QED
  BY <1>1, OnlyAtSuffices DEF Inv

\* The provers.
LEMMA ProverInv ==
    ASSUME NEW p \in Purchases, Inv,
           ProverCommits(p) \/ ProverRequests(p) \/ ProverDiscloses(p)
    PROVE  Inv'
<1> USE DEF Inv, NotaryInv
<1>1. SessionInv(p) /\ ShownInv(p)
  OBVIOUS
<1>2. CASE ProverCommits(p)
  <2>1. PICK mode \in {"proxy", "mpc"}, host \in Hosts :
            link' = [link EXCEPT ![p] = Commit(mode, host)]
    BY <1>2 DEF ProverCommits, SetLink
  <2>2. link[p] = NoLink /\ UNCHANGED <<env, cfg, tls, session, shown>>
    BY <1>2 DEF ProverCommits, processVars
  <2>3. OnlyAt(p)
    BY <2>1, <2>2 DEF OnlyAt
  <2>4. SessionInv(p)' /\ ShownInv(p)'
    BY <1>1, <2>1, <2>2 DEF SessionInv, Paired, Dialled, Authenticated, Witnessed,
       ShownInv, NoLink, Commit
  <2> QED
    BY <2>2, <2>3, <2>4, LocalStep
<1>3. CASE ProverRequests(p)
  <2>1. PICK request \in Requests :
            tls' = [tls EXCEPT ![p].stage = "requested", ![p].sent = Some(request)]
    BY <1>3 DEF ProverRequests, SendTls
  <2>2. /\ link[p].stage = "proxying" /\ tls[p].stage = "open"
        /\ link[p].host \in env.certificate
        /\ UNCHANGED <<env, cfg, link, session, shown>>
    BY <1>3 DEF ProverRequests, processVars
  <2>3. OnlyAt(p)
    BY <2>1, <2>2 DEF OnlyAt
  <2>4. TlsShape(tls[p])'
    BY <1>1, <2>1, <2>2 DEF SessionInv, TlsShape, Some
  <2>5. /\ tls'[p].stage = "requested" /\ tls'[p].host = tls[p].host
        /\ tls'[p].sent[1] \in Requests
    BY <1>1, <2>1, <2>2 DEF SessionInv, TlsShape, Some
  <2>6. SessionInv(p)' /\ ShownInv(p)'
    BY <1>1, <2>2, <2>4, <2>5 DEF SessionInv, Paired, Dialled, Authenticated,
       Witnessed, ShownInv
  <2> QED
    BY <2>2, <2>3, <2>6, LocalStep
<1>4. CASE ProverDiscloses(p)
  <2>1. PICK identity \in BOOLEAN, blank \in SUBSET DOMAIN tls[p].sent[1],
             hidden \in SUBSET Parts :
            \E d \in {Disclosed(link[p].host, identity,
                                [i \in DOMAIN tls[p].sent[1] |->
                                    IF i \in blank THEN "NUL" ELSE tls[p].sent[1][i]],
                                View(tls[p].reply[1], hidden))} :
                /\ link' = [link EXCEPT ![p] = d]
                /\ shown' = [shown EXCEPT ![p] = Some(d)]
    BY <1>4 DEF ProverDiscloses, SetLink
  <2>2. /\ link[p].stage = "proxying" /\ tls[p].stage = "replied"
        /\ UNCHANGED <<env, cfg, tls, session>>
    BY <1>4 DEF ProverDiscloses, processVars
  <2>3. OnlyAt(p) /\ DOMAIN shown' = Purchases
        /\ \A q \in Purchases \ {p} : UNCHANGED shown[q]
    BY <2>1, <2>2 DEF OnlyAt
  <2> DEFINE some == [i \in DOMAIN tls[p].sent[1] |->
                            IF i \in blank THEN "NUL" ELSE tls[p].sent[1][i]]
             view == View(tls[p].reply[1], hidden)
  <2>5. link'[p] = Disclosed(link[p].host, identity, some, view)
        /\ shown'[p] = Some(link'[p])
    BY <2>1
  <2>6. Masks(some, tls[p].sent[1]) /\ IsView(view, tls[p])
    BY DEF Masks, IsView, View
  <2> HIDE DEF some, view
  <2>4. SessionInv(p)' /\ ShownInv(p)'
    BY <1>1, <2>2, <2>5, <2>6 DEF SessionInv, Paired, Dialled, Authenticated, Witnessed,
       ShownInv, Disclosed
  <2> QED
    BY <2>3, <2>4, LocalStep
<1> QED
  BY <1>2, <1>3, <1>4

\* The notary takes over what it was shown, once the identity is among it.
LEMMA NotarizingInv ==
    ASSUME NEW p \in Purchases, Inv, Notarizing(p)
    PROVE  Inv'
<1>1. NotaryInv /\ SessionInv(p) /\ ShownInv(p) /\ NotaryStep(p) /\ UNCHANGED shown
  BY DEF Inv, NotaryInv, Notarizing
<1>2. NotaryInv' /\ OnlyAt(p)
  BY <1>1, NotaryStepInv, SessionActionsAreLocal
<1>3. ShownInv(p)'
  <2> USE DEF NotaryInv, SetLink, SessionFails, SessionInv, SessionShape, Paired, Broken
  <2>1. CASE AcceptCommit(p)
    BY <1>1, <2>1 DEF AcceptCommit, ShownInv, Proxying, Open
  <2>2. CASE AcceptDisclosure(p)
    BY <1>1, <2>2 DEF AcceptDisclosure, ServerIdentity, ShownInv, Closing, Some
  <2>3. CASE SessionBreaks(p)
    BY <1>1, <2>3 DEF SessionBreaks, ShownInv
  <2>4. CASE SignClaim(p)
    BY <1>1, <2>4 DEF SignClaim, Written, ShownInv, EndOfFile
  <2> QED
    BY <1>1, <2>1, <2>2, <2>3, <2>4 DEF NotaryStep
<1> QED
  BY <1>1, <1>2, <1>3, LocalStep DEF Inv, NotaryInv

\* The upstream, the network, the notary's being started and stopped.
LEMMA SurroundingsInv ==
    ASSUME Inv, UNCHANGED shown,
           \/ \E p \in Purchases : Environment(p)
           \/ Listen \/ NotaryStops
    PROVE  Inv'
<1>1. CASE \E p \in Purchases : Environment(p)
  <2>1. PICK p \in Purchases : Environment(p)
    BY <1>1
  <2>2. NotaryInv' /\ OnlyAt(p)
    BY <2>1, EnvironmentInv, SessionActionsAreLocal DEF Environment, Inv
  <2>3. ShownInv(p)'
    BY <2>1 DEF Environment, UpstreamReply, UpstreamHangup, LinkFails, SetLink, Broken,
       Inv, NotaryInv, SessionInv, TlsShape, Paired, Witnessed, Authenticated, ShownInv
  <2> QED
    BY <2>2, <2>3, LocalStep DEF Inv, NotaryInv
<1>2. CASE Listen
  <2>1. NotaryInv' /\ UNCHANGED <<link, tls, session>>
    BY <1>2, ListenInv DEF Inv, Listen
  <2> QED
    BY <2>1, ShownFrame DEF Inv
<1>3. CASE NotaryStops
  <2>1. NotaryInv'
    BY <1>3, NotaryStopsInv DEF Inv
  <2>2. ASSUME NEW q \in Purchases PROVE ShownInv(q)'
    BY <1>3 DEF NotaryStops, CutLinks, Up, Broken, Inv, NotaryInv, SessionInv,
       SessionShape, Paired, Witnessed, ShownInv
  <2> QED
    BY <2>1, <2>2 DEF Inv
<1> QED
  BY <1>1, <1>2, <1>3
-----------------------------------------------------------------------------

\* The claim is over what the session holds: bytes that were not disclosed are
\* zeros, the others are the bytes that crossed.
LEMMA InvImpliesWitnessed == Inv => SignsOnlyWitnessed
<1> SUFFICES ASSUME Inv, NEW p \in Purchases, session[p].signed # None
             PROVE  SignsOnlyWitnessed!(p)!2
  BY DEF SignsOnlyWitnessed
<1> DEFINE s == session[p]
           d == shown[p][1]
           view == d.received
           claim == s.signed[1].claim
           sent == tls[p].sent[1]
           reply == tls[p].reply[1]
           off(bytes) == LegClaim(d.host, RequestLine(bytes),
                                  Sha256(DecodedRequest(bytes)), claim.response_digest,
                                  claim.response_status, tls[p].opened)
<1>1. s.pc = "signed" /\ SessionInv(p) /\ ShownInv(p)
  BY DEF Inv, NotaryInv, SessionInv, Witnessed
<1>2. /\ tls[p].stage = "replied" /\ s.time = Some(tls[p].opened)
      /\ s.host[1] = tls[p].host /\ s.host[1] \in env.certificate
      /\ Revealed(s.sent[1], s.received[1]) /\ IsView(s.received[1], tls[p])
      /\ claim = WitnessedClaim(s)
  BY <1>1 DEF SessionInv, Witnessed
<1>3. /\ shown[p] = Some(d) /\ d.identity
      /\ s.host = Some(d.host) /\ s.sent = Some(d.sent) /\ s.received = Some(view)
      /\ Masks(d.sent, sent)
  BY <1>1 DEF ShownInv
<1>4. claim = LegClaim(d.host, RequestLine(d.sent), Sha256(DecodedRequest(d.sent)),
                       Sha256(DecodedResponse(view)), StatusCode(view), tls[p].opened)
  BY <1>2, <1>3 DEF WitnessedClaim, Some
<1>5. /\ claim.response_digest = Sha256(DecodedResponse(view))
      /\ claim.response_status = StatusCode(view)
  BY <1>4 DEF LegClaim
<1>6. (\A i \in DOMAIN sent : d.sent[i] # "NUL") => d.sent = sent
  <2>1. PICK blank \in SUBSET DOMAIN sent :
            d.sent = [i \in DOMAIN sent |-> IF i \in blank THEN "NUL" ELSE sent[i]]
    BY <1>3 DEF Masks
  <2>2. sent = [i \in DOMAIN sent |-> sent[i]]
    <3>1. sent \in Seq(Range(sent))
      BY <1>1, <1>2, RequestsAssumption DEF ShownInv
    <3> HIDE DEF sent
    <3> QED
      BY <3>1
  <2> HIDE DEF sent
  <2> QED
    BY <2>1, <2>2
<1>7. view.reply = reply /\ (~reply.interim =>
        /\ {"blank line", "body"} \cap view.hidden = {}
           /\ (reply.chunked => "encoding" \notin view.hidden) =>
                DecodedResponse(view) = reply.body
        /\ "status" \notin view.hidden => StatusCode(view) = reply.status)
  <2>1. view = View(reply, view.hidden)
    BY <1>2, <1>3 DEF IsView, Some
  <2> HIDE DEF view, reply
  <2>2. view.reply = reply
    BY <2>1 DEF View
  <2>3. ASSUME ~reply.interim, {"blank line", "body"} \cap view.hidden = {},
               reply.chunked => "encoding" \notin view.hidden
        PROVE  DecodedResponse(view) = reply.body
    <3>1. "blank line" \notin view.hidden /\ "body" \notin view.hidden
      BY <2>3
    <3> QED
      BY <2>2, <2>3, <3>1 DEF DecodedResponse, ShownBody
  <2> QED
    BY <2>2, <2>3 DEF StatusCode
<1>8. /\ shown[p] # None /\ d.host = tls[p].host /\ d.host \in env.certificate
      /\ Revealed(d.sent, view)
  BY <1>2, <1>3 DEF Some, None
<1> HIDE DEF s, d, view, claim, sent, reply
<1>9. claim = off(d.sent)
  BY <1>4, <1>5
<1> HIDE DEF off
<1>10. (\A i \in DOMAIN sent : d.sent[i] # "NUL") => claim = off(sent)
  BY <1>6, <1>9
<1>11. ASSUME ~reply.interim
       PROVE  /\ ({"blank line", "body"} \cup IF reply.chunked THEN {"encoding"} ELSE {})
                        \cap view.hidden = {} =>
                    claim.response_digest = Sha256(reply.body)
              /\ "status" \notin view.hidden => claim.response_status = reply.status
  BY <1>5, <1>7, <1>11
<1> QED
  BY <1>3, <1>8, <1>9, <1>10, <1>11 DEF s, d, view, claim, sent, reply, off

\* Whatever ranges its provers disclose, and however it is restarted, the notary
\* signs only what it witnessed: the bytes disclosed, with zeros for the others.
THEOREM AnyProverSafe == Spec => []SignsOnlyWitnessed
<1>1. Init => Inv
  BY NotaryInitInv DEF Init, Inv, ShownInv, WorldInit, NotaryInit, SessionAt, NoLink, NoTls
<1>2. Inv /\ [Next]_vars => Inv'
  <2> SUFFICES ASSUME Inv, [Next]_vars PROVE Inv'
    OBVIOUS
  <2>1. ASSUME NEW p \in Purchases,
               ProverCommits(p) \/ ProverRequests(p) \/ ProverDiscloses(p)
        PROVE  Inv'
    BY <2>1, ProverInv
  <2>2. ASSUME NEW p \in Purchases, Notarizing(p) PROVE Inv'
    BY <2>2, NotarizingInv
  <2>3. ASSUME NEW p \in Purchases, Environment(p) PROVE Inv'
    BY <2>3, SurroundingsInv DEF Environment
  <2>4. CASE (Listen \/ NotaryStops) /\ UNCHANGED shown
    BY <2>4, SurroundingsInv
  <2>5. CASE UNCHANGED vars
    <3>1. UNCHANGED <<env, cfg, link, tls, session, shown>>
      BY <2>5 DEF vars, worldVars, processVars
    <3> QED
      BY <3>1, SessionFrame, ShownFrame DEF Inv, NotaryInv
  <2> QED
    BY <2>1, <2>2, <2>3, <2>4, <2>5 DEF Next, SessionsOver
<1> QED
  BY <1>1, <1>2, InvImpliesWitnessed, PTL DEF Spec
=============================================================================
