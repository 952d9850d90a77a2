---------------------------- MODULE NotaryProofs ----------------------------
(***************************************************************************)
(* What the notary's sessions keep true, whoever the prover is: the stages *)
(* of a session, its link and its upstream connection go together, a live  *)
(* session belongs to the configuration that dialled its upstream, and     *)
(* what is signed is the claim over what the session was shown.  The       *)
(* proofs about AnyProver and about Provably both rest on it.              *)
(***************************************************************************)
EXTENDS Notary, TLAPS

\* The fields a connection that was opened, and a session, have.
TlsShape(t) ==
    /\ t.stage \in {"none", "open", "requested", "replied", "closed"}
    /\ t.stage # "none" =>
            t = [stage |-> t.stage, host |-> t.host, opened |-> t.opened,
                 sent |-> t.sent, reply |-> t.reply]
    /\ t.stage \in {"requested", "replied"} => t.sent = Some(t.sent[1])
    /\ t.stage = "replied" => t.reply = Some(t.reply[1]) /\ t.reply[1] \in Replies

SessionShape(s) ==
    s = [pc |-> s.pc, host |-> s.host, sent |-> s.sent, received |-> s.received,
         time |-> s.time, signed |-> s.signed]

\* What a prover discloses of the reply is a view of the one that crossed.
IsView(view, t) == view = View(t.reply[1], view.hidden)

\* The stages of a session, its link and its upstream connection.
Paired(p) ==
    /\ session[p].pc \in {"listening", "proxying", "accepted", "signed", "failed"}
    /\ session[p].pc = "listening" =>
            link[p].stage \in {"none", "commit", "broken"} /\ tls[p].stage = "none"
    /\ session[p].pc = "proxying" =>
            link[p].stage \in {"proxying", "disclosed", "broken"}
    /\ session[p].pc = "accepted" => link[p].stage \in {"closing", "broken"}
    /\ session[p].pc \in {"signed", "failed"} => link[p].stage \in {"eof", "broken"}
    /\ link[p].stage = "none" => link[p] = NoLink

\* A live session's upstream was dialled under the configuration in force: a
\* restart with another ends it.
Dialled(p) ==
    session[p].pc \in {"proxying", "accepted"} =>
        /\ cfg # None
        /\ tls[p].stage # "none" /\ tls[p].host = cfg[1].upstream_host

\* tlsn: a request only crosses under a name of the certificate, and the
\* response disclosed is the one that crossed.
Authenticated(p) ==
    /\ link[p].stage = "proxying" /\ tls[p].stage \in {"requested", "replied"} =>
            link[p].host \in env.certificate
    /\ link[p].stage = "disclosed" =>
            /\ tls[p].stage = "replied" /\ link[p].host \in env.certificate
            /\ IsView(link[p].received, tls[p])

\* What a session has accepted, and what it has signed.
Witnessed(p) ==
    /\ session[p].pc \in {"accepted", "signed"} =>
            /\ tls[p].stage = "replied"
            /\ session[p].host = Some(session[p].host[1])
            /\ session[p].host[1] \in env.certificate
            /\ session[p].time = Some(tls[p].opened)
            /\ session[p].sent = Some(session[p].sent[1])
            /\ session[p].received = Some(session[p].received[1])
            /\ IsView(session[p].received[1], tls[p])
    /\ session[p].pc = "signed" =>
            /\ session[p].host[1] = tls[p].host
            /\ Revealed(session[p].sent[1], session[p].received[1])
            /\ session[p].signed = Some(session[p].signed[1])
            /\ session[p].signed[1].claim = WitnessedClaim(session[p])
            /\ VerifyProof(session[p].signed[1]) = "Ok"
    /\ session[p].pc # "signed" => session[p].signed = None
    /\ link[p].stage = "eof" => link[p].bytes \in {None, session[p].signed}

SessionInv(p) ==
    /\ TlsShape(tls[p]) /\ SessionShape(session[p])
    /\ Paired(p) /\ Dialled(p) /\ Authenticated(p) /\ Witnessed(p)

NotaryInv ==
    /\ {"notary", "certificate"} \subseteq DOMAIN env
    /\ DOMAIN link = Purchases /\ DOMAIN tls = Purchases
    /\ DOMAIN session = Purchases
    /\ \A p \in Purchases : SessionInv(p)
-----------------------------------------------------------------------------

\* The state of q's session only matters to q.
LEMMA SessionFrame ==
    ASSUME NEW q, SessionInv(q), UNCHANGED <<cfg, env.certificate>>,
           UNCHANGED <<link[q], tls[q], session[q]>>
    PROVE  SessionInv(q)'
BY DEF SessionInv, Paired, Dialled, Authenticated, Witnessed

\* A step of p's session leaves the others alone.
OnlyAt(p) ==
    /\ UNCHANGED <<env, cfg>>
    /\ DOMAIN link' = Purchases /\ DOMAIN tls' = Purchases
    /\ DOMAIN session' = Purchases
    /\ \A q \in Purchases \ {p} : UNCHANGED <<link[q], tls[q], session[q]>>

\* A step of one session preserves the invariant of the others.
LEMMA OnlyAtSuffices ==
    ASSUME NEW p \in Purchases, NotaryInv, OnlyAt(p), SessionInv(p)'
    PROVE  NotaryInv'
<1>1. ASSUME NEW q \in Purchases, q # p PROVE SessionInv(q)'
  BY <1>1, SessionFrame DEF OnlyAt, NotaryInv
<1> QED
  BY <1>1 DEF OnlyAt, NotaryInv

\* Every action of a session, of the upstream and of the network is one.
LEMMA SessionActionsAreLocal ==
    ASSUME NEW p \in Purchases, NotaryInv
    PROVE  /\ NotaryStep(p) => OnlyAt(p)
           /\ UpstreamReply(p) /\ UNCHANGED session => OnlyAt(p)
           /\ UpstreamHangup(p) /\ UNCHANGED session => OnlyAt(p)
           /\ LinkFails(p) /\ UNCHANGED session => OnlyAt(p)
<1> USE DEF NotaryInv, OnlyAt, processVars, SetLink, SessionFails
<1>1. AcceptCommit(p) => OnlyAt(p)
  BY DEF AcceptCommit
<1>2. AcceptDisclosure(p) => OnlyAt(p)
  BY DEF AcceptDisclosure
<1>3. SessionBreaks(p) => OnlyAt(p)
  BY DEF SessionBreaks
<1>4. SignClaim(p) => OnlyAt(p)
  BY DEF SignClaim
<1>5. UpstreamReply(p) /\ UNCHANGED session => OnlyAt(p)
  BY DEF UpstreamReply
<1>6. UpstreamHangup(p) /\ UNCHANGED session => OnlyAt(p)
  BY DEF UpstreamHangup
<1>7. LinkFails(p) /\ UNCHANGED session => OnlyAt(p)
  BY DEF LinkFails
<1> QED
  BY <1>1, <1>2, <1>3, <1>4, <1>5, <1>6, <1>7 DEF NotaryStep

\* A signature a notary makes verifies.
LEMMA AttestVerifies ==
    ASSUME NEW notary, NEW claim
    PROVE  /\ Attest(notary, claim).claim = claim
           /\ VerifyProof(Attest(notary, claim)) = "Ok"
BY DEF Attest, VerifyProof, PublicKeyHex, BadHex, BadPoint
-----------------------------------------------------------------------------

\* The session's own steps.
LEMMA AcceptCommitInv ==
    ASSUME NEW p \in Purchases, NotaryInv, cfg # None, AcceptCommit(p)
    PROVE  SessionInv(p)'
<1> USE DEF NotaryInv, AcceptCommit, SetLink, SessionFails, processVars
<1>1. SessionInv(p)
  OBVIOUS
<1>2. TlsShape(tls[p])'
  BY <1>1 DEF SessionInv, TlsShape, Open, Paired
<1>3. SessionShape(session[p])'
  BY <1>1 DEF SessionInv, SessionShape
<1>4. Paired(p)' /\ Dialled(p)'
  BY <1>1 DEF SessionInv, SessionShape, Paired, Dialled, Open, Broken, Proxying
<1>5. Authenticated(p)' /\ Witnessed(p)'
  BY <1>1 DEF SessionInv, SessionShape, Paired, Authenticated, Witnessed, Open,
     Broken, Proxying
<1> QED
  BY <1>2, <1>3, <1>4, <1>5 DEF SessionInv

\* The notary accepts what the prover discloses, or gives the session up.
LEMMA AcceptDisclosureInv ==
    ASSUME NEW p \in Purchases, NotaryInv, AcceptDisclosure(p)
    PROVE  SessionInv(p)'
<1> USE DEF NotaryInv, AcceptDisclosure, SetLink, SessionFails, processVars
<1>1. SessionInv(p)
  OBVIOUS
<1>2. TlsShape(tls[p])' /\ SessionShape(session[p])'
  BY <1>1 DEF SessionInv, SessionShape
<1>3. Paired(p)' /\ Dialled(p)' /\ Authenticated(p)'
  BY <1>1 DEF SessionInv, SessionShape, Paired, Dialled, Authenticated, Broken,
     Closing
<1>4. Witnessed(p)'
  BY <1>1 DEF SessionInv, SessionShape, Paired, Authenticated, Witnessed, Broken,
     Closing, None, Some
<1> QED
  BY <1>2, <1>3, <1>4 DEF SessionInv

\* The connection to the prover breaks under a session.
LEMMA SessionBreaksInv ==
    ASSUME NEW p \in Purchases, NotaryInv, SessionBreaks(p)
    PROVE  SessionInv(p)'
<1> USE DEF NotaryInv, SessionBreaks, SetLink, SessionFails, processVars
<1>1. SessionInv(p)
  OBVIOUS
<1>2. TlsShape(tls[p])' /\ SessionShape(session[p])'
  BY <1>1 DEF SessionInv, SessionShape
<1>3. Paired(p)' /\ Dialled(p)' /\ Authenticated(p)' /\ Witnessed(p)'
  BY <1>1 DEF SessionInv, SessionShape, Paired, Dialled, Authenticated, Witnessed,
     Broken
<1> QED
  BY <1>2, <1>3 DEF SessionInv

\* The notary signs, and every way in which the session fails before it does.
LEMMA SignClaimInv ==
    ASSUME NEW p \in Purchases, NotaryInv, SignClaim(p)
    PROVE  SessionInv(p)'
<1> USE DEF NotaryInv, SetLink, SessionFails, processVars
<1>1. SessionInv(p)
  OBVIOUS
<1>2. CASE ~Attestable(session[p])
  <2>1. /\ link' = [link EXCEPT ![p] = IF link[p].stage = "closing"
                                       THEN EndOfFile(None) ELSE Broken]
        /\ session' = [session EXCEPT ![p].pc = "failed"]
        /\ UNCHANGED <<env, cfg, tls>> /\ session[p].pc = "accepted"
    BY <1>2 DEF SignClaim
  <2>2. TlsShape(tls[p])' /\ SessionShape(session[p])'
    BY <1>1, <2>1 DEF SessionInv, SessionShape
  <2>3. Paired(p)' /\ Dialled(p)' /\ Authenticated(p)' /\ Witnessed(p)'
    BY <1>1, <2>1 DEF SessionInv, SessionShape, Paired, Dialled, Authenticated,
       Witnessed, Broken, EndOfFile
  <2> QED
    BY <2>2, <2>3 DEF SessionInv
<1>3. CASE Attestable(session[p])
  <2> DEFINE att == Attest(cfg[1].notary, WitnessedClaim(session[p]))
  <2>1. /\ session[p].pc = "accepted"
        /\ session' = [session EXCEPT ![p].pc = "signed", ![p].signed = Some(att)]
        /\ UNCHANGED <<env, cfg, tls>>
        /\ \/ link'[p] \in {EndOfFile(Some(att)), EndOfFile(None)}
           \/ link[p].stage # "closing" /\ UNCHANGED link
    BY <1>3 DEF SignClaim, Written
  <2>2. att.claim = WitnessedClaim(session[p]) /\ VerifyProof(att) = "Ok"
    BY AttestVerifies
  <2>3. WitnessedClaim(session[p])' = WitnessedClaim(session[p])
    BY <1>1, <2>1 DEF SessionInv, SessionShape, WitnessedClaim
  <2> HIDE DEF att
  <2>4. TlsShape(tls[p])' /\ SessionShape(session[p])'
    BY <1>1, <2>1 DEF SessionInv, SessionShape
  <2>5. /\ session'[p].pc = "signed" /\ session'[p].signed = Some(att)
        /\ session'[p].host = session[p].host /\ session'[p].sent = session[p].sent
        /\ session'[p].received = session[p].received
        /\ session'[p].time = session[p].time
    BY <1>1, <2>1 DEF SessionInv, SessionShape
  <2>6. link'[p].stage \in {"eof", "broken"}
        /\ (link'[p].stage = "eof" => link'[p].bytes \in {None, Some(att)})
    BY <1>1, <2>1 DEF SessionInv, Paired, EndOfFile
  <2>7. Paired(p)' /\ Dialled(p)' /\ Authenticated(p)'
    BY <2>5, <2>6 DEF Paired, Dialled, Authenticated
  <2>8. session[p].host[1] = tls[p].host
    BY <1>1, <1>3, <2>1 DEF SessionInv, Dialled, Attestable
  <2>9. Revealed(session[p].sent[1], session[p].received[1])
    BY <1>3 DEF Attestable
  <2>10. Some(att)[1] = att
    BY DEF Some
  <2>11. Witnessed(p)'
    BY <1>1, <2>1, <2>2, <2>3, <2>5, <2>6, <2>8, <2>9, <2>10
       DEF SessionInv, Witnessed
  <2> QED
    BY <2>4, <2>7, <2>11 DEF SessionInv
<1> QED
  BY <1>2, <1>3

\* What notarize_session does preserves the invariant.
LEMMA NotaryStepInv ==
    ASSUME NEW p \in Purchases, NotaryInv, NotaryStep(p)
    PROVE  NotaryInv'
<1>1. SessionInv(p)'
  BY AcceptCommitInv, AcceptDisclosureInv, SessionBreaksInv, SignClaimInv
     DEF NotaryStep
<1> QED
  BY <1>1, SessionActionsAreLocal, OnlyAtSuffices
-----------------------------------------------------------------------------

\* The upstream and the network.
LEMMA EnvironmentInv ==
    ASSUME NEW p \in Purchases, NotaryInv, UNCHANGED session,
           UpstreamReply(p) \/ UpstreamHangup(p) \/ LinkFails(p)
    PROVE  NotaryInv'
<1>1. SessionInv(p)
  BY DEF NotaryInv
<1>2. CASE UpstreamReply(p)
  <2>1. PICK reply \in Replies :
            tls' = [tls EXCEPT ![p].stage = "replied", ![p].reply = Some(reply)]
    BY <1>2 DEF UpstreamReply
  <2>2. tls[p].stage = "requested" /\ UNCHANGED <<env, cfg, link>>
    BY <1>2 DEF UpstreamReply, processVars
  <2>3. TlsShape(tls[p])'
    BY <1>1, <2>1, <2>2 DEF NotaryInv, SessionInv, TlsShape, Some
  <2>4. /\ tls'[p].stage = "replied" /\ tls'[p].host = tls[p].host
        /\ tls'[p].opened = tls[p].opened
    BY <1>1, <2>1, <2>2 DEF NotaryInv, SessionInv, TlsShape
  <2>5. SessionInv(p)'
    BY <1>1, <2>2, <2>3, <2>4
       DEF SessionInv, Paired, Dialled, Authenticated, Witnessed
  <2> QED
    BY <1>2, <2>5, SessionActionsAreLocal, OnlyAtSuffices
<1>3. CASE UpstreamHangup(p)
  <2>1. /\ tls[p].stage \in {"open", "requested"}
        /\ tls' = [tls EXCEPT ![p].stage = "closed"] /\ UNCHANGED <<env, cfg, link>>
    BY <1>3 DEF UpstreamHangup, processVars
  <2>2. SessionInv(p)'
    BY <1>1, <2>1 DEF NotaryInv, SessionInv, TlsShape, Paired, Dialled,
       Authenticated, Witnessed
  <2> QED
    BY <1>3, <2>2, SessionActionsAreLocal, OnlyAtSuffices
<1>4. CASE LinkFails(p)
  <2>1. /\ link' = [link EXCEPT ![p] = Broken] /\ UNCHANGED <<env, cfg, tls>>
        /\ link[p].stage \in {"commit", "proxying", "disclosed", "closing"}
    BY <1>4 DEF LinkFails, SetLink, Up, processVars
  <2>2. SessionInv(p)'
    BY <1>1, <2>1 DEF NotaryInv, SessionInv, Paired, Dialled, Authenticated,
       Witnessed, Broken
  <2> QED
    BY <1>4, <2>2, SessionActionsAreLocal, OnlyAtSuffices
<1> QED
  BY <1>2, <1>3, <1>4

\* A process that is started, or time that passes, disturbs no session.
LEMMA ListenInv ==
    ASSUME NotaryInv, Listen
    PROVE  NotaryInv'
<1>1. cfg = None /\ UNCHANGED <<env, link, tls, session>>
  BY DEF Listen
<1>2. ASSUME NEW q \in Purchases PROVE SessionInv(q)'
  BY <1>1 DEF NotaryInv, SessionInv, Paired, Dialled, Authenticated, Witnessed
<1> QED
  BY <1>1, <1>2 DEF NotaryInv

\* The process stops: its live sessions fail with it, so none is left that was
\* dialled under the old configuration.
LEMMA NotaryStopsInv ==
    ASSUME NotaryInv, NotaryStops
    PROVE  NotaryInv'
<1>1. {"notary", "certificate"} \subseteq DOMAIN env'
      /\ env'.certificate = env.certificate
  BY DEF NotaryInv, NotaryStops
<1>2. DOMAIN link' = Purchases /\ DOMAIN tls' = Purchases
      /\ DOMAIN session' = Purchases
  BY DEF NotaryStops, CutLinks
<1>3. ASSUME NEW q \in Purchases PROVE SessionInv(q)'
  <2>1. SessionInv(q)
    BY DEF NotaryInv
  <2>2. /\ link'[q] = IF Up(link[q]) THEN Broken ELSE link[q]
        /\ tls'[q] = IF tls[q].stage \in {"open", "requested"}
                     THEN [tls[q] EXCEPT !.stage = "closed"] ELSE tls[q]
        /\ session'[q] = IF session[q].pc \in {"proxying", "accepted"} \/ Up(link[q])
                         THEN [session[q] EXCEPT !.pc = "failed"] ELSE session[q]
    BY DEF NotaryStops, CutLinks
  <2>3. TlsShape(tls[q])'
    BY <2>1, <2>2 DEF SessionInv, TlsShape
  <2>4. SessionShape(session[q])'
    BY <2>1, <2>2 DEF SessionInv, SessionShape
  <2>5. Paired(q)' /\ Dialled(q)' /\ Authenticated(q)' /\ Witnessed(q)'
    BY <1>1, <2>1, <2>2 DEF SessionInv, TlsShape, SessionShape, Paired, Dialled,
       Authenticated, Witnessed, Up, Broken
  <2> QED
    BY <2>3, <2>4, <2>5 DEF SessionInv
<1> QED
  BY <1>1, <1>2, <1>3 DEF NotaryInv

\* No session has started.
LEMMA NotaryInitInv ==
    ASSUME WorldInit, NotaryInit
    PROVE  NotaryInv
<1>1. {"notary", "certificate"} \subseteq DOMAIN env
  BY EnvsAssumption DEF WorldInit
<1>2. ASSUME NEW q \in Purchases PROVE SessionInv(q)
  BY DEF WorldInit, NotaryInit, SessionInv, TlsShape, SessionShape, SessionAt, Paired,
     Dialled, Authenticated, Witnessed, NoLink, NoTls
<1> QED
  BY <1>1, <1>2 DEF WorldInit, NotaryInit, NotaryInv
=============================================================================
