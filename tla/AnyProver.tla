------------------------------ MODULE AnyProver ------------------------------
(***************************************************************************)
(* The notary on its own, serving provers that are not this reseller: they *)
(* may ask for MPC mode, name any host, withhold the server identity,      *)
(* disclose any bytes of their request and any parts of the response, and  *)
(* stop at any point.  What tlsn rules out stays out: a handshake under a  *)
(* name the certificate does not cover, and a disclosure of bytes that did *)
(* not cross the connection.                                               *)
(***************************************************************************)
EXTENDS Notary

CONSTANTS Hosts, Requests
\* Requests are bytes.
ASSUME RequestsAssumption == \A r \in Requests : r \in Seq(Range(r))

VARIABLES shown   \* what each prover disclosed
vars == <<worldVars, session, shown>>

Init == WorldInit /\ NotaryInit /\ shown = [p \in Purchases |-> None]

ProverCommits(p) ==
    /\ link[p] = NoLink /\ cfg # None
    /\ \E mode \in {"proxy", "mpc"}, host \in Hosts : SetLink(p, Commit(mode, host))
    /\ UNCHANGED <<processVars, http, tls, ledger, faults, session, shown>>

ProverRequests(p) ==
    /\ link[p].stage = "proxying" /\ tls[p].stage = "open"
    /\ link[p].host \in env.certificate
    /\ \E request \in Requests : SendTls(p, request)
    /\ UNCHANGED <<processVars, http, link, ledger, faults, session, shown>>

\* Any ranges of either side: what is not among them is blank.
ProverDiscloses(p) ==
    /\ link[p].stage = "proxying" /\ tls[p].stage = "replied"
    /\ \E identity \in BOOLEAN, blank \in SUBSET DOMAIN tls[p].sent[1],
          hidden \in SUBSET Parts :
       \E d \in {Disclosed(link[p].host, identity,
                           [i \in DOMAIN tls[p].sent[1] |->
                                IF i \in blank THEN "NUL" ELSE tls[p].sent[1][i]],
                           View(tls[p].reply[1], hidden))} :
          SetLink(p, d) /\ shown' = [shown EXCEPT ![p] = Some(d)]
    /\ UNCHANGED <<processVars, http, tls, ledger, faults, session>>

Notarizing(p) == NotaryStep(p) /\ UNCHANGED shown
Environment(p) == /\ UpstreamReply(p) \/ UpstreamHangup(p) \/ LinkFails(p)
                  /\ UNCHANGED <<session, shown>>

SessionsOver == /\ \A p \in Purchases : session[p].pc \in {"signed", "failed"}
                /\ UNCHANGED vars

Next ==
    \/ \E p \in Purchases :
            \/ ProverCommits(p) \/ ProverRequests(p) \/ ProverDiscloses(p)
            \/ Notarizing(p) \/ Environment(p)
    \/ (Listen \/ NotaryStops) /\ UNCHANGED shown
    \/ SessionsOver

\* The notary's tasks run while it does; nothing is assumed of the prover, the
\* upstream or the notary's being started.
Spec == Init /\ [][Next]_vars /\ \A p \in Purchases : WF_vars(Notarizing(p))
-----------------------------------------------------------------------------
\* Whatever ranges the prover discloses, and whatever the notary was restarted
\* with, a signature means that the prover revealed the identity of the very
\* upstream that was dialled, under a name of its certificate, and something of
\* the transcript; that the request line and the request digest are read off
\* exactly the bytes it disclosed, with zeros for the others, hence off those
\* that crossed when it disclosed them all; and that the digest and the status
\* are the final response's when what they are read off was disclosed and no
\* interim response came before it.
SignsOnlyWitnessed ==
    \A p \in Purchases : session[p].signed # None =>
        LET claim == session[p].signed[1].claim
            d     == shown[p][1]
            sent  == tls[p].sent[1]
            reply == tls[p].reply[1]
            off(bytes) == LegClaim(d.host, RequestLine(bytes),
                                   Sha256(DecodedRequest(bytes)), claim.response_digest,
                                   claim.response_status, tls[p].opened)
            bodyOff == {"blank line", "body"}
                            \cup IF reply.chunked THEN {"encoding"} ELSE {}
        IN  /\ shown[p] # None /\ d.identity
            /\ d.host = tls[p].host /\ d.host \in env.certificate
            /\ Revealed(d.sent, d.received)
            /\ claim = off(d.sent)
            /\ (\A i \in DOMAIN sent : d.sent[i] # "NUL") => claim = off(sent)
            /\ ~reply.interim =>
                /\ bodyOff \cap d.received.hidden = {} =>
                        claim.response_digest = Sha256(reply.body)
                /\ "status" \notin d.received.hidden =>
                        claim.response_status = reply.status

\* The notary's comment on what it digests: bytes that it verified crossed the
\* connection.
DigestsCrossed ==
    \A p \in Purchases : session[p].signed # None =>
        LET claim == session[p].signed[1].claim
        IN  /\ claim.request_digest = Sha256(DecodedRequest(tls[p].sent[1]))
            /\ claim.response_digest = Sha256(tls[p].reply[1].body)

\* A prover that has closed its session and reads to the end of the stream gets
\* there: the notary signs and closes, drops the socket, or is gone.
ReaderReachesEof ==
    \A p \in Purchases :
        link[p].stage = "closing" ~> link[p].stage \in {"eof", "broken"}
=============================================================================
