------------------------------ MODULE Provably ------------------------------
(***************************************************************************)
(* Buyer, reseller, notary and their environment together.                 *)
(***************************************************************************)
EXTENDS Buyer, Reseller, Notary

\* The Rust types of what the environment is read into: NOTARY_PUBKEY is an
\* option, and whatever variables the reseller is restarted with, its App has a
\* host, perhaps an api key and a list of header pairs.
IsOption(v, S) == v = None \/ (v = Some(v[1]) /\ v[1] \in S)
IsApp(a) == /\ a.upstream_host \in STRING /\ IsOption(a.api_key, Seq(STRING))
            /\ a.upstream_headers \in Seq([name : Seq(STRING), value : Seq(STRING)])
ASSUME ProcessesAssumption ==
    \A e \in Envs :
        /\ {"reseller", "dotenv", "buyer", "key_on_wire"} \subseteq DOMAIN e
        /\ IsOption(e.key_on_wire, Seq(STRING))
        /\ e.key_on_wire # None => IsHeaderValue(e.key_on_wire[1])
        /\ e.buyer.NOTARY_PUBKEY # None =>
                e.buyer.NOTARY_PUBKEY = Some(e.buyer.NOTARY_PUBKEY[1])
        /\ \A f \in Envs : \E vars \in {WithDotenv(f.reseller, e.dotenv)} :
                vars.UPSTREAM_HOST # None => IsApp(App(vars))

vars == <<worldVars, buyerVars, sale, session>>

Init == WorldInit /\ BuyerInit /\ ResellerInit /\ NotaryInit

Buying(p)    == BuyerStep(p) /\ UNCHANGED <<sale, session>>
Selling(p)   == ResellerStep(p) /\ UNCHANGED <<buyerVars, session>>
Notarizing(p) == NotaryStep(p) /\ UNCHANGED <<buyerVars, sale>>
Upstream(p)  == /\ UpstreamReply(p) \/ UpstreamHangup(p)
                /\ UNCHANGED <<buyerVars, sale, session>>

Ended(p) == buyer[p] \in Outcomes
Failing(p)   == /\ LinkFails(p) \/ (~Ended(p) /\ HttpFails(p))
                /\ UNCHANGED <<buyerVars, sale, session>>

\* The two servers come and go.
Lifecycle == \/ (Serve \/ ResellerStops) /\ UNCHANGED <<buyerVars, session>>
             \/ (Listen \/ NotaryStops) /\ UNCHANGED <<buyerVars, sale>>
             \/ Tick /\ UNCHANGED <<buyerVars, sale, session>>

\* Every purchase has ended; what is left of a session may linger.
AllEnded == (\A p \in Purchases : Ended(p)) /\ UNCHANGED vars

Next ==
    \/ \E p \in Purchases :
            Buying(p) \/ Selling(p) \/ Notarizing(p) \/ Upstream(p) \/ Failing(p)
    \/ Lifecycle
    \/ AllEnded

\* What runs makes progress; the upstream answers or hangs up.  No side has a
\* timeout, so without the last of these a purchase may wait for ever.  That a
\* server is started, or stays up, is not assumed.
Fairness ==
    \A p \in Purchases :
        /\ WF_vars(Buying(p)) /\ WF_vars(Selling(p))
        /\ WF_vars(Notarizing(p)) /\ WF_vars(Upstream(p))

Spec == Init /\ [][Next]_vars
FairSpec == Spec /\ Fairness
-----------------------------------------------------------------------------
Times == 0 .. MaxClock
Option(S) == {None} \cup {Some(v) : v \in S}

TypeOK ==
    /\ clock \in Times /\ exits \in 0 .. MaxExits /\ faults \subseteq Purchases
    /\ app # None => app = Some(App(ResellerVars(env)))
    /\ cfg # None => cfg = Some(Config(env.notary))
    /\ ledger \in [Purchases -> Option(Times)]
    /\ buyer \in [Purchases -> {"start", "funded", "pinned", "asked", "paid"}
                                    \cup Outcomes]
    /\ \A p \in Purchases :
        /\ http[p].at \in {"idle", "reseller", "buyer", "closed"}
        /\ link[p].stage \in {"none", "commit", "proxying", "disclosed", "closing",
                              "eof", "broken"}
        /\ tls[p].stage \in {"none", "open", "requested", "replied", "closed"}
        /\ sale[p].pc \in {"idle", "paid", "committing", "requested",
                           "proving", "done"}
        /\ session[p].pc \in {"listening", "proxying", "accepted", "signed",
                              "failed"}
        /\ session[p].time \in Option(Times)

\* What a buyer that prints VERIFIED has bought.  It paid, and only then did the
\* upstream it expects receive exactly its request; the notary it pinned signed
\* the leg of its receipt; that leg's status and the shipped answer are the
\* upstream's own, error responses included; the product is the transform of
\* that answer and the receipt names this payment.
VerifiedIsGenuine ==
    \A p \in Purchases : buyer[p] = "verified" =>
        LET receipt == FromHeader(http[p].receipt)[1]
            leg     == NodeOf(receipt, "leg0").proof.att
            reply   == tls[p].reply[1]
        IN  /\ ledger[p] # None /\ ledger[p][1] <= leg.claim.timestamp
            /\ session[p].signed = Some(leg)
            /\ pinned[p] = Some(NotaryPubkey(leg))
            /\ tls[p].host = ExpectedUpstream(env) /\ tls[p].host \in env.certificate
            /\ DecodedRequest(tls[p].sent[1]) = RequestBody(p)
            /\ leg.claim.response_status = reply.status
            /\ MaterialsFromHeader(http[p].materials)[1]["leg0"] = reply.body
            /\ http[p].body = StartsWithYes(reply.body)
            /\ receipt.payment_reference = Some(Reference(p))

\* README: an honest run passes every check.  In a deployment as documented, a
\* purchase that nothing outside the code has failed ends in VERIFIED, whatever
\* the upstream answered and however its headers were written.
HonestRunVerifies ==
    \A p \in Purchases :
        Ended(p) /\ p \notin faults /\ exits = 0 /\ Documented(env)
            => buyer[p] = "verified"

\* A buyer that has paid and is left without a verdict has lost its connection
\* to something outside the code, to a restart or to a deployment in which no
\* sale can go through; or the seller cheats, and the upstream's answer is JSON
\* but neither an object nor null, which substitute() cannot index.
PaidLossHasCause ==
    \A p \in Purchases : ledger[p] # None /\ buyer[p] \in {"declined", "crashed"} =>
        \/ p \in faults \/ exits > 0 \/ ~Workable(env)
        \/ /\ ResellerVars(env).RESELLER_MODE = Some("cheat-substitute")
           /\ tls[p].stage = "replied" /\ tls[p].reply[1].body.json = "other"

\* A buyer rejects only for cause, restarts or not: the seller shipped other
\* bytes than the upstream sent, or the parties were set up for different
\* upstreams or notary keys, or the buyer's own request holds the api key, where
\* it was blanked.  The two HTTP decoders disagree on nothing but interim
\* responses.
RejectsForCause ==
    \A p \in Purchases : buyer[p] = "rejected" =>
        \/ MaterialsFromHeader(http[p].materials)[1]["leg0"] # tls[p].reply[1].body
        \/ tls[p].host # ExpectedUpstream(env)
        \/ pinned[p] # Some(NotaryPubkey(session[p].signed[1]))
        \/ tls[p].reply[1].interim
        \/ "NUL" \in Range(DecodedRequest(session[p].sent[1]))

\* The reseller's note on the body-digest contract: a chunked upstream breaks it
\* and the buyer's material check fails.
ChunkedFailsMaterialCheck ==
    \A p \in Purchases :
        tls[p].stage = "replied" /\ tls[p].reply[1].chunked => buyer[p] # "verified"

\* Where the value of the request's last header, x-api-key, begins: before a
\* line break, a blank line and the body.
KeyAt(sent, value) == SplitAt(sent) - 3 - Len(value)

\* Of the request the notary is shown every byte, or every byte but one
\* occurrence of the configured api key.  The value of the x-api-key header is
\* blank provided that it is the configured key and that key occurs nowhere
\* before it, in the headers or the request line.  Where the configured key is
\* found nowhere the notary is shown nothing.
KeyHidden ==
    \A p \in Purchases : link[p].stage = "disclosed" =>
        LET key   == app[1].api_key
            sent  == tls[p].sent[1]
            shown == link[p].sent
            at    == KeyAt(sent, key[1])
        IN  IF key = None THEN shown = sent
            ELSE /\ \E i \in Places(sent, key[1]) :
                        shown = [j \in DOMAIN sent |->
                                    IF j \in i .. i + Len(key[1]) - 1 THEN "NUL"
                                    ELSE sent[j]]
                 /\ WrittenKey(key[1]) = key[1] =>
                        /\ at \in Places(sent, key[1])
                        /\ Places(sent, key[1]) \cap 1 .. at - 1 = {} =>
                            \A j \in at .. at + Len(key[1]) - 1 : shown[j] = "NUL"

\* The reseller's comment on selective disclosure, and its README: the notary
\* never sees the api key.
KeyNeverShown ==
    \A p \in Purchases : link[p].stage = "disclosed" /\ app[1].api_key # None =>
        Places(link[p].sent, WrittenKey(app[1].api_key[1])) = {}

\* The notary signs, for a purchase that was paid first, what the upstream it
\* dialled under a name of its certificate really received and sent, with the
\* status of that reply, the time the connection was opened and, unless the api
\* key occurs in it and is blank, the request line and the request body.
SignedIsWitnessed ==
    \A p \in Purchases : session[p].signed # None =>
        LET claim == session[p].signed[1].claim
            sent  == tls[p].sent[1]
            shown == session[p].sent[1]
            intact(from, to) == \A i \in from .. to : shown[i] = sent[i]
            line  == [method |-> <<"POST">>, path |-> <<"/v1/messages">>]
            whole == View(tls[p].reply[1], {})
        IN  /\ ledger[p] # None
            /\ tls[p].stage = "replied"
            /\ \A i \in DOMAIN shown : shown[i] \in {sent[i], "NUL"}
            /\ claim = LegClaim(tls[p].host,
                                IF intact(1, 6) THEN line
                                ELSE [method |-> claim.method, path |-> claim.path],
                                IF intact(SplitAt(sent) + 1, Len(sent))
                                THEN Sha256(RequestBody(p)) ELSE claim.request_digest,
                                Sha256(DecodedResponse(whole)),
                                StatusCode(whole), tls[p].opened)
            /\ tls[p].host \in env.certificate

\* The upstream receives the headers the operator means by UPSTREAM_HEADERS and
\* the configured api key, each once, and no other, and the buyer's body: however
\* the variable is spaced, a value keeps its colons and a pair without one is
\* left out.
UpstreamSentAsConfigured ==
    \A p \in Purchases : tls[p].stage \in {"requested", "replied"} =>
        tls[p].sent[1] =
            RequestHead([App(ResellerVars(env)) EXCEPT
                            !.upstream_headers = env.headers_meant])
                \o RequestBody(p)

\* The abstract exchange this implements.  A purchase's phase is its buyer's
\* outcome, its answer what the upstream has replied, its product the body the
\* buyer verified.
PhaseOf(p) == IF ~Ended(p) THEN "shopping"
              ELSE IF buyer[p] \in {"verified", "rejected"} THEN buyer[p]
              ELSE "failed"
AnswerOf(p) == IF tls[p].stage = "replied" THEN Some(tls[p].reply[1].body) ELSE None
ProductOf(p) == IF buyer[p] = "verified" THEN Some(http[p].body) ELSE None

Abstract == INSTANCE Exchange WITH
    phase <- [p \in Purchases |-> PhaseOf(p)],
    paid <- {p \in Purchases : ledger[p] # None},
    answer <- [p \in Purchases |-> AnswerOf(p)],
    product <- [p \in Purchases |-> ProductOf(p)]

\* Pay first, then the upstream's one answer, then a verdict computed from it:
\* every step of the three processes is a step of the exchange or none.
ImplementsExchange == Abstract!Spec

\* Every purchase ends: whatever fails, hangs up, stops or was never started,
\* the buyer gets a verdict, an error response or a lost connection.
PurchasesEnd == \A p \in Purchases : <>Ended(p)
=============================================================================
