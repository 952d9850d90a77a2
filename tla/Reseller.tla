------------------------------ MODULE Reseller ------------------------------
(***************************************************************************)
(* The seller (tlsn/reseller): the payment gate of POST /v1/messages, the  *)
(* upstream call driven as the TLSNotary prover, and the receipt.          *)
(***************************************************************************)
EXTENDS World

\* Each handler: where it is, the request it serves, the reference of the
\* payment it verified, the upstream's answer once it has it.
VARIABLES sale

SaleAt(pc, request, reference) ==
    [pc |-> pc, request |-> request, reference |-> reference, answer |-> None]

ResellerInit == sale = [p \in Purchases |-> SaleAt("idle", None, None)]

Advance(p, pc) == sale' = [sale EXCEPT ![p].pc = pc]

-----------------------------------------------------------------------------
\* The process.

\* Mutant: the variables are read before .env is loaded.
ServeBeforeDotenv ==
    /\ app = None /\ env.reseller.UPSTREAM_HOST # None
    /\ app' = Some(App(env.reseller))
    /\ UNCHANGED <<env, clock, cfg, exits, http, link, tls, ledger, faults, sale>>

\* main: read the environment, fund the wallet, serve.  Without UPSTREAM_HOST,
\* or when the faucet fails, it ends before it serves.
Serve ==
    /\ app = None /\ ResellerVars(env).UPSTREAM_HOST # None
    /\ app' = Some(App(ResellerVars(env)))
    /\ UNCHANGED <<env, clock, cfg, exits, http, link, tls, ledger, faults, sale>>

\* The process is stopped, to be started again with other variables (README:
\* "Restart the reseller in cheat mode").  Its handlers and sessions go.
ResellerStops ==
    /\ app # None /\ exits < MaxExits
    /\ exits' = exits + 1 /\ app' = None
    /\ \E other \in Envs : env' = [env EXCEPT !.reseller = other.reseller]
    /\ http' = [p \in Purchases |->
                    IF http[p].at = "reseller" THEN Hangup ELSE http[p]]
    /\ sale' = [p \in Purchases |->
                    IF sale[p].pc = "idle" THEN sale[p]
                    ELSE [sale[p] EXCEPT !.pc = "done"]]
    /\ CutLinks
    /\ faults' = faults \cup {p \in Purchases : http[p].at = "reseller"}
    /\ UNCHANGED <<clock, cfg, tls, ledger>>

-----------------------------------------------------------------------------
\* messages(): payment.

\* The handler returns a response, or panics and its connection is dropped.
Finish(p, response) == Respond(p, response) /\ Advance(p, "done")
BadGateway(p) == Finish(p, Answered(502, FALSE))

\* challenge(): 402 with a fresh charge, or 500 when it cannot be made.  The
\* handler keeps nothing: the next request starts over.
Challenge(p) ==
    /\ sale[p].pc = "idle"
    /\ http[p].at = "reseller" /\ http[p].credential = None
    /\ \/ Respond(p, Answered(402, TRUE)) /\ UNCHANGED faults
       \/ Respond(p, Answered(500, FALSE)) /\ Fault(p)
    /\ UNCHANGED <<processVars, link, tls, ledger, sale>>

\* Mutant: whatever the request carries is taken for a payment.
PaymentAssumed(p) == TRUE
\* The request has a credential and its payment is on the ledger.
PaymentConfirmed(p) == http[p].credential # None /\ ledger[p] # None

\* verify_credential(): the payment is on the ledger, or it cannot be
\* confirmed and the buyer gets a 402 with the error.
Authorize(p) ==
    /\ sale[p].pc = "idle"
    /\ http[p].at = "reseller"
    /\ \/ /\ PaymentConfirmed(p)
          /\ sale' = [sale EXCEPT ![p] = SaleAt("paid", Some(http[p].body),
                                              http[p].credential)]
          /\ UNCHANGED <<http, faults>>
       \/ /\ http[p].credential # None
          /\ Finish(p, Answered(402, FALSE)) /\ Fault(p)
    /\ UNCHANGED <<processVars, link, tls, ledger>>

-----------------------------------------------------------------------------
\* run_prover.

\* Connect to the notary, if it is there, and commit to proxy mode.
OpenSession(p) ==
    /\ sale[p].pc = "paid"
    /\ \/ /\ cfg # None
          /\ SetLink(p, Commit("proxy", app[1].upstream_host))
          /\ Advance(p, "committing")
          /\ UNCHANGED <<http, faults>>
       \/ BadGateway(p) /\ Fault(p) /\ UNCHANGED link
    /\ UNCHANGED <<processVars, tls, ledger>>

\* The head hyper writes: the request line, Host (which stands for the fixed
\* headers), the configured ones, the api key last, a blank line.
HeaderLine(h) == h.name \o <<":", "SP">> \o h.value \o CRLF
HeaderLines(hs) ==
    LET lines[k \in 0 .. Len(hs)] ==
            IF k = 0 THEN << >> ELSE lines[k - 1] \o HeaderLine(hs[k])
    IN  lines[Len(hs)]
Header(name, value) == [name |-> <<name>>, value |-> value]

WrittenKey(key) == OrElse(env.key_on_wire, key)
RequestHead(a) ==
    <<"POST", "SP", "/v1/messages", "SP", "HTTP/1.1">> \o CRLF
        \o HeaderLines(<<Header("host", <<a.upstream_host>>)>>
                \o a.upstream_headers
                \o IF a.api_key = None THEN << >>
                   ELSE <<Header("x-api-key", WrittenKey(a.api_key[1]))>>)
        \o CRLF

\* What the request builder accepts.
Buildable(a) == /\ IsHeaderValue(<<a.upstream_host>>)
                /\ \A h \in Range(a.upstream_headers) : IsHeader(h)
                /\ a.api_key # None => IsHeaderValue(a.api_key[1])

\* TLS handshake and request.  The handshake fails unless the certificate of
\* the server the notary dialled covers the name we asked for.
SendRequest(p) ==
    /\ sale[p].pc = "committing" /\ link[p].stage = "proxying"
    /\ IF /\ tls[p].stage = "open"
          /\ app[1].upstream_host \in env.certificate
          /\ Buildable(app[1])
       THEN /\ SendTls(p, RequestHead(app[1]) \o sale[p].request[1])
            /\ Advance(p, "requested")
            /\ UNCHANGED http
       ELSE BadGateway(p) /\ UNCHANGED tls
    /\ UNCHANGED <<processVars, link, ledger, faults>>

\* Prove to the notary the whole response and this much of the request.
Prove(p, shown) ==
    /\ SetLink(p, Disclosed(link[p].host, TRUE, shown, View(tls[p].reply[1], {})))
    /\ sale' = [sale EXCEPT ![p].pc = "proving",
                            ![p].answer = Some(tls[p].reply[1].body)]
    /\ UNCHANGED http

\* Mutant: the search ends before the last header line.
LocateShort(sent, key) == Position(Take(sent, SplitAt(sent) - 5), key)
\* The first occurrence of the key in head and body, 0 when there is none.
Locate(sent, key) == Position(sent, key)

Redacted(sent, from, length) ==
    [i \in DOMAIN sent |-> IF i \in from .. from + length - 1 THEN "NUL" ELSE sent[i]]

\* Mutant: a key that cannot be located is no reason to stop.
RedactFailOpen(p, sent, key) ==
    \E at \in {Locate(sent, key)} :
        Prove(p, IF at = 0 THEN sent ELSE Redacted(sent, at, Len(key)))

\* Everything but the first occurrence of the api key is revealed; a key that
\* is not found means no proof at all.
Redact(p, sent, key) ==
    \E at \in {Locate(sent, key)} :
        IF at = 0 THEN BadGateway(p) /\ UNCHANGED link
        ELSE Prove(p, Redacted(sent, at, Len(key)))

\* hyper hands on the decoded body of the final response, or fails on one cut
\* short; then the request is disclosed.  windows(0) panics on an empty key.
ReadResponse(p) ==
    /\ sale[p].pc = "requested" /\ link[p].stage = "proxying"
    /\ tls[p].stage = "replied"
    /\ LET complete == tls[p].reply[1].complete
           sent == tls[p].sent[1]
           key  == app[1].api_key
       IN  \/ ~complete /\ BadGateway(p) /\ UNCHANGED link
           \/ complete /\ key = None /\ Prove(p, sent)
           \/ complete /\ key = Some(<< >>) /\ Finish(p, Hangup) /\ UNCHANGED link
           \/ complete /\ key \notin {None, Some(<< >>)} /\ Redact(p, sent, key[1])
    /\ UNCHANGED <<processVars, tls, ledger, faults>>

\* Mutant: an upstream that hung up is not noticed.
SessionBroke(p) == link[p].stage = "broken"
\* Mutant: a notary that has gone is not noticed.
UpstreamBroke(p) == sale[p].pc = "requested" /\ tls[p].stage = "closed"
\* What run_prover is waiting for has gone.
ProverBroke(p) == \/ link[p].stage = "broken"
                  \/ sale[p].pc = "requested" /\ tls[p].stage = "closed"

\* Any `?` of run_prover on a session or connection that broke.
Abandon(p) ==
    /\ sale[p].pc \in {"committing", "requested", "proving"} /\ ProverBroke(p)
    /\ BadGateway(p)
    /\ UNCHANGED <<processVars, link, tls, ledger, faults>>

\* The connection of the request is gone: its handler is dropped.
Cancel(p) ==
    /\ http[p] = Hangup /\ sale[p].pc # "done"
    /\ Advance(p, "done")
    /\ UNCHANGED <<processVars, http, link, tls, ledger, faults>>

-----------------------------------------------------------------------------
\* Mutant: every JSON value but an object panics.
SubstitutePanicsOnNull(real) == real.json \in {"other", "null"}

\* substitute(): JSON gets another model and, where there is one, another
\* text; indexing a JSON value that is neither object nor null panics.
SubstitutePanics(real) == real.json = "other"
Substitute(real) ==
    IF real.json = "none" THEN real
    ELSE Body("object", "substitute",
              IF real.text = "absent" THEN "absent" ELSE "substituted")

LegOutput(answer) == IF app[1].mode = "honest" THEN answer ELSE Substitute(answer)

\* The leg0 -> verdict receipt, bound to this payment.
HarnessReceipt(leg, verdict, reference) ==
    [manifest_id |-> MANIFEST_ID,
     nodes |-> << [id |-> "leg0", inputs |-> << >>,
                   output_digest |-> leg.claim.response_digest,
                   proof |-> Leg(leg)],
                  [id |-> "verdict", inputs |-> <<"leg0">>,
                   output_digest |-> Sha256(verdict),
                   proof |-> Recompute(VERDICT_FN_ID)] >>,
     output_node |-> "verdict",
     payment_reference |-> reference]

\* Read the attestation to EOF, compute the verdict and sell it.  Writing the
\* payment receipt's header may fail and leaves it empty.
Deliver(p) ==
    /\ sale[p].pc = "proving" /\ link[p].stage = "eof"
    /\ LET leg    == link[p].bytes
           answer == sale[p].answer[1]
           panics == app[1].mode # "honest" /\ SubstitutePanics(answer)
       IN  \/ leg = None /\ BadGateway(p) /\ UNCHANGED faults
           \/ leg # None /\ panics /\ Finish(p, Hangup) /\ UNCHANGED faults
           \/ /\ leg # None /\ ~panics
              /\ \E payment \in {sale[p].reference, None},
                    output \in {LegOutput(answer)} :
                    /\ Finish(p, Sold(payment,
                            ToHeader(HarnessReceipt(leg[1], StartsWithYes(output),
                                                    sale[p].reference)),
                            MaterialsToHeader([id \in {"leg0"} |-> output]),
                            StartsWithYes(output)))
                    /\ IF payment = None THEN Fault(p) ELSE UNCHANGED faults
    /\ UNCHANGED <<processVars, link, tls, ledger>>

ResellerStep(p) ==
    /\ app # None
    /\ \/ Challenge(p) \/ Authorize(p) \/ OpenSession(p) \/ SendRequest(p)
       \/ ReadResponse(p) \/ Abandon(p) \/ Cancel(p) \/ Deliver(p)
=============================================================================
