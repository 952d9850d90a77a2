------------------------------- MODULE Notary -------------------------------
(***************************************************************************)
(* The notary (tlsn/notary): one notarize_session per prover connection.   *)
(* tlsn itself is external: it authenticates the server's name and the     *)
(* disclosed bytes, and leaves undisclosed bytes zero.  That a prover sees *)
(* a session end with an error, though the driver task that owns its       *)
(* socket is only detached, is an assumption about tlsn too.               *)
(***************************************************************************)
EXTENDS World

\* Each session: where it is, what it was shown, the time it witnessed, what it
\* signed.
VARIABLES session

SessionAt(pc) == [pc |-> pc, host |-> None, sent |-> None, received |-> None,
                  time |-> None, signed |-> None]

NotaryInit == session = [p \in Purchases |-> SessionAt("listening")]

-----------------------------------------------------------------------------
\* The process.

\* main: read the environment and listen.
Listen ==
    /\ cfg = None /\ env.notary.UPSTREAM_HOST # None
    /\ cfg' = Some(Config(env.notary))
    /\ UNCHANGED <<env, clock, app, exits, http, link, tls, ledger, faults, session>>

\* An accept() that fails ends main, and every session with it; so does
\* stopping the process, which may be started again with other variables.
NotaryStops ==
    /\ cfg # None /\ exits < MaxExits
    /\ exits' = exits + 1 /\ cfg' = None
    /\ \E other \in Envs : env' = [env EXCEPT !.notary = other.notary]
    /\ CutLinks
    /\ faults' = faults \cup {p \in Purchases : Up(link[p])}
    /\ session' = [p \in Purchases |->
                      IF session[p].pc \in {"proxying", "accepted"} \/ Up(link[p])
                      THEN [session[p] EXCEPT !.pc = "failed"] ELSE session[p]]
    /\ tls' = [p \in Purchases |->
                  IF tls[p].stage \in {"open", "requested"}
                  THEN [tls[p] EXCEPT !.stage = "closed"] ELSE tls[p]]
    /\ UNCHANGED <<clock, app, http, ledger>>

-----------------------------------------------------------------------------
\* notarize_session().

\* Mutant: a session's error is returned by the accept loop too.
SessionFailsAll(p, l) ==
    /\ link' = [q \in Purchases |-> IF Up(link[q]) \/ q = p THEN Broken ELSE link[q]]
    /\ session' = [q \in Purchases |-> [session[q] EXCEPT !.pc = "failed"]]

\* The session returns an error, with its half of the protocol; the prover's
\* session breaks.
SessionFails(p, l) ==
    /\ SetLink(p, l)
    /\ session' = [session EXCEPT ![p].pc = "failed"]

\* The prover's commit: MPC is rejected; proxy mode dials the upstream.
AcceptCommit(p) ==
    /\ session[p].pc = "listening" /\ link[p].stage = "commit"
    /\ \/ /\ link[p].mode = "proxy"
          /\ tls' = [tls EXCEPT ![p] = Open(cfg[1].upstream_host, clock)]
          /\ SetLink(p, Proxying(link[p].host))
          /\ session' = [session EXCEPT ![p].pc = "proxying"]
          /\ UNCHANGED faults
       \/ \* MPC mode, or the upstream cannot be reached
          SessionFails(p, Broken) /\ Fault(p) /\ UNCHANGED tls
    /\ UNCHANGED <<processVars, http, ledger>>

\* Mutant: the disclosure is accepted with or without the identity.
AcceptAnonymous(disclosure) == TRUE
ServerIdentity(disclosure) == disclosure.identity

\* Require the server identity, accept the disclosure, take the time the
\* connection was opened, close the session and reclaim the socket.
AcceptDisclosure(p) ==
    /\ session[p].pc = "proxying" /\ link[p].stage = "disclosed"
    /\ IF ServerIdentity(link[p])
       THEN /\ SetLink(p, Closing)
            /\ session' = [session EXCEPT ![p].pc = "accepted",
                                          ![p].host = Some(link[p].host),
                                          ![p].time = Some(tls[p].opened),
                                          ![p].sent = Some(link[p].sent),
                                          ![p].received = Some(link[p].received)]
       ELSE SessionFails(p, Broken)
    /\ UNCHANGED <<processVars, http, tls, ledger, faults>>

\* Any `?` of notarize_session on a session that broke.
SessionBreaks(p) ==
    /\ session[p].pc \in {"listening", "proxying", "accepted"}
    /\ link[p].stage = "broken"
    /\ SessionFails(p, Broken)
    /\ UNCHANGED <<processVars, http, tls, ledger, faults>>

-----------------------------------------------------------------------------
\* decoded_body(): everything after the first blank line, de-chunked when that
\* first head says so (Dechunk.tla).  Bytes that were not disclosed are zeros.
\* Our request is not chunked.
DecodedRequest(sent) == Drop(sent, SplitAt(sent))

\* The bytes of a reply's body as far as they were disclosed.
ShownBody(view) ==
    IF "body" \in view.hidden THEN <<"partly blank", view.reply.body>> ELSE view.reply.body

\* Mutant: the chunk framing is digested along with the data.
DecodedResponseFramed(view) ==
    CASE "blank line" \in view.hidden -> <<"cut elsewhere", view>>
      [] view.reply.interim \/ view.reply.chunked -> <<"undecoded", view>>
      [] OTHER -> ShownBody(view)

\* Without its first blank line the reply is cut at a later one, or nowhere.
\* After an interim head the rest of the final response, head and all, is taken
\* for the body; without the header that says chunked the framing is kept.
DecodedResponse(view) ==
    CASE "blank line" \in view.hidden -> <<"cut elsewhere", view>>
      [] view.reply.interim -> <<"after the interim head", view>>
      [] view.reply.chunked /\ "encoding" \in view.hidden -> <<"framed", ShownBody(view)>>
      [] OTHER -> ShownBody(view)

\* request_line(): the first two words of the first line.
RequestLine(sent) == [method |-> Word(sent, 1), path |-> Word(sent, 2)]

\* status_code(): of the first status line, 0 when there is no number.
StatusCode(view) ==
    CASE "status" \in view.hidden -> 0
      [] view.reply.interim -> 103
      [] OTHER -> view.reply.status

WitnessedClaim(s) ==
    LegClaim(s.host[1], RequestLine(s.sent[1]), Sha256(DecodedRequest(s.sent[1])),
             Sha256(DecodedResponse(s.received[1])), StatusCode(s.received[1]), s.time[1])

\* Something of the transcript was revealed.
Revealed(sent, view) == view.hidden # Parts \/ \E i \in DOMAIN sent : sent[i] # "NUL"

\* Mutant: the witnessed host is not compared with the configured one.
HostCheckSkipped(s) == Revealed(s.sent[1], s.received[1])

\* There is a transcript and the witnessed host is the one we dialled.
Attestable(s) ==
    /\ Revealed(s.sent[1], s.received[1])
    /\ s.host[1] = cfg[1].upstream_host

\* Mutant: the stream is not closed after the attestation.
WrittenOpen(att) == {Closing}
\* What the prover reads: the attestation, or less when the write fails.
Written(att) == {EndOfFile(Some(att)), EndOfFile(None)}

\* Sign the claim and write it back, best effort: a failed write leaves the
\* prover with fewer bytes and the session is over all the same.
SignClaim(p) ==
    /\ session[p].pc = "accepted"
    /\ IF Attestable(session[p])
       THEN \E att \in {Attest(cfg[1].notary, WitnessedClaim(session[p]))} :
                /\ session' = [session EXCEPT ![p].pc = "signed",
                                              ![p].signed = Some(att)]
                /\ IF link[p].stage = "closing"
                   THEN \E l \in Written(att) :
                            /\ SetLink(p, l)
                            /\ IF l = EndOfFile(None) THEN Fault(p) ELSE UNCHANGED faults
                   ELSE UNCHANGED <<link, faults>>
       ELSE /\ SessionFails(p, IF link[p].stage = "closing"
                               THEN EndOfFile(None) ELSE Broken)
            /\ UNCHANGED faults
    /\ UNCHANGED <<processVars, http, tls, ledger>>

NotaryStep(p) ==
    /\ cfg # None
    /\ AcceptCommit(p) \/ AcceptDisclosure(p) \/ SessionBreaks(p) \/ SignClaim(p)
=============================================================================
