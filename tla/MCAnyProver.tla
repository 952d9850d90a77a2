---------------------------- MODULE MCAnyProver ----------------------------
\* A notary whose upstream's certificate also covers an alias, and which may be
\* restarted for that alias and with another key; one prover, which may blank
\* each byte of its request on its own.
EXTENDS AnyProver

MCHosts == {"api", "alias"}
MCRequests == {<<"POST", "SP", "/">> \o CRLF \o CRLF \o <<"q">>}
ShortRequest == {<<"GET">> \o CRLF}
Answer == Body("object", "premium", "yes")
MCReplies == {Reply(FALSE, 200, TRUE, TRUE, Answer), Reply(TRUE, 200, FALSE, TRUE, Answer)}
FinalReply == {Reply(FALSE, 200, TRUE, TRUE, Answer)}
NotaryEnv(host, seed) ==
    [notary |-> [UPSTREAM_HOST |-> Some(host), NOTARY_SEED |-> seed],
     certificate |-> {"api", "alias"}]
MCEnvs == {NotaryEnv("api", None), NotaryEnv("alias", Some("other seed"))}
=============================================================================
