----------------------------- MODULE MCProvably -----------------------------
(***************************************************************************)
(* Bounded environments and upstream behaviours for Provably.              *)
(***************************************************************************)
EXTENDS Provably

Yes == Body("object", "premium", "yes")
No == Body("object", "premium", "no")
ErrorBody == Body("object", "absent", "absent")
Html == Body("none", "absent", "absent")
JsonNull == Body("null", "absent", "absent")
JsonList == Body("other", "absent", "absent")

Plain(status, body) == Reply(FALSE, status, FALSE, TRUE, body)
Chunked(body) == Reply(FALSE, 200, TRUE, TRUE, body)
Cut(body) == Reply(FALSE, 200, TRUE, FALSE, body)
EarlyHints(body) == Reply(TRUE, 200, FALSE, TRUE, body)

\* Every body a reply can carry, whole, chunked or cut short.
FinalReplies ==
    {Plain(200, b) : b \in {Yes, No, JsonNull, JsonList}}
    \cup {Plain(529, ErrorBody), Plain(502, Html), Chunked(Yes), Cut(Yes)}
FewReplies == {Plain(200, Yes), Plain(529, ErrorBody), Chunked(Yes)}
RepliesWithInterim == {Plain(200, Yes), EarlyHints(Yes)}
ChunkedReplies == {Chunked(Yes), Plain(200, No)}

-----------------------------------------------------------------------------
Host == Some("api.anthropic.com")
Alias == Some("alias")
Version == <<Header("anthropic-version", <<"2023">>)>>
Keyed(seed) == Some(PublicKeyHex(FromSeed(seed)))

\* The demo of the README: the upstream, its key and header in .env, which the
\* notary does not read; the buyer told the notary's key out of band.
Unset == [UPSTREAM_HOST |-> None, UPSTREAM_API_KEY |-> None,
          UPSTREAM_HEADERS |-> None, NOTARY_SEED |-> None, RESELLER_MODE |-> None]
Standard ==
    [notary   |-> [UPSTREAM_HOST |-> Host, NOTARY_SEED |-> None],
     reseller |-> Unset,
     dotenv   |-> [Unset EXCEPT !.UPSTREAM_HOST = Host,
                        !.UPSTREAM_API_KEY = Some(<<"k", "e", "y">>),
                        !.UPSTREAM_HEADERS =
                            Some(<<"anthropic-version", ":", "SP", "2023">>)],
     buyer    |-> [EXPECTED_UPSTREAM |-> None, NOTARY_PUBKEY |-> Keyed(DEFAULT_SEED)],
     certificate |-> {Host[1]}, key_on_wire |-> None, headers_meant |-> Version]

Cheating == [Standard EXCEPT !.reseller.RESELLER_MODE = Some("cheat-substitute")]
Unpinned == [Standard EXCEPT !.buyer.NOTARY_PUBKEY = None]
NewSeed == [Unpinned EXCEPT !.notary.NOTARY_SEED = Some("other seed")]

\* UPSTREAM_HEADERS written in other ways.
WithHeaders(raw, meant) ==
    [Standard EXCEPT !.dotenv.UPSTREAM_HEADERS = Some(raw), !.headers_meant = meant]
\* The api key as a bearer token as well, before x-api-key: it occurs twice.
Bearer == WithHeaders(<<"authorization", ":", "Bearer", "SP", "k", "e", "y">>,
                      <<Header("authorization", <<"Bearer", "SP", "k", "e", "y">>)>>)
Spellings ==
    { WithHeaders(<< >>, << >>),
      WithHeaders(<<"anthropic-version", ":", "2023", ";", "SP", "SP">>, Version),
      WithHeaders(<<"SP", "anthropic-version", "SP", ":", "SP", "2023", "SP", ";",
                    "SP", "beta", ";", "x-trace", ":", "a", ":", "SP", "b">>,
                  Version \o <<Header("x-trace", <<"a", ":", "SP", "b">>)>>),
      Bearer,
      \* a name no header may have
      WithHeaders(<<"SP", ":", "2023">>, <<Header("", <<"2023">>)>>) }

\* The demo, changed in one respect.
Variants ==
    { Standard, Cheating, Unpinned,
      [Standard EXCEPT !.reseller.RESELLER_MODE = Some("cheat")],
      \* the api key: absent, empty, illegal, written otherwise than configured
      [Standard EXCEPT !.dotenv.UPSTREAM_API_KEY = None],
      [Standard EXCEPT !.dotenv.UPSTREAM_API_KEY = Some(<< >>)],
      [Standard EXCEPT !.dotenv.UPSTREAM_API_KEY = Some(<<"k", "LF">>)],
      [Standard EXCEPT !.dotenv.UPSTREAM_API_KEY = Some(<<"POST">>)],
      [Standard EXCEPT !.key_on_wire = Some(<<"q", "e", "y">>)],
      \* written otherwise, and found in the buyer's body only; or there as well
      [Standard EXCEPT !.dotenv.UPSTREAM_API_KEY = Some(<<"request">>),
                       !.key_on_wire = Some(<<"q">>)],
      [Standard EXCEPT !.dotenv.UPSTREAM_API_KEY = Some(<<"request">>)],
      \* no upstream for the notary, or for the reseller
      [Standard EXCEPT !.notary.UPSTREAM_HOST = None],
      [Standard EXCEPT !.dotenv.UPSTREAM_HOST = None],
      \* the reseller's environment overrides .env: another name for the
      \* upstream, of its certificate or not
      [Standard EXCEPT !.reseller.UPSTREAM_HOST = Alias],
      [Standard EXCEPT !.reseller.UPSTREAM_HOST = Alias,
                       !.certificate = {Host[1], Alias[1]}],
      \* the buyer expects another upstream
      [Standard EXCEPT !.buyer.EXPECTED_UPSTREAM = Some("other")],
      \* seeds: changed for one process only, or for both
      NewSeed,
      [NewSeed EXCEPT !.dotenv.NOTARY_SEED = Some("other seed")],
      [Standard EXCEPT !.buyer.NOTARY_PUBKEY = Keyed("stale seed")] }
    \cup Spellings

Demo == {Standard}
Gateways == {Standard, Bearer}
\* What the servers may be restarted with.
Restarts == {Unpinned, [Unpinned EXCEPT !.reseller = Cheating.reseller], NewSeed}
=============================================================================
