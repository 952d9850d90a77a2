----------------------------- MODULE Deployment -----------------------------
(***************************************************************************)
(* From environment variables to what each process runs with.              *)
(*                                                                         *)
(* An environment has the variables of each process (notary, reseller,     *)
(* buyer), each an option, and the .env file only the reseller loads.      *)
(* Beside them are facts the processes do not know: the names the          *)
(* upstream's certificate covers, the bytes hyper writes for the api key   *)
(* where they are not the configured ones, and the headers the operator    *)
(* means by UPSTREAM_HEADERS.                                              *)
(***************************************************************************)
EXTENDS Harness, Bytes

OrElse(var, default) == IF var = None THEN default ELSE var[1]

\* dotenvy::dotenv(): the file supplies what the process environment does not.
WithDotenv(vars, file) ==
    [v \in DOMAIN vars |-> IF vars[v] = None THEN file[v] ELSE vars[v]]

\* Mutant: a pair is cut at its last colon.
ParseHeadersLastColon(raw) ==
    LET pieces == SplitOn(raw, {";"})
        words(k) == SplitOn(Trim(pieces[k]), {":"})
    IN  [k \in DOMAIN pieces |-> [name  |-> Trim(words(k)[1]),
                                  value |-> Trim(words(k)[Len(words(k))])]]

\* parse_headers: the pairs of "Name: Value; Name2: Value2", cut at the first
\* colon, trimmed; a pair without a colon is dropped.
ParseHeaders(raw) ==
    LET hasColon(pair) == Position(pair, <<":">>) # 0
        pairs == SelectSeq([k \in DOMAIN SplitOn(raw, {";"}) |->
                                Trim(SplitOn(raw, {";"})[k])], hasColon)
    IN  [k \in DOMAIN pairs |->
            LET colon == Position(pairs[k], <<":">>)
            IN  [name  |-> Trim(Take(pairs[k], colon - 1)),
                 value |-> Trim(Drop(pairs[k], colon))]]

DEFAULT_SEED == "demo-notary-key"
SeededNotary(vars) == FromSeed(OrElse(vars.NOTARY_SEED, DEFAULT_SEED))

\* The reseller's App.  Without UPSTREAM_HOST it does not start.
ResellerVars(env) == WithDotenv(env.reseller, env.dotenv)
App(vars) ==
    [upstream_host    |-> vars.UPSTREAM_HOST[1],
     api_key          |-> vars.UPSTREAM_API_KEY,
     upstream_headers |-> ParseHeaders(OrElse(vars.UPSTREAM_HEADERS, << >>)),
     notary_pubkey    |-> PublicKeyHex(SeededNotary(vars)),
     mode             |-> IF vars.RESELLER_MODE = Some("cheat-substitute")
                          THEN "cheat-substitute" ELSE "honest"]

\* The notary's Config.  Without UPSTREAM_HOST it does not start either.
Config(vars) ==
    [upstream_host |-> vars.UPSTREAM_HOST[1], notary |-> SeededNotary(vars)]

\* The buyer's.
ExpectedUpstream(env) == OrElse(env.buyer.EXPECTED_UPSTREAM, "api.anthropic.com")

\* What the request builder takes for a header.
IsHeaderValue(value) == \A i \in DOMAIN value : value[i] \notin {"CR", "LF"}
IsHeader(h) == /\ h.name # << >> /\ \A i \in DOMAIN h.name : h.name[i] \notin White
               /\ IsHeaderValue(h.value)

\* A deployment in which a sale can go through: one upstream, named by both
\* servers and covered by its certificate; an api key that is a header value
\* written as it is; headers that are headers.
Workable(env) ==
    LET vars == ResellerVars(env)
        key  == vars.UPSTREAM_API_KEY
        host == vars.UPSTREAM_HOST
    IN  /\ host # None /\ host = env.notary.UPSTREAM_HOST
        /\ host[1] \in env.certificate /\ IsHeaderValue(<<host[1]>>)
        /\ key # None => /\ key[1] # << >> /\ IsHeaderValue(key[1])
                         /\ env.key_on_wire = None
        /\ \A h \in Range(App(vars).upstream_headers) : IsHeader(h)

\* The deployment the README describes: the seller honest, the upstream the one
\* the buyer expects, and one seed, or the key of the notary's pinned.
Documented(env) ==
    LET vars == ResellerVars(env)
    IN  /\ Workable(env)
        /\ vars.RESELLER_MODE \in {None, Some("honest")}
        /\ vars.UPSTREAM_HOST = Some(ExpectedUpstream(env))
        /\ OrElse(env.buyer.NOTARY_PUBKEY, PublicKeyHex(SeededNotary(vars)))
                = PublicKeyHex(SeededNotary(env.notary))
=============================================================================
