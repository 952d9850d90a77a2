-------------------------------- MODULE World --------------------------------
(***************************************************************************)
(* What the processes share: the environment they were started in, the     *)
(* HTTP exchange between buyer and reseller, the TCP session between       *)
(* reseller and notary, the TLS connection to the upstream that the notary *)
(* proxies, the payment ledger and time.  There is one exchange, session   *)
(* and connection per purchase: handlers and sessions share nothing but    *)
(* immutable configuration, and the process they run in.                   *)
(***************************************************************************)
EXTENDS Gate, Deployment

CONSTANTS
    Purchases,   \* concurrent purchases, each a run of the buyer
    Envs,        \* the environments considered
    Replies,     \* what the upstream may send back
    MaxExits,    \* bound on how often a process stops
    MaxClock     \* bound on time

ASSUME BoundsAssumption == MaxExits \in Nat /\ MaxClock \in Nat
\* No more than the shape of an environment and of a reply.
ASSUME EnvsAssumption == \A e \in Envs : {"notary", "certificate"} \subseteq DOMAIN e
ASSUME RepliesAssumption ==
    Replies \subseteq [interim : BOOLEAN, status : Nat, chunked : BOOLEAN,
                       complete : BOOLEAN, body : Bodies]

VARIABLES
    env, clock,
    app, cfg,           \* the reseller's App, the notary's Config; None: not running
    exits,              \* how often a process has stopped
    http, link, tls,    \* the three connections of each purchase
    ledger,             \* when each purchase was paid
    faults              \* the purchases something outside the code has failed
processVars == <<env, clock, app, cfg, exits>>
worldVars == <<processVars, http, link, tls, ledger, faults>>

\* The request body the buyer of p serialises, as bytes, and its payment reference.
RequestBody(p) == <<"request", p>>
Reference(p) == <<"tx", p>>

Fault(p) == faults' = faults \cup {p}

-----------------------------------------------------------------------------
\* The HTTP exchange: the message in flight and whose move it is.
Idle == [at |-> "idle"]
Asked(body, credential) ==
    [at |-> "reseller", body |-> body, credential |-> credential]
Answered(status, challenge) ==
    [at |-> "buyer", status |-> status, challenge |-> challenge]
Sold(payment, receipt, materials, body) ==
    [at |-> "buyer", status |-> 200, payment |-> payment, receipt |-> receipt,
     materials |-> materials, body |-> body]
Hangup == [at |-> "closed"]

\* A request to a reseller that is not running is refused.
Post(p, request) ==
    /\ http' = [http EXCEPT ![p] = IF app = None THEN Hangup ELSE request]
    /\ IF app = None THEN Fault(p) ELSE UNCHANGED faults

\* A response on a connection that is gone reaches nobody.
Respond(p, response) ==
    http' = [http EXCEPT ![p] = IF @ = Hangup THEN Hangup ELSE response]

-----------------------------------------------------------------------------
\* The prover's session with the notary, by what it is waiting for.
NoLink == [stage |-> "none"]
Commit(mode, host) == [stage |-> "commit", mode |-> mode, host |-> host]
Proxying(host) == [stage |-> "proxying", host |-> host]
Disclosed(host, identity, sent, received) ==
    [stage |-> "disclosed", host |-> host, identity |-> identity,
     sent |-> sent, received |-> received]
Closing == [stage |-> "closing"]
\* The bytes read until EOF: Some(attestation), or None when they are no
\* complete attestation.
EndOfFile(bytes) == [stage |-> "eof", bytes |-> bytes]
Broken == [stage |-> "broken"]
Up(l) == l.stage \in {"commit", "proxying", "disclosed", "closing"}

SetLink(p, l) == link' = [link EXCEPT ![p] = l]
\* Every session of a process that stops is cut.
CutLinks == link' = [p \in Purchases |-> IF Up(link[p]) THEN Broken ELSE link[p]]

-----------------------------------------------------------------------------
\* The proxied TLS connection: the host dialled and when, the bytes that were
\* sent and the reply that came back.
NoTls == [stage |-> "none"]
Open(host, time) == [stage |-> "open", host |-> host, opened |-> time,
                     sent |-> None, reply |-> None]
SendTls(p, bytes) ==
    tls' = [tls EXCEPT ![p].stage = "requested", ![p].sent = Some(bytes)]

\* A reply: an interim (1xx) head may precede it, its body may be chunked and
\* may be cut short.
Reply(interim, status, chunked, complete, body) ==
    [interim |-> interim, status |-> status, chunked |-> chunked,
     complete |-> complete, body |-> body]

\* What a prover discloses of a reply: it may hide any of the status code, the
\* header that declares chunking, the first blank line and bytes of the body.
Parts == {"status", "encoding", "blank line", "body"}
View(reply, hidden) == [reply |-> reply, hidden |-> hidden]

WorldInit ==
    /\ env \in Envs /\ clock = 0
    /\ app = None /\ cfg = None /\ exits = 0
    /\ http = [p \in Purchases |-> Idle]
    /\ link = [p \in Purchases |-> NoLink]
    /\ tls = [p \in Purchases |-> NoTls]
    /\ ledger = [p \in Purchases |-> None]
    /\ faults = {}

-----------------------------------------------------------------------------
\* The environment.  The upstream answers or hangs up; connections fail.
UpstreamReply(p) ==
    /\ tls[p].stage = "requested"
    /\ \E reply \in Replies :
          /\ tls' = [tls EXCEPT ![p].stage = "replied", ![p].reply = Some(reply)]
          /\ IF reply.complete THEN UNCHANGED faults ELSE Fault(p)
    /\ UNCHANGED <<processVars, http, link, ledger>>

UpstreamHangup(p) ==
    /\ tls[p].stage \in {"open", "requested"}
    /\ tls' = [tls EXCEPT ![p].stage = "closed"]
    /\ Fault(p)
    /\ UNCHANGED <<processVars, http, link, ledger>>

LinkFails(p) ==
    /\ Up(link[p])
    /\ SetLink(p, Broken) /\ Fault(p)
    /\ UNCHANGED <<processVars, http, tls, ledger>>

HttpFails(p) ==
    /\ http[p].at \in {"reseller", "buyer"}
    /\ http' = [http EXCEPT ![p] = Hangup] /\ Fault(p)
    /\ UNCHANGED <<processVars, link, tls, ledger>>

Tick ==
    /\ clock < MaxClock /\ clock' = clock + 1
    /\ UNCHANGED <<env, app, cfg, exits, http, link, tls, ledger, faults>>
=============================================================================
