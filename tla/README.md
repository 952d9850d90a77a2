# A TLA+ verification of Provably

Provably sells computed results over HTTP 402 and attaches to each a receipt the
buyer can check: a graph of attested upstream calls ("legs") and of the seller's
own computation ("interior" nodes), bound to the payment. This directory models
the three processes of the repository and the verifier they share, checks them
with TLC and proves with TLAPS, for every number of purchases and every
environment, that the verifier, the notary, its decoding of HTTP messages and a
whole purchase are correct.

## 1. The system

| part | state | operations | what makes it correct |
|---|---|---|---|
| `provably-core` | none (types) | digests, signing message, `verify_proof`, header encoding | a signature is accepted only over the claim and key it was made with |
| `provably-verifier` | the locals of `verify()` and `leg_ancestors`: stack, `seen`, checks | bindings, walk, node loop | all checks pass iff the receipt meets the gate; it returns on any graph |
| `provably-mpp` | none | `gate`, header encodings, `advertise` | `gate` is the conjunction of the checks |
| `provably-transport` | the notary's key | `from_seed`, `public_key_hex`, `attest` | one key per seed |
| `provably-prover` | none | names the interior transform | - |
| `examples/harness` | none | `starts_with_yes`, `recompute` | buyer and seller run the same transform |
| `examples/buyer` | progress of one purchase, pinned key | fund, pin, ask, pay, re-run, verify | verified only if genuine; every purchase ends |
| `tlsn/reseller` | `App`, read at start; one handler per request: payment, upstream answer | start, challenge, authorise, prover run, deliver | nothing unpaid is served; the upstream is sent what is configured; the notary is shown the request but for one occurrence of the api key, or nothing |
| `tlsn/notary` | `Config`, read at start; one session per prover | start, accept, commit, proxy, disclosure, sign, write | only bytes it was shown, of the configured host, are signed |

The buyer talks HTTP to the reseller, first without and then with a payment
credential. The reseller opens a TCP session to the notary and asks it to proxy a
TLS connection to the upstream; the request and response travel through that
connection; the reseller discloses them (the api key blanked), the notary checks,
signs and writes the attestation to the raw socket until EOF. The reseller
computes the verdict and answers with payment receipt, provably receipt and
materials. The buyer re-runs the transform and calls `verify()`.

What is hard: three processes and an upstream that wait on each other without any
timeout; every connection may break between any two steps, after the payment was
made; the notary may fail when the session is already closed; the two sides
decode HTTP independently and must agree byte for byte; keys and host names are
configured separately in three places, by variables and by a `.env` only one of
them reads; a server may be restarted with other settings while a purchase is
under way, and one failed `accept()` ends the notary with all its sessions;
`verify()` walks a graph it was sent. Handlers share nothing mutable (`App` and
`Config` are immutable), only the process they run in, so concurrent purchases
meet nowhere else in the code.

## 2. Modules

| module | models | role |
|---|---|---|
| `Bytes` | the slicing of byte strings all of the code uses | pure operators |
| `Receipt` | `provably-core`, `provably-transport`, header encodings | data; ideal cryptography |
| `Gate` | `gate()` and the promise of `verify()` | closed-form predicate; least fixed point for the ancestors |
| `Verifier` | `verify()`, `leg_ancestors` | state machine over arbitrary receipts |
| `VerifierProofs` | | the theorems about `verify()` |
| `Harness` | `examples/harness` | transform over abstract bodies |
| `Deployment` | the start of each `main`, `parse_headers` | from environment variables to `App` and `Config` |
| `World` | connections, ledger, time, failures | shared by the three processes |
| `Buyer`, `Reseller`, `Notary` | the three `main.rs` | one action per exchange with another party |
| `Provably` | the composition | properties of a purchase, refinement mapping |
| `Exchange` | | abstract specification of a purchase |
| `AnyProver` | the notary alone | notary against provers that disclose any ranges |
| `Dechunk` | `status_code`, `decoded_body`, `header_is_chunked`, `dechunk`; how a server frames a message | byte-level state machine |
| `BytesProofs`, `RequestProofs` | | lemmas: words of a line, the request, where its head ends, the key in it |
| `NotaryProofs`, `AnyProverProofs` | | the invariant of the notary's sessions; what it signs |
| `DechunkProofs` | | what the notary decodes |
| `ProvablyProofs`, `VerdictProofs` | | the invariant of a purchase; what a verdict means; honest runs; the refinement |
| `MC*` | | bounded constants for TLC |

State and actions. `buyer[p]`, `sale[p].pc` and `session[p].pc` are the places at
which the async code of purchase `p` waits; `http[p]`, `link[p]` and `tls[p]` are
what is in flight on the three connections; `ledger` holds when each payment was
settled. `env` holds the variables of every process and `.env`, `app` and `cfg`
the immutable state a server reads from them when it starts (`Serve`, `Listen`)
and loses when it stops (`ResellerStops`, `NotaryStops`, at most `MaxExits`
times), after which it may be started with other variables. `clock` is a coarse
time (`Tick`, up to `MaxClock`); the notary signs the time its connection was
opened. `faults` records the purchases that something outside the code has
failed: a broken connection, an unreachable upstream, a payment that does not
confirm, a server that is not there.
An action takes every early return of the code it stands for and ends where that
code waits for another party's message. Awaits in between that wait only for the
same peer's half of one protocol step are part of it: `Prove` covers `prove`,
`close` and the tear-down of the session, `AcceptDisclosure` the request, `accept`,
`close` and reclaiming the socket. A session that breaks between them is a
`LinkFails` before or after the action, with the same early return (`Abandon`,
`SessionBreaks`). `expect()` failures of the buyer are the outcome `crashed`; a
panicking handler hangs up. Operators under a `Mutant` comment are deliberate faults used to show that a property can fail;
no specification uses them.

Abstractions. SHA-256 and Ed25519 are injective constructors. A request is a
sequence of tokens, head and body, in which the api key is several; of the headers
the code fixes, `Host` stands for all. A body is its JSON
shape, its model and its text, the last by how it begins. A chunked body is its
content in `Provably`, which `Dechunk` justifies. hyper, axum, tlsn and mpp are
external: hyper returns the decoded final response or an error, tlsn discloses
only bytes that crossed the connection under a name the certificate covers and
leaves the rest zero, mpp confirms a settled payment or fails. What is disclosed
of a request is any set of its tokens; of a response, any of four parts: the
status, the header that declares chunking, the first blank line, bytes of the body
(`View`). That a prover learns of a session the notary has given up is an
assumption about tlsn: an early `?` of `notarize_session` only detaches the driver
task that owns the socket (notary `main.rs:123`).

## 3. Runs

- **verifier** (`MCVerifier`, 60,893 states). Receipts of up to three nodes over three ids:
  any two nodes with any ids (repeats, dangling edges), any three distinct ones
  (chains, diamonds, 3-cycles), bad legs; four expectations (pinned and unpinned,
  request bound or not, partial and contradicting recomputations). `verify()`
  decides the gate (`VerifyDecidesGate`), the walk finds exactly the ancestors
  (`WalkFindsAncestors`), it returns (`VerifyReturns`). Three ids are enough for
  a cycle that misses the start, a diamond and a shadowed node.
- **purchase** (`MCProvably`, 51,822 states). One purchase under 24 environments:
  honest and cheating seller, each way the api key can be set (one that spells the
  request's method, one that also stands in another header, one that is found in
  the buyer's body, with and without its own header), host names that
  disagree with or without a common certificate, missing variables, seeds changed
  on one side or both, stale pinned keys, five spellings of `UPSTREAM_HEADERS`;
  upstream replies of every JSON shape, error status, chunked, cut short, or none.
  `VerifiedIsGenuine` (what VERIFIED means), `HonestRunVerifies` (as documented
  and unfailed, every run is verified), `PaidLossHasCause` (a buyer that has paid
  and gets no verdict was failed from outside, or by a deployment in which no sale
  can go through, or by the one panic of `substitute()`), `RejectsForCause`,
  `KeyHidden` (which bytes the notary is not shown), `SignedIsWitnessed`,
  `UpstreamSentAsConfigured`, `PurchasesEnd` and the refinement
  `ImplementsExchange`.
- **restart** (`MCProvably`, 34,723 states). Two stops, of either server, at any
  point, and a restart, or none, in cheat mode or with another notary seed:
  `VerifiedIsGenuine`, `RejectsForCause`, `PurchasesEnd`. Two are enough for both
  servers to be replaced under one purchase, or one of them twice.
- **concurrent** (`MCProvably`, 1,216,031 states). Two purchases at once over the same
  servers: `HonestRunVerifies`, here that no failure of one reaches the other.
- **any_prover** (`MCAnyProver`, 1,376,372 states). A session with a prover that
  discloses any of the 2^8 sets of bytes of its request and any of the 2^4 sets of
  parts of the response, with or without the identity, and a notary that may stop
  and come back for another host and with another key: `SignsOnlyWitnessed`. One
  session is enough, since sessions share only the configuration; the proof is for
  any number.
- **reader** (`MCAnyProver`, 37,040 states). The same with a shorter request and two
  stops: `ReaderReachesEof`.
- **dechunk** (`MCDechunk`, 21,666 states). Up to two chunks whose data holds line
  breaks, digits and semicolons, sizes with a leading zero, white space and
  extensions, or whose hex differs from the decimal, trailers, the body cut after
  every byte; status lines with and without a reason, oddly spaced, with a plus
  sign, at and beyond 2^16 or not numeric: `DecodesContent`,
  `StatusAsSent`, `DechunkReturns`. TLC also evaluates that each of these messages
  is framed as `DeliveriesAssumption` says, with its size and status spelt out.
- **interim** (expected violation). With an interim (1xx) response before the
  final one, `decoded_body` digests the final head and body together while hyper
  delivers the body: an honest purchase is rejected, against README.md ("An honest
  run passes every check"). The passing runs leave interim responses out.
- **chunked** (expected violation). The reseller's note that the upstream must not
  chunk is out of date: the notary de-chunks and the purchase is verified.
- **key_shown** (expected violation). `run_prover` blanks the first occurrence of the
  api key. With the key in an `authorization` header of `UPSTREAM_HEADERS` as well,
  which comes before `x-api-key`, the notary is shown the latter, against the
  comment in the code and the reseller's README ("the notary never sees it").
- **partial** (expected violation). The notary digests what it was shown, with zeros
  for the rest, and does not ask whether that is everything. When a prover
  discloses part of its transcript, the digests it signs are not those of what
  crossed the connection, against the comment above the code ("What we
  cryptographically verified crossed this connection"). This reseller discloses
  all but the key, so a purchase meets it only where the key is part of the body.

Fairness. Buyers, handlers and sessions are tasks of a running executor, so their
steps are weakly fair while the process runs. That a server is ever started, or
started again, is not assumed. That the upstream answers or hangs up (`WF` of `Upstream`) is an
assumption about the environment: no side has a timeout, and without it a
purchase may wait for ever. Nothing is assumed of failures. `reader` assumes
fairness of the notary only. `verify()` and `decoded_body` are single-threaded
and run to completion.

`KeyHidden` states what the search for the key gives: exactly one occurrence of the
configured key is blank, or nothing is disclosed; the `x-api-key` header is blank
provided that no occurrence precedes it. Without that proviso it is false, which is
the run `key_shown`. `PurchasesEnd` counts an error, a lost connection and the
buyer's `expect()` as ends; which of them a buyer that has paid may meet is
`PaidLossHasCause`. `verify()` does not itself
check that ids are unique, that the graph is acyclic or that it has the shape of
the declared harness; `Gate` says exactly what it does check.

## 4. Proofs

All theorems hold for every value of the constants: any set of concurrent
purchases, any environments and replies, any number of restarts, messages of any
length and number of chunks.

| theorem | module | states |
|---|---|---|
| `VerifierTypeOK`, `WalkCorrect`, `VerifyCorrect` | `VerifierProofs` | `[]TypeOK`, `[]WalkFindsAncestors`, `[]VerifyDecidesGate` |
| `AnyProverSafe` | `AnyProverProofs` | `[]SignsOnlyWitnessed` |
| `TypeSafe`, `SignedSafe`, `KeySafe` | `ProvablyProofs` | `[]TypeOK`, `[]SignedIsWitnessed`, `[]KeyHidden` |
| `VerifiedSafe`, `RejectsSafe` | `VerdictProofs` | `[]VerifiedIsGenuine`, `[]RejectsForCause` |
| `HonestSafe` | `VerdictProofs` | `[]HonestRunVerifies`, if no reply has an interim head |
| `SendsConfigured` | `ProvablyProofs` | every request sent, after any restarts, is the one configured then, with the buyer's body |
| `Implements` | `VerdictProofs` | the refinement `ImplementsExchange` |
| `StatusSafe`, `DecodesSafe` | `DechunkProofs` | `[]StatusAsSent`, `[]DecodesContent` |
| `EveryTurnConsumes` | `DechunkProofs` | a turn of `dechunk` ends it or leaves less to read, on any bytes |

Assumptions. Those on constants are the Rust types: ids and node lists
(`NodesAssumption`, `ReceiptsAssumption`), the bounds are naturals
(`BoundsAssumption`), environments and replies have their fields
(`EnvsAssumption`, `RepliesAssumption`), and what a process reads from its
variables is a host, perhaps a key, a list of header pairs of strings, and hyper
writes the key as a header value (`ProcessesAssumption`); the requests of other
provers are bytes (`RequestsAssumption`). `DeliveriesAssumption` says that a message is framed as
HTTP/1.1 prescribes: a head that ends at its only blank line, or nothing
disclosed; chunks whose size is that of their data, then any beginning of a
further or of the last one. TLC evaluates each on the runs. `HonestSafe` also
assumes that the upstream sends no interim response; the run `interim` shows that
without it the statement is false.

### The verifier

The property of the result is not inductive: it says nothing before the return.
`IndInv` adds `WalkInv` (what is seen or pending lies in every closed set, and
the seen ids are closed up to the pending ones, so an empty stack means a closed
set contained in all others, the ancestors) and `CheckedSoFar` (the checks pushed
so far amount to a prefix of the gate's conjunction). One lemma per action.
Underneath are lemmas on the code's operators: the node map returns a node of the
receipt (a last one exists, by well-foundedness of the naturals), popping loses
only the top, and each group of checks decides its part of the gate.

### The notary

`NotaryInv` holds whoever the prover is, so both `AnyProver` and `Provably` use
it. Per session: `Paired` (session, link and upstream connection are in matching
stages), `Dialled` (a live session's upstream is the one of the configuration in
force: this is why a signature made after a restart cannot be over a host dialled
before it), `Authenticated` (a request only crosses under a name of the
certificate, and the response disclosed is the one that crossed), `Witnessed`
(what was accepted crossed, what is signed is the claim over what was accepted,
and the bytes written are that attestation or too few). `AnyProverProofs` adds
`ShownInv`, which ties the session to what the prover disclosed: of the request its
bytes or blanks, of the response a view. The claim is then read off the disclosed
bytes, and where none of them is blank they are the ones that crossed.

### A purchase

`Inv` is `NotaryInv` and, per purchase, a chain from payment to verdict.
`ProcessInv`: a running server runs what its environment says. `BuyerInv`,
`HttpInv`, `SaleInv`: where buyer, message and handler can be at the same time,
and that a handler past the gate serves a request whose payment is on the ledger,
in the process that accepted it. `PaidFirst`: a connection is opened after the
payment and carries this buyer's request: a POST, and the body after its first blank
line is the buyer's (`IsRequest`). `DisclosureInv`: what the notary is shown of the
request are its bytes or blanks, with the head ending at the same place, and of the
response everything. `SoldInv`: a 200 is the receipt over the leg that was
signed, with the transform of the answer or of a cheating seller's substitute.
`VerdictInv`: the outcome is the check of what was sold, with the key pinned
then. None of the properties is inductive without this chain: that a verdict is
genuine depends on what was sold, that on what was signed, that on what was
disclosed, and each on steps of other processes and on restarts in between.

`SignedSafe` follows from `PaidFirst`, `DisclosureInv` and `Witnessed`, and from
what `RequestProofs` says of the request, whatever headers are configured: it is
written line by line (by induction on the lines), so its first line is the POST,
its first blank line ends the head (`RequestIsCut`), and blanking a key that holds
no line break moves neither (`RedactionKeepsCut`). `KeySafe` follows from the
position `run_prover` finds, the least one, and from the value of the last header
being one of those it may find (`KeyInRequest`, kept as `Findable` until the
disclosure). `VerifiedSafe` and `RejectsSafe` evaluate the gate on the receipt the reseller
makes: headers decode to what was encoded, the receipt has two nodes, its only
leg is the one signed, the re-run yields the digest of the transform of the
shipped bytes (`HarnessNodes`, `HarnessLegs`, `HarnessRecomputed`). From there an
accepted receipt means that the shipped bytes are the upstream's
(`AcceptedMeans`), and a genuine one is accepted (`GenuineIsAccepted`) unless the
notary was shown another request body than the buyer's, that is, with blanks in it
(`BlankInBody`).

`HonestSafe` needs a second invariant, of unfailed purchases in a documented
deployment: `BuyerOnTrack` and `ProverOnTrack` say that no connection is broken,
handler, session and upstream wait for each other and for nothing else, the hosts
and keys of the three agree, and the notary is shown the whole request body: the
first occurrence of the key is found in the request, at the `x-api-key` header or
before it (`RedactionSparesBody`). Then every early return of the three processes
is unreachable, and by `RejectedWhy` so is a rejection.

`Implements`: buyers pay or end (`BuyingSeen`), the upstream answers
(`UpstreamSeen`), and nothing else is seen by the exchange; that acceptance
yields the transform of the answer is `VerifiedIsGenuine`.

`SendsConfigured`: `SentOnce` says that a request crosses in `SendRequest` only, with
the head of the `App` that runs then, and is not changed afterwards; by
`ProcessInv` that `App` is what the variables say.

### Decoding

`decoded_body` looks for blank lines, line breaks and semicolons; the data of a
chunk may hold any of them. `Dechunk` describes a message as its server framed it:
`Frame` is one chunk, `Received` the bytes and the data of the last `m` chunks
and of the beginning that follows them, `Content` what decoding is to give. The
notary's code is defined without them, on `Buf`, the bytes. Only the value of
digits (`Number`) is common to both.

`DecodesContent` is not inductive: that what was collected is a prefix does not
say that the loop stands at the start of a chunk. `Decoding` adds that
(`OnTrack`): what is left to read is the bytes of the last `m` chunks, and the data
collected and theirs make up the content; or no line break is left and the content
is complete. The split finds the head, since a blank line that begins in the head
is the head's own. A turn of the loop on whole chunks: the first line break is
that of the size line, which holds none; up to any semicolon and trimmed, the line
is the digits; so exactly the data is taken and its line break dropped, and `m`
goes down by one. On the last beginning, whichever of its four parts the cut
falls in, the loop ends or takes the data that arrived whole.

`StatusSafe`: the second word of a status line is its code, if it has one
(`SecondWord`), since the line break and what follows it begin a later word.
`EveryTurnConsumes` assumes nothing of the framing: it is why the loop ends, after
at most as many turns as there are bytes.

### Only model-checked

- Liveness (`PurchasesEnd`, `VerifyReturns`, `ReaderReachesEof`,
  `DechunkReturns`): fairness and `ENABLED` are out of the prover's reach. Of the
  last, `EveryTurnConsumes` proves the measure that decreases.
- `UpstreamSentAsConfigured`: what `parse_headers` makes of a string is compared with
  what the operator means by it for the strings of run `purchase`. It filters a
  list recursively, which is an induction over data. `SendsConfigured` proves the
  rest of the way, from the parsed headers to the upstream.
- `PaidLossHasCause`, and the two findings about disclosure.
- The value of the digits of a size or status (`Number`), for the same reason.

## 5. Not modelled

- On-chain settlement and the faucet beyond their success or failure; mpp's check
  of a credential after a restart (it may succeed or fail).
- tlsn's own protocol, hyper's and axum's: external, by their results. In particular
  what hyper decodes of a response is the content the upstream sent.
- A response disclosed in parts other than the four of `View`, and a request of
  another prover that declares itself chunked (`decoded_body` would de-chunk it, as
  `Dechunk` describes for any message).
- Ports and addresses (`NOTARY_ADDR`, `UPSTREAM_PORT`, ...), price, logging,
  printing, `/health`: no property depends on them.
- `advertise()` and the `Prover` trait: no callers, no state.
- Header size limits: those of the HTTP libraries. The outcome, a response that is
  lost, is modelled for every response.
- Resources of abandoned sessions: no side has a timeout, so a notary session whose
  prover went silent stays open. `Provably` lets it linger; it harms no purchase.
- A chunk size that overflows `usize`, and compressed responses (the request asks
  for `identity`).

## 6. Plan

Done in this order: `Receipt`, `Gate`, `Verifier` and its proofs; the three
processes with `World` and `Provably`; `Exchange`; `AnyProver`; `Dechunk`; then
`Deployment` and `Bytes`, starting, stopping and restarting of the servers, time,
and the runs `restart` and `concurrent`; then the proofs about the notary, the
purchase, the verdict, honest runs and the refinement, what the upstream is sent,
and what the notary decodes.
Left: what `parse_headers` and the number parser compute for every string, should
the provers come to support induction over data.
