--------------------------- MODULE ProvablyProofs ---------------------------
(***************************************************************************)
(* The safety of a purchase, for any number of concurrent purchases, any   *)
(* environments, replies and restarts.                                     *)
(***************************************************************************)
EXTENDS RequestProofs, NotaryProofs

\* What the processes run with is what the environment says.
ProcessInv ==
    /\ {"reseller", "dotenv", "buyer", "key_on_wire"} \subseteq DOMAIN env
    /\ \E e, f \in Envs : /\ env.reseller = f.reseller /\ env.dotenv = e.dotenv
                          /\ env.buyer = e.buyer /\ env.key_on_wire = e.key_on_wire
    /\ clock \in Times /\ exits \in 0 .. MaxExits /\ faults \subseteq Purchases
    /\ app # None => /\ app = Some(App(ResellerVars(env)))
                     /\ ResellerVars(env).UPSTREAM_HOST # None
    /\ cfg # None => cfg = Some(Config(env.notary))
    /\ DOMAIN http = Purchases /\ DOMAIN sale = Purchases
    /\ DOMAIN buyer = Purchases /\ DOMAIN pinned = Purchases
    /\ DOMAIN ledger = Purchases

\* The buyer, its payment and the key it pinned.
BuyerInv(p) ==
    /\ buyer[p] \in {"start", "funded", "pinned", "asked", "paid"} \cup Outcomes
    /\ ledger[p] \in Option(0 .. clock)
    /\ buyer[p] \in {"start", "funded", "pinned"} =>
            http[p] = Idle /\ ledger[p] = None /\ sale[p].pc = "idle"
    /\ buyer[p] = "asked" => /\ ledger[p] = None
                             /\ http[p] # Hangup => sale[p].pc = "idle"
    /\ buyer[p] = "paid" => ledger[p] # None
    /\ buyer[p] \in {"pinned", "asked", "paid", "verified", "rejected"} =>
            pinned[p] = Some(pinned[p][1])

\* The message in flight and the handler it is with.
HttpInv(p) ==
    /\ http[p].at \in {"idle", "reseller", "buyer", "closed"}
    /\ http[p].at = "idle" => sale[p].pc = "idle"
    /\ http[p].at = "closed" => http[p] = Hangup
    /\ http[p].at = "reseller" =>
            /\ http[p].body = RequestBody(p) /\ sale[p].pc # "done"
            /\ http[p].credential \in {None, Some(Reference(p))}
            /\ buyer[p] = IF http[p].credential = None THEN "asked" ELSE "paid"
    /\ http[p].at = "buyer" => sale[p].pc \in {"idle", "done"}

SaleShape(s) ==
    s = [pc |-> s.pc, request |-> s.request, reference |-> s.reference,
         answer |-> s.answer]

\* An api key written as it is configured is in the request, where KeyAt says.
Findable(a, on_wire, sent) ==
    a.api_key # None /\ a.api_key[1] # << >> /\ OrElse(on_wire, a.api_key[1]) = a.api_key[1] =>
        KeyAt(sent, a.api_key[1]) \in Places(sent, a.api_key[1])

\* The handler: its purchase is paid, its session belongs to the process it
\* runs in, and it is where its session and connection are.
SaleInv(p) ==
    /\ SaleShape(sale[p])
    /\ sale[p].pc \in {"idle", "paid", "committing", "requested", "proving", "done"}
    /\ sale[p].pc \in {"paid", "committing", "requested", "proving"} =>
            /\ app # None /\ ledger[p] # None
            /\ sale[p].request = Some(RequestBody(p))
            /\ sale[p].reference = Some(Reference(p))
            /\ http[p].at \in {"reseller", "closed"}
    /\ sale[p].pc \in {"idle", "paid"} => link[p].stage = "none"
    /\ sale[p].pc = "proving" =>
            /\ tls[p].stage = "replied"
            /\ sale[p].answer = Some(tls[p].reply[1].body)
    /\ Up(link[p]) => app # None
    /\ link[p].stage \in {"commit", "proxying", "disclosed"} =>
            link[p].host = app[1].upstream_host
    /\ sale[p].pc = "requested" =>
            /\ tls[p].stage # "none" /\ Buildable(app[1])
            /\ Findable(app[1], env.key_on_wire, tls[p].sent[1])

\* A POST, and the body after its first blank line is the buyer's.
IsRequest(p, sent) ==
    /\ IsPost(sent) /\ SplitAt(sent) \in 0 .. Len(sent)
    /\ DecodedRequest(sent) = RequestBody(p)

\* A connection is opened for a purchase that is paid, and carries its request.
PaidFirst(p) ==
    /\ link[p].stage # "none" => ledger[p] # None
    /\ tls[p].stage # "none" => tls[p].opened \in ledger[p][1] .. clock
    /\ session[p].time \in Option(0 .. clock)
    /\ tls[p].stage \in {"requested", "replied"} => IsRequest(p, tls[p].sent[1])

\* Of the request, the notary is shown the bytes or blanks, and it ends the head
\* where the reseller did; of the response it is shown all.
IsShown(sent, shown) ==
    /\ shown \in Text /\ DOMAIN shown = DOMAIN sent /\ Len(shown) = Len(sent)
    /\ \A i \in DOMAIN sent : shown[i] \in {sent[i], "NUL"}
    /\ SplitAt(shown) = SplitAt(sent)
ShownAs(p, shown, view) ==
    IsShown(tls[p].sent[1], shown) /\ view = View(tls[p].reply[1], {})

DisclosureInv(p) ==
    /\ link[p].stage = "disclosed" =>
            link[p].identity /\ ShownAs(p, link[p].sent, link[p].received)
    /\ session[p].pc \in {"accepted", "signed"} =>
            ShownAs(p, session[p].sent[1], session[p].received[1])

\* What is sold: the receipt over the leg that was signed, and the transform of
\* the upstream's answer or of what a cheating seller made of it.
SoldWith(p, output) ==
    http[p] = Sold(http[p].payment,
                   ToHeader(HarnessReceipt(session[p].signed[1], StartsWithYes(output),
                                           Some(Reference(p)))),
                   MaterialsToHeader([id \in {"leg0"} |-> output]),
                   StartsWithYes(output))

SoldInv(p) ==
    http[p].at = "buyer" /\ http[p].status = 200 =>
        /\ session[p].pc = "signed"
        /\ http[p].payment \in {None, Some(Reference(p))}
        /\ \E output \in {tls[p].reply[1].body, Substitute(tls[p].reply[1].body)} :
                SoldWith(p, output)

\* The verdict is the check of what was sold.
Receipt200(p) == FromHeader(http[p].receipt)[1]
Materials200(p) == MaterialsFromHeader(http[p].materials)[1]
VerdictInv(p) ==
    buyer[p] \in {"verified", "rejected"} =>
        /\ http[p].at = "buyer" /\ http[p].status = 200 /\ http[p].payment # None
        /\ buyer[p] = "verified" <=>
                Accepts(Receipt200(p), Materials200(p),
                        Expectation(p, http[p], Receipt200(p), Materials200(p)))

PurchaseInv(p) == /\ BuyerInv(p) /\ HttpInv(p) /\ SaleInv(p) /\ PaidFirst(p)
                  /\ DisclosureInv(p) /\ SoldInv(p) /\ VerdictInv(p)

Inv == NotaryInv /\ ProcessInv /\ \A p \in Purchases : PurchaseInv(p)
-----------------------------------------------------------------------------

\* Frames: what each part of the invariant of a purchase depends on.
LEMMA VerdictFrame ==
    ASSUME NEW q, VerdictInv(q), UNCHANGED <<http[q], buyer[q], pinned[q], env.buyer>>
    PROVE  VerdictInv(q)'
<1>1. Receipt200(q)' = Receipt200(q) /\ Materials200(q)' = Materials200(q)
  BY DEF Receipt200, Materials200
<1>2. ASSUME NEW r, NEW m
      PROVE  Expectation(q, http[q], r, m)' = Expectation(q, http[q], r, m)
  BY DEF Expectation, PinnedKey, ExpectedUpstream
<1> QED
  BY <1>1, <1>2 DEF VerdictInv

\* A purchase that a step leaves alone stays consistent.
LEMMA PurchaseFrame ==
    ASSUME NEW q, PurchaseInv(q),
           UNCHANGED <<link[q], tls[q], session[q], http[q], sale[q], buyer[q],
                       pinned[q], ledger[q], env.buyer, env.key_on_wire>>,
           app # None => UNCHANGED app,
           clock \in Int, clock' \in Int, clock <= clock'
    PROVE  PurchaseInv(q)'
<1> USE DEF PurchaseInv
<1>1. BuyerInv(q)' /\ HttpInv(q)'
  BY DEF BuyerInv, HttpInv, Option
<1>2. SaleInv(q)'
  BY DEF SaleInv, Up
<1>3. PaidFirst(q)'
  BY DEF PaidFirst, Option
<1>4. DisclosureInv(q)'
  BY DEF DisclosureInv, ShownAs
<1>5. SoldInv(q)'
  BY DEF SoldInv, SoldWith
<1> QED
  BY <1>1, <1>2, <1>3, <1>4, <1>5, VerdictFrame

\* A step of one purchase leaves the others, and the processes, alone.
Purchasing(p) ==
    /\ OnlyAt(p) /\ UNCHANGED <<app, clock, exits>> /\ faults' \subseteq Purchases
    /\ DOMAIN http' = Purchases /\ DOMAIN sale' = Purchases
    /\ DOMAIN buyer' = Purchases /\ DOMAIN pinned' = Purchases
    /\ DOMAIN ledger' = Purchases
    /\ \A q \in Purchases \ {p} :
            UNCHANGED <<http[q], sale[q], buyer[q], pinned[q], ledger[q]>>

\* A step of one purchase preserves the invariant of the others.
LEMMA PurchasingSuffices ==
    ASSUME NEW p \in Purchases, Inv, Purchasing(p), SessionInv(p)', PurchaseInv(p)'
    PROVE  Inv'
<1>1. NotaryInv'
  BY OnlyAtSuffices DEF Inv, Purchasing
<1>2. ProcessInv'
  BY DEF Inv, ProcessInv, Purchasing, OnlyAt, Times
<1>3. ASSUME NEW q \in Purchases, q # p PROVE PurchaseInv(q)'
  <2>1. UNCHANGED <<link[q], tls[q], session[q], http[q], sale[q], buyer[q],
                    pinned[q], ledger[q], env.buyer, env.key_on_wire, app, clock>>
    BY <1>3 DEF Purchasing, OnlyAt
  <2>2. clock \in Int /\ clock' \in Int /\ clock <= clock' /\ PurchaseInv(q)
    BY <2>1 DEF Inv, ProcessInv, Times
  <2> QED
    BY <2>1, <2>2, PurchaseFrame
<1> QED
  BY <1>1, <1>2, <1>3 DEF Inv

\* Every step of a buyer, a handler, a session, the upstream or the network is
\* the step of one purchase.
LEMMA BuyingIsLocal ==
    ASSUME NEW p \in Purchases, Inv, Buying(p)
    PROVE  Purchasing(p)
<1> USE DEF Inv, NotaryInv, ProcessInv, Purchasing, OnlyAt, worldVars, processVars,
        buyerVars, Goto, Fault, Post
<1>1. UNCHANGED <<sale, session>>
  BY DEF Buying
<1>2. CASE FundWallet(p)
  BY <1>1, <1>2 DEF FundWallet
<1>3. CASE PinKey(p)
  BY <1>1, <1>3 DEF PinKey
<1>4. CASE Ask(p)
  BY <1>1, <1>4 DEF Ask
<1>5. CASE Pay(p)
  BY <1>1, <1>5 DEF Pay
<1>6. CASE Decline(p)
  BY <1>1, <1>6 DEF Decline
<1>7. CASE Lose(p)
  BY <1>1, <1>7 DEF Lose
<1>8. CASE Check200(p)
  <2>1. PICK place : Goto(p, place)
    BY <1>8 DEF Check200
  <2> QED
    BY <1>1, <1>8, <2>1 DEF Check200
<1> QED
  BY <1>2, <1>3, <1>4, <1>5, <1>6, <1>7, <1>8 DEF Buying, BuyerStep

\* A handler's step is a step of its purchase.
LEMMA SellingIsLocal ==
    ASSUME NEW p \in Purchases, Inv, Selling(p)
    PROVE  Purchasing(p)
<1> USE DEF Inv, NotaryInv, ProcessInv, Purchasing, OnlyAt, processVars, buyerVars,
        Fault, Respond, Finish, Advance, BadGateway, SetLink
<1>1. UNCHANGED <<buyerVars, session>> /\ app # None
  BY DEF Selling, ResellerStep
<1>2. CASE Challenge(p)
  BY <1>1, <1>2 DEF Challenge
<1>3. CASE Authorize(p)
  BY <1>1, <1>3 DEF Authorize
<1>4. CASE OpenSession(p)
  BY <1>1, <1>4, ZenonT(40) DEF OpenSession
<1>5. CASE SendRequest(p)
  BY <1>1, <1>5, ZenonT(40) DEF SendRequest, SendTls
<1>6. CASE ReadResponse(p)
  <2>1. CASE BadGateway(p) /\ UNCHANGED link
    BY <1>1, <1>6, <2>1 DEF ReadResponse
  <2>2. CASE Finish(p, Hangup) /\ UNCHANGED link
    BY <1>1, <1>6, <2>2 DEF ReadResponse
  <2>3. CASE \E shown : Prove(p, shown)
    BY <1>1, <1>6, <2>3 DEF ReadResponse, Prove
  <2> QED
    BY <1>6, <2>1, <2>2, <2>3 DEF ReadResponse, Redact
<1>7. CASE Abandon(p)
  BY <1>1, <1>7 DEF Abandon
<1>8. CASE Cancel(p)
  BY <1>1, <1>8 DEF Cancel
<1>9. CASE Deliver(p)
  <2>1. PICK response : Finish(p, response)
    BY <1>9 DEF Deliver
  <2> QED
    BY <1>1, <1>9, <2>1 DEF Deliver
<1> QED
  BY <1>2, <1>3, <1>4, <1>5, <1>6, <1>7, <1>8, <1>9 DEF Selling, ResellerStep

\* So are a session's, the upstream's and a failure's.
LEMMA OthersAreLocal ==
    ASSUME NEW p \in Purchases, Inv, Notarizing(p) \/ Upstream(p) \/ Failing(p)
    PROVE  Purchasing(p)
<1> USE DEF Inv, NotaryInv, ProcessInv, Purchasing, OnlyAt, processVars, buyerVars,
        Fault, SetLink
<1>1. CASE Notarizing(p)
  <2>1. OnlyAt(p)
    BY <1>1, SessionActionsAreLocal DEF Notarizing
  <2>2. UNCHANGED <<app, clock, exits, http, sale, buyer, pinned, ledger>>
        /\ faults' \subseteq Purchases
    BY <1>1 DEF Notarizing, NotaryStep, AcceptCommit, AcceptDisclosure, SessionBreaks,
       SignClaim
  <2> QED
    BY <2>1, <2>2
<1>2. CASE Upstream(p)
  BY <1>2 DEF Upstream, UpstreamReply, UpstreamHangup
<1>3. CASE Failing(p)
  BY <1>3 DEF Failing, LinkFails, HttpFails
<1> QED
  BY <1>1, <1>2, <1>3
-----------------------------------------------------------------------------
\* The buyer.

\* Before the 200 there is neither a product nor a verdict, and nothing of the
\* session changes.
LEMMA BuyerParts ==
    ASSUME NEW p \in Purchases, Inv, Buying(p)
    PROVE  /\ SessionInv(p)' /\ DisclosureInv(p)'
           /\ UNCHANGED <<env, app, clock, link, tls, session, sale>>
<1>1. UNCHANGED <<sale, session, env, cfg, app, clock, link, tls>>
  BY DEF Buying, BuyerStep, FundWallet, PinKey, Ask, Pay, Decline, Lose, Check200,
     worldVars, processVars
<1>2. SessionInv(p) /\ PurchaseInv(p)
  BY DEF Inv, NotaryInv
<1>3. DisclosureInv(p)'
  BY <1>1, <1>2 DEF PurchaseInv, DisclosureInv, ShownAs
<1> QED
  BY <1>1, <1>2, <1>3, SessionFrame

\* The buyer funds its wallet, pins the key and asks.
LEMMA ShoppingInv ==
    ASSUME NEW p \in Purchases, Inv, Buying(p), FundWallet(p) \/ PinKey(p) \/ Ask(p)
    PROVE  PurchaseInv(p)'
<1>1. /\ UNCHANGED <<env, app, clock, link, tls, session, sale>>
      /\ DisclosureInv(p)'
  BY BuyerParts
<1>2. /\ PurchaseInv(p) /\ ProcessInv
      /\ http[p] = Idle /\ ledger[p] = None /\ sale[p].pc = "idle"
      /\ UNCHANGED ledger
  BY DEF Inv, PurchaseInv, BuyerInv, FundWallet, PinKey, Ask, Goto, ProcessInv, processVars
<1>3. BuyerInv(p)'
  <2>1. CASE FundWallet(p)
    BY <1>1, <1>2, <2>1 DEF FundWallet, Goto, PurchaseInv, ProcessInv, BuyerInv, Outcomes
  <2>2. CASE PinKey(p)
    BY <1>1, <1>2, <2>2, ProcessesAssumption
       DEF PinKey, Goto, PurchaseInv, ProcessInv, BuyerInv, Outcomes, Some
  <2>3. CASE Ask(p)
    BY <1>1, <1>2, <2>3 DEF Ask, Goto, PurchaseInv, ProcessInv, BuyerInv, Outcomes
  <2> QED
    BY <2>1, <2>2, <2>3
<1>4. HttpInv(p)'
  <2>1. CASE Ask(p)
    BY <1>1, <1>2, <2>1 DEF Ask, Post, Goto, Asked, Hangup, PurchaseInv, ProcessInv, HttpInv
  <2>2. CASE UNCHANGED http
    BY <1>1, <1>2, <2>2 DEF PurchaseInv, HttpInv, Idle
  <2> QED
    BY <2>1, <2>2 DEF FundWallet, PinKey
<1>5. http'[p].at # "buyer"
  BY <1>2 DEF FundWallet, PinKey, Ask, Post, Asked, Hangup, Idle, ProcessInv
<1>6. SaleInv(p)' /\ PaidFirst(p)'
  BY <1>1, <1>2 DEF PurchaseInv, SaleInv, PaidFirst
<1>7. buyer'[p] \notin {"verified", "rejected"}
  BY <1>2 DEF FundWallet, PinKey, Ask, Goto, ProcessInv
<1> QED
  BY <1>1, <1>3, <1>4, <1>5, <1>6, <1>7 DEF PurchaseInv, SoldInv, VerdictInv

\* The buyer pays the challenge and asks again, or its payment fails.
LEMMA PayInv ==
    ASSUME NEW p \in Purchases, Inv, Buying(p), Pay(p)
    PROVE  PurchaseInv(p)'
<1>1. /\ UNCHANGED <<env, app, clock, link, tls, session, sale>>
      /\ DisclosureInv(p)'
  BY BuyerParts
<1>2. /\ PurchaseInv(p) /\ ProcessInv /\ SessionInv(p)
      /\ buyer[p] = "asked" /\ http[p].at = "buyer" /\ http[p].status = 402
      /\ ledger[p] = None /\ UNCHANGED pinned
  BY DEF Inv, NotaryInv, PurchaseInv, BuyerInv, Pay, Challenged
<1>3. sale[p].pc = "idle" /\ link[p].stage = "none" /\ tls[p].stage = "none"
  BY <1>2 DEF PurchaseInv, BuyerInv, SaleInv, Hangup, SessionInv, Paired
<1>4. CASE Goto(p, "crashed") /\ UNCHANGED <<ledger, http>>
  BY <1>1, <1>2, <1>3, <1>4 DEF Goto, ProcessInv, PurchaseInv, BuyerInv, HttpInv, SaleInv,
     PaidFirst, SoldInv, VerdictInv, Outcomes
<1>5. CASE /\ ledger' = [ledger EXCEPT ![p] = Some(clock)]
           /\ Post(p, Asked(RequestBody(p), Some(Reference(p))))
           /\ Goto(p, "paid")
  <2>1. /\ ledger'[p] = Some(clock) /\ buyer'[p] = "paid"
        /\ http'[p] \in {Hangup, Asked(RequestBody(p), Some(Reference(p)))}
    BY <1>2, <1>5 DEF Post, Goto, ProcessInv
  <2>2. ledger'[p] # None /\ ledger'[p] \in Option(0 .. clock)
    BY <1>2, <2>1 DEF ProcessInv, Times, Option, Some, None
  <2>3. http'[p].at # "buyer" /\ HttpInv(p)'
    BY <1>1, <1>3, <2>1 DEF HttpInv, Asked, Hangup, Some, None
  <2>4. BuyerInv(p)'
    BY <1>1, <1>2, <2>1, <2>2 DEF PurchaseInv, BuyerInv
  <2>5. SaleInv(p)' /\ PaidFirst(p)'
    BY <1>1, <1>2, <1>3 DEF PurchaseInv, SaleInv, PaidFirst
  <2> QED
    BY <1>1, <2>1, <2>3, <2>4, <2>5 DEF PurchaseInv, SoldInv, VerdictInv
<1> QED
  BY <1>4, <1>5 DEF Pay

\* A verdict, or no product: the buyer's run is over.
LEMMA EndingInv ==
    ASSUME NEW p \in Purchases, Inv, Buying(p), Decline(p) \/ Lose(p) \/ Check200(p)
    PROVE  PurchaseInv(p)'
<1>1. /\ UNCHANGED <<env, app, clock, link, tls, session, sale>>
      /\ DisclosureInv(p)'
  BY BuyerParts
<1>2. /\ PurchaseInv(p) /\ ProcessInv /\ UNCHANGED <<http, ledger, pinned>>
      /\ buyer[p] \in {"asked", "paid"} /\ http[p].at # "reseller"
  BY DEF Inv, Decline, Lose, Check200, Hangup, worldVars
<1>3. CASE Decline(p) \/ Lose(p)
  <2>1. buyer'[p] \in {"declined", "crashed"}
    BY <1>2, <1>3 DEF Decline, Lose, Goto, ProcessInv
  <2> QED
    BY <1>1, <1>2, <2>1 DEF PurchaseInv, BuyerInv, HttpInv, SaleInv, PaidFirst, SoldInv,
       SoldWith, VerdictInv, Outcomes
<1>4. CASE Check200(p)
  <2> DEFINE A == Accepts(Receipt200(p), Materials200(p),
                          Expectation(p, http[p], Receipt200(p), Materials200(p)))
  <2>1. /\ buyer[p] = "paid" /\ http[p].at = "buyer" /\ http[p].status = 200
        /\ \/ buyer'[p] = "crashed"
           \/ http[p].payment # None /\ buyer'[p] = IF A THEN "verified" ELSE "rejected"
    BY <1>2, <1>4 DEF Check200, Goto, ProcessInv, Receipt200, Materials200
  <2>2. A' <=> A
    <3>1. Receipt200(p)' = Receipt200(p) /\ Materials200(p)' = Materials200(p)
      BY <1>2 DEF Receipt200, Materials200
    <3>2. ASSUME NEW r, NEW m
          PROVE  Expectation(p, http[p], r, m)' = Expectation(p, http[p], r, m)
      BY <1>1, <1>2 DEF Expectation, PinnedKey, ExpectedUpstream
    <3> QED
      BY <3>1, <3>2
  <2> HIDE DEF A
  <2>3. buyer'[p] \in {"verified", "rejected", "crashed"}
    BY <2>1
  <2>4. BuyerInv(p)' /\ HttpInv(p)'
    BY <1>1, <1>2, <2>1, <2>3 DEF PurchaseInv, BuyerInv, HttpInv, Outcomes
  <2>5. SaleInv(p)' /\ PaidFirst(p)' /\ SoldInv(p)'
    BY <1>1, <1>2 DEF PurchaseInv, SaleInv, PaidFirst, SoldInv, SoldWith
  <2>6. VerdictInv(p)'
    <3>1. buyer'[p] \in {"verified", "rejected"} =>
            /\ http'[p].at = "buyer" /\ http'[p].status = 200 /\ http'[p].payment # None
            /\ buyer'[p] = "verified" <=> A'
      BY <1>2, <2>1, <2>2
    <3> QED
      BY <3>1 DEF VerdictInv, A
  <2> QED
    BY <1>1, <2>4, <2>5, <2>6 DEF PurchaseInv
<1> QED
  BY <1>3, <1>4

\* Every step of the buyer preserves the invariant.
LEMMA BuyingInv ==
    ASSUME NEW p \in Purchases, Inv, Buying(p)
    PROVE  Inv'
<1>1. PurchaseInv(p)'
  BY ShoppingInv, PayInv, EndingInv DEF Buying, BuyerStep
<1> QED
  BY <1>1, BuyerParts, BuyingIsLocal, PurchasingSuffices
-----------------------------------------------------------------------------
\* The reseller.

\* A handler that ends with anything but a product, its session left as it is.
LEMMA RefusalInv ==
    ASSUME NEW p \in Purchases, Inv, Selling(p), UNCHANGED <<link, tls>>,
           sale' = [sale EXCEPT ![p].pc = "done"],
           http[p] = Hangup \/ (http[p].at = "reseller" /\ http[p].credential # None),
           http[p] = Hangup => http'[p] = Hangup,
           http'[p] = Hangup \/ (http'[p].at = "buyer" /\ http'[p].status # 200)
    PROVE  SessionInv(p)' /\ PurchaseInv(p)'
<1>1. /\ SessionInv(p) /\ PurchaseInv(p) /\ ProcessInv
      /\ UNCHANGED <<env, cfg, app, clock, ledger, buyer, pinned, session>>
  BY DEF Inv, NotaryInv, Selling, ResellerStep, Challenge, Authorize, OpenSession,
     SendRequest, ReadResponse, Abandon, Cancel, Deliver, processVars, buyerVars
<1>2. /\ sale'[p].pc = "done" /\ SaleShape(sale'[p])
      /\ buyer[p] \notin {"start", "funded", "pinned", "verified", "rejected"}
      /\ buyer[p] = "asked" => http'[p] = Hangup
  BY <1>1 DEF PurchaseInv, ProcessInv, SaleInv, SaleShape, BuyerInv, HttpInv, VerdictInv,
     Idle, Hangup
<1>3. BuyerInv(p)' /\ HttpInv(p)' /\ SaleInv(p)'
  BY <1>1, <1>2 DEF PurchaseInv, BuyerInv, HttpInv, SaleInv, Up, Hangup
<1>4. PaidFirst(p)' /\ DisclosureInv(p)'
  BY <1>1 DEF PurchaseInv, PaidFirst, DisclosureInv, ShownAs
<1>5. SoldInv(p)' /\ VerdictInv(p)'
  BY <1>1, <1>2 DEF SoldInv, VerdictInv, Hangup
<1> QED
  BY <1>1, <1>3, <1>4, <1>5, SessionFrame DEF PurchaseInv

\* Where a handler is past the gate, its request came with a credential.
LEMMA HandlerServes ==
    ASSUME NEW p \in Purchases, Inv,
           sale[p].pc \in {"paid", "committing", "requested", "proving"}
    PROVE  http[p] = Hangup \/ (http[p].at = "reseller" /\ http[p].credential # None)
BY DEF Inv, PurchaseInv, SaleInv, HttpInv, BuyerInv

\* BadGateway, or a panic, of a handler past the gate.
LEMMA GivesUpInv ==
    ASSUME NEW p \in Purchases, Inv, Selling(p), UNCHANGED <<link, tls>>,
           sale[p].pc \in {"paid", "committing", "requested", "proving"},
           BadGateway(p) \/ Finish(p, Hangup)
    PROVE  SessionInv(p)' /\ PurchaseInv(p)'
<1>1. sale' = [sale EXCEPT ![p].pc = "done"]
  BY DEF BadGateway, Finish, Advance
<1>2. /\ http[p] = Hangup => http'[p] = Hangup
      /\ http'[p] = Hangup \/ (http'[p].at = "buyer" /\ http'[p].status # 200)
  BY DEF BadGateway, Finish, Respond, Answered, Inv, ProcessInv
<1> QED
  BY <1>1, <1>2, HandlerServes, RefusalInv

\* The handler answers a request without a credential with 402.
LEMMA ChallengeInv ==
    ASSUME NEW p \in Purchases, Inv, Selling(p), Challenge(p)
    PROVE  SessionInv(p)' /\ PurchaseInv(p)'
<1>1. /\ SessionInv(p) /\ PurchaseInv(p) /\ ProcessInv
      /\ UNCHANGED <<env, cfg, app, clock, ledger, buyer, pinned, session, link, tls, sale>>
      /\ sale[p].pc = "idle" /\ http[p].at = "reseller" /\ http[p].credential = None
  BY DEF Inv, NotaryInv, Selling, Challenge, processVars, buyerVars
<1>2. buyer[p] = "asked" /\ http'[p].at = "buyer" /\ http'[p].status # 200
  BY <1>1 DEF Challenge, Respond, Answered, Hangup, PurchaseInv, ProcessInv, HttpInv
<1>3. BuyerInv(p)' /\ HttpInv(p)' /\ SaleInv(p)'
  BY <1>1, <1>2 DEF PurchaseInv, BuyerInv, HttpInv, SaleInv, Hangup
<1>4. PaidFirst(p)' /\ DisclosureInv(p)' /\ SoldInv(p)' /\ VerdictInv(p)'
  BY <1>1, <1>2 DEF PurchaseInv, PaidFirst, DisclosureInv, ShownAs, SoldInv, VerdictInv
<1> QED
  BY <1>1, <1>3, <1>4, SessionFrame DEF PurchaseInv

\* The handler checks the credential against the ledger.
LEMMA AuthorizeInv ==
    ASSUME NEW p \in Purchases, Inv, Selling(p), Authorize(p)
    PROVE  SessionInv(p)' /\ PurchaseInv(p)'
<1>1. /\ SessionInv(p) /\ PurchaseInv(p) /\ ProcessInv /\ app # None
      /\ UNCHANGED <<env, cfg, app, clock, ledger, buyer, pinned, session, link, tls>>
      /\ sale[p].pc = "idle" /\ http[p].at = "reseller"
  BY DEF Inv, NotaryInv, Selling, ResellerStep, Authorize, processVars, buyerVars
<1>2. CASE /\ PaymentConfirmed(p) /\ UNCHANGED http
           /\ sale' = [sale EXCEPT ![p] = SaleAt("paid", Some(http[p].body),
                                                 http[p].credential)]
  <2>1. /\ http[p].credential = Some(Reference(p)) /\ http[p].body = RequestBody(p)
        /\ ledger[p] # None /\ buyer[p] = "paid"
    BY <1>1, <1>2 DEF PaymentConfirmed, PurchaseInv, HttpInv
  <2>2. sale'[p] = SaleAt("paid", Some(RequestBody(p)), Some(Reference(p)))
    BY <1>1, <1>2, <2>1 DEF ProcessInv
  <2>3. BuyerInv(p)' /\ HttpInv(p)'
    BY <1>1, <1>2, <2>1, <2>2 DEF PurchaseInv, BuyerInv, HttpInv, SaleAt
  <2>4. SaleInv(p)'
    BY <1>1, <1>2, <2>1, <2>2 DEF PurchaseInv, SaleInv, SaleShape, SaleAt
  <2>5. PaidFirst(p)' /\ DisclosureInv(p)' /\ SoldInv(p)' /\ VerdictInv(p)'
    BY <1>1, <1>2, <2>1 DEF PurchaseInv, PaidFirst, DisclosureInv, ShownAs, SoldInv,
       VerdictInv
  <2> QED
    BY <1>1, <2>3, <2>4, <2>5, SessionFrame DEF PurchaseInv
<1>3. CASE http[p].credential # None /\ Finish(p, Answered(402, FALSE))
  <2>1. sale' = [sale EXCEPT ![p].pc = "done"]
        /\ http'[p].at = "buyer" /\ http'[p].status # 200 /\ http[p] # Hangup
    BY <1>1, <1>3 DEF Finish, Advance, Respond, Answered, Hangup, ProcessInv
  <2> QED
    BY <1>1, <1>3, <2>1, RefusalInv
<1> QED
  BY <1>2, <1>3 DEF Authorize

\* The handler opens the session with the notary and commits to the upstream.
LEMMA OpenSessionInv ==
    ASSUME NEW p \in Purchases, Inv, Selling(p), OpenSession(p)
    PROVE  SessionInv(p)' /\ PurchaseInv(p)'
<1>1. /\ SessionInv(p) /\ PurchaseInv(p) /\ ProcessInv /\ NotaryInv /\ app # None
      /\ UNCHANGED <<env, cfg, app, clock, ledger, buyer, pinned, session, tls>>
      /\ sale[p].pc = "paid"
  BY DEF Inv, NotaryInv, Selling, ResellerStep, OpenSession, processVars, buyerVars
<1>2. CASE BadGateway(p) /\ UNCHANGED link
  BY <1>1, <1>2, GivesUpInv
<1>3. CASE /\ SetLink(p, Commit("proxy", app[1].upstream_host))
           /\ Advance(p, "committing") /\ UNCHANGED http
  <2>1. /\ link'[p].stage = "commit" /\ link'[p].host = app[1].upstream_host
        /\ sale'[p].pc = "committing" /\ SaleShape(sale'[p])
        /\ sale'[p].request = sale[p].request /\ sale'[p].reference = sale[p].reference
    BY <1>1, <1>3 DEF SetLink, Commit, Advance, NotaryInv, ProcessInv, PurchaseInv, SaleInv,
       SaleShape
  <2>2. session[p].pc = "listening" /\ tls[p].stage = "none"
    BY <1>1 DEF PurchaseInv, SaleInv, SessionInv, Paired
  <2>3. SessionInv(p)'
    BY <1>1, <2>1, <2>2 DEF SessionInv, Paired, Dialled, Authenticated, Witnessed
  <2>4. BuyerInv(p)' /\ HttpInv(p)' /\ SaleInv(p)'
    BY <1>1, <1>3, <2>1, <2>2 DEF PurchaseInv, BuyerInv, HttpInv, SaleInv, Up
  <2>5. PaidFirst(p)' /\ DisclosureInv(p)' /\ SoldInv(p)' /\ VerdictInv(p)'
    BY <1>1, <1>3, <2>1, <2>2 DEF PurchaseInv, PaidFirst, DisclosureInv, SoldInv,
       VerdictInv, SaleInv
  <2> QED
    BY <2>3, <2>4, <2>5 DEF PurchaseInv
<1> QED
  BY <1>2, <1>3 DEF OpenSession

\* A running reseller has an App.
LEMMA AppIsApp ==
    ASSUME ProcessInv, app # None
    PROVE  /\ IsApp(app[1]) /\ IsOption(env.key_on_wire, Seq(STRING))
           /\ env.key_on_wire # None => IsHeaderValue(env.key_on_wire[1])
<1>1. PICK e, f \in Envs : env.reseller = f.reseller /\ env.dotenv = e.dotenv
                           /\ env.key_on_wire = e.key_on_wire
  BY DEF ProcessInv
<1>2. /\ app[1] = App(WithDotenv(f.reseller, e.dotenv))
      /\ WithDotenv(f.reseller, e.dotenv).UPSTREAM_HOST # None
  BY <1>1 DEF ProcessInv, ResellerVars, Some
<1> QED
  BY <1>1, <1>2, ProcessesAssumption

\* What it writes upstream is a POST with the buyer's body, whatever it is configured
\* with.
LEMMA AppSends ==
    ASSUME NEW p \in Purchases, ProcessInv, app # None, Buildable(app[1])
    PROVE  \E sent \in {RequestHead(app[1]) \o RequestBody(p)} :
                IsRequest(p, sent) /\ Findable(app[1], env.key_on_wire, sent)
<1> DEFINE a == app[1]
           body == RequestBody(p)
           sent == RequestHead(a) \o body
<1>1. /\ IsApp(a) /\ IsOption(env.key_on_wire, Seq(STRING)) /\ Buildable(a)
      /\ env.key_on_wire # None => IsHeaderValue(env.key_on_wire[1])
  BY AppIsApp
<1>2. body \in Text
  BY DEF RequestBody, Text, Token
<1> HIDE DEF a, body
<1>3. /\ RequestHead(a) \in Text /\ IsPost(sent) /\ SplitAt(sent) = Len(RequestHead(a))
      /\ DecodedRequest(sent) = body
  BY <1>1, <1>2, RequestIsCut
<1>4. Len(RequestHead(a)) \in 0 .. Len(sent)
  <2>1. Len(sent) = Len(RequestHead(a)) + Len(body)
    BY <1>2, <1>3, ConcatProperties DEF Text
  <2>2. Len(RequestHead(a)) \in Nat /\ Len(body) \in Nat
    BY <1>2, <1>3 DEF Text
  <2> HIDE DEF sent
  <2> QED
    BY <2>1, <2>2
<1>5. IsRequest(p, sent)
  BY <1>3, <1>4 DEF IsRequest, body
<1>6. Findable(a, env.key_on_wire, sent)
  <2>1. ASSUME a.api_key # None, a.api_key[1] # << >>,
               OrElse(env.key_on_wire, a.api_key[1]) = a.api_key[1]
        PROVE  KeyAt(sent, a.api_key[1]) \in Places(sent, a.api_key[1])
    <3>1. WrittenKey(a.api_key[1]) = a.api_key[1]
      BY <2>1 DEF WrittenKey
    <3> QED
      BY <1>1, <1>2, <2>1, <3>1, KeyInRequest
  <2> QED
    BY <2>1 DEF Findable
<1> QED
  BY <1>5, <1>6 DEF a, body

\* The handler writes the request, in which the notary will find its POST line.
LEMMA SendRequestInv ==
    ASSUME NEW p \in Purchases, Inv, Selling(p), SendRequest(p)
    PROVE  SessionInv(p)' /\ PurchaseInv(p)'
<1>1. /\ SessionInv(p) /\ PurchaseInv(p) /\ ProcessInv /\ NotaryInv /\ app # None
      /\ UNCHANGED <<env, cfg, app, clock, ledger, buyer, pinned, session, link>>
      /\ sale[p].pc = "committing" /\ link[p].stage = "proxying"
  BY DEF Inv, NotaryInv, Selling, ResellerStep, SendRequest, processVars, buyerVars
<1>2. CASE BadGateway(p) /\ UNCHANGED tls
  BY <1>1, <1>2, GivesUpInv
<1>3. CASE /\ tls[p].stage = "open" /\ app[1].upstream_host \in env.certificate
           /\ Buildable(app[1])
           /\ SendTls(p, RequestHead(app[1]) \o sale[p].request[1])
           /\ Advance(p, "requested") /\ UNCHANGED http
  <2> DEFINE m == RequestHead(app[1]) \o RequestBody(p)
  <2>1. sale[p].request[1] = RequestBody(p)
    BY <1>1 DEF PurchaseInv, SaleInv, Some
  <2>2. SendTls(p, m)
    BY <1>3, <2>1
  <2>3. IsRequest(p, m) /\ Findable(app[1], env.key_on_wire, m)
    BY <1>1, <1>3, AppSends
  <2> HIDE DEF m
  <2>4. tls'[p] = [stage |-> "requested", host |-> tls[p].host, opened |-> tls[p].opened,
                    sent |-> Some(m), reply |-> tls[p].reply]
    BY <1>1, <1>3, <2>2 DEF SendTls, NotaryInv, SessionInv, TlsShape
  <2>5. /\ TlsShape(tls'[p]) /\ tls'[p].stage = "requested"
        /\ tls'[p].host = tls[p].host /\ tls'[p].opened = tls[p].opened
        /\ tls'[p].sent[1] = m
    BY <2>4 DEF TlsShape, Some
  <2>6. /\ sale'[p].pc = "requested" /\ SaleShape(sale'[p])
        /\ sale'[p].request = sale[p].request /\ sale'[p].reference = sale[p].reference
    BY <1>1, <1>3 DEF Advance, ProcessInv, PurchaseInv, SaleInv, SaleShape
  <2>7. session[p].pc = "proxying" /\ link[p].host \in env.certificate
    BY <1>1, <1>3 DEF SessionInv, Paired, PurchaseInv, SaleInv
  <2>8. SessionInv(p)'
    BY <1>1, <2>5, <2>7 DEF SessionInv, Paired, Dialled, Authenticated, Witnessed
  <2>9. BuyerInv(p)' /\ HttpInv(p)' /\ SaleInv(p)'
    BY <1>1, <1>3, <2>3, <2>5, <2>6 DEF PurchaseInv, BuyerInv, HttpInv, SaleInv, Up
  <2>10. PaidFirst(p)' /\ DisclosureInv(p)' /\ SoldInv(p)' /\ VerdictInv(p)'
    BY <1>1, <1>3, <2>3, <2>5, <2>7 DEF PurchaseInv, PaidFirst, DisclosureInv, SoldInv,
       VerdictInv, SaleInv
  <2> QED
    BY <2>8, <2>9, <2>10 DEF PurchaseInv
<1> QED
  BY <1>2, <1>3 DEF SendRequest

\* A disclosure shows the notary bytes of the request or blanks.
LEMMA ProveInv ==
    ASSUME NEW p \in Purchases, Inv, Selling(p), NEW shown, Prove(p, shown), UNCHANGED tls,
           sale[p].pc = "requested", link[p].stage = "proxying", tls[p].stage = "replied",
           IsShown(tls[p].sent[1], shown)
    PROVE  SessionInv(p)' /\ PurchaseInv(p)'
<1> DEFINE view == View(tls[p].reply[1], {})
<1>1. /\ SessionInv(p) /\ PurchaseInv(p) /\ ProcessInv /\ NotaryInv /\ app # None
      /\ UNCHANGED <<env, cfg, app, clock, ledger, buyer, pinned, session, http>>
  BY DEF Inv, NotaryInv, Selling, ResellerStep, Challenge, Authorize, OpenSession,
     SendRequest, ReadResponse, Abandon, Cancel, Deliver, Prove, processVars, buyerVars
<1>2. link'[p] = Disclosed(link[p].host, TRUE, shown, view)
  BY <1>1 DEF Prove, SetLink, NotaryInv
<1>3. /\ sale'[p].pc = "proving" /\ SaleShape(sale'[p])
      /\ sale'[p].answer = Some(tls[p].reply[1].body)
      /\ sale'[p].request = sale[p].request /\ sale'[p].reference = sale[p].reference
  BY <1>1 DEF Prove, ProcessInv, PurchaseInv, SaleInv, SaleShape
<1>4. /\ link'[p].stage = "disclosed" /\ link'[p].host = link[p].host
      /\ link'[p].identity /\ link'[p].sent = shown /\ link'[p].received = view
  BY <1>2 DEF Disclosed
<1>5. session[p].pc = "proxying" /\ link[p].host \in env.certificate
  BY <1>1 DEF SessionInv, Paired, Authenticated
<1>6. SessionInv(p)'
  <2>1. IsView(link[p].received, tls[p])'
    BY <1>4 DEF IsView, View
  <2> QED
    BY <1>1, <1>4, <1>5, <2>1 DEF SessionInv, Paired, Dialled, Authenticated, Witnessed
<1>7. BuyerInv(p)' /\ HttpInv(p)' /\ SaleInv(p)'
  BY <1>1, <1>3, <1>4 DEF PurchaseInv, BuyerInv, HttpInv, SaleInv, Up
<1>8. DisclosureInv(p)'
  <2>1. ShownAs(p, link[p].sent, link[p].received)'
    BY <1>1, <1>4 DEF ShownAs
  <2> QED
    BY <1>1, <1>4, <1>5, <2>1 DEF DisclosureInv
<1>9. PaidFirst(p)' /\ SoldInv(p)' /\ VerdictInv(p)'
  BY <1>1, <1>4 DEF PurchaseInv, PaidFirst, SoldInv, VerdictInv, SaleInv
<1> QED
  BY <1>6, <1>7, <1>8, <1>9 DEF PurchaseInv

\* What run_prover discloses when it finds the key: blanks where it first occurs,
\* which are not line breaks, as the request builder has taken the key.
LEMMA RedactionShows ==
    ASSUME NEW p \in Purchases, Inv, sale[p].pc = "requested", tls[p].stage = "replied",
           app[1].api_key # None,
           NEW at \in Places(tls[p].sent[1], app[1].api_key[1])
    PROVE  IsShown(tls[p].sent[1], Redacted(tls[p].sent[1], at, Len(app[1].api_key[1])))
<1> DEFINE key  == app[1].api_key[1]
           sent == tls[p].sent[1]
           shown == Redacted(sent, at, Len(key))
<1>1. sent \in Text
  BY DEF Inv, PurchaseInv, PaidFirst, IsRequest, IsPost
<1>2. app # None /\ Buildable(app[1])
  BY DEF Inv, PurchaseInv, SaleInv
<1>3. key \in Text /\ IsHeaderValue(key)
  <2>1. key \in Seq(STRING)
    BY <1>2, AppIsApp DEF Inv, IsApp, IsOption
  <2> QED
    BY <1>2, <2>1, StringsAreText DEF Buildable
<1> HIDE DEF key, sent
<1>4. /\ shown \in Text /\ DOMAIN shown = DOMAIN sent /\ Len(shown) = Len(sent)
      /\ \A i \in DOMAIN sent :
            shown[i] = IF i \in at .. at + Len(key) - 1 THEN "NUL" ELSE sent[i]
      /\ SplitAt(shown) = SplitAt(sent)
  <2>1. at \in Places(sent, key)
    BY DEF sent, key
  <2> QED
    BY <1>1, <1>3, <2>1, RedactionKeepsCut
<1> HIDE DEF shown
<1>5. IsShown(sent, shown)
  BY <1>4 DEF IsShown
<1> QED
  BY <1>5 DEF sent, key, shown

\* The handler reads the response and discloses the redacted transcript, or fails.
LEMMA ReadResponseInv ==
    ASSUME NEW p \in Purchases, Inv, Selling(p), ReadResponse(p)
    PROVE  SessionInv(p)' /\ PurchaseInv(p)'
<1> DEFINE sent == tls[p].sent[1]
           key  == app[1].api_key
<1>1. /\ sale[p].pc = "requested" /\ link[p].stage = "proxying"
      /\ tls[p].stage = "replied" /\ UNCHANGED tls
  BY DEF ReadResponse
<1>2. sent \in Text
  BY <1>1 DEF Inv, PurchaseInv, PaidFirst, IsRequest, IsPost
<1>3. CASE (BadGateway(p) \/ Finish(p, Hangup)) /\ UNCHANGED link
  BY <1>1, <1>3, GivesUpInv
<1>4. CASE Prove(p, sent)
  <2>1. IsShown(sent, sent)
    BY <1>2 DEF IsShown
  <2> QED
    BY <1>1, <1>4, <2>1, ProveInv
<1>5. CASE key # None /\ Redact(p, sent, key[1])
  <2> DEFINE at == Position(sent, key[1])
  <2>1. \/ BadGateway(p) /\ UNCHANGED link
        \/ at # 0 /\ Prove(p, Redacted(sent, at, Len(key[1])))
    BY <1>5 DEF Redact, Locate
  <2>2. CASE at # 0 /\ Prove(p, Redacted(sent, at, Len(key[1])))
    <3>1. at \in Places(sent, key[1])
      BY <1>2, <2>2, PositionOf
    <3> HIDE DEF at
    <3>2. IsShown(sent, Redacted(sent, at, Len(key[1])))
      BY <1>1, <1>5, <3>1, RedactionShows
    <3> QED
      BY <1>1, <2>2, <3>2, ProveInv
  <2> QED
    BY <1>3, <2>1, <2>2
<1> QED
  BY <1>3, <1>4, <1>5 DEF ReadResponse

\* The product: its leg is the one the notary signed, its answer the upstream's.
LEMMA SaleOfInv ==
    ASSUME NEW p \in Purchases, Inv, Selling(p), UNCHANGED <<link, tls>>,
           sale[p].pc = "proving", link[p].stage = "eof", link[p].bytes # None,
           NEW payment \in {sale[p].reference, None},
           NEW output \in {LegOutput(sale[p].answer[1])},
           Finish(p, Sold(payment,
                          ToHeader(HarnessReceipt(link[p].bytes[1], StartsWithYes(output),
                                                  sale[p].reference)),
                          MaterialsToHeader([id \in {"leg0"} |-> output]),
                          StartsWithYes(output)))
    PROVE  SessionInv(p)' /\ PurchaseInv(p)'
<1>1. /\ SessionInv(p) /\ PurchaseInv(p) /\ ProcessInv /\ NotaryInv /\ app # None
      /\ UNCHANGED <<env, cfg, app, clock, ledger, buyer, pinned, session>>
  BY DEF Inv, NotaryInv, Selling, ResellerStep, Challenge, Authorize, OpenSession,
     SendRequest, ReadResponse, Abandon, Cancel, Deliver, processVars, buyerVars
<1>2. session[p].pc = "signed" /\ link[p].bytes = session[p].signed
  BY <1>1 DEF SessionInv, Witnessed
<1>3. /\ sale[p].reference = Some(Reference(p))
      /\ output \in {tls[p].reply[1].body, Substitute(tls[p].reply[1].body)}
  BY <1>1 DEF PurchaseInv, SaleInv, LegOutput, Some
<1>4. CASE http[p] = Hangup
  <2>1. http'[p] = Hangup /\ sale' = [sale EXCEPT ![p].pc = "done"]
    BY <1>1, <1>4 DEF Finish, Respond, Advance, ProcessInv
  <2> QED
    BY <1>4, <2>1, RefusalInv
<1>5. CASE http[p] # Hangup
  <2> DEFINE sold == Sold(payment,
                          ToHeader(HarnessReceipt(session[p].signed[1],
                                       StartsWithYes(output), Some(Reference(p)))),
                          MaterialsToHeader([id \in {"leg0"} |-> output]),
                          StartsWithYes(output))
  <2>1. http'[p] = sold /\ sale' = [sale EXCEPT ![p].pc = "done"]
    BY <1>1, <1>2, <1>3, <1>5 DEF Finish, Respond, Advance, ProcessInv
  <2>2. sold.at = "buyer" /\ sold.status = 200 /\ sold.payment = payment
    BY DEF Sold
  <2>3. SoldInv(p)'
    <3>1. SoldWith(p, output)'
      BY <1>1, <2>1, <2>2 DEF SoldWith
    <3> QED
      BY <1>1, <1>2, <1>3, <2>1, <2>2, <3>1 DEF SoldInv
  <2> HIDE DEF sold
  <2>4. sale'[p].pc = "done" /\ SaleShape(sale'[p])
    BY <1>1, <2>1 DEF ProcessInv, PurchaseInv, SaleInv, SaleShape
  <2>5. buyer[p] = "paid"
    BY <1>1, <1>5 DEF PurchaseInv, SaleInv, HttpInv, BuyerInv
  <2>6. BuyerInv(p)' /\ HttpInv(p)' /\ SaleInv(p)'
    BY <1>1, <2>1, <2>2, <2>4, <2>5 DEF PurchaseInv, BuyerInv, HttpInv, SaleInv, Up
  <2>7. PaidFirst(p)' /\ DisclosureInv(p)' /\ VerdictInv(p)'
    BY <1>1, <2>5 DEF PurchaseInv, PaidFirst, DisclosureInv, ShownAs, VerdictInv
  <2> QED
    BY <1>1, <2>3, <2>6, <2>7, SessionFrame DEF PurchaseInv
<1> QED
  BY <1>4, <1>5

\* Every step of the reseller's handler preserves the invariant.
LEMMA SellingInv ==
    ASSUME NEW p \in Purchases, Inv, Selling(p)
    PROVE  Inv'
<1>1. SessionInv(p)' /\ PurchaseInv(p)'
  <2>1. CASE Abandon(p)
    BY <2>1, GivesUpInv DEF Abandon
  <2>2. CASE Cancel(p)
    BY <2>2, RefusalInv DEF Cancel, Advance
  <2>3. CASE Deliver(p)
    <3>1. sale[p].pc = "proving" /\ link[p].stage = "eof" /\ UNCHANGED <<link, tls>>
      BY <2>3 DEF Deliver
    <3>2. CASE BadGateway(p) \/ Finish(p, Hangup)
      BY <3>1, <3>2, GivesUpInv
    <3> QED
      BY <2>3, <3>1, <3>2, SaleOfInv DEF Deliver
  <2> QED
    BY <2>1, <2>2, <2>3, ChallengeInv, AuthorizeInv, OpenSessionInv, SendRequestInv,
       ReadResponseInv DEF Selling, ResellerStep
<1> QED
  BY <1>1, SellingIsLocal, PurchasingSuffices
-----------------------------------------------------------------------------
\* The notary, the upstream and the network.

\* A session's own step: nothing is sold yet, and what it accepts is what the
\* prover disclosed.
LEMMA NotarizingInv ==
    ASSUME NEW p \in Purchases, Inv, Notarizing(p)
    PROVE  Inv'
<1>1. NotaryInv' /\ SessionInv(p)' /\ SessionInv(p)
  BY NotaryStepInv DEF Inv, Notarizing, NotaryInv
<1>2. /\ PurchaseInv(p) /\ ProcessInv /\ NotaryInv
      /\ UNCHANGED <<env, app, clock, http, ledger, buyer, pinned, sale>>
  BY DEF Inv, Notarizing, NotaryStep, AcceptCommit, AcceptDisclosure, SessionBreaks,
     SignClaim, processVars, buyerVars
<1>3. BuyerInv(p)' /\ HttpInv(p)' /\ VerdictInv(p)'
  BY <1>2, VerdictFrame DEF PurchaseInv, BuyerInv, HttpInv
<1>4. session[p].pc \in {"listening", "proxying", "accepted"}
  BY DEF Notarizing, NotaryStep, AcceptCommit, AcceptDisclosure, SessionBreaks, SignClaim
<1>5. SoldInv(p)'
  BY <1>2, <1>4 DEF PurchaseInv, SoldInv
<1>6. SaleInv(p)' /\ PaidFirst(p)' /\ DisclosureInv(p)'
  <2>1. CASE AcceptCommit(p)
    <3>1. /\ link[p].stage = "commit" /\ session[p].pc = "listening"
          /\ tls[p].stage = "none"
      BY <1>1, <2>1 DEF AcceptCommit, SessionInv, Paired
    <3>2. \/ /\ link'[p] = Proxying(link[p].host)
             /\ tls'[p] = Open(cfg[1].upstream_host, clock)
             /\ session'[p].pc = "proxying"
          \/ /\ link'[p] = Broken /\ UNCHANGED tls
             /\ session'[p].pc = "failed"
      BY <1>1, <1>2, <2>1 DEF AcceptCommit, SetLink, SessionFails, NotaryInv, SessionInv,
         SessionShape
    <3>3. session'[p].time = session[p].time
      BY <1>1, <1>2, <2>1 DEF AcceptCommit, SessionFails, NotaryInv, SessionInv, SessionShape
    <3>4. SaleInv(p)'
      BY <1>2, <3>1, <3>2 DEF PurchaseInv, SaleInv, Proxying, Broken, Up
    <3>5. ledger[p] # None /\ clock \in ledger[p][1] .. clock
      BY <1>2, <3>1 DEF PurchaseInv, PaidFirst, BuyerInv, Option, Some, ProcessInv, Times
    <3>6. PaidFirst(p)' /\ DisclosureInv(p)'
      BY <1>2, <3>1, <3>2, <3>3, <3>5 DEF PurchaseInv, PaidFirst, DisclosureInv, Proxying,
         Broken, Open
    <3> QED
      BY <3>4, <3>6
  <2>2. CASE AcceptDisclosure(p)
    <3>1. link[p].stage = "disclosed" /\ session[p].pc = "proxying" /\ UNCHANGED tls
      BY <2>2 DEF AcceptDisclosure
    <3>2. \/ /\ link'[p] = Closing /\ session'[p].pc = "accepted"
             /\ session'[p].sent[1] = link[p].sent
             /\ session'[p].received[1] = link[p].received
             /\ session'[p].time = Some(tls[p].opened)
          \/ /\ link'[p] = Broken /\ session'[p].pc = "failed"
             /\ session'[p].time = session[p].time
      BY <1>1, <1>2, <2>2 DEF AcceptDisclosure, SetLink, SessionFails, NotaryInv, SessionInv,
         SessionShape, Some
    <3>3. SaleInv(p)'
      BY <1>2, <3>1, <3>2 DEF PurchaseInv, SaleInv, Closing, Broken, Up
    <3>4. tls[p].opened \in 0 .. clock /\ ledger[p] # None
      BY <1>1, <1>2, <3>1 DEF SessionInv, Authenticated, PurchaseInv, PaidFirst, BuyerInv,
         Option, Some, ProcessInv, Times
    <3>5. PaidFirst(p)'
      BY <1>2, <3>1, <3>2, <3>4 DEF PurchaseInv, PaidFirst, Closing, Broken, Option
    <3>6. ShownAs(p, link[p].sent, link[p].received)
      BY <1>2, <3>1 DEF PurchaseInv, DisclosureInv
    <3>7. DisclosureInv(p)'
      <4>1. CASE session'[p].pc = "failed" /\ link'[p] = Broken
        BY <4>1 DEF DisclosureInv, Broken
      <4>2. CASE /\ link'[p] = Closing /\ session'[p].sent[1] = link[p].sent
                 /\ session'[p].received[1] = link[p].received
        <5>1. ShownAs(p, session[p].sent[1], session[p].received[1])'
          BY <3>1, <3>6, <4>2 DEF ShownAs
        <5> QED
          BY <4>2, <5>1 DEF DisclosureInv, Closing
      <4> QED
        BY <3>2, <4>1, <4>2
    <3> QED
      BY <3>3, <3>5, <3>7
  <2>3. CASE SessionBreaks(p)
    <3>1. /\ link[p].stage = "broken" /\ link'[p] = Broken /\ UNCHANGED tls
          /\ session'[p].pc = "failed" /\ session'[p].time = session[p].time
      BY <1>1, <1>2, <2>3 DEF SessionBreaks, SetLink, SessionFails, NotaryInv, SessionInv,
         SessionShape
    <3> QED
      BY <1>2, <3>1 DEF PurchaseInv, SaleInv, PaidFirst, DisclosureInv, Broken, Up
  <2>4. CASE SignClaim(p)
    <3>1. /\ session[p].pc = "accepted" /\ link[p].stage \in {"closing", "broken"}
          /\ UNCHANGED tls
      BY <1>1, <2>4 DEF SignClaim, SessionInv, Paired
    <3>2. /\ session'[p].pc \in {"signed", "failed"}
          /\ session'[p].sent = session[p].sent /\ session'[p].time = session[p].time
          /\ session'[p].received = session[p].received
      BY <1>1, <1>2, <2>4 DEF SignClaim, SessionFails, NotaryInv, SessionInv, SessionShape
    <3>3. link'[p].stage \in {"eof", "broken"}
      BY <1>1, <3>2 DEF SessionInv, Paired
    <3> QED
      BY <1>2, <3>1, <3>2, <3>3 DEF PurchaseInv, SaleInv, PaidFirst, DisclosureInv, ShownAs,
         Up
  <2> QED
    BY <2>1, <2>2, <2>3, <2>4 DEF Notarizing, NotaryStep
<1> QED
  BY <1>1, <1>3, <1>5, <1>6, OthersAreLocal, PurchasingSuffices DEF PurchaseInv

\* An answer is the upstream's first and last word; a connection that fails ends
\* what it carried.
LEMMA UpstreamInv ==
    ASSUME NEW p \in Purchases, Inv, Upstream(p)
    PROVE  Inv'
<1>1. NotaryInv' /\ SessionInv(p)' /\ SessionInv(p)
  BY EnvironmentInv DEF Inv, Upstream, NotaryInv
<1>2. /\ PurchaseInv(p) /\ ProcessInv /\ NotaryInv
      /\ UNCHANGED <<env, app, clock, http, ledger, buyer, pinned, sale, link, session>>
  BY DEF Inv, Upstream, UpstreamReply, UpstreamHangup, processVars, buyerVars
<1>3. /\ tls[p].stage \in {"open", "requested"}
      /\ tls'[p].stage \in {"replied", "closed"}
      /\ tls'[p].stage = "replied" => tls[p].stage = "requested"
      /\ tls'[p].sent = tls[p].sent /\ tls'[p].opened = tls[p].opened
  BY <1>1, <1>2 DEF Upstream, UpstreamReply, UpstreamHangup, NotaryInv, SessionInv, TlsShape
<1>4. BuyerInv(p)' /\ HttpInv(p)' /\ VerdictInv(p)'
  BY <1>2, VerdictFrame DEF PurchaseInv, BuyerInv, HttpInv
<1>5. /\ session[p].pc \notin {"accepted", "signed"} /\ link[p].stage # "disclosed"
      /\ sale[p].pc # "proving"
  BY <1>1, <1>2, <1>3 DEF SessionInv, Authenticated, Witnessed, PurchaseInv, SaleInv
<1>6. SoldInv(p)' /\ DisclosureInv(p)'
  BY <1>2, <1>5 DEF PurchaseInv, SoldInv, DisclosureInv
<1>7. SaleInv(p)' /\ PaidFirst(p)'
  BY <1>2, <1>3, <1>5 DEF PurchaseInv, SaleInv, PaidFirst, Up
<1> QED
  BY <1>1, <1>4, <1>6, <1>7, OthersAreLocal, PurchasingSuffices DEF PurchaseInv

\* A connection that breaks preserves the invariant.
LEMMA FailingInv ==
    ASSUME NEW p \in Purchases, Inv, Failing(p)
    PROVE  Inv'
<1>1. /\ PurchaseInv(p) /\ ProcessInv /\ NotaryInv /\ SessionInv(p)
      /\ UNCHANGED <<env, cfg, app, clock, ledger, buyer, pinned, sale, tls, session>>
  BY DEF Inv, NotaryInv, Failing, LinkFails, HttpFails, processVars, buyerVars
<1>2. CASE LinkFails(p)
  <2>1. /\ link[p].stage \in {"commit", "proxying", "disclosed", "closing"}
        /\ link'[p] = Broken /\ UNCHANGED http
    BY <1>1, <1>2 DEF LinkFails, Up, SetLink, NotaryInv
  <2>2. BuyerInv(p)' /\ HttpInv(p)' /\ VerdictInv(p)'
    BY <1>1, <2>1, VerdictFrame DEF PurchaseInv, BuyerInv, HttpInv
  <2>3. SaleInv(p)' /\ PaidFirst(p)'
    BY <1>1, <2>1 DEF PurchaseInv, SaleInv, PaidFirst, Broken, Up
  <2>4. DisclosureInv(p)' /\ SoldInv(p)'
    <3>1. DisclosureInv(p)'
      <4>1. session[p].pc \in {"accepted", "signed"} =>
                ShownAs(p, session[p].sent[1], session[p].received[1])'
        BY <1>1 DEF PurchaseInv, DisclosureInv, ShownAs
      <4> QED
        BY <1>1, <2>1, <4>1 DEF DisclosureInv, Broken
    <3>2. SoldInv(p)'
      BY <1>1, <2>1 DEF PurchaseInv, SoldInv, SoldWith
    <3> QED
      BY <3>1, <3>2
  <2>5. SessionInv(p)'
    BY <1>1, <1>2, EnvironmentInv DEF NotaryInv
  <2> QED
    BY <2>2, <2>3, <2>4, <2>5, OthersAreLocal, PurchasingSuffices DEF PurchaseInv
<1>3. CASE ~Ended(p) /\ HttpFails(p)
  <2>1. /\ http[p].at \in {"reseller", "buyer"} /\ http'[p] = Hangup /\ UNCHANGED link
        /\ buyer[p] \notin Outcomes
    BY <1>1, <1>3 DEF HttpFails, ProcessInv, Ended
  <2>2. BuyerInv(p)' /\ HttpInv(p)'
    BY <1>1, <2>1 DEF PurchaseInv, BuyerInv, HttpInv, Idle, Hangup
  <2>3. SaleInv(p)' /\ PaidFirst(p)'
    BY <1>1, <2>1 DEF PurchaseInv, SaleInv, PaidFirst, Hangup, Up
  <2>6. DisclosureInv(p)'
    BY <1>1, <2>1 DEF PurchaseInv, DisclosureInv, ShownAs
  <2>4. SoldInv(p)' /\ VerdictInv(p)'
    BY <1>1, <2>1 DEF SoldInv, VerdictInv, Hangup, Outcomes
  <2>5. SessionInv(p)'
    BY <1>1, <2>1, SessionFrame
  <2> QED
    BY <2>2, <2>3, <2>4, <2>5, <2>6, OthersAreLocal, PurchasingSuffices DEF PurchaseInv
<1> QED
  BY <1>2, <1>3 DEF Failing
-----------------------------------------------------------------------------
\* The processes.

\* A reseller that starts, and time, disturb nothing.
LEMMA QuietInv ==
    ASSUME Inv, Lifecycle, Serve \/ Tick \/ Listen
    PROVE  Inv'
<1>1. /\ NotaryInv /\ ProcessInv
      /\ UNCHANGED <<env, exits, http, link, tls, ledger, faults, sale, session, buyer,
                     pinned>>
  BY DEF Inv, Lifecycle, Serve, Tick, Listen, ResellerStops, NotaryStops, buyerVars
<1>2. app # None => UNCHANGED app
  BY DEF Serve, Tick, Listen
<1>3. clock \in Int /\ clock' \in Int /\ clock <= clock' /\ clock' \in Times
  BY <1>1, BoundsAssumption DEF ProcessInv, Times, Serve, Tick, Listen
<1>4. NotaryInv'
  <2>1. CASE Listen
    BY <1>1, <2>1, ListenInv
  <2>2. CASE UNCHANGED cfg
    BY <1>1, <2>2, SessionFrame DEF NotaryInv
  <2> QED
    BY <2>1, <2>2 DEF Serve, Tick
<1>5. ProcessInv'
  BY <1>1, <1>2, <1>3 DEF ProcessInv, Serve, Tick, Listen, ResellerVars
<1>6. ASSUME NEW q \in Purchases PROVE PurchaseInv(q)'
  BY <1>1, <1>2, <1>3, PurchaseFrame DEF Inv
<1> QED
  BY <1>4, <1>5, <1>6 DEF Inv

\* The reseller stops: its handlers are gone, its connections hang up, and the
\* sessions it had with the notary are cut.
LEMMA ResellerStopsInv ==
    ASSUME Inv, ResellerStops, UNCHANGED <<buyerVars, session>>
    PROVE  Inv'
<1>1. /\ NotaryInv /\ ProcessInv /\ app' = None /\ exits < MaxExits /\ exits' = exits + 1
      /\ UNCHANGED <<clock, cfg, tls, ledger, session, buyer, pinned>>
  BY DEF Inv, ResellerStops, buyerVars
<1>2. PICK other \in Envs : env' = [env EXCEPT !.reseller = other.reseller]
  BY DEF ResellerStops
<1>3. /\ DOMAIN env' = DOMAIN env /\ env'.reseller = other.reseller
      /\ UNCHANGED <<env.notary, env.certificate, env.dotenv, env.buyer, env.key_on_wire>>
  BY <1>1, <1>2 DEF NotaryInv, ProcessInv
<1>4. ProcessInv'
  <2>1. \E e, f \in Envs : /\ env'.reseller = f.reseller /\ env'.dotenv = e.dotenv
                           /\ env'.buyer = e.buyer /\ env'.key_on_wire = e.key_on_wire
    BY <1>1, <1>3 DEF ProcessInv
  <2>2. faults' \subseteq Purchases /\ exits' \in 0 .. MaxExits
    BY <1>1, BoundsAssumption DEF ResellerStops, ProcessInv
  <2>3. DOMAIN http' = Purchases /\ DOMAIN sale' = Purchases
    BY DEF ResellerStops
  <2> QED
    BY <1>1, <1>3, <2>1, <2>2, <2>3 DEF ProcessInv
<1>5. ASSUME NEW q \in Purchases PROVE SessionInv(q)' /\ PurchaseInv(q)'
  <2>1. SessionInv(q) /\ PurchaseInv(q)
    BY DEF Inv, NotaryInv
  <2>2. link'[q] = IF Up(link[q]) THEN Broken ELSE link[q]
    BY DEF ResellerStops, CutLinks
  <2>3. http'[q] = IF http[q].at = "reseller" THEN Hangup ELSE http[q]
    BY DEF ResellerStops
  <2>4. /\ SaleShape(sale'[q]) /\ sale'[q].pc \in {"idle", "done"}
        /\ sale'[q].pc = "idle" <=> sale[q].pc = "idle"
    BY <2>1 DEF ResellerStops, PurchaseInv, SaleInv, SaleShape
  <2>5. SessionInv(q)'
    BY <1>1, <1>3, <2>1, <2>2 DEF SessionInv, Paired, Dialled, Authenticated, Witnessed,
       Up, Broken
  <2>6. BuyerInv(q)' /\ HttpInv(q)'
    BY <1>1, <2>1, <2>3, <2>4 DEF PurchaseInv, BuyerInv, HttpInv, Idle, Hangup
  <2>7. SaleInv(q)'
    BY <1>1, <2>1, <2>2, <2>4 DEF PurchaseInv, SaleInv, Up, Broken
  <2>8. PaidFirst(q)'
    BY <1>1, <2>1, <2>2 DEF PurchaseInv, PaidFirst, Up, Broken
  <2>9. DisclosureInv(q)'
    <3>1. session[q].pc \in {"accepted", "signed"} =>
            ShownAs(q, session[q].sent[1], session[q].received[1])'
      BY <1>1, <2>1 DEF PurchaseInv, DisclosureInv, ShownAs
    <3> QED
      BY <1>1, <2>2, <3>1 DEF DisclosureInv, Up, Broken
  <2>10. SoldInv(q)'
    BY <1>1, <2>1, <2>3 DEF PurchaseInv, SoldInv, SoldWith, Hangup
  <2>11. VerdictInv(q)'
    <3>1. CASE http[q].at = "reseller"
      BY <1>1, <2>1, <3>1 DEF PurchaseInv, HttpInv, VerdictInv
    <3>2. CASE http[q].at # "reseller"
      BY <1>1, <1>3, <2>1, <2>3, <3>2, VerdictFrame DEF PurchaseInv
    <3> QED
      BY <3>1, <3>2
  <2> QED
    BY <2>5, <2>6, <2>7, <2>8, <2>9, <2>10, <2>11 DEF PurchaseInv
<1>6. NotaryInv'
  BY <1>1, <1>3, <1>5 DEF NotaryInv, ResellerStops, CutLinks
<1> QED
  BY <1>4, <1>5, <1>6 DEF Inv

\* The notary stops: what was signed stays signed, every live session fails.
LEMMA NotaryGoneInv ==
    ASSUME Inv, NotaryStops, UNCHANGED <<buyerVars, sale>>
    PROVE  Inv'
<1>1. /\ NotaryInv /\ ProcessInv /\ NotaryInv' /\ cfg' = None
      /\ exits < MaxExits /\ exits' = exits + 1
      /\ UNCHANGED <<clock, app, http, ledger, sale, buyer, pinned>>
  BY NotaryStopsInv DEF Inv, NotaryStops, buyerVars
<1>2. /\ DOMAIN env' = DOMAIN env
      /\ UNCHANGED <<env.reseller, env.dotenv, env.buyer, env.key_on_wire>>
  BY <1>1 DEF NotaryInv, ProcessInv, NotaryStops
<1>3. ProcessInv'
  <2>1. faults' \subseteq Purchases /\ exits' \in 0 .. MaxExits
    BY <1>1, BoundsAssumption DEF NotaryStops, ProcessInv
  <2>2. ResellerVars(env)' = ResellerVars(env)
    BY <1>2 DEF ResellerVars
  <2> QED
    BY <1>1, <1>2, <2>1, <2>2 DEF ProcessInv
<1>4. ASSUME NEW q \in Purchases PROVE PurchaseInv(q)'
  <2>1. SessionInv(q) /\ PurchaseInv(q) /\ SessionInv(q)'
    BY <1>1 DEF Inv, NotaryInv
  <2>2. /\ link'[q] = IF Up(link[q]) THEN Broken ELSE link[q]
        /\ tls'[q] = IF tls[q].stage \in {"open", "requested"}
                     THEN [tls[q] EXCEPT !.stage = "closed"] ELSE tls[q]
        /\ session'[q] = IF session[q].pc \in {"proxying", "accepted"} \/ Up(link[q])
                         THEN [session[q] EXCEPT !.pc = "failed"] ELSE session[q]
    BY DEF NotaryStops, CutLinks
  <2>3. BuyerInv(q)' /\ HttpInv(q)' /\ VerdictInv(q)'
    BY <1>1, <1>2, <2>1, VerdictFrame DEF PurchaseInv, BuyerInv, HttpInv
  <2>4. SaleInv(q)'
    <3>1. /\ tls[q].stage # "none" => tls'[q].stage # "none" /\ tls'[q].sent = tls[q].sent
          /\ tls[q].stage = "replied" => tls'[q] = tls[q]
      BY <2>1, <2>2 DEF SessionInv, TlsShape
    <3> QED
      BY <1>1, <1>2, <2>1, <2>2, <3>1 DEF PurchaseInv, SaleInv, Up, Broken
  <2>5. PaidFirst(q)'
    BY <1>1, <2>1, <2>2 DEF SessionInv, TlsShape, SessionShape, PurchaseInv, PaidFirst, Up,
       Broken
  <2>6. session'[q].pc = "signed" => UNCHANGED <<session[q], tls[q]>>
    BY <2>1, <2>2 DEF SessionInv, SessionShape, Witnessed
  <2>7. link'[q].stage # "disclosed" /\ session'[q].pc # "accepted"
    BY <2>1, <2>2 DEF SessionInv, SessionShape, Up, Broken
  <2>8. DisclosureInv(q)'
    <3>1. session'[q].pc = "signed" => ShownAs(q, session[q].sent[1], session[q].received[1])'
      BY <2>1, <2>6 DEF PurchaseInv, DisclosureInv, ShownAs
    <3> QED
      BY <2>7, <3>1 DEF DisclosureInv
  <2>9. SoldInv(q)'
    <3>1. session[q].pc = "signed" => session'[q].pc = "signed"
      BY <2>1, <2>2 DEF SessionInv, Paired, Up
    <3> QED
      BY <1>1, <2>1, <2>6, <3>1 DEF PurchaseInv, SoldInv, SoldWith
  <2> QED
    BY <2>3, <2>4, <2>5, <2>8, <2>9 DEF PurchaseInv
<1> QED
  BY <1>1, <1>3, <1>4 DEF Inv
-----------------------------------------------------------------------------

\* The invariant holds before any process has started.
LEMMA InitInv == Init => Inv
<1> SUFFICES ASSUME Init PROVE Inv
  OBVIOUS
<1> USE DEF Init, WorldInit, BuyerInit, ResellerInit, NotaryInit
<1>1. NotaryInv
  BY NotaryInitInv
<1>2. ProcessInv
  BY ProcessesAssumption, BoundsAssumption DEF ProcessInv, Times
<1>3. ASSUME NEW p \in Purchases PROVE PurchaseInv(p)
  BY DEF PurchaseInv, BuyerInv, HttpInv, SaleInv, SaleShape, SaleAt, PaidFirst,
     DisclosureInv, SoldInv, VerdictInv, Idle, NoLink, NoTls, SessionAt, Option, Up
<1> QED
  BY <1>1, <1>2, <1>3 DEF Inv

\* Every step of any party preserves it.
LEMMA StepInv == Inv /\ [Next]_vars => Inv'
<1> SUFFICES ASSUME Inv, [Next]_vars PROVE Inv'
  OBVIOUS
<1>1. CASE UNCHANGED vars
  <2>1. UNCHANGED <<env, clock, app, cfg, exits, http, link, tls, ledger, faults, buyer,
                    pinned, sale, session>>
    BY <1>1 DEF vars, worldVars, processVars, buyerVars
  <2>2. NotaryInv' /\ ProcessInv'
    BY <2>1, SessionFrame DEF Inv, NotaryInv, ProcessInv, ResellerVars
  <2>3. ASSUME NEW q \in Purchases PROVE PurchaseInv(q)'
    BY <2>1, PurchaseFrame DEF Inv, ProcessInv, Times
  <2> QED
    BY <2>2, <2>3 DEF Inv
<1>2. CASE \E p \in Purchases :
            Buying(p) \/ Selling(p) \/ Notarizing(p) \/ Upstream(p) \/ Failing(p)
  BY <1>2, BuyingInv, SellingInv, NotarizingInv, UpstreamInv, FailingInv
<1>3. CASE Lifecycle
  BY <1>3, QuietInv, ResellerStopsInv, NotaryGoneInv DEF Lifecycle
<1> QED
  BY <1>1, <1>2, <1>3 DEF Next, AllEnded

\* Hence it always holds.
LEMMA AlwaysInv == Spec => []Inv
BY InitInv, StepInv, PTL DEF Spec

\* Both stay functions over the purchases.
Recorded == /\ ledger = [p \in Purchases |-> ledger[p]]
            /\ buyer = [p \in Purchases |-> buyer[p]]

\* No step turns them into anything else.
LEMMA RecordedStep == Inv /\ Recorded /\ [Next]_vars => Recorded'
<1> SUFFICES ASSUME Inv, Recorded, [Next]_vars PROVE Recorded'
  OBVIOUS
<1>1. CASE UNCHANGED <<ledger, buyer>>
  BY <1>1 DEF Recorded
<1>2. ASSUME NEW p \in Purchases, BuyerStep(p) PROVE Recorded'
  <2>1. \E place : Goto(p, place)
    BY <1>2 DEF BuyerStep, FundWallet, PinKey, Ask, Pay, Decline, Lose, Check200
  <2>2. buyer' = [q \in Purchases |-> buyer'[q]]
    BY <2>1 DEF Goto, Inv, ProcessInv
  <2>3. UNCHANGED ledger \/ ledger' = [ledger EXCEPT ![p] = Some(clock)]
    BY <1>2 DEF BuyerStep, FundWallet, PinKey, Ask, Pay, Decline, Lose, Check200, worldVars
  <2>4. ledger' = [q \in Purchases |-> ledger'[q]]
    BY <2>3 DEF Recorded, Inv, ProcessInv
  <2> QED
    BY <2>2, <2>4 DEF Recorded
<1>3. CASE \E p \in Purchases : Selling(p) \/ Notarizing(p) \/ Upstream(p) \/ Failing(p)
  <2>1. UNCHANGED <<ledger, buyer>>
    BY <1>3, ZenonT(60) DEF Selling, ResellerStep, Challenge, Authorize, OpenSession, SendRequest,
       ReadResponse, Abandon, Cancel, Deliver, Notarizing, NotaryStep, AcceptCommit,
       AcceptDisclosure, SessionBreaks, SignClaim, Upstream, UpstreamReply,
       UpstreamHangup, Failing, LinkFails, HttpFails, buyerVars
  <2> QED
    BY <1>1, <2>1
<1>4. CASE Lifecycle \/ AllEnded \/ UNCHANGED vars
  <2>1. UNCHANGED <<ledger, buyer>>
    BY <1>4 DEF Lifecycle, Serve, ResellerStops, Listen, NotaryStops, Tick, AllEnded, vars,
       worldVars, buyerVars
  <2> QED
    BY <1>1, <2>1
<1> QED
  BY <1>2, <1>3, <1>4 DEF Next, Buying

\* Every variable keeps its type: in particular a running process runs what its
\* environment says, restarts included.
THEOREM TypeSafe == Spec => []TypeOK
<1>1. Init => Recorded
  BY DEF Init, WorldInit, BuyerInit, Recorded
<1>2. Inv /\ Recorded => TypeOK
  <2> SUFFICES ASSUME Inv, Recorded PROVE TypeOK
    OBVIOUS
  <2>1. /\ clock \in Times /\ exits \in 0 .. MaxExits /\ faults \subseteq Purchases
        /\ app # None => app = Some(App(ResellerVars(env)))
        /\ cfg # None => cfg = Some(Config(env.notary))
    BY DEF Inv, ProcessInv
  <2>2. Option(0 .. clock) \subseteq Option(Times)
    <3>1. 0 .. clock \subseteq Times
      BY <2>1, BoundsAssumption DEF Times
    <3> QED
      BY <3>1 DEF Option
  <2>3. ledger \in [Purchases -> Option(Times)]
    BY <2>2 DEF Recorded, Inv, PurchaseInv, BuyerInv
  <2>4. buyer \in [Purchases -> {"start", "funded", "pinned", "asked", "paid"}
                                    \cup Outcomes]
    BY DEF Recorded, Inv, PurchaseInv, BuyerInv
  <2>5. ASSUME NEW p \in Purchases
        PROVE  /\ http[p].at \in {"idle", "reseller", "buyer", "closed"}
               /\ link[p].stage \in {"none", "commit", "proxying", "disclosed", "closing",
                                     "eof", "broken"}
               /\ tls[p].stage \in {"none", "open", "requested", "replied", "closed"}
               /\ sale[p].pc \in {"idle", "paid", "committing", "requested", "proving",
                                  "done"}
               /\ session[p].pc \in {"listening", "proxying", "accepted", "signed",
                                     "failed"}
               /\ session[p].time \in Option(Times)
    <3>1. SessionInv(p) /\ PurchaseInv(p)
      BY DEF Inv, NotaryInv
    <3>2. session[p].time \in Option(Times)
      BY <2>2, <3>1 DEF PurchaseInv, PaidFirst
    <3>3. http[p].at \in {"idle", "reseller", "buyer", "closed"}
      BY <3>1 DEF PurchaseInv, HttpInv
    <3> QED
      BY <3>1, <3>2, <3>3 DEF PurchaseInv, SaleInv, SessionInv, Paired, TlsShape
  <2> QED
    BY <2>1, <2>3, <2>4, <2>5 DEF TypeOK
<1> QED
  BY <1>1, <1>2, RecordedStep, AlwaysInv, PTL DEF Spec
-----------------------------------------------------------------------------
\* The leg a session has signed, in terms of what the upstream saw.
LEMMA SignedLeg ==
    ASSUME NEW p \in Purchases, Inv, session[p].pc = "signed"
    PROVE  \E claim \in {session[p].signed[1].claim}, view \in {View(tls[p].reply[1], {})} :
            /\ claim.host = tls[p].host /\ tls[p].host \in env.certificate
            /\ claim.method = Word(session[p].sent[1], 1)
            /\ claim.path = Word(session[p].sent[1], 2)
            /\ claim.request_digest = Sha256(DecodedRequest(session[p].sent[1]))
            /\ claim.response_digest = Sha256(DecodedResponse(view))
            /\ claim.response_status = StatusCode(view)
            /\ claim.timestamp = tls[p].opened
            /\ claim = LegClaim(claim.host, [method |-> claim.method, path |-> claim.path],
                                claim.request_digest, claim.response_digest,
                                claim.response_status, claim.timestamp)
            /\ tls[p].stage = "replied" /\ IsRequest(p, tls[p].sent[1])
            /\ IsShown(tls[p].sent[1], session[p].sent[1])
            /\ ledger[p] # None /\ ledger[p][1] <= tls[p].opened
            /\ session[p].signed = Some(session[p].signed[1])
            /\ VerifyProof(session[p].signed[1]) = "Ok"
            /\ tls[p].reply = Some(tls[p].reply[1]) /\ tls[p].reply[1] \in Replies
<1> DEFINE view == View(tls[p].reply[1], {})
           claim == session[p].signed[1].claim
<1>1. SessionInv(p) /\ PurchaseInv(p) /\ ProcessInv
  BY DEF Inv, NotaryInv
<1>2. /\ tls[p].stage = "replied" /\ session[p].host[1] = tls[p].host
      /\ tls[p].host \in env.certificate
      /\ session[p].time[1] = tls[p].opened
      /\ session[p].signed = Some(session[p].signed[1])
      /\ claim = WitnessedClaim(session[p])
      /\ VerifyProof(session[p].signed[1]) = "Ok"
  BY <1>1 DEF SessionInv, Witnessed, Some
<1>3. tls[p].reply = Some(tls[p].reply[1]) /\ tls[p].reply[1] \in Replies
  BY <1>1, <1>2 DEF SessionInv, TlsShape
<1>4. /\ IsShown(tls[p].sent[1], session[p].sent[1]) /\ session[p].received[1] = view
  BY <1>1 DEF PurchaseInv, DisclosureInv, ShownAs
<1>5. IsRequest(p, tls[p].sent[1]) /\ ledger[p] # None /\ ledger[p][1] <= tls[p].opened
  <2>1. ledger[p] # None
    <3>1. link[p].stage # "none"
      BY <1>1 DEF SessionInv, Paired
    <3> QED
      BY <1>1, <3>1 DEF PurchaseInv, PaidFirst
  <2>2. ledger[p][1] \in Nat /\ clock \in Nat
    BY <1>1, <2>1 DEF PurchaseInv, BuyerInv, Option, Some, ProcessInv, Times
  <2> QED
    BY <1>1, <1>2, <2>1, <2>2 DEF PurchaseInv, PaidFirst
<1> HIDE DEF view, claim
<1>6. claim = LegClaim(tls[p].host, RequestLine(session[p].sent[1]),
                       Sha256(DecodedRequest(session[p].sent[1])),
                       Sha256(DecodedResponse(view)), StatusCode(view), tls[p].opened)
  BY <1>2, <1>4 DEF WitnessedClaim
<1>7. /\ claim.host = tls[p].host
      /\ claim.method = Word(session[p].sent[1], 1)
      /\ claim.path = Word(session[p].sent[1], 2)
      /\ claim.request_digest = Sha256(DecodedRequest(session[p].sent[1]))
      /\ claim.response_digest = Sha256(DecodedResponse(view))
      /\ claim.response_status = StatusCode(view) /\ claim.timestamp = tls[p].opened
      /\ claim = LegClaim(claim.host, [method |-> claim.method, path |-> claim.path],
                          claim.request_digest, claim.response_digest,
                          claim.response_status, claim.timestamp)
  BY <1>6 DEF LegClaim, RequestLine
<1> QED
  BY <1>2, <1>3, <1>4, <1>5, <1>7 DEF claim, view

\* What is shown intact of a request is read as it was sent.
LEMMA IntactIsRead ==
    ASSUME NEW p, NEW sent, NEW shown, IsRequest(p, sent), IsShown(sent, shown)
    PROVE  /\ (\A i \in 1 .. 6 : shown[i] = sent[i]) =>
                Word(shown, 1) = <<"POST">> /\ Word(shown, 2) = <<"/v1/messages">>
           /\ (\A i \in SplitAt(sent) + 1 .. Len(sent) : shown[i] = sent[i]) =>
                DecodedRequest(shown) = RequestBody(p)
<1>1. sent \in Text /\ shown \in Text /\ Len(shown) = Len(sent) /\ Len(sent) \in Nat
  BY DEF IsRequest, IsPost, IsShown, Text
<1>2. ASSUME \A i \in 1 .. 6 : shown[i] = sent[i]
      PROVE  Word(shown, 1) = <<"POST">> /\ Word(shown, 2) = <<"/v1/messages">>
  <2>1. IsPost(shown)
    <3>1. 1 \in 1 .. 6 /\ 2 \in 1 .. 6 /\ 3 \in 1 .. 6 /\ 4 \in 1 .. 6 /\ 5 \in 1 .. 6
          /\ 6 \in 1 .. 6
      OBVIOUS
    <3> QED
      BY <1>1, <1>2, <3>1 DEF IsRequest, IsPost
  <2> QED
    BY <2>1, PostWords
<1>3. ASSUME \A i \in SplitAt(sent) + 1 .. Len(sent) : shown[i] = sent[i]
      PROVE  DecodedRequest(shown) = RequestBody(p)
  <2> DEFINE n == SplitAt(sent)
             d == Drop(sent, n)
             e == Drop(shown, n)
  <2>1. n \in 0 .. Len(sent) /\ SplitAt(shown) = n /\ d = RequestBody(p)
    BY DEF IsRequest, IsShown, DecodedRequest
  <2>2. \A i \in n + 1 .. Len(sent) : shown[i] = sent[i]
    BY <1>3
  <2> HIDE DEF n
  <2>3. /\ d \in Seq(Token) /\ Len(d) = Len(sent) - n
        /\ \A i \in 1 .. Len(sent) - n : d[i] = sent[n + i]
    BY <1>1, <2>1, DropProperties DEF Text
  <2>4. /\ e \in Seq(Token) /\ Len(e) = Len(sent) - n
        /\ \A i \in 1 .. Len(sent) - n : e[i] = shown[n + i]
    <3>1. shown \in Seq(Token) /\ n \in 0 .. Len(shown)
      BY <1>1, <2>1 DEF Text
    <3>2. /\ e \in Seq(Token) /\ Len(e) = Len(shown) - n
          /\ \A i \in 1 .. Len(shown) - n : e[i] = shown[n + i]
      BY <3>1, DropProperties
    <3> HIDE DEF e
    <3> QED
      BY <1>1, <3>2
  <2> HIDE DEF d, e
  <2>5. ASSUME NEW i \in 1 .. Len(sent) - n PROVE e[i] = d[i]
    <3>1. n + i \in n + 1 .. Len(sent)
      BY <1>1, <2>1
    <3> QED
      BY <2>2, <2>3, <2>4, <3>1
  <2>6. e = d
    <3>1. Len(e) = Len(d) /\ \A i \in 1 .. Len(e) : e[i] = d[i]
      BY <2>3, <2>4, <2>5
    <3> QED
      BY <2>3, <2>4, <3>1, SeqEqual
  <2> QED
    BY <2>1, <2>6 DEF DecodedRequest, e
<1> QED
  BY <1>2, <1>3

\* The notary signs what the upstream it dialled really received and sent, for a
\* purchase paid before: the claim's request line and the request it digests are
\* the ones the upstream got, unless the api key made them blank.
THEOREM SignedSafe == Spec => []SignedIsWitnessed
<1>1. Inv => SignedIsWitnessed
  <2> SUFFICES ASSUME Inv, NEW p \in Purchases, session[p].signed # None
               PROVE  LET claim == session[p].signed[1].claim
                          sent  == tls[p].sent[1]
                          shown == session[p].sent[1]
                          intact(from, to) == \A i \in from .. to : shown[i] = sent[i]
                          line  == [method |-> <<"POST">>, path |-> <<"/v1/messages">>]
                          whole == View(tls[p].reply[1], {})
                      IN  /\ ledger[p] # None
                          /\ tls[p].stage = "replied"
                          /\ \A i \in DOMAIN shown : shown[i] \in {sent[i], "NUL"}
                          /\ claim = LegClaim(tls[p].host,
                                IF intact(1, 6) THEN line
                                ELSE [method |-> claim.method, path |-> claim.path],
                                IF intact(SplitAt(sent) + 1, Len(sent))
                                THEN Sha256(RequestBody(p)) ELSE claim.request_digest,
                                Sha256(DecodedResponse(whole)),
                                StatusCode(whole), tls[p].opened)
                          /\ tls[p].host \in env.certificate
    BY DEF SignedIsWitnessed
  <2> DEFINE claim == session[p].signed[1].claim
             sent  == tls[p].sent[1]
             shown == session[p].sent[1]
             first == \A i \in 1 .. 6 : shown[i] = sent[i]
             last  == \A i \in SplitAt(sent) + 1 .. Len(sent) : shown[i] = sent[i]
             line  == [method |-> <<"POST">>, path |-> <<"/v1/messages">>]
             whole == View(tls[p].reply[1], {})
  <2>1. session[p].pc = "signed"
    BY DEF Inv, NotaryInv, SessionInv, Witnessed
  <2>2. /\ tls[p].host \in env.certificate /\ tls[p].stage = "replied" /\ ledger[p] # None
        /\ claim.host = tls[p].host
        /\ claim.method = Word(shown, 1) /\ claim.path = Word(shown, 2)
        /\ claim.request_digest = Sha256(DecodedRequest(shown))
        /\ claim.response_digest = Sha256(DecodedResponse(whole))
        /\ claim.response_status = StatusCode(whole)
        /\ claim.timestamp = tls[p].opened
        /\ claim = LegClaim(claim.host, [method |-> claim.method, path |-> claim.path],
                            claim.request_digest, claim.response_digest,
                            claim.response_status, claim.timestamp)
        /\ IsRequest(p, sent) /\ IsShown(sent, shown)
    BY <2>1, SignedLeg
  <2>3. \A i \in DOMAIN shown : shown[i] \in {sent[i], "NUL"}
    BY <2>2 DEF IsShown
  <2>4. /\ first => Word(shown, 1) = <<"POST">> /\ Word(shown, 2) = <<"/v1/messages">>
        /\ last => DecodedRequest(shown) = RequestBody(p)
    <3> HIDE DEF sent, shown
    <3> QED
      BY <2>2, IntactIsRead
  <2> HIDE DEF claim, first, last, whole, sent, shown
  <2>5. claim = LegClaim(tls[p].host,
                         IF first THEN line
                         ELSE [method |-> claim.method, path |-> claim.path],
                         IF last THEN Sha256(RequestBody(p)) ELSE claim.request_digest,
                         Sha256(DecodedResponse(whole)), StatusCode(whole), tls[p].opened)
    <3>1. (IF first THEN line ELSE [method |-> claim.method, path |-> claim.path])
                = [method |-> claim.method, path |-> claim.path]
      BY <2>2, <2>4
    <3>2. (IF last THEN Sha256(RequestBody(p)) ELSE claim.request_digest)
                = claim.request_digest
      BY <2>2, <2>4
    <3> QED
      BY <2>2, <3>1, <3>2
  <2> QED
    BY <2>2, <2>3, <2>5 DEF claim, first, last, whole, sent, shown
<1> QED
  BY <1>1, AlwaysInv, PTL
-----------------------------------------------------------------------------
\* Which bytes of the request the notary is shown.

\* What is shown hides one occurrence of the key, the first, and nothing else.
HidesKey(key, written, sent, shown) ==
    IF key = None THEN shown = sent
    ELSE /\ \E i \in Places(sent, key[1]) :
                shown = [j \in DOMAIN sent |->
                            IF j \in i .. i + Len(key[1]) - 1 THEN "NUL" ELSE sent[j]]
         /\ written = key[1] =>
                /\ KeyAt(sent, key[1]) \in Places(sent, key[1])
                /\ Places(sent, key[1]) \cap 1 .. KeyAt(sent, key[1]) - 1 = {} =>
                    \A j \in KeyAt(sent, key[1]) .. KeyAt(sent, key[1]) + Len(key[1]) - 1 :
                        shown[j] = "NUL"
Hides(p) == HidesKey(app[1].api_key, WrittenKey(app[1].api_key[1]),
                     tls[p].sent[1], link[p].sent)

\* Blanking the first occurrence of a key that is where KeyAt says hides it.
LEMMA FirstIsHidden ==
    ASSUME NEW sent \in Text, NEW key, key # None, key[1] \in Text, NEW written,
           Position(sent, key[1]) # 0,
           written = key[1] => KeyAt(sent, key[1]) \in Places(sent, key[1])
    PROVE  HidesKey(key, written, sent,
                    Redacted(sent, Position(sent, key[1]), Len(key[1])))
<1> DEFINE k == key[1]
           P == Places(sent, k)
           first == Position(sent, k)
           at == KeyAt(sent, k)
           shown == Redacted(sent, first, Len(k))
           hidden(i) == [j \in DOMAIN sent |-> IF j \in i .. i + Len(k) - 1 THEN "NUL"
                                               ELSE sent[j]]
<1>1. first \in P /\ first \in Nat \ {0} /\ \A j \in P : first <= j
  BY PositionOf
<1>2. shown = hidden(first)
  BY DEF Redacted
<1>3. ASSUME at \in P, P \cap 1 .. at - 1 = {}, NEW j \in at .. at + Len(k) - 1
      PROVE  shown[j] = "NUL"
  <2>1. /\ Len(k) \in Nat /\ DOMAIN sent = 1 .. Len(sent) /\ Len(sent) \in Nat
    BY LenProperties DEF Text
  <2>2. at \in 1 .. Len(sent) /\ at + Len(k) - 1 <= Len(sent)
    BY <1>3, <2>1 DEF Places, Occurs
  <2> HIDE DEF first, at, shown, P, k
  <2>3. first = at
    <3>1. first <= at
      BY <1>1, <1>3
    <3>2. first \notin 1 .. at - 1
      BY <1>1, <1>3
    <3> QED
      BY <1>1, <2>2, <3>1, <3>2
  <2>4. j \in DOMAIN sent
    BY <1>3, <2>1, <2>2
  <2> QED
    BY <1>2, <1>3, <2>3, <2>4
<1> HIDE DEF first, at, shown, P
<1>4. \E i \in P : shown = hidden(i)
  BY <1>1, <1>2
<1>5. written = k => /\ at \in P
                     /\ P \cap 1 .. at - 1 = {} =>
                            \A j \in at .. at + Len(k) - 1 : shown[j] = "NUL"
  <2>1. written = k => at \in P
    BY DEF at, P
  <2> QED
    BY <1>3, <2>1
<1> QED
  BY <1>4, <1>5, Zenon DEF HidesKey, first, at, shown, P

\* The search for the key that decides what is disclosed.
LEMMA DisclosingHides ==
    ASSUME NEW p \in Purchases, Inv, ReadResponse(p), Selling(p),
           link'[p].stage = "disclosed"
    PROVE  Hides(p)'
<1> DEFINE key  == app[1].api_key
           sent == tls[p].sent[1]
<1>1. /\ UNCHANGED <<app, tls, env>> /\ DOMAIN link = Purchases /\ app # None
      /\ link[p].stage = "proxying" /\ tls[p].stage = "replied" /\ sale[p].pc = "requested"
  BY DEF ReadResponse, processVars, Inv, NotaryInv, Selling, ResellerStep
<1>2. sent \in Text
  BY <1>1 DEF Inv, PurchaseInv, PaidFirst, IsRequest, IsPost
<1>3. ASSUME NEW shown, Prove(p, shown) PROVE link'[p].sent = shown
  BY <1>1, <1>3 DEF Prove, SetLink, Disclosed
<1>4. ~UNCHANGED link
  BY <1>1
<1>5. \/ key = None /\ Prove(p, sent)
      \/ key \notin {None, Some(<< >>)} /\ Redact(p, sent, key[1])
  BY <1>4 DEF ReadResponse
<1>6. CASE key = None
  BY <1>1, <1>3, <1>5, <1>6 DEF Hides, HidesKey
<1>7. CASE key # None
  <2> DEFINE at == Position(sent, key[1])
  <2>1. at # 0 /\ link'[p].sent = Redacted(sent, at, Len(key[1]))
    BY <1>3, <1>4, <1>5, <1>7 DEF Redact, Locate
  <2>2. key[1] \in Text /\ key[1] # << >>
    <3>1. key = Some(key[1]) /\ key[1] \in Seq(STRING)
      BY <1>1, <1>7, AppIsApp DEF Inv, IsApp, IsOption
    <3>2. key[1] \in Text
      BY <3>1, StringsAreText
    <3> QED
      BY <1>5, <1>7, <3>1, <3>2
  <2>3. WrittenKey(key[1]) = key[1] => KeyAt(sent, key[1]) \in Places(sent, key[1])
    <3>1. Findable(app[1], env.key_on_wire, sent)
      BY <1>1 DEF Inv, PurchaseInv, SaleInv
    <3> QED
      BY <1>7, <2>2, <3>1 DEF Findable, WrittenKey
  <2>4. HidesKey(key, WrittenKey(key[1]), sent, link'[p].sent)
    <3> DEFINE written == WrittenKey(key[1])
    <3>1. written = key[1] => KeyAt(sent, key[1]) \in Places(sent, key[1])
      BY <2>3
    <3> HIDE DEF sent, key, written
    <3>2. HidesKey(key, written, sent, Redacted(sent, at, Len(key[1])))
      BY <1>2, <1>7, <2>1, <2>2, <3>1, FirstIsHidden
    <3> QED
      BY <2>1, <3>2 DEF written
  <2>5. WrittenKey(key[1])' = WrittenKey(key[1])
    BY <1>1 DEF WrittenKey
  <2> QED
    BY <1>1, <2>4, <2>5 DEF Hides
<1> QED
  BY <1>6, <1>7

\* What has been disclosed is not changed until the notary accepts it or the
\* session breaks, and the reseller whose key it is still runs.
LEMMA DisclosedIsKept ==
    ASSUME NEW p \in Purchases, Inv, [Next]_vars, link'[p].stage = "disclosed",
           link[p].stage = "disclosed" \/ ~(Selling(p) /\ ReadResponse(p))
    PROVE  /\ link[p].stage = "disclosed"
           /\ UNCHANGED <<link[p], tls[p], app, env.key_on_wire>>
<1>1. /\ SessionInv(p) /\ PurchaseInv(p) /\ ProcessInv /\ NotaryInv
  BY DEF Inv, NotaryInv
<1>2. CASE UNCHANGED vars
  BY <1>2 DEF vars, worldVars, processVars
<1>3. ASSUME NEW q \in Purchases,
             Buying(q) \/ Selling(q) \/ Notarizing(q) \/ Upstream(q) \/ Failing(q), q # p
      PROVE  UNCHANGED <<link[p], tls[p], app, env>>
  BY <1>3, BuyingIsLocal, SellingIsLocal, OthersAreLocal DEF Purchasing, OnlyAt
<1>4. CASE Buying(p)
  BY <1>4, BuyerParts
<1>5. CASE Selling(p)
  <2>1. UNCHANGED <<app, env>>
    BY <1>5, SellingIsLocal DEF Purchasing, OnlyAt
  <2>2. CASE Challenge(p) \/ Authorize(p) \/ Abandon(p) \/ Cancel(p) \/ Deliver(p)
    BY <2>1, <2>2 DEF Challenge, Authorize, Abandon, Cancel, Deliver
  <2>3. CASE OpenSession(p)
    BY <1>1, <2>1, <2>3 DEF OpenSession, SetLink, Commit, NotaryInv
  <2>4. CASE SendRequest(p)
    BY <1>1, <2>4 DEF SendRequest
  <2>5. CASE ReadResponse(p)
    BY <1>1, <1>5, <2>5 DEF ReadResponse
  <2> QED
    BY <1>5, <2>2, <2>3, <2>4, <2>5 DEF Selling, ResellerStep
<1>6. CASE Notarizing(p)
  <2>1. UNCHANGED <<app, env>>
    BY <1>6, OthersAreLocal DEF Purchasing, OnlyAt
  <2>2. NotaryInv' /\ session'[p].pc \in {"proxying"}
    BY <1>1, <1>6, NotaryStepInv DEF Notarizing, NotaryInv, SessionInv, Paired
  <2> QED
    BY <1>1, <1>6, <2>1, <2>2 DEF Notarizing, NotaryStep, AcceptCommit, AcceptDisclosure,
       SessionBreaks, SignClaim, SetLink, SessionFails, NotaryInv, SessionInv, SessionShape,
       Proxying, Broken, Closing
<1>7. CASE Upstream(p)
  BY <1>1, <1>7 DEF Upstream, UpstreamReply, UpstreamHangup, processVars, SessionInv,
     Authenticated
<1>8. CASE Failing(p)
  BY <1>1, <1>8 DEF Failing, LinkFails, HttpFails, SetLink, Broken, processVars, NotaryInv
<1>9. CASE Lifecycle
  <2>1. CASE Tick \/ Listen
    BY <2>1 DEF Tick, Listen
  <2>2. CASE Serve
    BY <1>1, <2>2 DEF Serve, PurchaseInv, SaleInv, Up
  <2>3. CASE ResellerStops \/ NotaryStops
    BY <1>1, <2>3 DEF ResellerStops, NotaryStops, CutLinks, Up, Broken
  <2> QED
    BY <1>9, <2>1, <2>2, <2>3 DEF Lifecycle
<1> QED
  BY <1>2, <1>3, <1>4, <1>5, <1>6, <1>7, <1>8, <1>9 DEF Next, AllEnded

\* run_prover shows the notary every byte of the request but one occurrence of the
\* configured api key, and nothing when there is none; the x-api-key header's value
\* is blank when it is that key and the key occurs nowhere before it.
THEOREM KeySafe == Spec => []KeyHidden
<1>1. KeyHidden <=> \A p \in Purchases : link[p].stage = "disclosed" => Hides(p)
  BY DEF KeyHidden, Hides, HidesKey
<1>2. Init => KeyHidden
  BY DEF Init, WorldInit, KeyHidden, NoLink
<1>3. Inv /\ KeyHidden /\ [Next]_vars => KeyHidden'
  <2> SUFFICES ASSUME Inv, KeyHidden, [Next]_vars,
                      NEW p \in Purchases, link'[p].stage = "disclosed"
               PROVE  Hides(p)'
    BY <1>1 DEF KeyHidden, Hides, HidesKey
  <2>1. CASE Selling(p) /\ ReadResponse(p) /\ link[p].stage # "disclosed"
    BY <2>1, DisclosingHides
  <2>2. CASE ~(Selling(p) /\ ReadResponse(p) /\ link[p].stage # "disclosed")
    <3>1. /\ link[p].stage = "disclosed"
          /\ UNCHANGED <<link[p], tls[p], app, env.key_on_wire>>
      BY <2>2, DisclosedIsKept
    <3>2. Hides(p)
      BY <1>1, <3>1
    <3> QED
      BY <3>1, <3>2 DEF Hides, WrittenKey
  <2> QED
    BY <2>1, <2>2
<1> QED
  BY <1>2, <1>3, AlwaysInv, PTL DEF Spec
-----------------------------------------------------------------------------
\* What the upstream has been sent.
Crossed(p) == tls[p].stage \in {"requested", "replied"}

\* A request crosses when run_prover sends it, with the head of the App that runs
\* then, and is not changed afterwards.
LEMMA SentOnce ==
    ASSUME NEW p \in Purchases, Inv, [Next]_vars, Crossed(p)'
    PROVE  \/ Crossed(p) /\ UNCHANGED tls[p].sent
           \/ /\ ~Crossed(p) /\ app # None /\ UNCHANGED env
              /\ tls'[p].sent[1] = RequestHead(app[1]) \o RequestBody(p)
<1>1. /\ SessionInv(p) /\ PurchaseInv(p) /\ ProcessInv /\ NotaryInv
  BY DEF Inv, NotaryInv
<1>2. CASE UNCHANGED tls
  BY <1>2 DEF Crossed
<1>3. ASSUME NEW q \in Purchases,
             Buying(q) \/ Selling(q) \/ Notarizing(q) \/ Upstream(q) \/ Failing(q), q # p
      PROVE  Crossed(p) /\ UNCHANGED tls[p].sent
  BY <1>3, BuyingIsLocal, SellingIsLocal, OthersAreLocal DEF Purchasing, OnlyAt, Crossed
<1>4. CASE Buying(p) \/ Failing(p)
  BY <1>2, <1>4, BuyerParts DEF Failing, LinkFails, HttpFails
<1>5. CASE Selling(p)
  <2>1. CASE SendRequest(p)
    <3>1. CASE SendTls(p, RequestHead(app[1]) \o sale[p].request[1])
      <4>1. ~Crossed(p) \/ UNCHANGED tls
        BY <2>1 DEF SendRequest, Crossed
      <4>2. tls'[p].sent[1] = RequestHead(app[1]) \o RequestBody(p)
        <5>1. sale[p].request[1] = RequestBody(p)
          BY <1>1, <2>1 DEF SendRequest, PurchaseInv, SaleInv, Some
        <5> DEFINE m == RequestHead(app[1]) \o RequestBody(p)
        <5>2. SendTls(p, m)
          BY <3>1, <5>1
        <5> HIDE DEF m
        <5>3. tls'[p].sent[1] = m
          BY <1>1, <2>1, <5>2
             DEF SendRequest, SendTls, Some, NotaryInv, SessionInv, TlsShape, Paired
        <5> QED
          BY <5>3 DEF m
      <4> QED
        BY <1>2, <1>5, <2>1, <4>1, <4>2 DEF Selling, ResellerStep, SendRequest, processVars
    <3> QED
      BY <1>2, <2>1, <3>1 DEF SendRequest
  <2> QED
    BY <1>2, <1>5, <2>1 DEF Selling, ResellerStep, Challenge, Authorize, OpenSession,
       ReadResponse, Abandon, Cancel, Deliver
<1>6. CASE Notarizing(p)
  <2>1. CASE tls' = [tls EXCEPT ![p] = Open(cfg[1].upstream_host, clock)]
    BY <1>1, <2>1 DEF Open, Crossed, NotaryInv
  <2> QED
    BY <1>2, <1>6, <2>1 DEF Notarizing, NotaryStep, AcceptCommit, AcceptDisclosure,
       SessionBreaks, SignClaim
<1>7. CASE Upstream(p)
  <2>1. CASE UpstreamReply(p)
    BY <1>1, <2>1 DEF UpstreamReply, Crossed, NotaryInv, SessionInv, TlsShape
  <2>2. CASE UpstreamHangup(p)
    BY <1>1, <2>2 DEF UpstreamHangup, Crossed, NotaryInv, SessionInv, TlsShape
  <2> QED
    BY <1>7, <2>1, <2>2 DEF Upstream
<1>8. CASE NotaryStops
  BY <1>1, <1>8 DEF NotaryStops, Crossed, NotaryInv, SessionInv, TlsShape
<1>9. CASE Lifecycle
  BY <1>2, <1>8, <1>9 DEF Lifecycle, Serve, ResellerStops, Listen, Tick
<1>10. CASE AllEnded \/ UNCHANGED vars
  BY <1>2, <1>10 DEF AllEnded, vars, worldVars
<1> QED
  BY <1>2, <1>3, <1>4, <1>5, <1>6, <1>7, <1>9, <1>10 DEF Next

\* The head run_prover is configured to send, as the variables are now.
ConfiguredHead == RequestHead(App(ResellerVars(env)))

\* Whenever run_prover sends a request, restarts or not, it writes the host, the
\* headers and the api key of the reseller's variables as they are then, and the
\* buyer's body: no handler outlives the process whose App it was started with.
THEOREM SendsConfigured ==
    Spec => [][\A p \in Purchases : ~Crossed(p) /\ Crossed(p)' =>
                   tls'[p].sent[1] = ConfiguredHead \o RequestBody(p)]_vars
<1>1. Inv /\ [Next]_vars =>
        \A p \in Purchases : ~Crossed(p) /\ Crossed(p)' =>
            tls'[p].sent[1] = ConfiguredHead \o RequestBody(p)
  <2> SUFFICES ASSUME Inv, [Next]_vars, NEW p \in Purchases, ~Crossed(p), Crossed(p)'
               PROVE  tls'[p].sent[1] = ConfiguredHead \o RequestBody(p)
    OBVIOUS
  <2>1. app # None /\ tls'[p].sent[1] = RequestHead(app[1]) \o RequestBody(p)
    BY SentOnce
  <2>2. app[1] = App(ResellerVars(env))
    BY <2>1 DEF Inv, ProcessInv, Some
  <2> QED
    BY <2>1, <2>2 DEF ConfiguredHead
<1> QED
  BY <1>1, AlwaysInv, PTL DEF Spec
=============================================================================
