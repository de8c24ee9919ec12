---------------------------- MODULE GateIntents ----------------------------
(***************************************************************************)
(* GATE: GateService and GateRepository for one project, the rows they     *)
(* share with the expiry worker, and the project's own Lightning Address   *)
(* provider, which nobody on this side controls.                           *)
(*                                                                         *)
(* A quote (POST /api/gate/intents) buys an intent its invoice, a proof    *)
(* (POST .../prove, with the payer's preimage) or a poll (GET, answered by *)
(* the provider's LUD-21 verify URL) turns a paid intent into a signed     *)
(* receipt, paid for out of the project's monthly free allowance or of a   *)
(* prepaid grant.  A request is a sequence of steps, one per statement,    *)
(* row lock or provider call, and may die before any of them.              *)
(***************************************************************************)
EXTENDS Naturals, FiniteSets

CONSTANTS
  Intents,       \* idempotency keys; a key and its intent are one value
  Requests,      \* HTTP request slots, reused after each response
  Bindings,      \* route, method, path, body digest, amount and address
  Hashes,        \* payment hashes the provider may use
  Jtis,          \* receipt ids (bounds the ledger)
  Grants,        \* prepaid packs (bounds gate_credit_grants)
  FreeLimit,     \* free authorizations in a month (25)
  PackSize,      \* authorizations of a pack (420 and more)
  GrantLife,     \* life of a pack (402 days)
  Lifetime,      \* life of an invoice
  Grace,         \* settlement grace after its expiry (5 minutes)
  MonthLength,   \* a calendar month
  MaxTime,       \* bounds the clock
  NoRequest, NoBinding, NoHash, NoJti, NoIntent

ASSUME GateAssumption ==
  /\ {FreeLimit, PackSize, GrantLife, Lifetime, Grace, MaxTime} \subseteq Nat
  /\ MonthLength \in Nat \ {0}
  /\ GrantLife > 0 /\ PackSize > 0
  /\ NoRequest \notin Requests /\ NoBinding \notin Bindings
  /\ NoHash \notin Hashes /\ NoJti \notin Jtis /\ NoIntent \notin Intents
  /\ {"none", "monthly_free"} \cap Grants = {}

VARIABLES
  intent,    \* gate_intents; expiry and verify_url are the invoice's own
  ledger,    \* gate_authorizations, UNIQUE (intent_id)
  grant,     \* gate_credit_grants
  rowLock,   \* the authorization transaction that holds an intent row
  project,   \* the authorization transaction that holds the project row
  invoice,   \* the provider: issued, expiry, LUD-21 verify URL, paid
  now,       \* the clock all processes read
  pc,        \* the next step of each request
  job,       \* the input of each request
  seen,      \* what a request read and still relies on
  answer,    \* the response a request has built
  asked,     \* history: requests that went on to call createInvoice
  quoted,    \* history: what callers were quoted, by intent
  told       \* history: the receipts handed out, by intent

rows == <<intent, ledger, grant>>
locks == <<rowLock, project>>
outside == <<invoice, now>>
local == <<pc, job, seen, answer>>
history == <<asked, quoted, told>>
vars == <<rows, locks, outside, local, history>>
-----------------------------------------------------------------------------
Times == 0 .. (MaxTime + Lifetime + GrantLife)
States == {"absent", "pending_invoice", "invoice_issuing", "invoice_issued",
           "invoice_uncertain", "paid", "authorized", "expired"}
Sources == Grants \cup {"monthly_free", "none"}
Steps == {"idle", "createIntent", "claimInvoice", "createInvoice",
          "markUncertain", "attachInvoice", "waitForInvoice", "getIntent",
          "verifyInvoice", "markPaid", "recheckPaid", "lockIntent",
          "chooseSource", "authorize", "reply"}

IntentRow == [state: States, binding: Bindings \cup {NoBinding},
              hash: Hashes \cup {NoHash}, paidAt: Times]
LedgerRow == [jti: Jtis \cup {NoJti}, source: Sources, at: Times]
GrantRow == [left: 0 .. PackSize, expires: Times]
InvoiceRow == [issued: BOOLEAN, expires: Times, url: BOOLEAN, paid: BOOLEAN]
Job == [kind: {"quote", "prove", "poll"}, intent: Intents \cup {NoIntent},
        binding: Bindings \cup {NoBinding}]
Seen == [state: States, hash: Hashes \cup {NoHash}, at: Times,
         source: Sources]
Response == [type: {"none", "quote", "receipt", "unsettled", "error"},
             hash: Hashes \cup {NoHash}, jti: Jtis \cup {NoJti}]

NoIntentRow == [state |-> "absent", binding |-> NoBinding, hash |-> NoHash,
                paidAt |-> 0]
NotAuthorized == [jti |-> NoJti, source |-> "none", at |-> 0]
NoGrant == [left |-> 0, expires |-> 0]
NotIssued == [issued |-> FALSE, expires |-> 0, url |-> FALSE, paid |-> FALSE]
NoJob == [kind |-> "poll", intent |-> NoIntent, binding |-> NoBinding]
Unseen == [state |-> "absent", hash |-> NoHash, at |-> 0, source |-> "none"]
NoAnswer == [type |-> "none", hash |-> NoHash, jti |-> NoJti]

Init ==
  /\ intent = [j \in Intents |-> NoIntentRow]
  /\ ledger = [j \in Intents |-> NotAuthorized]
  /\ grant = [g \in Grants |-> NoGrant]
  /\ rowLock = [j \in Intents |-> NoRequest]
  /\ project = NoRequest
  /\ invoice = [h \in Hashes |-> NotIssued]
  /\ now = 0
  /\ pc = [r \in Requests |-> "idle"]
  /\ job = [r \in Requests |-> NoJob]
  /\ seen = [r \in Requests |-> Unseen]
  /\ answer = [r \in Requests |-> NoAnswer]
  /\ asked = [j \in Intents |-> 0]
  /\ quoted = [j \in Intents |-> {}]
  /\ told = [j \in Intents |-> {}]
-----------------------------------------------------------------------------
(* Faults that the runs must notice: mutated forms of definitions below.   *)

ClaimableTwice(row) == row.state \in {"pending_invoice", "invoice_issuing"}
AnyHash(h, j) == TRUE
AnyBinding(row, b) == TRUE
AnyPreimage(h) == TRUE
WithoutProjectLock == TRUE
AllowanceOffByOne(month) ==
  FreeLimit <= 1 + Cardinality({j \in Intents :
    ledger[j].source = "monthly_free" /\ ledger[j].at \div MonthLength = month})
ReissuedReceipt(j) == CHOOSE x \in Jtis : x # ledger[j].jti
-----------------------------------------------------------------------------
(* Request bookkeeping.                                                    *)

on(r) == job[r].intent
Free(j) == rowLock[j] = NoRequest
ProjectFree == project = NoRequest

Goto(r, step) ==
  /\ pc' = [pc EXCEPT ![r] = step]
  /\ UNCHANGED <<job, answer>>

(* A step that goes on without changing anything but the request.          *)
Move(r, step) ==
  /\ Goto(r, step)
  /\ UNCHANGED <<rows, locks, outside, history, seen>>

(* A step whose only effect is the response it builds.                     *)
Answer(r, response) ==
  /\ pc' = [pc EXCEPT ![r] = "reply"]
  /\ answer' = [answer EXCEPT ![r] = response]
  /\ UNCHANGED <<rows, locks, outside, history, job, seen>>

QuoteAnswer(r, h) == Answer(r, [NoAnswer EXCEPT !.type = "quote", !.hash = h])
ReceiptAnswer(r, x) == Answer(r, [NoAnswer EXCEPT !.type = "receipt", !.jti = x])
Unsettled(r) == Answer(r, [NoAnswer EXCEPT !.type = "unsettled"])
Error(r) == Answer(r, [NoAnswer EXCEPT !.type = "error"])

(* The request is over; a transaction it had open is over too.             *)
Finish(r) ==
  /\ pc' = [pc EXCEPT ![r] = "idle"]
  /\ job' = [job EXCEPT ![r] = NoJob]
  /\ seen' = [seen EXCEPT ![r] = Unseen]
  /\ answer' = [answer EXCEPT ![r] = NoAnswer]
  /\ rowLock' = [j \in Intents |-> IF rowLock[j] = r THEN NoRequest
                                                     ELSE rowLock[j]]
  /\ project' = IF project = r THEN NoRequest ELSE project

(* An exception: the caller gets an error, nothing of the step survives.   *)
Throw(r) == Finish(r) /\ UNCHANGED <<rows, outside, history>>

Start(r, kind, j, b, step) ==
  /\ pc[r] = "idle"
  /\ pc' = [pc EXCEPT ![r] = step]
  /\ job' = [job EXCEPT ![r] = [kind |-> kind, intent |-> j, binding |-> b]]
  /\ UNCHANGED <<rows, locks, outside, history, seen, answer>>

StartQuote(r, j, b) == Start(r, "quote", j, b, "createIntent")
StartProve(r, j) ==
  intent[j].state # "absent" /\ Start(r, "prove", j, NoBinding, "getIntent")
StartPoll(r, j) ==
  intent[j].state # "absent" /\ Start(r, "poll", j, NoBinding, "getIntent")

(* The response reaches the caller.                                        *)
Reply(r) ==
  /\ pc[r] = "reply"
  /\ quoted' = IF answer[r].type = "quote"
               THEN [quoted EXCEPT ![on(r)] =
                       @ \cup {<<answer[r].hash, job[r].binding>>}]
               ELSE quoted
  /\ told' = IF answer[r].type = "receipt"
             THEN [told EXCEPT ![on(r)] = @ \cup {answer[r].jti}]
             ELSE told
  /\ Finish(r)
  /\ UNCHANGED <<rows, outside, asked>>

(* The request dies: a crash or a lost connection.                         *)
Fail(r) == pc[r] # "idle" /\ Throw(r)
-----------------------------------------------------------------------------
(* GateService.quote.                                                      *)

NewIntent(b) == [NoIntentRow EXCEPT !.state = "pending_invoice", !.binding = b]
Issuing(row) == [row EXCEPT !.state = "invoice_issuing"]
Issued(row, h) == [row EXCEPT !.state = "invoice_issued", !.hash = h]
Uncertain(row) == [row EXCEPT !.state = "invoice_uncertain"]
MarkedPaid(row, at) == [row EXCEPT !.state = "paid", !.paidAt = at]
Authorized(row) == [row EXCEPT !.state = "authorized"]
Expired(row) == [row EXCEPT !.state = "expired"]

SetIntent(j, row) ==
  /\ intent' = [intent EXCEPT ![j] = row]
  /\ UNCHANGED <<ledger, grant, locks, outside>>

(* on conflict (project_id, idempotency_key): the existing row, which must *)
(* bind the same request; from there its state decides.                    *)
SameRequest(row, b) == row.binding = b

CreateIntent(r) ==
  LET j == on(r)  b == job[r].binding IN
  /\ pc[r] = "createIntent"
  /\ Free(j)
  /\ \/ /\ intent[j].state = "absent"
        /\ SetIntent(j, NewIntent(b))
        /\ Goto(r, "claimInvoice")
        /\ UNCHANGED <<seen, history>>
     \/ /\ intent[j].state # "absent"
        /\ ~SameRequest(intent[j], b)
        /\ Throw(r)
     \/ /\ intent[j].state # "absent"
        /\ SameRequest(intent[j], b)
        /\ CASE intent[j].state = "invoice_issued" ->
                  QuoteAnswer(r, intent[j].hash)
             [] intent[j].state = "invoice_issuing" -> Move(r, "waitForInvoice")
             [] intent[j].state = "pending_invoice" -> Move(r, "claimInvoice")
             [] OTHER -> Throw(r)

(* Compare and set: one request ever leaves pending_invoice behind.        *)
Claimable(row) == row.state = "pending_invoice"

ClaimInvoice(r) ==
  LET j == on(r) IN
  /\ pc[r] = "claimInvoice"
  /\ Free(j)
  /\ \/ /\ Claimable(intent[j])
        /\ SetIntent(j, Issuing(intent[j]))
        /\ asked' = [asked EXCEPT ![j] = @ + 1]
        /\ Goto(r, "createInvoice")
        /\ UNCHANGED <<seen, quoted, told>>
     \/ ~Claimable(intent[j]) /\ Move(r, "waitForInvoice")

(* The provider answers with a new invoice, or with one it gave before:    *)
(* validateBolt11 only insists that it has not expired.                    *)
CreateInvoice(r) ==
  /\ pc[r] = "createInvoice"
  /\ \E h \in Hashes :
       /\ \/ /\ ~invoice[h].issued
             /\ \E url \in BOOLEAN :
                  invoice' = [invoice EXCEPT ![h] =
                    [issued |-> TRUE, expires |-> now + Lifetime,
                     url |-> url, paid |-> FALSE]]
          \/ /\ invoice[h].issued
             /\ now < invoice[h].expires
             /\ UNCHANGED invoice
       /\ seen' = [seen EXCEPT ![r].hash = h]
  /\ Goto(r, "attachInvoice")
  /\ UNCHANGED <<rows, locks, now, history>>

(* What #fetchJson and the parsers refuse, at the discovery, the callback  *)
(* or the verify URL: an address that is not public, a redirect, a status, *)
(* a body that is too large or not what it should be.  A claim stays taken. *)
ProviderRefused(r) == pc[r] \in {"createInvoice", "verifyInvoice"} /\ Throw(r)

(* fetch failed, a reset, the 5 s abort: an invoice may or may not exist.  *)
AmbiguousFailure(r) == pc[r] = "createInvoice" /\ Move(r, "markUncertain")

MarkUncertain(r) ==
  LET j == on(r) IN
  /\ pc[r] = "markUncertain"
  /\ Free(j)
  /\ intent' = [intent EXCEPT ![j] =
       IF @.state = "invoice_issuing" THEN Uncertain(@) ELSE @]
  /\ Finish(r)
  /\ UNCHANGED <<ledger, grant, outside, history>>

(* payment_hash is UNIQUE over all intents; a refusal leaves the intent in *)
(* invoice_issuing, where nothing takes it out again.                      *)
Unattached(h, j) == \A other \in Intents \ {j} : intent[other].hash # h

AttachInvoice(r) ==
  LET j == on(r)  h == seen[r].hash IN
  /\ pc[r] = "attachInvoice"
  /\ Free(j)
  /\ \/ /\ intent[j].state = "invoice_issuing"
        /\ Unattached(h, j)
        /\ intent' = [intent EXCEPT ![j] = Issued(@, h)]
        /\ pc' = [pc EXCEPT ![r] = "reply"]
        /\ answer' = [answer EXCEPT ![r] = [NoAnswer EXCEPT !.type = "quote",
                                                           !.hash = h]]
        /\ UNCHANGED <<ledger, grant, locks, outside, history, job, seen>>
     \/ /\ ~(intent[j].state = "invoice_issuing" /\ Unattached(h, j))
        /\ Throw(r)

(* Fifty looks 20 ms apart, then an error.                                 *)
WaitForInvoice(r) ==
  /\ pc[r] = "waitForInvoice"
  /\ \/ /\ intent[on(r)].state = "invoice_issued"
        /\ QuoteAnswer(r, intent[on(r)].hash)
     \/ /\ intent[on(r)].state # "invoice_issued"
        /\ Throw(r)
-----------------------------------------------------------------------------
(* GateService.prove and GateService.poll up to the settlement.            *)

Deadline(row) == invoice[row.hash].expires + Grace
HasPreimage(h) == invoice[h].paid
Proved(row) == row.hash # NoHash /\ HasPreimage(row.hash)
Receipt(j) == ledger[j].jti

AfterProof(state) == IF state = "paid" THEN "lockIntent" ELSE "markPaid"

(* settledAt is read off the clock when the proof is accepted and used in  *)
(* every later step, however long those wait.                              *)
Settle(r, row) ==
  /\ seen' = [seen EXCEPT ![r] = [Unseen EXCEPT !.state = row.state,
                                   !.hash = row.hash, !.at = now]]
  /\ Goto(r, AfterProof(row.state))
  /\ UNCHANGED <<rows, locks, outside, history>>

GetIntentToProve(r) ==
  LET row == intent[on(r)] IN
  /\ pc[r] = "getIntent"
  /\ job[r].kind = "prove"
  /\ \/ row.state = "authorized" /\ ReceiptAnswer(r, Receipt(on(r)))
     \/ /\ row.state # "authorized"
        /\ Proved(row)
        /\ Settle(r, row)
     \/ row.state # "authorized" /\ ~Proved(row) /\ Throw(r)

Pollable(row) ==
  /\ \/ row.state = "invoice_issued"
     \/ row.state = "expired" /\ now <= Deadline(row)
  /\ invoice[row.hash].url

GetIntentToPoll(r) ==
  LET row == intent[on(r)] IN
  /\ pc[r] = "getIntent"
  /\ job[r].kind = "poll"
  /\ \/ row.state = "authorized" /\ ReceiptAnswer(r, Receipt(on(r)))
     \/ row.state # "authorized" /\ ~Pollable(row) /\ Unsettled(r)
     \/ /\ row.state # "authorized"
        /\ Pollable(row)
        /\ seen' = [seen EXCEPT ![r].state = row.state, ![r].hash = row.hash]
        /\ Goto(r, "verifyInvoice")
        /\ UNCHANGED <<rows, locks, outside, history>>

(* The adapter validates the invoice again, expiry included, before it     *)
(* looks at "settled"; the provider may report a payment late.             *)
VerifyInvoice(r) ==
  LET h == seen[r].hash IN
  /\ pc[r] = "verifyInvoice"
  /\ \/ now >= invoice[h].expires /\ Error(r)
     \/ now < invoice[h].expires /\ Unsettled(r)
     \/ now < invoice[h].expires /\ HasPreimage(h) /\ Settle(r, seen[r])
-----------------------------------------------------------------------------
(* GateService.#settleAndAuthorize: markPaid, then authorizeIntent.        *)

Markable(row, at) ==
  /\ row.state \in {"invoice_issued", "expired"}
  /\ at <= Deadline(row)

MarkPaid(r) ==
  LET j == on(r) IN
  /\ pc[r] = "markPaid"
  /\ Free(j)
  /\ \/ /\ Markable(intent[j], seen[r].at)
        /\ SetIntent(j, MarkedPaid(intent[j], seen[r].at))
        /\ Goto(r, "lockIntent")
        /\ UNCHANGED <<seen, history>>
     \/ ~Markable(intent[j], seen[r].at) /\ Move(r, "recheckPaid")

(* The update found nothing: another request may have been first.          *)
RecheckPaid(r) ==
  /\ pc[r] = "recheckPaid"
  /\ IF intent[on(r)].state \in {"paid", "authorized"}
     THEN Move(r, "lockIntent") ELSE Throw(r)

(* The authorization transaction locks the intent row, then the project    *)
(* row, and holds both until it commits.                                   *)
LockIntent(r) ==
  LET j == on(r) IN
  /\ pc[r] = "lockIntent"
  /\ Free(j)
  /\ \/ ledger[j].jti # NoJti /\ ReceiptAnswer(r, Receipt(j))
     \/ /\ ledger[j].jti = NoJti
        /\ intent[j].state = "paid"
        /\ intent[j].paidAt <= Deadline(intent[j])
        /\ rowLock' = [rowLock EXCEPT ![j] = r]
        /\ Goto(r, "chooseSource")
        /\ UNCHANGED <<rows, project, outside, history, seen>>
     \/ /\ ledger[j].jti = NoJti
        /\ ~(intent[j].state = "paid" /\ intent[j].paidAt <= Deadline(intent[j]))
        /\ Throw(r)

Month(at) == at \div MonthLength
FreeUsed(month) == {j \in Intents : ledger[j].source = "monthly_free"
                                      /\ Month(ledger[j].at) = month}
FreeExhausted(month) == Cardinality(FreeUsed(month)) >= FreeLimit

Spendable(at) == {g \in Grants : grant[g].left > 0 /\ grant[g].expires > at}
EarliestSpendable(at) ==
  {g \in Spendable(at) : \A h \in Spendable(at) : grant[g].expires <= grant[h].expires}

(* Monthly free allowance first, then the grant that expires first, both   *)
(* judged at settledAt.                                                    *)
ChooseSource(r) ==
  LET at == seen[r].at
      choose(source) ==
        /\ project' = r
        /\ seen' = [seen EXCEPT ![r].source = source]
        /\ Goto(r, "authorize")
        /\ UNCHANGED <<rows, rowLock, outside, history>>
  IN
  /\ pc[r] = "chooseSource"
  /\ ProjectFree
  /\ \/ ~FreeExhausted(Month(at)) /\ choose("monthly_free")
     \/ FreeExhausted(Month(at)) /\ \E g \in EarliestSpendable(at) : choose(g)
     \/ FreeExhausted(Month(at)) /\ Spendable(at) = {} /\ Throw(r)

(* One commit: the credit, the intent and the ledger row.                  *)
AuthorizeIntent(r) ==
  LET j == on(r)  source == seen[r].source IN
  /\ pc[r] = "authorize"
  /\ \E x \in Jtis :
       /\ \A other \in Intents : ledger[other].jti # x
       /\ ledger' = [ledger EXCEPT ![j] =
            [jti |-> x, source |-> source, at |-> seen[r].at]]
       /\ answer' = [answer EXCEPT ![r] = [NoAnswer EXCEPT !.type = "receipt",
                                                          !.jti = x]]
  /\ intent' = [intent EXCEPT ![j] = Authorized(@)]
  /\ grant' = IF source \in Grants THEN [grant EXCEPT ![source].left = @ - 1]
                                   ELSE grant
  /\ rowLock' = [rowLock EXCEPT ![j] = NoRequest]
  /\ project' = NoRequest
  /\ pc' = [pc EXCEPT ![r] = "reply"]
  /\ UNCHANGED <<outside, history, job, seen>>
-----------------------------------------------------------------------------
(* The expiry worker, the operator, the payer and the clock.               *)

Due(row) == row.state = "invoice_issued"

(* expireDueIntents skips locked rows.                                     *)
ExpireIntent(j) ==
  /\ Due(intent[j])
  /\ invoice[intent[j].hash].expires <= now
  /\ Free(j)
  /\ SetIntent(j, Expired(intent[j]))
  /\ UNCHANGED <<local, history>>

(* Nothing in src calls it yet: packs are not on sale.                     *)
AddCreditGrant(g) ==
  /\ grant[g] = NoGrant
  /\ grant' = [grant EXCEPT ![g] = [left |-> PackSize,
                                    expires |-> now + GrantLife]]
  /\ UNCHANGED <<intent, ledger, locks, outside, local, history>>

Pay(h) ==
  /\ \E j \in Intents, b \in Bindings : <<h, b>> \in quoted[j]
  /\ ~invoice[h].paid
  /\ now < invoice[h].expires
  /\ invoice' = [invoice EXCEPT ![h].paid = TRUE]
  /\ UNCHANGED <<rows, locks, now, local, history>>

Tick ==
  /\ now < MaxTime
  /\ now' = now + 1
  /\ UNCHANGED <<rows, locks, invoice, local, history>>
-----------------------------------------------------------------------------
Arrive(r) ==
  \E j \in Intents : StartProve(r, j) \/ StartPoll(r, j)
                       \/ \E b \in Bindings : StartQuote(r, j, b)

Serve(r) ==
  \/ CreateIntent(r) \/ ClaimInvoice(r) \/ CreateInvoice(r)
  \/ MarkUncertain(r) \/ AttachInvoice(r) \/ WaitForInvoice(r)
  \/ GetIntentToProve(r) \/ GetIntentToPoll(r) \/ VerifyInvoice(r)
  \/ MarkPaid(r) \/ RecheckPaid(r) \/ LockIntent(r) \/ ChooseSource(r)
  \/ AuthorizeIntent(r)

Progress(r) == Serve(r) \/ Reply(r)

Environment ==
  \/ \E j \in Intents : ExpireIntent(j)
  \/ \E g \in Grants : AddCreditGrant(g)
  \/ \E h \in Hashes : Pay(h)
  \/ Tick

Next ==
  \/ \E r \in Requests :
       \/ Arrive(r) \/ Progress(r)
       \/ AmbiguousFailure(r) \/ ProviderRefused(r) \/ Fail(r)
  \/ Environment

Spec == Init /\ [][Next]_vars
-----------------------------------------------------------------------------
(* Safety.                                                                 *)

(* Every variable has its type: rows, locks, provider, locals, histories.  *)
TypeOK ==
  /\ intent \in [Intents -> IntentRow]
  /\ ledger \in [Intents -> LedgerRow]
  /\ grant \in [Grants -> GrantRow]
  /\ rowLock \in [Intents -> Requests \cup {NoRequest}]
  /\ project \in Requests \cup {NoRequest}
  /\ invoice \in [Hashes -> InvoiceRow]
  /\ now \in 0 .. MaxTime
  /\ pc \in [Requests -> Steps]
  /\ job \in [Requests -> Job]
  /\ seen \in [Requests -> Seen]
  /\ answer \in [Requests -> Response]
  /\ asked \in [Intents -> Nat]
  /\ quoted \in [Intents -> SUBSET (Hashes \X Bindings)]
  /\ told \in [Intents -> SUBSET Jtis]

IsPaid(j) == intent[j].hash # NoHash /\ invoice[intent[j].hash].paid

(* One payment unlocks one intent, even if the provider hands out the same *)
(* invoice twice.                                                          *)
OneIntentPerPayment ==
  \A j, k \in Intents : (intent[j].hash # NoHash /\ intent[j].hash = intent[k].hash)
                          => j = k

(* Concurrent authorizations of different intents never overdraw: a month  *)
(* gives at most FreeLimit free receipts, and every credit missing from a  *)
(* pack is one row of the ledger.                                          *)
NothingIsOverdrawn ==
  /\ \A month \in 0 .. MaxTime : Cardinality(FreeUsed(month)) <= FreeLimit
  /\ \A g \in Grants : grant[g] # NoGrant =>
       grant[g].left + Cardinality({j \in Intents : ledger[j].source = g}) = PackSize

(* No prepaid credit is spent while the month it is accounted to still had *)
(* a free authorization.                                                   *)
FreeFirst ==
  \A j \in Intents : ledger[j].source \in Grants =>
    Cardinality(FreeUsed(Month(ledger[j].at))) = FreeLimit

(* A caller only ever gets one receipt for an intent, however often and    *)
(* however concurrently it proves and polls.                               *)
ReceiptIsStable == \A j \in Intents : told[j] \subseteq {ledger[j].jti} \ {NoJti}

(* The provider is asked for an invoice at most once for an intent, over   *)
(* crashes, retries and uncertain outcomes: a payer cannot be shown two.   *)
ProviderAskedOnce == \A j \in Intents : asked[j] <= 1

(* Every quote of an intent shows the invoice the server watches, for the  *)
(* request the caller asked to have authorized.                            *)
QuoteIsBinding ==
  \A j \in Intents : quoted[j] \subseteq {<<intent[j].hash, intent[j].binding>>}
-----------------------------------------------------------------------------
(* The abstract machine.                                                   *)

(* GATE too takes the money first and gives one item, the receipt.         *)
Machine == INSTANCE Vending WITH
  Keys <- Intents, Resources <- Jtis, NoResource <- NoJti,
  paid <- {j \in Intents : IsPaid(j)},
  vended <- [j \in Intents |-> Receipt(j)]

VendsLikeTheMachine == Machine!Spec
-----------------------------------------------------------------------------
(* Liveness.  Requests are scheduled fairly, the caller keeps polling, and *)
(* the failures do not strike the same step every time.                    *)

Polling(j, Step(_)) ==
  \E r \in Requests : job[r].kind = "poll" /\ on(r) = j /\ Step(r)

PollingSpec ==
  /\ Spec
  /\ \A r \in Requests : WF_vars(Progress(r))
  /\ \A j \in Intents :
       /\ SF_vars(\E r \in Requests : StartPoll(r, j))
       /\ SF_vars(Polling(j, GetIntentToPoll))
       /\ SF_vars(Polling(j, VerifyInvoice))
       /\ SF_vars(Polling(j, MarkPaid))
       /\ SF_vars(Polling(j, LockIntent))
       /\ SF_vars(Polling(j, ChooseSource))
       /\ SF_vars(Polling(j, AuthorizeIntent))

(* What is marked paid becomes a receipt (docs/plans/2026-08-11-gate-      *)
(* lightning-address-beta.md:122), although marking and authorizing are two *)
(* transactions and the process may die between them.  Not for callers who *)
(* poll: a poll answers "paid, not authorized" for ever.                   *)
PaidIsAuthorized ==
  \A j \in Intents : intent[j].state = "paid" ~> intent[j].state = "authorized"
=============================================================================
