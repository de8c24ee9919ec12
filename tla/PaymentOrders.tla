--------------------------- MODULE PaymentOrders ---------------------------
(***************************************************************************)
(* The life of a payment order: PaymentService and PaymentRepository, the  *)
(* PostgreSQL rows they share, and the LNbits wallet they call.            *)
(*                                                                         *)
(* Any number of HTTP requests work on the same order at once: a quote     *)
(* (POST /api/payments/<product>), an agent's retry of that POST with a    *)
(* Lightning credential, and a poll (GET /api/payments/:orderId).  A       *)
(* request is a sequence of steps, one per database transaction, plain     *)
(* query or LNbits call.  It may die before any of them (Fail): a crash, a *)
(* lost connection and a 15 s LNbits timeout all roll back the open        *)
(* transaction and drop its row lock.                                      *)
(***************************************************************************)
EXTENDS Naturals, FiniteSets

CONSTANTS
  Keys,        \* idempotency keys; a key and the order it names are one value
  Requests,    \* HTTP request slots, reused after each response
  Purchases,   \* what can be bought: a product, a plan and a payload
  Whispers,    \* the purchases with a ciphertext in product_payload
  Protocols,   \* agent protocols: "payment" and "l402"
  Invoices,    \* payment hashes LNbits may issue (bounds its wallet)
  Resources,   \* ids of CATCH, WHISPER and PULSE rows (bounds the tables)
  NoKey, NoRequest, NoPurchase, NoInvoice, NoResource, NoProtocol

ASSUME ConstantsAssumption ==
  /\ Whispers \subseteq Purchases
  /\ NoKey \notin Keys
  /\ NoRequest \notin Requests
  /\ NoPurchase \notin Purchases
  /\ NoInvoice \notin Invoices
  /\ NoResource \notin Resources
  /\ NoProtocol \notin Protocols

VARIABLES
  order,      \* payment_orders, by idempotency key
  lock,       \* the request whose open transaction holds the order row
  challenge,  \* payment_challenges, by order_id (UNIQUE)
  resource,   \* the order each resource row was inserted for
  ledger,     \* platform_events, UNIQUE (order_id, event_type)
  invoice,    \* LNbits: external_id, payment state and BOLT11 expiry
  late,       \* orders with an abandoned createInvoice still on its way
  pc,         \* the next step of each request
  job,        \* the input of each request
  seen,       \* the order fields a request read and still relies on
  answer,     \* the response a request has built
  quoted,     \* history: the invoices quoted to the buyer of an order
  told        \* history: the resources delivered to the buyer of an order

rows == <<order, lock, challenge, resource, ledger>>
lnbits == <<invoice, late>>
local == <<pc, job, seen, answer>>
buyer == <<quoted, told>>
vars == <<rows, lnbits, local, buyer>>
-----------------------------------------------------------------------------
Kinds == {"quote", "agent", "poll"}
Statuses == {"absent", "created", "invoice_issued", "paid", "dispensed"}
Steps == {"idle", "createOrder", "ensureInvoice", "findInvoice",
          "createInvoice", "attachInvoice", "validateBolt11", "getOrder",
          "verifyInvoice", "markPaid", "dispensePaidOrder", "consume", "reply"}
Answers == {"none", "quote", "resource", "unsettled", "replayed", "expired",
            "mismatch", "invalid-preimage"}

OrderRow == [status: Statuses, purchase: Purchases \cup {NoPurchase},
             payload: BOOLEAN, invoice: Invoices \cup {NoInvoice},
             resource: Resources \cup {NoResource}]
ChallengeRow == [protocol: Protocols \cup {NoProtocol}, consumed: BOOLEAN]
InvoiceRow == [order: Keys \cup {NoKey}, pay: {"open", "claimed", "settled"},
               lapsed: BOOLEAN]
Seen == [status: Statuses, invoice: Invoices \cup {NoInvoice}]
Response == [type: Answers, resource: Resources \cup {NoResource}]
Job == [kind: Kinds, key: Keys \cup {NoKey},
        purchase: Purchases \cup {NoPurchase},
        protocol: Protocols \cup {NoProtocol}, afterDispense: BOOLEAN]

NoOrder == [status |-> "absent", purchase |-> NoPurchase, payload |-> FALSE,
            invoice |-> NoInvoice, resource |-> NoResource]
NoChallenge == [protocol |-> NoProtocol, consumed |-> FALSE]
NotIssued == [order |-> NoKey, pay |-> "open", lapsed |-> FALSE]
NoJob == [kind |-> "poll", key |-> NoKey, purchase |-> NoPurchase,
          protocol |-> NoProtocol, afterDispense |-> FALSE]
Unseen == [status |-> "absent", invoice |-> NoInvoice]
NoAnswer == [type |-> "none", resource |-> NoResource]

Init ==
  /\ order = [k \in Keys |-> NoOrder]
  /\ lock = [k \in Keys |-> NoRequest]
  /\ challenge = [k \in Keys |-> NoChallenge]
  /\ resource = [x \in Resources |-> NoKey]
  /\ ledger = [k \in Keys |-> {}]
  /\ invoice = [i \in Invoices |-> NotIssued]
  /\ late = {}
  /\ pc = [r \in Requests |-> "idle"]
  /\ job = [r \in Requests |-> NoJob]
  /\ seen = [r \in Requests |-> Unseen]
  /\ answer = [r \in Requests |-> NoAnswer]
  /\ quoted = [k \in Keys |-> {}]
  /\ told = [k \in Keys |-> {}]
-----------------------------------------------------------------------------
(* Faults that the runs must notice: mutated forms of definitions below.   *)

PayableAgain(row) == row.status # "created"
PaidUnderAnotherName(row) == [row EXCEPT !.status = "settled"]
InvoicedWithoutHash(row, i) == [row EXCEPT !.status = "invoice_issued"]
DispensedButStillPaid(row, x) == [row EXCEPT !.payload = FALSE, !.resource = x]
ReportsClaimed(i) == invoice[i].pay # "open"
ReportsUntilExpiry(i) == invoice[i].pay = "settled" /\ ~invoice[i].lapsed
VerifyAfterRead(row) == "verifyInvoice"
WithoutRowLock(k) == TRUE
-----------------------------------------------------------------------------
(* Request bookkeeping.                                                    *)

key(r) == job[r].key
Unlocked(k) == lock[k] = NoRequest

Goto(r, step) ==
  /\ pc' = [pc EXCEPT ![r] = step]
  /\ UNCHANGED <<job, seen, answer>>

Remember(r, status, i) ==
  seen' = [seen EXCEPT ![r] = [status |-> status, invoice |-> i]]

Answer(r, type, x) ==
  /\ pc' = [pc EXCEPT ![r] = "reply"]
  /\ answer' = [answer EXCEPT ![r] = [type |-> type, resource |-> x]]
  /\ UNCHANGED <<job, seen>>

(* The request is over: its locals are gone and, if it held the row lock,  *)
(* the lock is too (sql.begin rolls back on any exception).                *)
Finish(r) ==
  /\ pc' = [pc EXCEPT ![r] = "idle"]
  /\ job' = [job EXCEPT ![r] = NoJob]
  /\ seen' = [seen EXCEPT ![r] = Unseen]
  /\ answer' = [answer EXCEPT ![r] = NoAnswer]
  /\ lock' = [k \in Keys |-> IF lock[k] = r THEN NoRequest ELSE lock[k]]

(* An exception inside the request: the buyer gets an error, no data       *)
(* change of the current step survives.                                    *)
Throw(r) ==
  /\ Finish(r)
  /\ UNCHANGED <<order, challenge, resource, ledger, lnbits, buyer>>

Start(r, input, step) ==
  /\ pc[r] = "idle"
  /\ job' = [job EXCEPT ![r] = input]
  /\ pc' = [pc EXCEPT ![r] = step]
  /\ UNCHANGED <<rows, lnbits, seen, answer, buyer>>

(* POST /api/payments/<product> without a credential.                      *)
StartQuote(r, k, p) ==
  Start(r, [kind |-> "quote", key |-> k, purchase |-> p,
            protocol |-> NoProtocol, afterDispense |-> FALSE], "createOrder")

(* The same POST with a Payment or L402 credential: the route quotes       *)
(* again before it looks at the credential.                                *)
StartAgent(r, k, p, protocol) ==
  Start(r, [kind |-> "agent", key |-> k, purchase |-> p,
            protocol |-> protocol, afterDispense |-> FALSE], "createOrder")

(* GET /api/payments/:orderId.                                             *)
StartPoll(r, k) ==
  Start(r, [kind |-> "poll", key |-> k, purchase |-> NoPurchase,
            protocol |-> NoProtocol,
            afterDispense |-> order[k].status = "dispensed"], "getOrder")

(* The response reaches the buyer.                                         *)
Reply(r) ==
  /\ pc[r] = "reply"
  /\ quoted' = IF answer[r].type = "quote"
               THEN [quoted EXCEPT ![key(r)] = @ \cup {seen[r].invoice}]
               ELSE quoted
  /\ told' = IF answer[r].type = "resource"
             THEN [told EXCEPT ![key(r)] = @ \cup {answer[r].resource}]
             ELSE told
  /\ Finish(r)
  /\ UNCHANGED <<order, challenge, resource, ledger, lnbits>>

(* The request dies: nothing of its open transaction is committed, and a   *)
(* response already built is lost.                                         *)
Fail(r) == pc[r] # "idle" /\ Throw(r)
-----------------------------------------------------------------------------
(* PaymentRepository.createOrder and ensureInvoice, under the closure of   *)
(* PaymentService.quote.                                                   *)

SamePurchase(row, p) == row.purchase = p /\ row.payload = (p \in Whispers)

NewOrder(p) == [status |-> "created", purchase |-> p,
                payload |-> p \in Whispers,
                invoice |-> NoInvoice, resource |-> NoResource]
Invoiced(row, i) == [row EXCEPT !.status = "invoice_issued", !.invoice = i]
MarkedPaid(row) == [row EXCEPT !.status = "paid"]
Dispensed(row, x) == [row EXCEPT !.status = "dispensed", !.payload = FALSE,
                                 !.resource = x]

CreateOrder(r) ==
  LET k == key(r)  p == job[r].purchase IN
  /\ pc[r] = "createOrder"
  /\ Unlocked(k)
  /\ \/ /\ order[k].status = "absent"
        /\ order' = [order EXCEPT ![k] = NewOrder(p)]
        /\ Goto(r, "ensureInvoice")
        /\ UNCHANGED <<lock, challenge, resource, ledger, lnbits, buyer>>
     \/ /\ order[k].status # "absent"
        /\ SamePurchase(order[k], p)
        /\ Goto(r, "ensureInvoice")
        /\ UNCHANGED <<rows, lnbits, buyer>>
     \/ /\ order[k].status # "absent"
        /\ ~SamePurchase(order[k], p)
        /\ Throw(r)

(* select ... for update: an order that has its invoice is returned as it  *)
(* is, a created one stays locked while LNbits is called.                  *)
EnsureInvoice(r) ==
  LET k == key(r) IN
  /\ pc[r] = "ensureInvoice"
  /\ Unlocked(k)
  /\ \/ /\ order[k].invoice # NoInvoice
        /\ pc' = [pc EXCEPT ![r] = "validateBolt11"]
        /\ Remember(r, "absent", order[k].invoice)
        /\ UNCHANGED <<rows, lnbits, job, answer, buyer>>
     \/ /\ order[k].invoice = NoInvoice
        /\ order[k].status = "created"
        /\ lock' = [lock EXCEPT ![k] = r]
        /\ Goto(r, "findInvoice")
        /\ UNCHANGED <<order, challenge, resource, ledger, lnbits, buyer>>

InvoicesOf(k) == {i \in Invoices : invoice[i].order = k}

FindInvoice(r) ==
  /\ pc[r] = "findInvoice"
  /\ \/ /\ InvoicesOf(key(r)) = {}
        /\ Goto(r, "createInvoice")
        /\ UNCHANGED <<rows, lnbits, buyer>>
     \/ \E i \in InvoicesOf(key(r)) :
          /\ InvoicesOf(key(r)) = {i}
          /\ pc' = [pc EXCEPT ![r] = "attachInvoice"]
          /\ Remember(r, "absent", i)
          /\ UNCHANGED <<rows, lnbits, job, answer, buyer>>
     \/ /\ \E i, j \in InvoicesOf(key(r)) : i # j
        /\ Throw(r)

(* LNbits creates an open invoice whose external_id is the order.          *)
Issue(i, k) ==
  /\ invoice[i].order = NoKey
  /\ invoice' = [invoice EXCEPT ![i] = [order |-> k, pay |-> "open",
                                       lapsed |-> FALSE]]

CreateInvoice(r) ==
  /\ pc[r] = "createInvoice"
  /\ \E i \in Invoices :
       /\ Issue(i, key(r))
       /\ pc' = [pc EXCEPT ![r] = "attachInvoice"]
       /\ Remember(r, "absent", i)
  /\ UNCHANGED <<rows, late, job, answer, buyer>>

(* The caller gave up on createInvoice (15 s, or its connection is gone)   *)
(* and the row lock went with it, but LNbits has or will have the request. *)
AbandonCreateInvoice(r) ==
  /\ pc[r] = "createInvoice"
  /\ \/ late' = late \cup {key(r)} /\ UNCHANGED invoice
     \/ \E i \in Invoices : Issue(i, key(r)) /\ UNCHANGED late
  /\ Finish(r)
  /\ UNCHANGED <<order, challenge, resource, ledger, buyer>>

LateInvoice(k) ==
  /\ k \in late
  /\ late' = late \ {k}
  /\ \E i \in Invoices : Issue(i, k)
  /\ UNCHANGED <<rows, local, buyer>>

(* The update is guarded by status = 'created' although the row is locked. *)
AttachInvoice(r) ==
  LET k == key(r) IN
  /\ pc[r] = "attachInvoice"
  /\ IF order[k].status = "created"
     THEN /\ order' = [order EXCEPT ![k] = Invoiced(@, seen[r].invoice)]
          /\ lock' = [lock EXCEPT ![k] = NoRequest]
          /\ Goto(r, "validateBolt11")
          /\ UNCHANGED <<challenge, resource, ledger, lnbits, buyer>>
     ELSE Throw(r)

(* validateBolt11 throws on an expired invoice, whatever was paid before.  *)
ValidateBolt11(r) ==
  /\ pc[r] = "validateBolt11"
  /\ \/ invoice[seen[r].invoice].lapsed /\ Throw(r)
     \/ /\ ~invoice[seen[r].invoice].lapsed
        /\ IF job[r].kind = "agent" THEN Goto(r, "getOrder")
                                    ELSE Answer(r, "quote", NoResource)
        /\ UNCHANGED <<rows, lnbits, buyer>>
-----------------------------------------------------------------------------
(* PaymentService.fulfill and fulfillAgentPayment.                         *)

(* The payer learns the preimage when the recipient claims the payment.    *)
HasPreimage(i) == invoice[i].pay # "open"

(* getOrder is a plain select: it neither waits for the row lock nor takes *)
(* it, and status and hash go stale from here on.                          *)
AfterRead(row) == IF row.status = "dispensed" THEN "dispensePaidOrder"
                                              ELSE "verifyInvoice"

GetOrder(r) ==
  LET row == order[key(r)] IN
  /\ pc[r] = "getOrder"
  /\ job[r].kind = "poll"
  /\ \/ /\ row.invoice = NoInvoice
        /\ Answer(r, "unsettled", NoResource)
     \/ /\ row.invoice # NoInvoice
        /\ Remember(r, row.status, row.invoice)
        /\ pc' = [pc EXCEPT ![r] = AfterRead(row)]
        /\ UNCHANGED <<job, answer>>
  /\ UNCHANGED <<rows, lnbits, buyer>>

(* The agent's credential against the quote it was just given: the quote's *)
(* expiry, the order's payment hash, the preimage.                         *)
PresentCredential(r) ==
  LET row == order[key(r)]  i == seen[r].invoice IN
  /\ pc[r] = "getOrder"
  /\ job[r].kind = "agent"
  /\ \/ invoice[i].lapsed /\ Answer(r, "expired", NoResource)
     \/ /\ ~invoice[i].lapsed
        /\ row.invoice # i
        /\ Answer(r, "mismatch", NoResource)
     \/ /\ ~invoice[i].lapsed
        /\ row.invoice = i
        /\ ~HasPreimage(i)
        /\ Answer(r, "invalid-preimage", NoResource)
     \/ /\ ~invoice[i].lapsed
        /\ row.invoice = i
        /\ HasPreimage(i)
        /\ Remember(r, row.status, i)
        /\ pc' = [pc EXCEPT ![r] = "verifyInvoice"]
        /\ UNCHANGED <<job, answer>>
  /\ UNCHANGED <<rows, lnbits, buyer>>

Settled(i) == invoice[i].pay = "settled"

(* LNbits' answer about a payment hash: settled, whether or not expired.   *)
ReportsPaid(i) == Settled(i)

(* The status read before the call decides whether markPaid is needed.     *)
AfterVerify(r) ==
  IF job[r].kind = "agent"
  THEN IF seen[r].status = "invoice_issued" THEN "markPaid" ELSE "consume"
  ELSE IF seen[r].status = "paid" THEN "dispensePaidOrder" ELSE "markPaid"

VerifyInvoice(r) ==
  /\ pc[r] = "verifyInvoice"
  /\ \/ ~ReportsPaid(seen[r].invoice) /\ Answer(r, "unsettled", NoResource)
     \/ ReportsPaid(seen[r].invoice) /\ Goto(r, AfterVerify(r))
  /\ UNCHANGED <<rows, lnbits, buyer>>

(* update ... where status = 'invoice_issued'.                             *)
Payable(row) == row.status = "invoice_issued"

(* A poll that loses the race to mark the order paid answers "unsettled";  *)
(* an agent goes on to the consumption, which reads the status again.      *)
MarkPaid(r) ==
  LET k == key(r) IN
  /\ pc[r] = "markPaid"
  /\ Unlocked(k)
  /\ \/ /\ Payable(order[k])
        /\ order' = [order EXCEPT ![k] = MarkedPaid(@)]
        /\ ledger' = [ledger EXCEPT ![k] = @ \cup {"payment_paid"}]
        /\ Goto(r, IF job[r].kind = "agent" THEN "consume"
                                            ELSE "dispensePaidOrder")
     \/ /\ ~Payable(order[k])
        /\ IF job[r].kind = "agent" THEN Goto(r, "consume")
                                    ELSE Answer(r, "unsettled", NoResource)
        /\ UNCHANGED <<order, ledger>>
  /\ UNCHANGED <<lock, challenge, resource, lnbits, buyer>>

(* The common tail of both dispensing transactions: insert the resource,   *)
(* drop the payload, keep the encrypted delivery, record the event.        *)
Dispense(k, x) ==
  /\ resource[x] = NoKey
  /\ resource' = [resource EXCEPT ![x] = k]
  /\ order' = [order EXCEPT ![k] = Dispensed(@, x)]
  /\ ledger' = [ledger EXCEPT ![k] = @ \cup {"resource_dispensed"}]

(* A WHISPER row may violate whispers_reveal_window_check or its expiry    *)
(* check (module WhisperVault says when): the transaction rolls back.   *)
ProvisionFails(r) ==
  /\ order[key(r)].status = "paid"
  /\ order[key(r)].purchase \in Whispers
  /\ Throw(r)

DispensePaidOrder(r) ==
  LET k == key(r) IN
  /\ pc[r] = "dispensePaidOrder"
  /\ Unlocked(k)
  /\ \/ /\ order[k].status = "dispensed"
        /\ Answer(r, "resource", order[k].resource)
        /\ UNCHANGED <<rows, lnbits, buyer>>
     \/ /\ order[k].status = "paid"
        /\ \E x \in Resources : Dispense(k, x) /\ Answer(r, "resource", x)
        /\ UNCHANGED <<lock, challenge, lnbits, buyer>>
     \/ /\ order[k].status \notin {"paid", "dispensed"}
        /\ Answer(r, "unsettled", NoResource)
        /\ UNCHANGED <<rows, lnbits, buyer>>
     \/ ProvisionFails(r)

(* consumePaymentChallengeAndDispense.  The challenge id is a digest of    *)
(* the protocol and of the quote, so one order has one id per protocol;    *)
(* a second protocol meets UNIQUE (order_id) and throws.                   *)
Challengeable(r) ==
  LET k == key(r) IN
  /\ order[k].status = "paid"
  /\ order[k].invoice = seen[r].invoice
  /\ challenge[k].protocol \in {NoProtocol, job[r].protocol}

ConsumeChallenge(r) ==
  LET k == key(r)  protocol == job[r].protocol IN
  /\ pc[r] = "consume"
  /\ Unlocked(k)
  /\ \/ /\ \/ order[k].status \notin {"paid", "dispensed"}
           \/ order[k].invoice # seen[r].invoice
        /\ Answer(r, "unsettled", NoResource)
        /\ UNCHANGED <<rows, lnbits, buyer>>
     \/ /\ order[k].status = "dispensed"
        /\ order[k].invoice = seen[r].invoice
        /\ Answer(r, "replayed", NoResource)
        /\ UNCHANGED <<rows, lnbits, buyer>>
     \/ /\ order[k].status = "paid"
        /\ order[k].invoice = seen[r].invoice
        /\ challenge[k].protocol \notin {NoProtocol, protocol}
        /\ Throw(r)
     \/ /\ Challengeable(r)
        /\ challenge[k].consumed
        /\ Answer(r, "replayed", NoResource)
        /\ UNCHANGED <<rows, lnbits, buyer>>
     \/ /\ Challengeable(r)
        /\ ~challenge[k].consumed
        /\ invoice[seen[r].invoice].lapsed
        /\ challenge' = [challenge EXCEPT ![k] = [protocol |-> protocol,
                                                  consumed |-> FALSE]]
        /\ Answer(r, "expired", NoResource)
        /\ UNCHANGED <<order, lock, resource, ledger, lnbits, buyer>>
     \/ /\ Challengeable(r)
        /\ ~challenge[k].consumed
        /\ ~invoice[seen[r].invoice].lapsed
        /\ challenge' = [challenge EXCEPT ![k] = [protocol |-> protocol,
                                                  consumed |-> TRUE]]
        /\ \E x \in Resources : Dispense(k, x) /\ Answer(r, "resource", x)
        /\ UNCHANGED <<lock, lnbits, buyer>>
     \/ /\ Challengeable(r)
        /\ ~challenge[k].consumed
        /\ ~invoice[seen[r].invoice].lapsed
        /\ ProvisionFails(r)
-----------------------------------------------------------------------------
(* The Lightning network: a buyer pays an invoice it was quoted and that   *)
(* has not expired; LNbits reports the payment some time later.            *)

Claimed(row) == [row EXCEPT !.pay = "claimed"]
Reported(row) == [row EXCEPT !.pay = "settled"]
Expired(row) == [row EXCEPT !.lapsed = TRUE]

Pay(i) ==
  /\ \E k \in Keys : i \in quoted[k]
  /\ invoice[i].pay = "open"
  /\ ~invoice[i].lapsed
  /\ invoice' = [invoice EXCEPT ![i] = Claimed(@)]
  /\ UNCHANGED <<rows, late, local, buyer>>

ReportPayment(i) ==
  /\ invoice[i].pay = "claimed"
  /\ invoice' = [invoice EXCEPT ![i] = Reported(@)]
  /\ UNCHANGED <<rows, late, local, buyer>>

Lapse(i) ==
  /\ invoice[i].order # NoKey
  /\ ~invoice[i].lapsed
  /\ invoice' = [invoice EXCEPT ![i] = Expired(@)]
  /\ UNCHANGED <<rows, late, local, buyer>>
-----------------------------------------------------------------------------
Arrive(r) ==
  \E k \in Keys :
    \/ StartPoll(r, k)
    \/ \E p \in Purchases :
         \/ StartQuote(r, k, p)
         \/ \E protocol \in Protocols : StartAgent(r, k, p, protocol)

Progress(r) ==
  \/ CreateOrder(r) \/ EnsureInvoice(r) \/ FindInvoice(r) \/ CreateInvoice(r)
  \/ AttachInvoice(r) \/ ValidateBolt11(r) \/ GetOrder(r)
  \/ PresentCredential(r) \/ VerifyInvoice(r) \/ MarkPaid(r)
  \/ DispensePaidOrder(r) \/ ConsumeChallenge(r) \/ Reply(r)

Network ==
  \/ \E i \in Invoices : Pay(i) \/ ReportPayment(i) \/ Lapse(i)
  \/ \E k \in Keys : LateInvoice(k)

Next ==
  \/ \E r \in Requests :
       Arrive(r) \/ Progress(r) \/ AbandonCreateInvoice(r) \/ Fail(r)
  \/ Network

Spec == Init /\ [][Next]_vars
-----------------------------------------------------------------------------
(* Safety.                                                                 *)

(* Every variable has its type: rows, wallet, request locals, histories.   *)
RowsOK ==
  /\ order \in [Keys -> OrderRow]
  /\ lock \in [Keys -> Requests \cup {NoRequest}]
  /\ challenge \in [Keys -> ChallengeRow]
  /\ resource \in [Resources -> Keys \cup {NoKey}]
  /\ ledger \in [Keys -> SUBSET {"payment_paid", "resource_dispensed"}]

LnbitsOK == invoice \in [Invoices -> InvoiceRow] /\ late \subseteq Keys

LocalOK ==
  /\ pc \in [Requests -> Steps]
  /\ job \in [Requests -> Job]
  /\ seen \in [Requests -> Seen]
  /\ answer \in [Requests -> Response]
  /\ \A r \in Requests : pc[r] # "idle" => key(r) \in Keys

BuyerOK ==
  /\ quoted \in [Keys -> SUBSET (Invoices \cup {NoInvoice})]
  /\ told \in [Keys -> SUBSET (Resources \cup {NoResource})]

TypeOK == RowsOK /\ LnbitsOK /\ LocalOK /\ BuyerOK

(* No resource is given away: an order is paid or dispensed only if LNbits *)
(* holds the settled payment of the very invoice attached to that order.   *)
SettledBeforePaid ==
  \A k \in Keys : order[k].status \in {"paid", "dispensed"} =>
    \E i \in Invoices :
      order[k].invoice = i /\ invoice[i].order = k /\ Settled(i)

(* No payment buys two resources: the rows inserted for an order are       *)
(* exactly the one its dispensed row points at, whichever mix of polls and *)
(* agent retries raced to dispense it.                                     *)
OneResourcePerOrder ==
  \A k \in Keys : {x \in Resources : resource[x] = k}
                     = {order[k].resource} \ {NoResource}

(* Every response that delivers, first or repeated, delivers the resource  *)
(* of the order: the buyer never holds capabilities that differ.           *)
DeliveryIsStable ==
  \A k \in Keys : told[k] \subseteq {order[k].resource} \ {NoResource}

(* Every invoice the buyer was ever asked to pay is the one attached to    *)
(* the order, so no payment lands on an invoice the server does not watch: *)
(* timeouts may leave stray invoices at LNbits, but never in a quote.      *)
QuotedInvoiceIsAttached ==
  \A k \in Keys : quoted[k] \subseteq {order[k].invoice} \ {NoInvoice}

(* A poll that starts after the order was dispensed delivers: it cannot be *)
(* answered "unsettled" however its steps interleave with others.          *)
PollAfterDispenseDelivers ==
  \A r \in Requests : job[r].afterDispense => answer[r].type # "unsettled"

(* An agent's challenge is consumed only together with the provisioning it *)
(* paid for, and the platform ledger agrees with the order row.            *)
LedgersAgree ==
  \A k \in Keys :
    /\ challenge[k].consumed => order[k].status = "dispensed"
    /\ "resource_dispensed" \in ledger[k] <=> order[k].status = "dispensed"
    /\ "payment_paid" \in ledger[k] <=> order[k].status \in {"paid", "dispensed"}

(* The row lock works across the LNbits call: at most one request at a     *)
(* time is looking for, creating or attaching the invoice of an order.     *)
Calling(r) == pc[r] \in {"findInvoice", "createInvoice", "attachInvoice"}
OneCallerPerOrder ==
  \A r, s \in Requests :
    (Calling(r) /\ Calling(s) /\ key(r) = key(s)) => r = s
-----------------------------------------------------------------------------
(* The inductive invariant behind the safety properties.                   *)

(* A row's status says which of its columns are set, its invoice was       *)
(* created for it, and the resource table points back at it.               *)
RowInv(k) ==
  /\ order[k].status \in {"absent", "created"} => order[k].invoice = NoInvoice
  /\ order[k].status \in {"invoice_issued", "paid", "dispensed"} =>
       order[k].invoice \in Invoices /\ invoice[order[k].invoice].order = k
  /\ order[k].status \in {"paid", "dispensed"} => Settled(order[k].invoice)
  /\ order[k].status = "dispensed" <=> order[k].resource # NoResource
  /\ \A x \in Resources : resource[x] = k <=> order[k].resource = x
  /\ quoted[k] \subseteq {order[k].invoice} \ {NoInvoice}
  /\ told[k] \subseteq {order[k].resource} \ {NoResource}

(* What a request may rely on although it read it some steps ago.          *)
SawAttached(r) ==
  \/ pc[r] \in {"validateBolt11", "verifyInvoice", "markPaid",
               "dispensePaidOrder", "consume"}
  \/ pc[r] = "getOrder" /\ job[r].kind = "agent"
  \/ answer[r].type = "quote"

RequestInv(r) ==
  /\ answer[r].type # "none" => pc[r] = "reply"
  /\ pc[r] = "attachInvoice" =>
       seen[r].invoice \in Invoices /\ invoice[seen[r].invoice].order = key(r)
  /\ SawAttached(r) =>
       seen[r].invoice \in Invoices /\ seen[r].invoice = order[key(r)].invoice
  /\ pc[r] = "markPaid" => Settled(seen[r].invoice)
  /\ answer[r].type = "resource" =>
       answer[r].resource \in Resources /\ answer[r].resource = order[key(r)].resource
  /\ Calling(r) => lock[key(r)] = r

IInv == (\A k \in Keys : RowInv(k)) /\ (\A r \in Requests : RequestInv(r))
-----------------------------------------------------------------------------
(* The abstract machine this code implements.                              *)

(* Orders with requests, locks, crashes and LNbits vend like a machine     *)
(* that takes the money first and gives one item: a purchase is paid when  *)
(* LNbits holds the settlement of its attached invoice.                    *)
PaidKeys == {k \in Keys : \E i \in Invoices : order[k].invoice = i /\ Settled(i)}

Machine == INSTANCE Vending WITH
  paid <- PaidKeys, vended <- [k \in Keys |-> order[k].resource]

VendsLikeTheMachine == Machine!Spec
-----------------------------------------------------------------------------
(* Liveness.  Requests are scheduled fairly, the page of each buyer keeps  *)
(* polling, and the failures that may strike a step do not strike it in    *)
(* every poll of one order: strong fairness of each step, none for the     *)
(* failures themselves.  A call of createInvoice ends within its timeout.  *)

Poll(r, k, step) == job[r].kind = "poll" /\ job[r].key = k /\ step

Fairness ==
  /\ \A k \in Keys :
       /\ SF_vars(\E r \in Requests : StartPoll(r, k))
       /\ SF_vars(\E r \in Requests : Poll(r, k, GetOrder(r)))
       /\ SF_vars(\E r \in Requests : Poll(r, k, VerifyInvoice(r)))
       /\ SF_vars(\E r \in Requests : Poll(r, k, MarkPaid(r)))
       /\ SF_vars(\E r \in Requests : Poll(r, k, DispensePaidOrder(r)))
  /\ \A r \in Requests : WF_vars(Progress(r) \/ AbandonCreateInvoice(r))
  /\ \A i \in Invoices : WF_vars(ReportPayment(i))

FairSpec == Spec /\ Fairness

(* A buyer who paid for a CATCH or a PULSE gets it: once the attached      *)
(* invoice is paid, polling ends with the order dispensed, through crashes, *)
(* lost responses and expiry of the invoice.  The payment of a WHISPER is  *)
(* recorded as well, but its row may be refused at every poll, and then    *)
(* the order stays paid (see ImmediateIsDispensable of WhisperVault).      *)
PaidIsDispensed ==
  \A k \in Keys :
    (\E i \in Invoices : order[k].invoice = i /\ HasPreimage(i))
      ~> \/ order[k].status = "dispensed"
         \/ order[k].status = "paid" /\ order[k].purchase \in Whispers
=============================================================================
