-------------------------- MODULE GateIntentsProofs --------------------------
(***************************************************************************)
(* GATE, for every number of intents, requests, invoices and grants, every *)
(* allowance and every clock: one payment unlocks one intent, an intent    *)
(* has one quote and one receipt, nothing is overdrawn, and GATE vends     *)
(* like the abstract machine.  Then GATE with its clients, for every life  *)
(* of a receipt: what the merchant serves was paid for, by an invoice      *)
(* quoted for that very request, and in its time.                          *)
(***************************************************************************)
EXTENDS GateClient, FiniteSetTheorems, TLAPS

SpentOf(g) == {j \in Intents : ledger[j].source = g}
Attached == {"invoice_issued", "paid", "authorized", "expired"}
QuoteSteps == {"claimInvoice", "createInvoice", "markUncertain", "attachInvoice",
               "waitForInvoice"}

(* What an intent's state tells of its invoice, of the ledger and of what  *)
(* callers were told.                                                      *)
RowInv(j) ==
  /\ intent[j].hash # NoHash <=> intent[j].state \in Attached
  /\ intent[j].state # "absent" => intent[j].binding \in Bindings
  /\ intent[j].hash # NoHash => invoice[intent[j].hash].issued
  /\ intent[j].state \in {"paid", "authorized"} => IsPaid(j)
  /\ intent[j].state = "authorized" <=> ledger[j].jti # NoJti
  /\ ledger[j].jti = NoJti => ledger[j].source = "none"
  /\ asked[j] <= 1
  /\ intent[j].state \in {"absent", "pending_invoice"} => asked[j] = 0
  /\ quoted[j] \subseteq {<<intent[j].hash, intent[j].binding>>}
  /\ quoted[j] # {} => intent[j].hash # NoHash
  /\ told[j] \subseteq {ledger[j].jti} \ {NoJti}

(* A pack is charged only with authorizations dated before it expires.     *)
ChargedInTime ==
  \A j \in Intents : ledger[j].source \in Grants =>
    ledger[j].at < grant[ledger[j].source].expires

(* The months and the packs; a month is any number here.                   *)
CreditInv ==
  /\ \A m : IsFiniteSet(FreeUsed(m)) /\ Cardinality(FreeUsed(m)) <= FreeLimit
  /\ \A g \in Grants :
       /\ IsFiniteSet(SpentOf(g))
       /\ grant[g].expires = 0 => grant[g] = NoGrant /\ SpentOf(g) = {}
       /\ grant[g].expires # 0 => grant[g].left + Cardinality(SpentOf(g)) = PackSize
  /\ FreeFirst
  /\ ChargedInTime

InvoiceInv == \A h \in Hashes : invoice[h].paid => invoice[h].issued

(* What a request relies on although it read it steps ago.                 *)
SourceInv(r) ==
  LET source == seen[r].source  month == Month(seen[r].at) IN
  \/ /\ source = "monthly_free"
     /\ Cardinality(FreeUsed(month)) < FreeLimit
  \/ /\ source \in Grants
     /\ grant[source].left > 0 /\ seen[r].at < grant[source].expires
     /\ FreeExhausted(month)

AnswerInv(r) ==
  LET j == on(r) IN
  /\ answer[r].type = "quote" =>
       /\ answer[r].hash # NoHash /\ answer[r].hash = intent[j].hash
       /\ intent[j].state # "absent" /\ intent[j].binding = job[r].binding
  /\ answer[r].type = "receipt" =>
       answer[r].jti # NoJti /\ answer[r].jti = ledger[j].jti

RequestInv(r) ==
  LET j == on(r) IN
  /\ pc[r] # "idle" => j \in Intents
  /\ pc[r] = "createIntent" => job[r].binding \in Bindings
  /\ pc[r] \in QuoteSteps =>
       intent[j].state # "absent" /\ intent[j].binding = job[r].binding
  /\ pc[r] = "attachInvoice" => seen[r].hash \in Hashes /\ invoice[seen[r].hash].issued
  /\ pc[r] = "verifyInvoice" => seen[r].hash # NoHash /\ seen[r].hash = intent[j].hash
  /\ pc[r] = "markPaid" => IsPaid(j)
  /\ pc[r] \in {"chooseSource", "authorize"} =>
       rowLock[j] = r /\ intent[j].state = "paid"
  /\ pc[r] = "authorize" => project = r /\ SourceInv(r)
  /\ pc[r] = "reply" => AnswerInv(r)

IInv ==
  /\ TypeOK
  /\ OneIntentPerPayment
  /\ \A j \in Intents : RowInv(j)
  /\ CreditInv
  /\ InvoiceInv
  /\ \A r \in Requests : RequestInv(r)

LEMMA Assumptions ==
  /\ FreeLimit \in Nat /\ PackSize \in Nat /\ GrantLife \in Nat /\ Lifetime \in Nat
  /\ Grace \in Nat /\ MaxTime \in Nat
  /\ GrantLife > 0 /\ PackSize > 0
  /\ NoRequest \notin Requests /\ NoBinding \notin Bindings
  /\ NoHash \notin Hashes /\ NoJti \notin Jtis /\ NoIntent \notin Intents
  /\ "monthly_free" \notin Grants /\ "none" \notin Grants
BY GateAssumption

LEMMA Names ==
  /\ {"absent", "pending_invoice", "invoice_issuing", "invoice_issued",
      "invoice_uncertain", "paid", "authorized", "expired"} \subseteq States
  /\ {"idle", "createIntent", "claimInvoice", "createInvoice", "markUncertain",
      "attachInvoice", "waitForInvoice", "getIntent", "verifyInvoice", "markPaid",
      "recheckPaid", "lockIntent", "chooseSource", "authorize", "reply"} \subseteq Steps
  /\ Grants \subseteq Sources /\ "monthly_free" \in Sources /\ "none" \in Sources
  /\ 0 \in Times /\ \A t \in 0 .. MaxTime : t \in Times
BY Assumptions DEF States, Steps, Sources, Times

LEMMA NullRows ==
  /\ NoIntentRow \in IntentRow /\ NotAuthorized \in LedgerRow /\ NoGrant \in GrantRow
  /\ NotIssued \in InvoiceRow /\ NoJob \in Job /\ Unseen \in Seen /\ NoAnswer \in Response
<1> USE Names, Assumptions
<1>1. NoIntentRow \in IntentRow
  BY DEF NoIntentRow, IntentRow
<1>2. NotAuthorized \in LedgerRow
  BY DEF NotAuthorized, LedgerRow
<1>3. NoGrant \in GrantRow
  BY DEF NoGrant, GrantRow
<1>4. NotIssued \in InvoiceRow
  BY DEF NotIssued, InvoiceRow
<1>5. NoJob \in Job
  BY DEF NoJob, Job
<1>6. Unseen \in Seen
  BY DEF Unseen, Seen
<1>7. NoAnswer \in Response
  BY DEF NoAnswer, Response
<1> QED
  BY <1>1, <1>2, <1>3, <1>4, <1>5, <1>6, <1>7

LEMMA InitIInv == Init => IInv
<1> SUFFICES ASSUME Init PROVE IInv
  OBVIOUS
<1>1. TypeOK
  <2>1. now \in 0 .. MaxTime
    BY Assumptions DEF Init
  <2> QED
    BY <2>1, Names, NullRows DEF Init, TypeOK
<1>2. /\ \A j \in Intents : /\ intent[j].state = "absent" /\ intent[j].hash = NoHash
                            /\ ledger[j].jti = NoJti /\ ledger[j].source = "none"
                            /\ asked[j] = 0 /\ quoted[j] = {} /\ told[j] = {}
      /\ \A g \in Grants : grant[g] = NoGrant /\ grant[g].expires = 0
      /\ \A h \in Hashes : ~invoice[h].paid
      /\ \A r \in Requests : pc[r] = "idle"
  BY DEF Init, NoIntentRow, NotAuthorized, NoGrant, NotIssued
<1>3. \A j \in Intents : RowInv(j)
  BY <1>2 DEF RowInv, Attached
<1>4. CreditInv
  <2>1. \A m : FreeUsed(m) = {}
    BY <1>2 DEF FreeUsed
  <2>2. \A g \in Grants : SpentOf(g) = {}
    BY <1>2, Assumptions DEF SpentOf
  <2>3. FreeFirst /\ ChargedInTime
    BY <1>2, Assumptions DEF FreeFirst, ChargedInTime
  <2>4. IsFiniteSet({}) /\ Cardinality({}) = 0 /\ 0 <= FreeLimit
    BY FS_EmptySet, Assumptions
  <2>5. \A m : IsFiniteSet(FreeUsed(m)) /\ Cardinality(FreeUsed(m)) <= FreeLimit
    BY <2>1, <2>4
  <2>6. \A g \in Grants : IsFiniteSet(SpentOf(g))
    BY <2>2, <2>4
  <2> QED
    BY <1>2, <2>2, <2>3, <2>5, <2>6 DEF CreditInv
<1>5. OneIntentPerPayment /\ InvoiceInv
  BY <1>2 DEF OneIntentPerPayment, InvoiceInv
<1>6. \A r \in Requests : RequestInv(r)
  BY <1>2 DEF RequestInv, QuoteSteps
<1> QED
  BY <1>1, <1>3, <1>4, <1>5, <1>6 DEF IInv
-----------------------------------------------------------------------------
(* What a step of r, or of the environment (NoRequest), does to the other  *)
(* requests, to the locks they hold and to the rows they rely on.          *)
Mine(r) ==
  /\ pc' \in [Requests -> Steps] /\ job' \in [Requests -> Job]
  /\ seen' \in [Requests -> Seen] /\ answer' \in [Requests -> Response]
  /\ \A q \in Requests \ {r} : /\ pc'[q] = pc[q] /\ job'[q] = job[q]
                               /\ seen'[q] = seen[q] /\ answer'[q] = answer[q]
LocksKeep(r) ==
  /\ rowLock' \in [Intents -> Requests \cup {NoRequest}]
  /\ project' \in Requests \cup {NoRequest}
  /\ \A j \in Intents : rowLock[j] \in Requests \ {r} => rowLock'[j] = rowLock[j]
  /\ project \in Requests \ {r} => project' = project
RowsKeep(r) ==
  \A j \in Intents :
    /\ rowLock[j] \in Requests \ {r} => intent'[j] = intent[j]
    /\ intent[j].state # "absent" => /\ intent'[j].state # "absent"
                                     /\ intent'[j].binding = intent[j].binding
    /\ intent[j].hash # NoHash => intent'[j].hash = intent[j].hash
    /\ ledger[j].jti # NoJti => ledger'[j] = ledger[j]
InvoicesKeep ==
  \A h \in Hashes : /\ invoice[h].issued => invoice'[h].issued
                    /\ invoice[h].paid => invoice'[h].paid
CreditKeeps(r) ==
  project \in Requests \ {r} =>
    /\ UNCHANGED ledger
    /\ \A g \in Grants : grant[g].left > 0 => grant'[g] = grant[g]

LEMMA PaidKeeps ==
  ASSUME TypeOK, NEW r, RowsKeep(r), InvoicesKeep, NEW j \in Intents, IsPaid(j)
  PROVE  IsPaid(j)'
<1>1. intent[j].hash \in Hashes /\ intent'[j].hash = intent[j].hash
  BY DEF TypeOK, IntentRow, IsPaid, RowsKeep
<1> QED
  BY <1>1 DEF IsPaid, InvoicesKeep

LEMMA UsageKeeps ==
  ASSUME UNCHANGED ledger
  PROVE  /\ \A m : FreeUsed(m)' = FreeUsed(m)
         /\ \A g : SpentOf(g)' = SpentOf(g)
BY DEF FreeUsed, SpentOf

LEMMA CreditStays ==
  ASSUME CreditInv, UNCHANGED <<ledger, grant>>
  PROVE  CreditInv'
BY DEF CreditInv, FreeUsed, SpentOf, FreeFirst, ChargedInTime, Month

LEMMA OthersKeep ==
  ASSUME IInv, NEW r, Mine(r), LocksKeep(r), RowsKeep(r), InvoicesKeep, CreditKeeps(r),
         NEW q \in Requests, q # r
  PROVE  RequestInv(q)'
<1> DEFINE j == on(q)
<1>1. /\ RequestInv(q) /\ pc'[q] = pc[q] /\ job'[q] = job[q] /\ seen'[q] = seen[q]
      /\ answer'[q] = answer[q] /\ on(q)' = j
      /\ pc[q] # "idle" => j \in Intents
  BY DEF IInv, Mine, on, RequestInv
<1>2. pc[q] \in QuoteSteps =>
        (intent'[j].state # "absent" /\ intent'[j].binding = job'[q].binding)
  BY <1>1 DEF RequestInv, RowsKeep, QuoteSteps
<1>3. pc[q] = "attachInvoice" =>
        (seen'[q].hash \in Hashes /\ invoice'[seen'[q].hash].issued)
  BY <1>1 DEF RequestInv, InvoicesKeep
<1>4. pc[q] = "verifyInvoice" =>
        (seen'[q].hash # NoHash /\ seen'[q].hash = intent'[j].hash)
  BY <1>1 DEF RequestInv, RowsKeep
<1>5. ASSUME pc[q] = "markPaid" PROVE IsPaid(on(q))'
  <2>1. j \in Intents /\ IsPaid(j)
    BY <1>1, <1>5 DEF RequestInv
  <2> PICK k \in Intents : k = j
    BY <2>1
  <2>2. IsPaid(k)'
    BY <2>1, PaidKeeps DEF IInv
  <2> QED
    BY <1>1, <2>2
<1>6. pc[q] \in {"chooseSource", "authorize"} =>
        (rowLock'[j] = q /\ intent'[j].state = "paid")
  BY <1>1 DEF RequestInv, LocksKeep, RowsKeep
<1>7. ASSUME pc[q] = "authorize" PROVE project' = q /\ SourceInv(q)'
  <2>1. project = q /\ SourceInv(q)
    BY <1>1, <1>7 DEF RequestInv
  <2>2. /\ project' = q /\ UNCHANGED ledger
        /\ \A g \in Grants : grant[g].left > 0 => grant'[g] = grant[g]
    BY <2>1 DEF LocksKeep, CreditKeeps
  <2>3. FreeUsed(Month(seen[q].at))' = FreeUsed(Month(seen[q].at))
    BY <1>1, <2>2 DEF FreeUsed, Month
  <2> QED
    BY <1>1, <2>1, <2>2, <2>3 DEF SourceInv, FreeExhausted
<1>8. ASSUME pc[q] = "reply" PROVE AnswerInv(q)'
  BY <1>1, <1>8 DEF RequestInv, AnswerInv, RowsKeep
<1> QED
  BY <1>1, <1>2, <1>3, <1>4, <1>5, <1>6, <1>7, <1>8 DEF RequestInv

(* A step that leaves the rows, the provider and the histories alone.      *)
LEMMA QuietStep ==
  ASSUME IInv, NEW r, Mine(r), LocksKeep(r), UNCHANGED <<rows, outside, history>>,
         r \in Requests => RequestInv(r)'
  PROVE  IInv'
<1>1. UNCHANGED <<intent, ledger, grant, invoice, now, asked, quoted, told>>
  BY DEF rows, outside, history
<1>2. TypeOK'
  BY <1>1 DEF IInv, TypeOK, Mine, LocksKeep
<1>3. \A j \in Intents : RowInv(j)'
  BY <1>1 DEF IInv, RowInv, IsPaid
<1>4. CreditInv'
  BY <1>1, CreditStays DEF IInv
<1>5. OneIntentPerPayment' /\ InvoiceInv'
  BY <1>1 DEF IInv, OneIntentPerPayment, InvoiceInv
<1>6. RowsKeep(r) /\ InvoicesKeep /\ CreditKeeps(r)
  BY <1>1 DEF RowsKeep, InvoicesKeep, CreditKeeps
<1>7. \A q \in Requests : RequestInv(q)'
  BY <1>6, OthersKeep
<1> QED
  BY <1>2, <1>3, <1>4, <1>5, <1>7 DEF IInv

(* A step that writes one intent, which nobody has locked.                 *)
LEMMA IntentStep ==
  ASSUME IInv, NEW r, Mine(r), LocksKeep(r),
         NEW j \in Intents, NEW row \in IntentRow, Free(j),
         intent' = [intent EXCEPT ![j] = row],
         UNCHANGED <<ledger, grant, outside, quoted, told>>,
         asked' \in [Intents -> Nat],
         \A k \in Intents \ {j} : asked'[k] = asked[k],
         intent[j].state # "absent" => row.state # "absent" /\ row.binding = intent[j].binding,
         intent[j].hash # NoHash => row.hash = intent[j].hash,
         row.hash # NoHash => Unattached(row.hash, j),
         RowInv(j)',
         r \in Requests => RequestInv(r)'
  PROVE  IInv'
<1>1. UNCHANGED <<invoice, now>>
  BY DEF outside
<1>2. /\ intent \in [Intents -> IntentRow] /\ intent'[j] = row
      /\ \A k \in Intents \ {j} : intent'[k] = intent[k]
      /\ intent' \in [Intents -> IntentRow]
  BY DEF IInv, TypeOK
<1>3. TypeOK'
  BY <1>1, <1>2 DEF IInv, TypeOK, Mine, LocksKeep
<1>4. ASSUME NEW k \in Intents \ {j} PROVE RowInv(k)'
  BY <1>1, <1>2 DEF IInv, RowInv, IsPaid
<1>5. CreditInv'
  BY CreditStays DEF IInv
<1>6. OneIntentPerPayment'
  BY <1>2 DEF IInv, OneIntentPerPayment, Unattached
<1>7. InvoiceInv'
  BY <1>1 DEF IInv, InvoiceInv
<1>8. RowsKeep(r)
  BY <1>2, Assumptions DEF RowsKeep, Free
<1>9. InvoicesKeep /\ CreditKeeps(r)
  BY <1>1 DEF InvoicesKeep, CreditKeeps
<1>10. \A q \in Requests : RequestInv(q)'
  BY <1>8, <1>9, OthersKeep
<1> QED
  BY <1>3, <1>4, <1>5, <1>6, <1>7, <1>10 DEF IInv
-----------------------------------------------------------------------------
(* The bookkeeping of a request.                                           *)
LEMMA GotoIsMine ==
  ASSUME TypeOK, NEW r \in Requests, NEW step \in Steps, Goto(r, step),
         NEW s \in Seen, seen' = [seen EXCEPT ![r] = s]
  PROVE  /\ Mine(r) /\ pc'[r] = step /\ job'[r] = job[r] /\ seen'[r] = s
         /\ on(r)' = on(r)
BY DEF TypeOK, Goto, Mine, on

LEMMA MoveIsMine ==
  ASSUME TypeOK, NEW r \in Requests, NEW step \in Steps, Goto(r, step), UNCHANGED seen
  PROVE  /\ Mine(r) /\ pc'[r] = step /\ job'[r] = job[r] /\ seen'[r] = seen[r]
         /\ on(r)' = on(r)
BY DEF TypeOK, Goto, Mine, on

LEMMA AnswerIsMine ==
  ASSUME TypeOK, NEW r \in Requests, NEW a \in Response,
         pc' = [pc EXCEPT ![r] = "reply"], answer' = [answer EXCEPT ![r] = a],
         UNCHANGED <<job, seen>>
  PROVE  /\ Mine(r) /\ pc'[r] = "reply" /\ job'[r] = job[r] /\ answer'[r] = a
         /\ on(r)' = on(r)
<1>1. "reply" \in Steps
  BY Names
<1> QED
  BY <1>1 DEF TypeOK, Mine, on

LEMMA FinishIsMine ==
  ASSUME TypeOK, NEW r \in Requests, Finish(r)
  PROVE  Mine(r) /\ LocksKeep(r) /\ pc'[r] = "idle" /\ RequestInv(r)'
<1>1. "idle" \in Steps
  BY Names
<1>2. Mine(r) /\ pc'[r] = "idle"
  BY <1>1, NullRows DEF TypeOK, Finish, Mine
<1>3. LocksKeep(r)
  BY Assumptions DEF TypeOK, Finish, LocksKeep
<1>4. RequestInv(r)'
  BY <1>2 DEF RequestInv, QuoteSteps
<1> QED
  BY <1>2, <1>3, <1>4

LEMMA LocksStay ==
  ASSUME TypeOK, NEW r, UNCHANGED locks
  PROVE  LocksKeep(r)
BY DEF TypeOK, locks, LocksKeep

LEMMA ThrowKeeps ==
  ASSUME IInv, NEW r \in Requests, Throw(r)
  PROVE  IInv'
BY FinishIsMine, QuietStep DEF Throw, IInv

(* A step to which no fact but those of a quote belongs.                   *)
PlainSteps == {"claimInvoice", "createInvoice", "markUncertain",
               "waitForInvoice", "getIntent", "recheckPaid", "lockIntent"}

LEMMA MoveKeeps ==
  ASSUME IInv, NEW r \in Requests, NEW step \in PlainSteps, Move(r, step),
         on(r) \in Intents,
         step \in QuoteSteps => /\ intent[on(r)].state # "absent"
                                /\ intent[on(r)].binding = job[r].binding
  PROVE  IInv'
<1>1. step \in Steps
  BY Names DEF PlainSteps
<1>2. /\ Mine(r) /\ pc'[r] = step /\ job'[r] = job[r] /\ on(r)' = on(r)
      /\ LocksKeep(r) /\ UNCHANGED <<rows, outside, history, intent>>
  BY <1>1, MoveIsMine, LocksStay DEF Move, IInv, rows
<1>3. RequestInv(r)'
  BY <1>2 DEF RequestInv, PlainSteps
<1> QED
  BY <1>2, <1>3, QuietStep

LEMMA AnswerKeeps ==
  ASSUME IInv, NEW r \in Requests, NEW a \in Response, Answer(r, a),
         NEW j \in Intents, j = on(r),
         a.type = "quote" => /\ a.hash # NoHash /\ a.hash = intent[j].hash
                             /\ intent[j].state # "absent"
                             /\ intent[j].binding = job[r].binding,
         a.type = "receipt" => a.jti # NoJti /\ a.jti = ledger[j].jti
  PROVE  IInv'
<1>1. /\ Mine(r) /\ pc'[r] = "reply" /\ job'[r] = job[r] /\ answer'[r] = a
      /\ on(r)' = on(r)
      /\ LocksKeep(r) /\ UNCHANGED <<rows, outside, history, intent, ledger>>
  BY AnswerIsMine, LocksStay DEF Answer, IInv, rows
<1>2. AnswerInv(r)'
  BY <1>1 DEF AnswerInv
<1>3. RequestInv(r)'
  BY <1>1, <1>2 DEF RequestInv, QuoteSteps
<1> QED
  BY <1>1, <1>3, QuietStep

LEMMA AnswerRows ==
  /\ \A h \in Hashes : LET a == [NoAnswer EXCEPT !.type = "quote", !.hash = h] IN
       a \in Response /\ a.type = "quote" /\ a.hash = h
  /\ \A x \in Jtis : LET a == [NoAnswer EXCEPT !.type = "receipt", !.jti = x] IN
       a \in Response /\ a.type = "receipt" /\ a.jti = x
  /\ LET a == [NoAnswer EXCEPT !.type = "unsettled"] IN
       a \in Response /\ a.type = "unsettled"
  /\ LET a == [NoAnswer EXCEPT !.type = "error"] IN
       a \in Response /\ a.type = "error"
BY DEF NoAnswer, Response
-----------------------------------------------------------------------------
(* GateService.quote.                                                      *)
LEMMA StartKeeps ==
  ASSUME IInv, NEW r \in Requests, NEW kind \in {"quote", "prove", "poll"},
         NEW j \in Intents, NEW b \in Bindings \cup {NoBinding},
         NEW step \in {"createIntent", "getIntent"}, Start(r, kind, j, b, step),
         step = "createIntent" => b \in Bindings
  PROVE  IInv'
<1> DEFINE new == [kind |-> kind, intent |-> j, binding |-> b]
<1>1. new \in Job /\ new.intent = j /\ new.binding = b
  BY DEF Job
<1>2. /\ pc' = [pc EXCEPT ![r] = step] /\ job' = [job EXCEPT ![r] = new]
      /\ UNCHANGED <<rows, locks, outside, history, seen, answer>>
  BY DEF Start
<1> HIDE DEF new
<1>3. step \in Steps
  BY Names
<1>4. Mine(r) /\ pc'[r] = step /\ on(r)' = j /\ job'[r].binding = b
  BY <1>1, <1>2, <1>3 DEF IInv, TypeOK, Mine, on
<1>5. RequestInv(r)'
  BY <1>4 DEF RequestInv, QuoteSteps
<1> QED
  BY <1>2, <1>4, <1>5, LocksStay, QuietStep DEF IInv

LEMMA ArriveKeeps ==
  ASSUME IInv, NEW r \in Requests, Arrive(r)
  PROVE  IInv'
BY StartKeeps DEF Arrive, StartQuote, StartProve, StartPoll

LEMMA SetIntentLeaves ==
  ASSUME NEW j \in Intents, NEW row, SetIntent(j, row)
  PROVE  /\ intent' = [intent EXCEPT ![j] = row]
         /\ UNCHANGED <<ledger, grant, locks, outside, invoice, now>>
BY DEF SetIntent, outside

LEMMA CreateIntentKeeps ==
  ASSUME IInv, NEW r \in Requests, CreateIntent(r)
  PROVE  IInv'
<1>1. /\ RequestInv(r) /\ pc[r] = "createIntent" /\ on(r) \in Intents /\ job[r] \in Job
      /\ job[r].binding \in Bindings
      /\ intent[on(r)] \in IntentRow /\ RowInv(on(r)) /\ Free(on(r))
  BY DEF IInv, TypeOK, Job, RequestInv, CreateIntent
<1> PICK j \in Intents : j = on(r)
  BY <1>1
<1> PICK b \in Bindings : b = job[r].binding
  BY <1>1
<1>2. CASE /\ intent[j].state = "absent"
           /\ SetIntent(j, NewIntent(b))
           /\ Goto(r, "claimInvoice")
           /\ UNCHANGED <<seen, history>>
  <2> PICK row : row = NewIntent(b)
    OBVIOUS
  <2>1. /\ row \in IntentRow /\ row.state = "pending_invoice" /\ row.binding = b
        /\ row.hash = NoHash
    BY <1>1, Names DEF NewIntent, NoIntentRow, IntentRow
  <2>2. /\ intent' = [intent EXCEPT ![j] = row]
        /\ UNCHANGED <<ledger, grant, locks, outside, invoice, now, asked, quoted, told>>
    BY <1>2, SetIntentLeaves DEF history
  <2>3. intent'[j] = row
    BY <2>2 DEF IInv, TypeOK
  <2>4. /\ Mine(r) /\ LocksKeep(r) /\ pc'[r] = "claimInvoice" /\ job'[r] = job[r]
        /\ on(r)' = j
    BY <1>2, <2>2, Names, MoveIsMine, LocksStay DEF IInv
  <2>5. RowInv(j)'
    BY <1>1, <1>2, <2>1, <2>2, <2>3 DEF RowInv, IsPaid, Attached
  <2>6. RequestInv(r)'
    BY <2>1, <2>3, <2>4 DEF RequestInv, QuoteSteps
  <2>7. intent[j].hash = NoHash
    BY <1>1, <1>2 DEF RowInv, Attached
  <2> QED
    BY <1>1, <1>2, <2>1, <2>2, <2>4, <2>5, <2>6, <2>7, IntentStep DEF IInv, TypeOK
<1>3. CASE Throw(r)
  BY <1>3, ThrowKeeps
<1>4. ASSUME intent[j].state # "absent", SameRequest(intent[j], b),
             CASE intent[j].state = "invoice_issued" -> QuoteAnswer(r, intent[j].hash)
               [] intent[j].state = "invoice_issuing" -> Move(r, "waitForInvoice")
               [] intent[j].state = "pending_invoice" -> Move(r, "claimInvoice")
               [] OTHER -> Throw(r)
      PROVE  IInv'
  <2>1. intent[j].binding = job[r].binding
    BY <1>4 DEF SameRequest
  <2>2. CASE intent[j].state = "invoice_issued"
    <3>1. intent[j].hash \in Hashes /\ intent[j].hash # NoHash
      BY <1>1, <2>2 DEF RowInv, Attached, IntentRow
    <3> PICK a : a = [NoAnswer EXCEPT !.type = "quote", !.hash = intent[j].hash]
      OBVIOUS
    <3>2. a \in Response /\ a.type = "quote" /\ a.hash = intent[j].hash
      BY <3>1, AnswerRows
    <3> QED
      BY <1>4, <2>1, <2>2, <3>1, <3>2, AnswerKeeps DEF QuoteAnswer
  <2>3. CASE intent[j].state = "invoice_issuing"
    BY <1>1, <1>4, <2>1, <2>3, MoveKeeps DEF PlainSteps
  <2>4. CASE intent[j].state = "pending_invoice"
    BY <1>1, <1>4, <2>1, <2>4, MoveKeeps DEF PlainSteps
  <2>5. CASE intent[j].state \notin {"invoice_issued", "invoice_issuing", "pending_invoice"}
    BY <1>4, <2>5, ThrowKeeps
  <2> QED
    BY <2>2, <2>3, <2>4, <2>5
<1> QED
  BY <1>2, <1>3, <1>4 DEF CreateIntent

LEMMA ClaimInvoiceKeeps ==
  ASSUME IInv, NEW r \in Requests, ClaimInvoice(r)
  PROVE  IInv'
<1>1. /\ RequestInv(r) /\ pc[r] = "claimInvoice" /\ on(r) \in Intents
      /\ intent[on(r)] \in IntentRow /\ RowInv(on(r)) /\ Free(on(r))
      /\ intent[on(r)].state # "absent" /\ intent[on(r)].binding = job[r].binding
  BY DEF IInv, TypeOK, RequestInv, ClaimInvoice, QuoteSteps
<1> PICK j \in Intents : j = on(r)
  BY <1>1
<1>2. CASE /\ Claimable(intent[j])
           /\ SetIntent(j, Issuing(intent[j]))
           /\ asked' = [asked EXCEPT ![j] = @ + 1]
           /\ Goto(r, "createInvoice")
           /\ UNCHANGED <<seen, quoted, told>>
  <2> PICK row : row = Issuing(intent[j])
    OBVIOUS
  <2>1. /\ row \in IntentRow /\ row.state = "invoice_issuing"
        /\ row.binding = intent[j].binding /\ row.hash = intent[j].hash
    BY <1>1, Names DEF Issuing, IntentRow
  <2>2. /\ intent' = [intent EXCEPT ![j] = row]
        /\ UNCHANGED <<ledger, grant, locks, outside, invoice, now>>
    BY <1>2, SetIntentLeaves
  <2>3. intent'[j] = row
    BY <2>2 DEF IInv, TypeOK
  <2>4. /\ Mine(r) /\ LocksKeep(r) /\ pc'[r] = "createInvoice" /\ job'[r] = job[r]
        /\ on(r)' = j
    BY <1>2, <2>2, Names, MoveIsMine, LocksStay DEF IInv
  <2>5. intent[j].state = "pending_invoice" /\ asked[j] = 0 /\ asked'[j] = 1
    BY <1>1, <1>2 DEF Claimable, RowInv, IInv, TypeOK
  <2>6. /\ asked' \in [Intents -> Nat] /\ \A k \in Intents \ {j} : asked'[k] = asked[k]
    BY <1>2 DEF IInv, TypeOK
  <2>7. RowInv(j)'
    BY <1>1, <1>2, <2>1, <2>2, <2>3, <2>5 DEF RowInv, IsPaid, Attached
  <2>8. RequestInv(r)'
    BY <1>1, <2>1, <2>3, <2>4 DEF RequestInv, QuoteSteps
  <2>9. row.hash = NoHash
    BY <1>1, <2>1, <2>5 DEF RowInv, Attached
  <2> QED
    BY <1>1, <1>2, <2>1, <2>2, <2>4, <2>6, <2>7, <2>8, <2>9, IntentStep
<1>3. CASE Move(r, "waitForInvoice")
  BY <1>1, <1>3, MoveKeeps DEF PlainSteps
<1> QED
  BY <1>2, <1>3 DEF ClaimInvoice

LEMMA MarkUncertainKeeps ==
  ASSUME IInv, NEW r \in Requests, MarkUncertain(r)
  PROVE  IInv'
<1>1. /\ on(r) \in Intents /\ intent[on(r)] \in IntentRow /\ RowInv(on(r)) /\ Free(on(r))
  BY DEF IInv, TypeOK, RequestInv, MarkUncertain
<1> PICK j \in Intents : j = on(r)
  BY <1>1
<1> PICK row : row = IF intent[j].state = "invoice_issuing" THEN Uncertain(intent[j])
                                                            ELSE intent[j]
  OBVIOUS
<1>2. /\ row \in IntentRow /\ row.binding = intent[j].binding /\ row.hash = intent[j].hash
      /\ row.state = IF intent[j].state = "invoice_issuing" THEN "invoice_uncertain"
                                                            ELSE intent[j].state
  BY <1>1, Names DEF Uncertain, IntentRow
<1>3. /\ intent' = [intent EXCEPT ![j] = row] /\ Finish(r)
      /\ UNCHANGED <<ledger, grant, outside, invoice, asked, quoted, told>>
  BY DEF MarkUncertain, outside, history
<1>4. intent'[j] = row
  BY <1>3 DEF IInv, TypeOK
<1>5. Mine(r) /\ LocksKeep(r) /\ RequestInv(r)'
  BY <1>3, FinishIsMine DEF IInv
<1>6. RowInv(j)'
  BY <1>1, <1>2, <1>3, <1>4 DEF RowInv, IsPaid, Attached
<1>7. row.hash # NoHash => Unattached(row.hash, j)
  BY <1>2 DEF IInv, OneIntentPerPayment, Unattached
<1> QED
  BY <1>1, <1>2, <1>3, <1>5, <1>6, <1>7, IntentStep DEF IInv, TypeOK

LEMMA AttachInvoiceKeeps ==
  ASSUME IInv, NEW r \in Requests, AttachInvoice(r)
  PROVE  IInv'
<1>1. /\ RequestInv(r) /\ pc[r] = "attachInvoice" /\ on(r) \in Intents
      /\ intent[on(r)] \in IntentRow /\ RowInv(on(r)) /\ Free(on(r))
      /\ intent[on(r)].state # "absent" /\ intent[on(r)].binding = job[r].binding
      /\ seen[r].hash \in Hashes /\ invoice[seen[r].hash].issued
  BY DEF IInv, TypeOK, RequestInv, AttachInvoice, QuoteSteps
<1> PICK j \in Intents : j = on(r)
  BY <1>1
<1> PICK h \in Hashes : h = seen[r].hash
  BY <1>1
<1>2. CASE /\ intent[j].state = "invoice_issuing"
           /\ Unattached(h, j)
           /\ intent' = [intent EXCEPT ![j] = Issued(intent[j], h)]
           /\ pc' = [pc EXCEPT ![r] = "reply"]
           /\ answer' = [answer EXCEPT ![r] = [NoAnswer EXCEPT !.type = "quote",
                                                              !.hash = h]]
           /\ UNCHANGED <<ledger, grant, locks, outside, history, job, seen>>
  <2> PICK row : row = Issued(intent[j], h)
    OBVIOUS
  <2> PICK a : a = [NoAnswer EXCEPT !.type = "quote", !.hash = h]
    OBVIOUS
  <2>1. /\ row \in IntentRow /\ row.state = "invoice_issued"
        /\ row.binding = intent[j].binding /\ row.hash = h
    BY <1>1, Names DEF Issued, IntentRow
  <2>2. intent'[j] = row /\ UNCHANGED <<invoice, asked, quoted, told>> /\ h # NoHash
    BY <1>2, Assumptions DEF IInv, TypeOK, outside, history
  <2>3. a \in Response /\ a.type = "quote" /\ a.hash = h
    BY AnswerRows
  <2>4. /\ Mine(r) /\ LocksKeep(r) /\ pc'[r] = "reply" /\ job'[r] = job[r]
        /\ answer'[r] = a /\ on(r)' = j
    BY <1>2, <2>3, AnswerIsMine, LocksStay DEF IInv
  <2>5. AnswerInv(r)'
    BY <1>1, <2>1, <2>2, <2>3, <2>4 DEF AnswerInv
  <2>6. RequestInv(r)'
    BY <2>4, <2>5 DEF RequestInv, QuoteSteps
  <2>7. intent[j].hash = NoHash
    BY <1>1, <1>2 DEF RowInv, Attached
  <2>8. RowInv(j)'
    BY <1>1, <1>2, <2>1, <2>2, <2>7 DEF RowInv, IsPaid, Attached
  <2> QED
    BY <1>1, <1>2, <2>1, <2>2, <2>4, <2>6, <2>7, <2>8, IntentStep DEF IInv, TypeOK
<1>3. CASE Throw(r)
  BY <1>3, ThrowKeeps
<1> QED
  BY <1>2, <1>3 DEF AttachInvoice

LEMMA WaitForInvoiceKeeps ==
  ASSUME IInv, NEW r \in Requests, WaitForInvoice(r)
  PROVE  IInv'
<1>1. /\ on(r) \in Intents /\ intent[on(r)] \in IntentRow /\ RowInv(on(r))
      /\ intent[on(r)].state # "absent" /\ intent[on(r)].binding = job[r].binding
  BY DEF IInv, TypeOK, RequestInv, WaitForInvoice, QuoteSteps
<1> PICK j \in Intents : j = on(r)
  BY <1>1
<1>2. CASE intent[j].state = "invoice_issued" /\ QuoteAnswer(r, intent[j].hash)
  <2>1. intent[j].hash \in Hashes /\ intent[j].hash # NoHash
    BY <1>1, <1>2 DEF RowInv, Attached, IntentRow
  <2> PICK a : a = [NoAnswer EXCEPT !.type = "quote", !.hash = intent[j].hash]
    OBVIOUS
  <2>2. a \in Response /\ a.type = "quote" /\ a.hash = intent[j].hash
    BY <2>1, AnswerRows
  <2> QED
    BY <1>1, <1>2, <2>1, <2>2, AnswerKeeps DEF QuoteAnswer
<1>3. CASE Throw(r)
  BY <1>3, ThrowKeeps
<1> QED
  BY <1>2, <1>3 DEF WaitForInvoice

(* The provider issues an invoice nobody had, or repeats one.              *)
LEMMA ProviderKeeps ==
  ASSUME IInv, NEW r, Mine(r), LocksKeep(r),
         invoice' \in [Hashes -> InvoiceRow],
         \A h \in Hashes : invoice[h].issued => invoice'[h].issued
                             /\ (invoice[h].paid => invoice'[h].paid),
         \A h \in Hashes : invoice'[h].paid => invoice'[h].issued,
         now' \in 0 .. MaxTime,
         UNCHANGED <<rows, history>>,
         r \in Requests => RequestInv(r)'
  PROVE  IInv'
<1>1. UNCHANGED <<intent, ledger, grant, asked, quoted, told>>
  BY DEF rows, history
<1>2. TypeOK'
  BY <1>1 DEF IInv, TypeOK, Mine, LocksKeep
<1>3. InvoicesKeep
  BY DEF IInv, InvoiceInv, InvoicesKeep
<1>4. RowsKeep(r) /\ CreditKeeps(r)
  BY <1>1 DEF RowsKeep, CreditKeeps
<1>5. ASSUME NEW j \in Intents PROVE RowInv(j)'
  <2>1. RowInv(j) /\ (intent[j].hash # NoHash => intent[j].hash \in Hashes)
    BY DEF IInv, TypeOK, IntentRow
  <2>2. IsPaid(j) => IsPaid(j)'
    BY <1>3, <1>4, PaidKeeps DEF IInv
  <2> QED
    BY <1>1, <1>3, <2>1, <2>2 DEF RowInv, InvoicesKeep
<1>6. CreditInv' /\ OneIntentPerPayment' /\ InvoiceInv'
  BY <1>1, CreditStays DEF IInv, OneIntentPerPayment, InvoiceInv
<1>7. \A q \in Requests : RequestInv(q)'
  BY <1>3, <1>4, OthersKeep
<1> QED
  BY <1>2, <1>5, <1>6, <1>7 DEF IInv

LEMMA CreateInvoiceKeeps ==
  ASSUME IInv, NEW r \in Requests, CreateInvoice(r)
  PROVE  IInv'
<1>1. /\ RequestInv(r) /\ pc[r] = "createInvoice" /\ on(r) \in Intents
      /\ intent[on(r)].state # "absent" /\ intent[on(r)].binding = job[r].binding
      /\ seen[r] \in Seen /\ invoice \in [Hashes -> InvoiceRow] /\ now \in 0 .. MaxTime
  BY DEF IInv, TypeOK, RequestInv, CreateInvoice, QuoteSteps
<1>2. PICK h \in Hashes :
        /\ \/ /\ ~invoice[h].issued
              /\ \E url \in BOOLEAN :
                   invoice' = [invoice EXCEPT ![h] =
                     [issued |-> TRUE, expires |-> now + Lifetime,
                      url |-> url, paid |-> FALSE]]
           \/ /\ invoice[h].issued
              /\ now < invoice[h].expires
              /\ UNCHANGED invoice
        /\ seen' = [seen EXCEPT ![r].hash = h]
  BY DEF CreateInvoice
<1>3. Goto(r, "attachInvoice") /\ UNCHANGED <<rows, locks, now, history, intent>>
  BY DEF CreateInvoice, rows
<1> PICK s : s = [seen[r] EXCEPT !.hash = h]
  OBVIOUS
<1>4. s \in Seen /\ s.hash = h
  BY <1>1 DEF Seen
<1>5. /\ Mine(r) /\ pc'[r] = "attachInvoice" /\ job'[r] = job[r] /\ seen'[r] = s
      /\ on(r)' = on(r) /\ LocksKeep(r)
  BY <1>2, <1>3, <1>4, Names, GotoIsMine, LocksStay DEF IInv
<1>6. /\ invoice' \in [Hashes -> InvoiceRow] /\ invoice'[h].issued
      /\ \A i \in Hashes : invoice[i].issued => invoice'[i] = invoice[i]
      /\ \A i \in Hashes : invoice'[i].paid => invoice'[i].issued
  <2>1. CASE UNCHANGED invoice /\ invoice[h].issued
    BY <1>1, <2>1 DEF IInv, InvoiceInv
  <2>2. ASSUME ~invoice[h].issued, NEW url \in BOOLEAN, NEW new,
               new = [issued |-> TRUE, expires |-> now + Lifetime,
                      url |-> url, paid |-> FALSE],
               invoice' = [invoice EXCEPT ![h] = new]
        PROVE  /\ invoice' \in [Hashes -> InvoiceRow] /\ invoice'[h].issued
               /\ \A i \in Hashes : invoice[i].issued => invoice'[i] = invoice[i]
               /\ \A i \in Hashes : invoice'[i].paid => invoice'[i].issued
    <3>1. now + Lifetime \in Times
      BY <1>1, Assumptions DEF Times
    <3>2. new \in InvoiceRow /\ new.issued /\ ~new.paid
      BY <2>2, <3>1 DEF InvoiceRow
    <3>3. invoice'[h] = new /\ \A i \in Hashes \ {h} : invoice'[i] = invoice[i]
      BY <1>1, <2>2
    <3> QED
      BY <1>1, <2>2, <3>2, <3>3 DEF IInv, InvoiceInv
  <2> QED
    BY <1>2, <2>1, <2>2
<1>7. RequestInv(r)'
  BY <1>1, <1>3, <1>4, <1>5, <1>6 DEF RequestInv, QuoteSteps
<1> QED
  BY <1>1, <1>3, <1>5, <1>6, <1>7, ProviderKeeps
-----------------------------------------------------------------------------
(* GateService.prove and GateService.poll.                                 *)
LEMMA SettleKeeps ==
  ASSUME IInv, NEW r \in Requests, NEW row, row.state \in States,
         row.hash \in Hashes \cup {NoHash}, Settle(r, row),
         NEW j \in Intents, j = on(r), IsPaid(j)
  PROVE  IInv'
<1> PICK s : s = [Unseen EXCEPT !.state = row.state, !.hash = row.hash, !.at = now]
  OBVIOUS
<1>1. s \in Seen
  BY Names DEF IInv, TypeOK, Unseen, Seen
<1>2. /\ seen' = [seen EXCEPT ![r] = s]
      /\ UNCHANGED <<rows, locks, outside, history, intent, invoice>>
  BY DEF Settle, rows, outside
<1>3. PICK step \in {"lockIntent", "markPaid"} : Goto(r, step)
  BY DEF Settle, AfterProof
<1>4. Mine(r) /\ pc'[r] = step /\ on(r)' = j /\ LocksKeep(r)
  BY <1>1, <1>2, <1>3, Names, GotoIsMine, LocksStay DEF IInv
<1>5. IsPaid(on(r))'
  BY <1>2, <1>4 DEF IsPaid
<1>6. RequestInv(r)'
  BY <1>3, <1>4, <1>5 DEF RequestInv, QuoteSteps
<1> QED
  BY <1>2, <1>4, <1>6, QuietStep

LEMMA ReceiptKeeps ==
  ASSUME IInv, NEW r \in Requests, NEW j \in Intents, j = on(r),
         ledger[j].jti # NoJti, ReceiptAnswer(r, Receipt(j))
  PROVE  IInv'
<1>1. ledger[j].jti \in Jtis
  BY DEF IInv, TypeOK, LedgerRow
<1> PICK a : a = [NoAnswer EXCEPT !.type = "receipt", !.jti = ledger[j].jti]
  OBVIOUS
<1>2. a \in Response /\ a.type = "receipt" /\ a.jti = ledger[j].jti
  BY <1>1, AnswerRows
<1> QED
  BY <1>2, AnswerKeeps DEF ReceiptAnswer, Receipt

LEMMA RefusalKeeps ==
  ASSUME IInv, NEW r \in Requests, on(r) \in Intents, Unsettled(r) \/ Error(r)
  PROVE  IInv'
<1> PICK j \in Intents : j = on(r)
  OBVIOUS
<1>1. CASE Unsettled(r)
  <2> PICK a : a = [NoAnswer EXCEPT !.type = "unsettled"]
    OBVIOUS
  <2>1. a \in Response /\ a.type = "unsettled"
    BY AnswerRows
  <2> QED
    BY <1>1, <2>1, AnswerKeeps DEF Unsettled
<1>2. CASE Error(r)
  <2> PICK a : a = [NoAnswer EXCEPT !.type = "error"]
    OBVIOUS
  <2>1. a \in Response /\ a.type = "error"
    BY AnswerRows
  <2> QED
    BY <1>2, <2>1, AnswerKeeps DEF Error
<1> QED
  BY <1>1, <1>2

LEMMA ProveKeeps ==
  ASSUME IInv, NEW r \in Requests, GetIntentToProve(r)
  PROVE  IInv'
<1>1. on(r) \in Intents /\ RowInv(on(r)) /\ intent[on(r)] \in IntentRow
  BY DEF IInv, TypeOK, RequestInv, GetIntentToProve
<1> PICK j \in Intents : j = on(r)
  BY <1>1
<1>2. CASE intent[j].state = "authorized" /\ ReceiptAnswer(r, Receipt(j))
  BY <1>1, <1>2, ReceiptKeeps DEF RowInv
<1>3. CASE Proved(intent[j]) /\ Settle(r, intent[j])
  <2>1. IsPaid(j)
    BY <1>3 DEF Proved, HasPreimage, IsPaid
  <2> QED
    BY <1>1, <1>3, <2>1, SettleKeeps DEF IntentRow
<1>4. CASE Throw(r)
  BY <1>4, ThrowKeeps
<1> QED
  BY <1>2, <1>3, <1>4 DEF GetIntentToProve

LEMMA PollKeeps ==
  ASSUME IInv, NEW r \in Requests, GetIntentToPoll(r)
  PROVE  IInv'
<1>1. /\ on(r) \in Intents /\ RowInv(on(r)) /\ intent[on(r)] \in IntentRow
      /\ seen[r] \in Seen
  BY DEF IInv, TypeOK, RequestInv, GetIntentToPoll
<1> PICK j \in Intents : j = on(r)
  BY <1>1
<1>2. CASE intent[j].state = "authorized" /\ ReceiptAnswer(r, Receipt(j))
  BY <1>1, <1>2, ReceiptKeeps DEF RowInv
<1>3. CASE Unsettled(r)
  BY <1>1, <1>3, RefusalKeeps
<1>4. CASE /\ Pollable(intent[j])
           /\ seen' = [seen EXCEPT ![r].state = intent[j].state, ![r].hash = intent[j].hash]
           /\ Goto(r, "verifyInvoice")
           /\ UNCHANGED <<rows, locks, outside, history>>
  <2> PICK s : s = [seen[r] EXCEPT !.state = intent[j].state, !.hash = intent[j].hash]
    OBVIOUS
  <2>1. s \in Seen /\ s.hash = intent[j].hash
    BY <1>1 DEF Seen, IntentRow
  <2>2. seen' = [seen EXCEPT ![r] = s] /\ UNCHANGED intent
    BY <1>4 DEF IInv, TypeOK, rows
  <2>3. intent[j].hash # NoHash
    BY <1>1, <1>4 DEF Pollable, RowInv, Attached
  <2>4. Mine(r) /\ pc'[r] = "verifyInvoice" /\ on(r)' = j /\ seen'[r] = s /\ LocksKeep(r)
    BY <1>4, <2>1, <2>2, Names, GotoIsMine, LocksStay DEF IInv
  <2>5. RequestInv(r)'
    BY <2>1, <2>2, <2>3, <2>4 DEF RequestInv, QuoteSteps
  <2> QED
    BY <1>4, <2>4, <2>5, QuietStep
<1> QED
  BY <1>2, <1>3, <1>4 DEF GetIntentToPoll

LEMMA VerifyKeeps ==
  ASSUME IInv, NEW r \in Requests, VerifyInvoice(r)
  PROVE  IInv'
<1>1. /\ on(r) \in Intents /\ seen[r] \in Seen
      /\ seen[r].hash # NoHash /\ seen[r].hash = intent[on(r)].hash
  BY DEF IInv, TypeOK, RequestInv, VerifyInvoice
<1> PICK j \in Intents : j = on(r)
  BY <1>1
<1>2. CASE Unsettled(r) \/ Error(r)
  BY <1>1, <1>2, RefusalKeeps
<1>3. CASE HasPreimage(seen[r].hash) /\ Settle(r, seen[r])
  <2>1. IsPaid(j)
    BY <1>1, <1>3 DEF HasPreimage, IsPaid
  <2>2. seen[r].state \in States /\ seen[r].hash \in Hashes \cup {NoHash}
    BY <1>1 DEF Seen
  <2> QED
    BY <1>3, <2>1, <2>2, SettleKeeps
<1> QED
  BY <1>2, <1>3 DEF VerifyInvoice

LEMMA MarkPaidKeeps ==
  ASSUME IInv, NEW r \in Requests, MarkPaid(r)
  PROVE  IInv'
<1>1. /\ on(r) \in Intents /\ intent[on(r)] \in IntentRow /\ RowInv(on(r)) /\ Free(on(r))
      /\ IsPaid(on(r)) /\ seen[r] \in Seen
  BY DEF IInv, TypeOK, RequestInv, MarkPaid
<1> PICK j \in Intents : j = on(r)
  BY <1>1
<1>2. CASE /\ Markable(intent[j], seen[r].at)
           /\ SetIntent(j, MarkedPaid(intent[j], seen[r].at))
           /\ Goto(r, "lockIntent")
           /\ UNCHANGED <<seen, history>>
  <2> PICK row : row = MarkedPaid(intent[j], seen[r].at)
    OBVIOUS
  <2>1. /\ row \in IntentRow /\ row.state = "paid" /\ row.binding = intent[j].binding
        /\ row.hash = intent[j].hash
    BY <1>1, Names DEF MarkedPaid, IntentRow, Seen
  <2>2. /\ intent' = [intent EXCEPT ![j] = row]
        /\ UNCHANGED <<ledger, grant, locks, outside, invoice, now, asked, quoted, told>>
    BY <1>2, SetIntentLeaves DEF history
  <2>3. intent'[j] = row
    BY <2>2 DEF IInv, TypeOK
  <2>4. Mine(r) /\ LocksKeep(r) /\ pc'[r] = "lockIntent" /\ on(r)' = j
    BY <1>2, <2>2, Names, MoveIsMine, LocksStay DEF IInv
  <2>5. intent[j].state \in {"invoice_issued", "expired"}
    BY <1>2 DEF Markable
  <2>6. RowInv(j)'
    BY <1>1, <2>1, <2>2, <2>3, <2>5 DEF RowInv, IsPaid, Attached
  <2>7. RequestInv(r)'
    BY <2>4 DEF RequestInv, QuoteSteps
  <2>8. row.hash # NoHash => Unattached(row.hash, j)
    BY <2>1 DEF IInv, OneIntentPerPayment, Unattached
  <2> QED
    BY <1>1, <2>1, <2>2, <2>4, <2>6, <2>7, <2>8, IntentStep DEF IInv, TypeOK
<1>3. CASE Move(r, "recheckPaid")
  BY <1>1, <1>3, MoveKeeps DEF PlainSteps, QuoteSteps
<1> QED
  BY <1>2, <1>3 DEF MarkPaid

LEMMA LockIntentKeeps ==
  ASSUME IInv, NEW r \in Requests, LockIntent(r)
  PROVE  IInv'
<1>1. on(r) \in Intents /\ Free(on(r))
  BY DEF IInv, RequestInv, LockIntent
<1> PICK j \in Intents : j = on(r)
  BY <1>1
<1>2. CASE ledger[j].jti # NoJti /\ ReceiptAnswer(r, Receipt(j))
  BY <1>2, ReceiptKeeps
<1>3. CASE /\ intent[j].state = "paid"
           /\ rowLock' = [rowLock EXCEPT ![j] = r]
           /\ Goto(r, "chooseSource")
           /\ UNCHANGED <<rows, project, outside, history, seen>>
  <2>1. Mine(r) /\ pc'[r] = "chooseSource" /\ on(r)' = j
    BY <1>3, Names, MoveIsMine DEF IInv
  <2>2. LocksKeep(r) /\ rowLock'[j] = r
    BY <1>1, <1>3, Assumptions DEF IInv, TypeOK, LocksKeep, Free
  <2>3. RequestInv(r)'
    BY <1>3, <2>1, <2>2 DEF RequestInv, QuoteSteps, rows
  <2> QED
    BY <1>3, <2>1, <2>2, <2>3, QuietStep
<1>4. CASE Throw(r)
  BY <1>4, ThrowKeeps
<1> QED
  BY <1>2, <1>3, <1>4 DEF LockIntent

LEMMA ChooseSourceKeeps ==
  ASSUME IInv, NEW r \in Requests, ChooseSource(r)
  PROVE  IInv'
<1>1. /\ on(r) \in Intents /\ seen[r] \in Seen /\ ProjectFree
      /\ rowLock[on(r)] = r /\ intent[on(r)].state = "paid"
  BY DEF IInv, TypeOK, RequestInv, ChooseSource
<1> DEFINE month == Month(seen[r].at)
<1>2. CASE Throw(r)
  BY <1>2, ThrowKeeps
<1>3. ASSUME NEW source \in Sources,
             project' = r, seen' = [seen EXCEPT ![r].source = source],
             Goto(r, "authorize"), UNCHANGED <<rows, rowLock, outside, history>>,
             \/ source = "monthly_free" /\ ~FreeExhausted(month)
             \/ source \in Grants /\ FreeExhausted(month) /\ grant[source].left > 0
                /\ grant[source].expires > seen[r].at
      PROVE  IInv'
  <2> PICK s : s = [seen[r] EXCEPT !.source = source]
    OBVIOUS
  <2>1. s \in Seen /\ s.source = source /\ s.at = seen[r].at
    BY <1>1, <1>3 DEF Seen
  <2>2. seen' = [seen EXCEPT ![r] = s]
    BY <1>3 DEF IInv, TypeOK
  <2>3. Mine(r) /\ pc'[r] = "authorize" /\ on(r)' = on(r) /\ seen'[r] = s
    BY <1>3, <2>1, <2>2, Names, GotoIsMine DEF IInv
  <2>4. LocksKeep(r)
    BY <1>1, <1>3, Assumptions DEF IInv, TypeOK, LocksKeep, ProjectFree
  <2>5. UNCHANGED <<intent, ledger, grant>>
    BY <1>3 DEF rows
  <2>6. SourceInv(r)'
    <3>1. \A m : FreeUsed(m)' = FreeUsed(m)
      BY <2>5, UsageKeeps
    <3>2. Cardinality(FreeUsed(month)) \in Nat /\ FreeLimit \in Nat
      BY FS_CardinalityType, Assumptions DEF IInv, CreditInv
    <3>3. Month(seen'[r].at) = month
      BY <2>1, <2>3
    <3>4. ~FreeExhausted(month) => Cardinality(FreeUsed(month)) < FreeLimit
      BY <3>2 DEF FreeExhausted
    <3>5. source \in Grants => seen'[r].at < grant'[source].expires
      <4>1. seen[r].at \in Nat /\ \A g \in Grants : grant[g].expires \in Nat
        BY <1>1, Assumptions DEF IInv, TypeOK, GrantRow, Seen, Times
      <4> QED
        BY <1>3, <2>1, <2>3, <2>5, <4>1, Assumptions
    <3> HIDE DEF month
    <3> QED
      BY <1>3, <2>1, <2>3, <2>5, <3>1, <3>3, <3>4, <3>5 DEF SourceInv, FreeExhausted
  <2>7. RequestInv(r)'
    BY <1>1, <1>3, <2>3, <2>5, <2>6 DEF RequestInv, QuoteSteps
  <2> QED
    BY <1>3, <2>3, <2>4, <2>7, QuietStep
<1>4. ASSUME NEW g \in EarliestSpendable(seen[r].at)
      PROVE  g \in Grants /\ grant[g].left > 0 /\ grant[g].expires > seen[r].at
  BY <1>4 DEF EarliestSpendable, Spendable
<1> QED
  BY <1>2, <1>3, <1>4, Names DEF ChooseSource

LEMMA RecheckKeeps ==
  ASSUME IInv, NEW r \in Requests, RecheckPaid(r)
  PROVE  IInv'
<1>1. on(r) \in Intents
  BY DEF IInv, RequestInv, RecheckPaid
<1> QED
  BY <1>1, MoveKeeps, ThrowKeeps DEF RecheckPaid, PlainSteps, QuoteSteps

(* One commit: the credit, the ledger row and the intent.                  *)
LEMMA AuthorizeRows ==
  ASSUME IInv, NEW r \in Requests, AuthorizeIntent(r), NEW j, j = on(r)
  PROVE  /\ j \in Intents /\ rowLock[j] = r /\ project = r
         /\ intent[j].state = "paid" /\ ledger[j].jti = NoJti
         /\ intent' \in [Intents -> IntentRow]
         /\ intent'[j].state = "authorized" /\ intent'[j].hash = intent[j].hash
         /\ intent'[j].binding = intent[j].binding
         /\ \A k \in Intents \ {j} : intent'[k] = intent[k]
         /\ ledger' \in [Intents -> LedgerRow]
         /\ ledger'[j].jti \in Jtis
         /\ ledger'[j].source = seen[r].source /\ ledger'[j].at = seen[r].at
         /\ \A k \in Intents \ {j} : /\ ledger'[k] = ledger[k]
                                     /\ ledger[k].jti # ledger'[j].jti
         /\ SourceInv(r) /\ seen[r] \in Seen
<1>1. /\ j \in Intents /\ rowLock[j] = r /\ project = r /\ intent[j].state = "paid"
      /\ SourceInv(r) /\ seen[r] \in Seen
      /\ intent \in [Intents -> IntentRow] /\ ledger \in [Intents -> LedgerRow]
      /\ RowInv(j)
  BY DEF IInv, TypeOK, RequestInv, AuthorizeIntent
<1>2. ledger[j].jti = NoJti
  BY <1>1 DEF RowInv
<1>3. PICK x \in Jtis :
        /\ \A other \in Intents : ledger[other].jti # x
        /\ ledger' = [ledger EXCEPT ![j] =
             [jti |-> x, source |-> seen[r].source, at |-> seen[r].at]]
  BY DEF AuthorizeIntent
<1> PICK new : new = [jti |-> x, source |-> seen[r].source, at |-> seen[r].at]
  OBVIOUS
<1>4. /\ new \in LedgerRow /\ new.jti = x /\ new.source = seen[r].source
      /\ new.at = seen[r].at
  BY <1>1 DEF LedgerRow, Seen
<1>5. /\ ledger' \in [Intents -> LedgerRow] /\ ledger'[j] = new
      /\ \A k \in Intents \ {j} : ledger'[k] = ledger[k] /\ ledger[k].jti # x
  BY <1>1, <1>3, <1>4
<1> PICK row : row = Authorized(intent[j])
  OBVIOUS
<1>6. /\ row \in IntentRow /\ row.state = "authorized"
      /\ row.binding = intent[j].binding /\ row.hash = intent[j].hash
  BY <1>1, Names DEF Authorized, IntentRow
<1>7. intent' = [intent EXCEPT ![j] = row]
  BY <1>1 DEF AuthorizeIntent
<1>8. /\ intent' \in [Intents -> IntentRow] /\ intent'[j] = row
      /\ \A k \in Intents \ {j} : intent'[k] = intent[k]
  BY <1>1, <1>6, <1>7
<1> QED
  BY <1>1, <1>2, <1>4, <1>5, <1>6, <1>8

(* The months and the packs after the commit.                              *)
LEMMA AuthorizeCredit ==
  ASSUME IInv, NEW r \in Requests, AuthorizeIntent(r)
  PROVE  grant' \in [Grants -> GrantRow] /\ CreditInv'
<1> PICK j : j = on(r)
  OBVIOUS
<1> DEFINE source == seen[r].source  month == Month(seen[r].at)
<1>1. /\ j \in Intents /\ ledger[j].source = "none" /\ SourceInv(r)
      /\ ledger'[j].source = source /\ ledger'[j].at = seen[r].at
      /\ \A k \in Intents \ {j} : ledger'[k] = ledger[k]
  BY AuthorizeRows DEF IInv, RowInv
<1>2. grant \in [Grants -> GrantRow] /\ \A g \in Grants : grant[g].left \in 0 .. PackSize
  BY DEF IInv, TypeOK, GrantRow
<1>3. /\ source \in {"monthly_free"} \cup Grants
      /\ source \in Grants => grant[source].left > 0 /\ FreeExhausted(month)
      /\ source = "monthly_free" => Cardinality(FreeUsed(month)) < FreeLimit
  BY <1>1, Assumptions DEF SourceInv
<1>4. \A m : FreeUsed(m)' = IF source = "monthly_free" /\ month = m
                             THEN FreeUsed(m) \cup {j} ELSE FreeUsed(m)
  BY <1>1 DEF FreeUsed, Month
<1>5. \A g \in Grants : SpentOf(g)' = IF g = source THEN SpentOf(g) \cup {j} ELSE SpentOf(g)
  BY <1>1, Assumptions DEF SpentOf
<1>6. \A g \in Grants : j \notin SpentOf(g)
  BY <1>1, Assumptions DEF SpentOf
<1>7. \A m : j \notin FreeUsed(m)
  BY <1>1 DEF FreeUsed
<1>8. \A m : /\ IsFiniteSet(FreeUsed(m)) /\ Cardinality(FreeUsed(m)) \in Nat
             /\ Cardinality(FreeUsed(m)) <= FreeLimit
  BY FS_CardinalityType DEF IInv, CreditInv
<1>9. grant' = IF source \in Grants
               THEN [grant EXCEPT ![source].left = @ - 1] ELSE grant
  BY DEF AuthorizeIntent
<1>10. /\ grant' \in [Grants -> GrantRow]
       /\ \A g \in Grants : /\ g # source => grant'[g] = grant[g]
                            /\ g = source => /\ grant'[g].expires = grant[g].expires
                                             /\ grant'[g].left = grant[g].left - 1
  <2>1. CASE source \in Grants
    <3> PICK new : new = [grant[source] EXCEPT !.left = grant[source].left - 1]
      OBVIOUS
    <3>1. grant[source] \in GrantRow /\ grant[source].left - 1 \in 0 .. PackSize
      BY <1>2, <1>3, <2>1, Assumptions
    <3>2. /\ new \in GrantRow /\ new.expires = grant[source].expires
          /\ new.left = grant[source].left - 1
      BY <3>1 DEF GrantRow
    <3>3. grant' = [grant EXCEPT ![source] = new]
      BY <1>2, <1>9, <2>1
    <3> HIDE DEF source
    <3> QED
      BY <1>2, <2>1, <3>2, <3>3
  <2>2. CASE source \notin Grants
    BY <1>2, <1>9, <2>2
  <2> QED
    BY <2>1, <2>2
<1> HIDE DEF source, month
<1>11. ASSUME NEW m
       PROVE  /\ IsFiniteSet(FreeUsed(m)') /\ Cardinality(FreeUsed(m)') <= FreeLimit
              /\ Cardinality(FreeUsed(m)') >= Cardinality(FreeUsed(m))
  <2>1. CASE source = "monthly_free" /\ month = m
    <3>1. FreeUsed(m)' = FreeUsed(m) \cup {j}
      BY <1>4, <2>1
    <3>2. /\ IsFiniteSet(FreeUsed(m) \cup {j})
          /\ Cardinality(FreeUsed(m) \cup {j}) = Cardinality(FreeUsed(m)) + 1
      BY <1>7, <1>8, FS_AddElement
    <3>3. Cardinality(FreeUsed(m)) < FreeLimit
      BY <1>3, <2>1
    <3> QED
      BY <1>8, <3>1, <3>2, <3>3, Assumptions
  <2>2. CASE ~(source = "monthly_free" /\ month = m)
    BY <1>4, <1>8, <2>2
  <2> QED
    BY <2>1, <2>2
<1>12. ASSUME NEW g \in Grants
       PROVE  /\ IsFiniteSet(SpentOf(g)')
              /\ grant'[g].expires = 0 => grant'[g] = NoGrant /\ SpentOf(g)' = {}
              /\ grant'[g].expires # 0 =>
                   grant'[g].left + Cardinality(SpentOf(g)') = PackSize
  <2>1. /\ IsFiniteSet(SpentOf(g)) /\ Cardinality(SpentOf(g)) \in Nat
        /\ grant[g].expires = 0 => grant[g] = NoGrant /\ SpentOf(g) = {}
        /\ grant[g].expires # 0 => grant[g].left + Cardinality(SpentOf(g)) = PackSize
    BY FS_CardinalityType DEF IInv, CreditInv
  <2>2. CASE g = source
    <3>1. SpentOf(g)' = SpentOf(g) \cup {j}
      BY <1>5, <2>2
    <3>2. /\ IsFiniteSet(SpentOf(g) \cup {j})
          /\ Cardinality(SpentOf(g) \cup {j}) = Cardinality(SpentOf(g)) + 1
      BY <1>6, <2>1, FS_AddElement
    <3>3. grant[g].left > 0 /\ NoGrant.left = 0
      BY <1>3, <2>2 DEF NoGrant
    <3>4. grant[g].expires # 0
      BY <2>1, <3>3
    <3>5. grant'[g].expires # 0 /\ grant'[g].left = grant[g].left - 1
      BY <1>10, <2>2, <3>4
    <3>6. grant[g].left \in Int
      BY <1>2
    <3>7. grant'[g].left + Cardinality(SpentOf(g)') = PackSize
      BY <2>1, <3>1, <3>2, <3>4, <3>5, <3>6
    <3> QED
      BY <3>1, <3>2, <3>5, <3>7
  <2>3. CASE g # source
    BY <1>5, <1>10, <2>1, <2>3
  <2> QED
    BY <2>2, <2>3
<1>14. ChargedInTime'
  <2>1. ASSUME NEW k \in Intents, ledger'[k].source \in Grants
        PROVE  ledger'[k].at < grant'[ledger'[k].source].expires
    <3>1. grant'[ledger'[k].source].expires = grant[ledger'[k].source].expires
      BY <1>10, <2>1
    <3>2. CASE k = j
      <4>1. source \in Grants => seen[r].at < grant[source].expires
        BY <1>1, Assumptions DEF SourceInv, source
      <4> QED
        BY <1>1, <2>1, <3>1, <3>2, <4>1 DEF source
    <3>3. CASE k # j
      <4>1. ledger'[k] = ledger[k]
        BY <1>1, <3>3
      <4>2. ledger[k].at < grant[ledger[k].source].expires
        BY <2>1, <4>1 DEF IInv, CreditInv, ChargedInTime
      <4> QED
        BY <3>1, <4>1, <4>2
    <3> QED
      BY <3>2, <3>3
  <2> QED
    BY <2>1 DEF ChargedInTime
<1>13. FreeFirst'
  <2>1. ASSUME NEW k \in Intents, ledger'[k].source \in Grants
        PROVE  Cardinality(FreeUsed(Month(ledger'[k].at))) >= FreeLimit
    <3>1. CASE k = j
      BY <1>1, <1>3, <2>1, <3>1 DEF FreeExhausted, month, source
    <3>2. CASE k # j
      <4>1. ledger'[k] = ledger[k]
        BY <1>1, <3>2
      <4>2. Cardinality(FreeUsed(Month(ledger[k].at))) = FreeLimit
        BY <2>1, <4>1 DEF IInv, CreditInv, FreeFirst
      <4> QED
        BY <4>1, <4>2, Assumptions
    <3> QED
      BY <3>1, <3>2
  <2>2. \A m : Cardinality(FreeUsed(m)') \in Nat
    BY <1>11, FS_CardinalityType
  <2>3. ASSUME NEW k \in Intents, ledger'[k].source \in Grants
        PROVE  Cardinality(FreeUsed(Month(ledger[k].at))') = FreeLimit
    <3> PICK m : m = Month(ledger'[k].at)
      OBVIOUS
    <3>1. Cardinality(FreeUsed(m)') = FreeLimit
      BY <1>8, <1>11, <2>1, <2>2, <2>3, Assumptions
    <3> QED
      BY <3>1 DEF Month
  <2> QED
    BY <2>3 DEF FreeFirst
<1> QED
  BY <1>10, <1>11, <1>12, <1>13, <1>14 DEF CreditInv

LEMMA AuthorizeKeeps ==
  ASSUME IInv, NEW r \in Requests, AuthorizeIntent(r)
  PROVE  IInv'
<1> PICK j : j = on(r)
  OBVIOUS
<1>1. /\ j \in Intents /\ rowLock[j] = r /\ project = r
      /\ intent[j].state = "paid" /\ ledger[j].jti = NoJti
      /\ intent' \in [Intents -> IntentRow]
      /\ intent'[j].state = "authorized" /\ intent'[j].hash = intent[j].hash
      /\ intent'[j].binding = intent[j].binding
      /\ \A k \in Intents \ {j} : intent'[k] = intent[k]
      /\ ledger' \in [Intents -> LedgerRow]
      /\ ledger'[j].jti \in Jtis
      /\ \A k \in Intents \ {j} : ledger'[k] = ledger[k]
  BY AuthorizeRows
<1>2. grant' \in [Grants -> GrantRow] /\ CreditInv'
  BY AuthorizeCredit
<1>3. PICK x \in Jtis :
        /\ ledger'[j].jti = x
        /\ answer' = [answer EXCEPT ![r] = [NoAnswer EXCEPT !.type = "receipt", !.jti = x]]
  <2>1. PICK x \in Jtis :
          /\ ledger' = [ledger EXCEPT ![j] =
               [jti |-> x, source |-> seen[r].source, at |-> seen[r].at]]
          /\ answer' = [answer EXCEPT ![r] = [NoAnswer EXCEPT !.type = "receipt", !.jti = x]]
    BY DEF AuthorizeIntent
  <2>2. ledger'[j].jti = x
    BY <1>1, <2>1 DEF IInv, TypeOK
  <2> QED
    BY <2>1, <2>2
<1>4. /\ rowLock' = [rowLock EXCEPT ![j] = NoRequest] /\ project' = NoRequest
      /\ pc' = [pc EXCEPT ![r] = "reply"]
      /\ UNCHANGED <<invoice, now, asked, quoted, told, job, seen>>
  BY DEF AuthorizeIntent, outside, history
<1> PICK a : a = [NoAnswer EXCEPT !.type = "receipt", !.jti = x]
  OBVIOUS
<1>5. a \in Response /\ a.type = "receipt" /\ a.jti = x
  BY AnswerRows
<1>6. Mine(r) /\ pc'[r] = "reply" /\ answer'[r] = a /\ on(r)' = j
  BY <1>3, <1>4, <1>5, AnswerIsMine DEF IInv
<1>7. LocksKeep(r)
  BY <1>1, <1>4 DEF IInv, TypeOK, LocksKeep
<1>8. TypeOK'
  BY <1>1, <1>2, <1>4, <1>6, <1>7 DEF IInv, TypeOK, Mine, LocksKeep
<1>9. RowsKeep(r)
  BY <1>1 DEF RowsKeep
<1>10. InvoicesKeep /\ CreditKeeps(r)
  BY <1>1, <1>4 DEF InvoicesKeep, CreditKeeps
<1>11. RequestInv(r)'
  <2>1. answer'[r].type = "receipt" /\ answer'[r].jti = ledger'[j].jti /\ x # NoJti
    BY <1>3, <1>5, <1>6, Assumptions
  <2>2. AnswerInv(r)'
    BY <1>3, <1>6, <2>1 DEF AnswerInv
  <2> QED
    BY <1>1, <1>6, <2>2 DEF RequestInv, QuoteSteps
<1>12. \A q \in Requests : RequestInv(q)'
  BY <1>6, <1>7, <1>9, <1>10, <1>11, OthersKeep
<1>13. ASSUME NEW k \in Intents PROVE RowInv(k)'
  <2>1. RowInv(k)
    BY DEF IInv
  <2>2. CASE k = j
    BY <1>1, <1>4, <2>1, <2>2, Assumptions DEF RowInv, IsPaid, Attached
  <2>3. CASE k # j
    BY <1>1, <1>4, <2>1, <2>3 DEF RowInv, IsPaid
  <2> QED
    BY <2>2, <2>3
<1>14. OneIntentPerPayment' /\ InvoiceInv'
  BY <1>1, <1>4 DEF IInv, OneIntentPerPayment, InvoiceInv
<1> QED
  BY <1>2, <1>8, <1>12, <1>13, <1>14 DEF IInv

LEMMA ReplyKeeps ==
  ASSUME IInv, NEW r \in Requests, Reply(r)
  PROVE  IInv'
<1>1. /\ on(r) \in Intents /\ AnswerInv(r) /\ answer[r] \in Response /\ job[r] \in Job
      /\ Finish(r) /\ UNCHANGED <<intent, ledger, grant, invoice, now, asked>>
  BY DEF IInv, TypeOK, RequestInv, Reply, rows, outside
<1> PICK j \in Intents : j = on(r)
  BY <1>1
<1>2. Mine(r) /\ LocksKeep(r) /\ RequestInv(r)'
  BY <1>1, FinishIsMine DEF IInv
<1>3. quoted' \in [Intents -> SUBSET (Hashes \X Bindings)]
      /\ \A k \in Intents : quoted'[k] = quoted[k] \/
           (/\ k = j /\ answer[r].type = "quote"
            /\ quoted'[k] = quoted[k] \cup {<<answer[r].hash, job[r].binding>>})
  <2>1. quoted \in [Intents -> SUBSET (Hashes \X Bindings)]
    BY DEF IInv, TypeOK
  <2>2. CASE answer[r].type = "quote"
    <3>1. quoted' = [quoted EXCEPT ![j] = quoted[j] \cup {<<answer[r].hash, job[r].binding>>}]
      BY <2>2 DEF Reply
    <3>2. answer[r].hash \in Hashes
      BY <1>1, <2>2 DEF AnswerInv, Response
    <3>3. job[r].binding \in Bindings
      BY <1>1, <2>2 DEF AnswerInv, IInv, RowInv
    <3> QED
      BY <2>1, <2>2, <3>1, <3>2, <3>3
  <2>3. CASE answer[r].type # "quote"
    BY <2>1, <2>3 DEF Reply
  <2> QED
    BY <2>2, <2>3
<1>4. told' \in [Intents -> SUBSET Jtis]
      /\ \A k \in Intents : told'[k] = told[k] \/
           (/\ k = j /\ answer[r].type = "receipt"
            /\ told'[k] = told[k] \cup {answer[r].jti})
  <2>1. told \in [Intents -> SUBSET Jtis]
    BY DEF IInv, TypeOK
  <2>2. answer[r].type = "receipt" => answer[r].jti \in Jtis
    BY <1>1 DEF AnswerInv, Response
  <2> QED
    BY <2>1, <2>2 DEF Reply
<1>5. TypeOK'
  BY <1>1, <1>2, <1>3, <1>4 DEF IInv, TypeOK, Mine, LocksKeep
<1>6. ASSUME NEW k \in Intents PROVE RowInv(k)'
  <2>1. RowInv(k)
    BY DEF IInv
  <2>2. /\ quoted'[k] \subseteq {<<intent[k].hash, intent[k].binding>>}
        /\ quoted'[k] # {} => intent[k].hash # NoHash
    BY <1>1, <1>3, <2>1 DEF RowInv, AnswerInv
  <2>3. told'[k] \subseteq {ledger[k].jti} \ {NoJti}
    BY <1>1, <1>4, <2>1 DEF RowInv, AnswerInv
  <2> QED
    BY <1>1, <2>1, <2>2, <2>3 DEF RowInv, IsPaid
<1>7. CreditInv' /\ OneIntentPerPayment' /\ InvoiceInv'
  BY <1>1, CreditStays DEF IInv, OneIntentPerPayment, InvoiceInv
<1>8. RowsKeep(r) /\ InvoicesKeep /\ CreditKeeps(r)
  BY <1>1 DEF RowsKeep, InvoicesKeep, CreditKeeps
<1>9. \A q \in Requests : RequestInv(q)'
  BY <1>2, <1>8, OthersKeep
<1> QED
  BY <1>5, <1>6, <1>7, <1>9 DEF IInv
-----------------------------------------------------------------------------
(* The worker, the operator, the payer and the clock.                      *)
LEMMA NobodyMoves ==
  ASSUME TypeOK, UNCHANGED <<locks, local>>
  PROVE  Mine(NoRequest) /\ LocksKeep(NoRequest) /\ NoRequest \notin Requests
<1>1. UNCHANGED <<pc, job, seen, answer, locks>>
  BY DEF local
<1> QED
  BY <1>1, LocksStay, Assumptions DEF TypeOK, Mine

LEMMA ExpireKeeps ==
  ASSUME IInv, NEW j \in Intents, ExpireIntent(j)
  PROVE  IInv'
<1>1. intent[j] \in IntentRow /\ RowInv(j) /\ Free(j) /\ intent[j].state = "invoice_issued"
  BY DEF IInv, TypeOK, ExpireIntent, Due
<1> PICK row : row = Expired(intent[j])
  OBVIOUS
<1>2. /\ row \in IntentRow /\ row.state = "expired" /\ row.binding = intent[j].binding
      /\ row.hash = intent[j].hash
  BY <1>1, Names DEF Expired, IntentRow
<1>3. /\ intent' = [intent EXCEPT ![j] = row]
      /\ UNCHANGED <<ledger, grant, locks, local, outside, invoice, asked, quoted, told>>
  BY SetIntentLeaves DEF ExpireIntent, history
<1>4. intent'[j] = row
  BY <1>3 DEF IInv, TypeOK
<1>5. RowInv(j)'
  BY <1>1, <1>2, <1>3, <1>4 DEF RowInv, IsPaid, Attached
<1>6. row.hash # NoHash => Unattached(row.hash, j)
  BY <1>2 DEF IInv, OneIntentPerPayment, Unattached
<1>7. Mine(NoRequest) /\ LocksKeep(NoRequest) /\ NoRequest \notin Requests
  BY <1>3, NobodyMoves DEF IInv
<1> QED
  BY <1>1, <1>2, <1>3, <1>5, <1>6, <1>7, IntentStep DEF IInv, TypeOK

LEMMA GrantKeeps ==
  ASSUME IInv, NEW g \in Grants, AddCreditGrant(g)
  PROVE  IInv'
<1> PICK new : new = [left |-> PackSize, expires |-> now + GrantLife]
  OBVIOUS
<1>1. now + GrantLife \in Times /\ now + GrantLife # 0 /\ PackSize \in 0 .. PackSize
  BY Assumptions DEF IInv, TypeOK, Times
<1>2. new \in GrantRow /\ new.left = PackSize /\ new.expires # 0
  BY <1>1 DEF GrantRow
<1>3. /\ grant[g] = NoGrant /\ grant' = [grant EXCEPT ![g] = new]
      /\ UNCHANGED <<intent, ledger, locks, local, invoice, now, asked, quoted, told>>
  BY DEF AddCreditGrant, outside, history
<1>4. /\ grant' \in [Grants -> GrantRow] /\ grant'[g] = new
      /\ \A h \in Grants \ {g} : grant'[h] = grant[h]
  BY <1>2, <1>3 DEF IInv, TypeOK
<1>5. Mine(NoRequest) /\ LocksKeep(NoRequest) /\ NoRequest \notin Requests
  BY <1>3, NobodyMoves DEF IInv
<1>6. TypeOK'
  BY <1>3, <1>4, <1>5 DEF IInv, TypeOK, Mine, LocksKeep
<1>7. \A j \in Intents : RowInv(j)'
  BY <1>3 DEF IInv, RowInv, IsPaid
<1>8. CreditInv'
  <2>1. /\ \A m : FreeUsed(m)' = FreeUsed(m)
        /\ \A h : SpentOf(h)' = SpentOf(h)
    BY <1>3, UsageKeeps
  <2>2. SpentOf(g) = {} /\ NoGrant.expires = 0
    BY <1>3 DEF IInv, CreditInv, NoGrant
  <2>3. Cardinality(SpentOf(g)) = 0
    BY <2>2, FS_EmptySet
  <2>4. FreeFirst'
    BY <1>3, <2>1 DEF IInv, CreditInv, FreeFirst, Month
  <2>7. ChargedInTime'
    <3>1. \A j \in Intents : ledger[j].source # g
      BY <2>2 DEF SpentOf
    <3> QED
      BY <1>3, <1>4, <3>1 DEF IInv, CreditInv, ChargedInTime
  <2>5. ASSUME NEW h \in Grants
        PROVE  /\ IsFiniteSet(SpentOf(h))
               /\ grant'[h].expires = 0 => grant'[h] = NoGrant /\ SpentOf(h) = {}
               /\ grant'[h].expires # 0 =>
                    grant'[h].left + Cardinality(SpentOf(h)) = PackSize
    <3>1. CASE h = g
      BY <1>2, <1>4, <2>3, <3>1, Assumptions DEF IInv, CreditInv
    <3>2. CASE h # g
      BY <1>4, <3>2 DEF IInv, CreditInv
    <3> QED
      BY <3>1, <3>2
  <2>6. \A m : IsFiniteSet(FreeUsed(m)) /\ Cardinality(FreeUsed(m)) <= FreeLimit
    BY DEF IInv, CreditInv
  <2> QED
    BY <2>1, <2>4, <2>5, <2>6, <2>7 DEF CreditInv
<1>9. OneIntentPerPayment' /\ InvoiceInv'
  BY <1>3 DEF IInv, OneIntentPerPayment, InvoiceInv
<1>10. RowsKeep(NoRequest) /\ InvoicesKeep
  BY <1>3 DEF RowsKeep, InvoicesKeep
<1>11. CreditKeeps(NoRequest)
  BY <1>3, <1>4 DEF CreditKeeps, NoGrant
<1>12. \A q \in Requests : RequestInv(q)'
  BY <1>5, <1>10, <1>11, OthersKeep
<1> QED
  BY <1>6, <1>7, <1>8, <1>9, <1>12 DEF IInv

(* What is paid was quoted, and what was quoted is attached.               *)
LEMMA PayIsAttached ==
  ASSUME IInv, NEW h \in Hashes, Pay(h)
  PROVE  /\ invoice[h].issued /\ ~invoice[h].paid /\ UNCHANGED <<rows, locks, now, local, history>>
         /\ invoice' \in [Hashes -> InvoiceRow]
         /\ invoice'[h].paid /\ invoice'[h].issued
         /\ \A i \in Hashes \ {h} : invoice'[i] = invoice[i]
         /\ \E j \in Intents : intent[j].hash = h
<1>1. PICK j \in Intents, b \in Bindings : <<h, b>> \in quoted[j]
  BY DEF Pay
<1>2. intent[j].hash = h /\ invoice[h].issued
  BY <1>1, Assumptions DEF IInv, RowInv
<1>3. /\ invoice \in [Hashes -> InvoiceRow] /\ invoice[h] \in InvoiceRow
      /\ invoice' = [invoice EXCEPT ![h].paid = TRUE]
  BY DEF IInv, TypeOK, Pay
<1> PICK new : new = [invoice[h] EXCEPT !.paid = TRUE]
  OBVIOUS
<1>4. new \in InvoiceRow /\ new.paid /\ (new.issued <=> invoice[h].issued)
  BY <1>3 DEF InvoiceRow
<1>5. invoice' = [invoice EXCEPT ![h] = new]
  BY <1>3
<1> QED
  BY <1>2, <1>3, <1>4, <1>5 DEF Pay

LEMMA PayKeeps ==
  ASSUME IInv, NEW h \in Hashes, Pay(h)
  PROVE  IInv'
<1>1. /\ UNCHANGED <<rows, locks, now, local, history>>
      /\ invoice' \in [Hashes -> InvoiceRow]
      /\ \A i \in Hashes : invoice[i].issued => invoice'[i].issued
                             /\ (invoice[i].paid => invoice'[i].paid)
      /\ \A i \in Hashes : invoice'[i].paid => invoice'[i].issued
  BY PayIsAttached DEF IInv, InvoiceInv
<1>2. Mine(NoRequest) /\ LocksKeep(NoRequest) /\ NoRequest \notin Requests
  BY <1>1, NobodyMoves DEF IInv
<1> QED
  BY <1>1, <1>2, ProviderKeeps DEF IInv, TypeOK

LEMMA TickKeeps ==
  ASSUME IInv, Tick
  PROVE  IInv'
<1>1. /\ UNCHANGED <<rows, locks, invoice, local, history>> /\ now' \in 0 .. MaxTime
  BY Assumptions DEF IInv, TypeOK, Tick
<1>2. Mine(NoRequest) /\ LocksKeep(NoRequest) /\ NoRequest \notin Requests
  BY <1>1, NobodyMoves DEF IInv
<1>3. /\ invoice' \in [Hashes -> InvoiceRow]
      /\ \A i \in Hashes : invoice[i].issued => invoice'[i].issued
                             /\ (invoice[i].paid => invoice'[i].paid)
      /\ \A i \in Hashes : invoice'[i].paid => invoice'[i].issued
  BY <1>1 DEF IInv, TypeOK, InvoiceInv
<1> QED
  BY <1>1, <1>2, <1>3, ProviderKeeps

LEMMA Inductive ==
  ASSUME IInv, [Next]_vars
  PROVE  IInv'
<1>1. ASSUME NEW r \in Requests, Arrive(r) PROVE IInv'
  BY <1>1, ArriveKeeps
<1>2. ASSUME NEW r \in Requests, Serve(r) PROVE IInv'
  BY <1>2, CreateIntentKeeps, ClaimInvoiceKeeps, CreateInvoiceKeeps, MarkUncertainKeeps,
     AttachInvoiceKeeps, WaitForInvoiceKeeps, ProveKeeps, PollKeeps, VerifyKeeps,
     MarkPaidKeeps, RecheckKeeps, LockIntentKeeps, ChooseSourceKeeps, AuthorizeKeeps
     DEF Serve
<1>3. ASSUME NEW r \in Requests, Reply(r) PROVE IInv'
  BY <1>3, ReplyKeeps
<1>4. ASSUME NEW r \in Requests, AmbiguousFailure(r) PROVE IInv'
  <2>1. /\ on(r) \in Intents /\ intent[on(r)].state # "absent"
        /\ intent[on(r)].binding = job[r].binding
    BY <1>4 DEF IInv, RequestInv, AmbiguousFailure, QuoteSteps
  <2> QED
    BY <1>4, <2>1, MoveKeeps DEF AmbiguousFailure, PlainSteps
<1>5. ASSUME NEW r \in Requests, ProviderRefused(r) \/ Fail(r) PROVE IInv'
  BY <1>5, ThrowKeeps DEF ProviderRefused, Fail
<1>6. CASE Environment
  BY <1>6, ExpireKeeps, GrantKeeps, PayKeeps, TickKeeps DEF Environment
<1>7. CASE UNCHANGED vars
  <2>1. UNCHANGED <<rows, locks, outside, local, history>>
    BY <1>7 DEF vars
  <2> QED
    BY <2>1, NobodyMoves, QuietStep DEF IInv
<1> QED
  BY <1>1, <1>2, <1>3, <1>4, <1>5, <1>6, <1>7 DEF Next, Progress

LEMMA Invariant == Spec => []IInv
<1>1. Init => IInv
  BY InitIInv
<1>2. IInv /\ [Next]_vars => IInv'
  BY Inductive
<1> QED
  BY <1>1, <1>2, PTL DEF Spec

(* Whatever requests, crashes, the provider and the clock do, every        *)
(* variable has its type.                                                  *)
THEOREM TypesAreKept == Spec => []TypeOK
<1>1. IInv => TypeOK
  BY DEF IInv
<1> QED
  BY <1>1, Invariant, PTL

(* No payment unlocks two intents, even if the provider repeats invoices.  *)
THEOREM PaymentUnlocksOne == Spec => []OneIntentPerPayment
<1>1. IInv => OneIntentPerPayment
  BY DEF IInv
<1> QED
  BY <1>1, Invariant, PTL

(* A caller who proves and polls often gets one receipt.                   *)
THEOREM ReceiptStaysTheSame == Spec => []ReceiptIsStable
<1>1. IInv => ReceiptIsStable
  BY DEF IInv, RowInv, ReceiptIsStable
<1> QED
  BY <1>1, Invariant, PTL

(* The provider is asked at most once for the invoice of an intent.        *)
THEOREM ProviderIsAskedOnce == Spec => []ProviderAskedOnce
<1>1. IInv => ProviderAskedOnce
  BY DEF IInv, RowInv, ProviderAskedOnce
<1> QED
  BY <1>1, Invariant, PTL

(* Every quote names the invoice and the request of its intent.            *)
THEOREM QuoteAlwaysBinds == Spec => []QuoteIsBinding
<1>1. IInv => QuoteIsBinding
  BY DEF IInv, RowInv, QuoteIsBinding
<1> QED
  BY <1>1, Invariant, PTL

(* Concurrent authorizations overdraw neither a month nor a pack.          *)
THEOREM NothingEverOverdrawn == Spec => []NothingIsOverdrawn
<1>1. IInv => NothingIsOverdrawn
  <2> SUFFICES ASSUME IInv PROVE NothingIsOverdrawn
    OBVIOUS
  <2>1. \A g \in Grants : grant[g] # NoGrant =>
          grant[g].left + Cardinality(SpentOf(g)) = PackSize
    BY DEF IInv, CreditInv
  <2> QED
    BY <2>1 DEF IInv, CreditInv, NothingIsOverdrawn, SpentOf
<1> QED
  BY <1>1, Invariant, PTL

(* No prepaid credit is spent in a month that has a free one left.         *)
THEOREM FreeAlwaysFirst == Spec => []FreeFirst
<1>1. IInv => FreeFirst
  BY DEF IInv, CreditInv
<1> QED
  BY <1>1, Invariant, PTL

(* An authorization carries the date at which its proof was checked; one   *)
(* charged to a pack is dated before the pack expires, however long its    *)
(* transaction waited for the intent and for the project.                  *)
THEOREM PacksChargedInTime == Spec => []ChargedInTime
<1>1. IInv => ChargedInTime
  BY DEF IInv, CreditInv
<1> QED
  BY <1>1, Invariant, PTL
-----------------------------------------------------------------------------
(* GATE implements Vending: money in, one receipt, the same receipt again. *)
PaidIntents == {j \in Intents : IsPaid(j)}
Receipts == [j \in Intents |-> Receipt(j)]
VendingStep == [Machine!Next]_(Machine!vars)

LEMMA Stutter ==
  ASSUME UNCHANGED <<PaidIntents, Receipts, told>>
  PROVE  VendingStep
BY DEF VendingStep, Machine!vars, PaidIntents, Receipts

LEMMA StepOfIntent ==
  ASSUME NEW j \in Intents,
         Machine!Settle(j) \/ Machine!Hand(j) \/ \E x \in Jtis : Machine!Vend(j, x)
  PROVE  VendingStep
BY DEF VendingStep, Machine!Next

(* A step that the buyer cannot see.                                       *)
Silent ==
  /\ UNCHANGED <<ledger, told>>
  /\ \A j \in Intents : intent'[j].hash = intent[j].hash
  /\ \A h \in Hashes : invoice[h].issued => (invoice'[h].paid <=> invoice[h].paid)

LEMMA SilentIsStutter ==
  ASSUME IInv, Silent
  PROVE  VendingStep
<1>1. ASSUME NEW j \in Intents PROVE IsPaid(j)' <=> IsPaid(j)
  <2>1. /\ intent[j].hash \in Hashes \cup {NoHash}
        /\ intent[j].hash # NoHash => invoice[intent[j].hash].issued
    BY DEF IInv, TypeOK, IntentRow, RowInv
  <2> QED
    BY <2>1 DEF Silent, IsPaid
<1>2. UNCHANGED <<PaidIntents, Receipts, told>>
  BY <1>1 DEF Silent, PaidIntents, Receipts, Receipt
<1> QED
  BY <1>2, Stutter

LEMMA UntouchedIsStutter ==
  ASSUME IInv, UNCHANGED <<rows, invoice, told>>
  PROVE  VendingStep
BY SilentIsStutter DEF Silent, rows

LEMMA RewrittenIsStutter ==
  ASSUME IInv, NEW j \in Intents, NEW row, row.hash = intent[j].hash,
         intent' = [intent EXCEPT ![j] = row], UNCHANGED <<ledger, invoice, told>>
  PROVE  VendingStep
<1>1. \A k \in Intents : intent'[k].hash = intent[k].hash
  BY DEF IInv, TypeOK
<1> QED
  BY <1>1, SilentIsStutter DEF Silent

LEMMA QuoteVends ==
  ASSUME IInv, NEW r \in Requests,
         CreateIntent(r) \/ ClaimInvoice(r) \/ CreateInvoice(r) \/ MarkUncertain(r)
  PROVE  VendingStep
<1> USE DEF outside, history
<1>1. on(r) \in Intents /\ RowInv(on(r)) /\ intent[on(r)] \in IntentRow
  BY DEF IInv, TypeOK, RequestInv, CreateIntent, ClaimInvoice, CreateInvoice, MarkUncertain
<1> PICK j \in Intents : j = on(r)
  BY <1>1
<1>2. CASE UNCHANGED <<rows, invoice, told>>
  BY <1>2, UntouchedIsStutter
<1>3. CASE CreateIntent(r)
  <2>1. CASE intent[j].state = "absent" /\ SetIntent(j, NewIntent(job[r].binding))
                /\ UNCHANGED history
    <3>1. intent[j].hash = NoHash
      BY <1>1, <2>1 DEF RowInv, Attached
    <3> PICK row : row = NewIntent(job[r].binding)
      OBVIOUS
    <3>2. row.hash = NoHash
      BY DEF NewIntent, NoIntentRow
    <3> QED
      BY <2>1, <3>1, <3>2, RewrittenIsStutter DEF SetIntent
  <2>2. CASE UNCHANGED <<rows, invoice, told>>
    BY <2>2, <1>2
  <2> QED
    BY <1>3, <2>1, <2>2 DEF CreateIntent, QuoteAnswer, Answer, Move, Throw
<1>4. CASE ClaimInvoice(r)
  <2>1. CASE SetIntent(j, Issuing(intent[j])) /\ UNCHANGED <<quoted, told>>
    <3> PICK row : row = Issuing(intent[j])
      OBVIOUS
    <3>1. row.hash = intent[j].hash
      BY <1>1 DEF Issuing, IntentRow
    <3> QED
      BY <2>1, <3>1, RewrittenIsStutter DEF SetIntent
  <2>2. CASE UNCHANGED <<rows, invoice, told>>
    BY <2>2, <1>2
  <2> QED
    BY <1>4, <2>1, <2>2 DEF ClaimInvoice, Move
<1>5. CASE CreateInvoice(r)
  <2>1. /\ UNCHANGED <<rows, told>>
        /\ \E h \in Hashes :
             \/ UNCHANGED invoice
             \/ /\ ~invoice[h].issued
                /\ \E url \in BOOLEAN :
                     invoice' = [invoice EXCEPT ![h] =
                       [issued |-> TRUE, expires |-> now + Lifetime,
                        url |-> url, paid |-> FALSE]]
    BY <1>5 DEF CreateInvoice
  <2>2. \A h \in Hashes : invoice[h].issued => invoice'[h] = invoice[h]
    BY <2>1 DEF IInv, TypeOK
  <2> QED
    BY <2>1, <2>2, SilentIsStutter DEF Silent, rows
<1>6. CASE MarkUncertain(r)
  <2> PICK row : row = IF intent[j].state = "invoice_issuing" THEN Uncertain(intent[j])
                                                              ELSE intent[j]
    OBVIOUS
  <2>1. row.hash = intent[j].hash
    BY <1>1 DEF Uncertain, IntentRow
  <2>2. intent' = [intent EXCEPT ![j] = row] /\ UNCHANGED <<ledger, invoice, told>>
    BY <1>6 DEF MarkUncertain
  <2> QED
    BY <2>1, <2>2, RewrittenIsStutter
<1> QED
  BY <1>3, <1>4, <1>5, <1>6

(* An invoice may be paid before it is attached, or afterwards.            *)
LEMMA AttachVends ==
  ASSUME IInv, NEW r \in Requests, AttachInvoice(r)
  PROVE  VendingStep
<1>1. on(r) \in Intents /\ RowInv(on(r)) /\ seen[r].hash \in Hashes /\ intent[on(r)] \in IntentRow
  BY DEF IInv, TypeOK, RequestInv, AttachInvoice
<1> PICK j \in Intents : j = on(r)
  BY <1>1
<1> PICK h \in Hashes : h = seen[r].hash
  BY <1>1
<1>2. CASE UNCHANGED <<rows, outside, history>>
  BY <1>2, UntouchedIsStutter DEF outside, history
<1>3. CASE /\ intent[j].state = "invoice_issuing"
           /\ intent' = [intent EXCEPT ![j] = Issued(intent[j], h)]
           /\ UNCHANGED <<ledger, outside, history>>
  <2> PICK row : row = Issued(intent[j], h)
    OBVIOUS
  <2>1. row.hash = h /\ intent[j].hash = NoHash /\ h # NoHash
    BY <1>1, <1>3, Assumptions DEF Issued, IntentRow, RowInv, Attached
  <2>2. /\ intent'[j] = row /\ \A k \in Intents \ {j} : intent'[k] = intent[k]
        /\ UNCHANGED <<ledger, invoice, told>>
    BY <1>3 DEF IInv, TypeOK, outside, history
  <2>3. /\ ~IsPaid(j) /\ (IsPaid(j)' <=> invoice[h].paid)
        /\ \A k \in Intents \ {j} : IsPaid(k)' <=> IsPaid(k)
    BY <2>1, <2>2 DEF IsPaid
  <2>4. UNCHANGED <<Receipts, told>>
    BY <2>2 DEF Receipts, Receipt
  <2>5. CASE invoice[h].paid
    <3>1. j \notin PaidIntents /\ PaidIntents' = PaidIntents \cup {j}
      BY <2>3, <2>5 DEF PaidIntents
    <3>2. Machine!Settle(j)
      BY <2>4, <3>1 DEF Machine!Settle, PaidIntents, Receipts
    <3> QED
      BY <3>2, StepOfIntent
  <2>6. CASE ~invoice[h].paid
    <3>1. PaidIntents' = PaidIntents
      BY <2>3, <2>6 DEF PaidIntents
    <3> QED
      BY <2>4, <3>1, Stutter
  <2> QED
    BY <2>5, <2>6
<1> QED
  BY <1>2, <1>3 DEF AttachInvoice, Throw

LEMMA SettlementVends ==
  ASSUME IInv, NEW r \in Requests,
         \/ WaitForInvoice(r) \/ GetIntentToProve(r) \/ GetIntentToPoll(r)
         \/ VerifyInvoice(r) \/ MarkPaid(r) \/ RecheckPaid(r) \/ LockIntent(r)
         \/ ChooseSource(r)
  PROVE  VendingStep
<1>1. CASE MarkPaid(r)
  <2>1. on(r) \in Intents /\ intent[on(r)] \in IntentRow
    BY <1>1 DEF IInv, TypeOK, RequestInv, MarkPaid
  <2> PICK j \in Intents : j = on(r)
    BY <2>1
  <2>2. CASE Move(r, "recheckPaid")
    BY <2>2, UntouchedIsStutter DEF Move, outside, history
  <2>3. CASE SetIntent(j, MarkedPaid(intent[j], seen[r].at)) /\ UNCHANGED history
    <3> PICK row : row = MarkedPaid(intent[j], seen[r].at)
      OBVIOUS
    <3>1. row.hash = intent[j].hash
      BY <2>1 DEF MarkedPaid, IntentRow
    <3> QED
      BY <2>3, <3>1, RewrittenIsStutter DEF SetIntent, outside, history
  <2> QED
    BY <1>1, <2>2, <2>3 DEF MarkPaid
<1>2. CASE UNCHANGED <<rows, outside, history>>
  BY <1>2, UntouchedIsStutter DEF outside, history
<1> QED
  BY <1>1, <1>2 DEF WaitForInvoice, GetIntentToProve, GetIntentToPoll, VerifyInvoice,
     RecheckPaid, LockIntent, ChooseSource, QuoteAnswer, ReceiptAnswer, Unsettled, Error,
     Answer, Settle, Move, Throw

LEMMA AuthorizeVends ==
  ASSUME IInv, NEW r \in Requests, AuthorizeIntent(r)
  PROVE  VendingStep
<1> PICK j : j = on(r)
  OBVIOUS
<1>1. /\ j \in Intents /\ intent[j].state = "paid" /\ ledger[j].jti = NoJti
      /\ intent'[j].hash = intent[j].hash
      /\ \A k \in Intents \ {j} : intent'[k] = intent[k] /\ ledger'[k] = ledger[k]
      /\ ledger'[j].jti \in Jtis
      /\ \A k \in Intents \ {j} : ledger[k].jti # ledger'[j].jti
  BY AuthorizeRows
<1>0. UNCHANGED <<invoice, told>>
  BY DEF AuthorizeIntent, outside, history
<1>2. IsPaid(j)
  BY <1>1 DEF IInv, RowInv
<1>3. PaidIntents' = PaidIntents /\ j \in PaidIntents
  <2>1. \A k \in Intents : IsPaid(k)' <=> IsPaid(k)
    BY <1>0, <1>1 DEF IsPaid
  <2> QED
    BY <1>1, <1>2, <2>1 DEF PaidIntents
<1> PICK x \in Jtis : x = ledger'[j].jti
  BY <1>1
<1>4. Receipts' = [Receipts EXCEPT ![j] = x]
  BY <1>1 DEF Receipts, Receipt
<1>5. /\ Receipts[j] = NoJti /\ \A k \in Intents : Receipts[k] # x
  BY <1>1, Assumptions DEF Receipts, Receipt
<1>6. Machine!Vend(j, x)
  BY <1>0, <1>1, <1>3, <1>4, <1>5 DEF Machine!Vend, PaidIntents, Receipts
<1> QED
  BY <1>1, <1>6, StepOfIntent

LEMMA ReplyVends ==
  ASSUME IInv, NEW r \in Requests, Reply(r)
  PROVE  VendingStep
<1>1. /\ on(r) \in Intents /\ AnswerInv(r) /\ UNCHANGED <<rows, invoice>>
      /\ RowInv(on(r)) /\ told \in [Intents -> SUBSET Jtis]
  BY DEF IInv, TypeOK, RequestInv, Reply, outside
<1> PICK j \in Intents : j = on(r)
  BY <1>1
<1>2. UNCHANGED <<PaidIntents, Receipts>>
  BY <1>1 DEF PaidIntents, Receipts, Receipt, IsPaid, rows
<1>3. CASE answer[r].type = "receipt"
  <2>1. answer[r].jti # NoJti /\ answer[r].jti = Receipts[j]
    BY <1>1, <1>3 DEF AnswerInv, Receipts, Receipt
  <2>2. told[j] \subseteq {Receipts[j]}
    BY <1>1 DEF RowInv, Receipts, Receipt
  <2>3. told' = [told EXCEPT ![j] = told[j] \cup {answer[r].jti}]
    BY <1>3 DEF Reply
  <2>4. told' = [told EXCEPT ![j] = {Receipts[j]}]
    BY <2>1, <2>2, <2>3
  <2>5. Machine!Hand(j)
    BY <1>2, <2>1, <2>4 DEF Machine!Hand, PaidIntents, Receipts
  <2> QED
    BY <2>5, StepOfIntent
<1>4. CASE answer[r].type # "receipt"
  BY <1>2, <1>4, Stutter DEF Reply
<1> QED
  BY <1>3, <1>4

LEMMA PayVends ==
  ASSUME IInv, NEW h \in Hashes, Pay(h)
  PROVE  VendingStep
<1>1. /\ ~invoice[h].paid /\ UNCHANGED <<rows, history>> /\ invoice'[h].paid
      /\ \A i \in Hashes \ {h} : invoice'[i] = invoice[i]
  BY PayIsAttached
<1>2. PICK j \in Intents : intent[j].hash = h
  BY PayIsAttached
<1>3. \A k \in Intents : intent[k].hash \in Hashes \cup {NoHash}
  BY DEF IInv, TypeOK, IntentRow
<1>4. \A k \in Intents \ {j} : intent[k].hash # h
  BY <1>2, Assumptions DEF IInv, OneIntentPerPayment
<1>5. ~IsPaid(j) /\ IsPaid(j)' /\ \A k \in Intents \ {j} : IsPaid(k)' <=> IsPaid(k)
  BY <1>1, <1>2, <1>3, <1>4, Assumptions DEF IsPaid, rows
<1>6. j \notin PaidIntents /\ PaidIntents' = PaidIntents \cup {j}
  BY <1>5 DEF PaidIntents
<1>7. UNCHANGED <<Receipts, told>>
  BY <1>1 DEF Receipts, Receipt, rows, history
<1>8. Machine!Settle(j)
  BY <1>6, <1>7 DEF Machine!Settle, PaidIntents, Receipts
<1> QED
  BY <1>8, StepOfIntent

LEMMA StepVends ==
  ASSUME IInv, [Next]_vars
  PROVE  VendingStep
<1>1. CASE UNCHANGED <<rows, invoice, told>>
  BY <1>1, UntouchedIsStutter
<1>2. ASSUME NEW r \in Requests,
             Arrive(r) \/ AmbiguousFailure(r) \/ ProviderRefused(r) \/ Fail(r)
      PROVE  VendingStep
  BY <1>1, <1>2 DEF Arrive, StartQuote, StartProve, StartPoll, Start, AmbiguousFailure,
     ProviderRefused, Fail, Throw, Move, outside, history
<1>3. ASSUME NEW r \in Requests, Progress(r) PROVE VendingStep
  BY <1>3, QuoteVends, AttachVends, SettlementVends, AuthorizeVends, ReplyVends
     DEF Progress, Serve
<1>4. ASSUME NEW j \in Intents, ExpireIntent(j) PROVE VendingStep
  <2> PICK row : row = Expired(intent[j])
    OBVIOUS
  <2>1. row.hash = intent[j].hash
    BY DEF IInv, TypeOK, Expired, IntentRow
  <2>2. intent' = [intent EXCEPT ![j] = row] /\ UNCHANGED <<ledger, invoice, told>>
    BY <1>4 DEF ExpireIntent, SetIntent, outside, history
  <2> QED
    BY <2>1, <2>2, RewrittenIsStutter
<1>5. ASSUME NEW g \in Grants, AddCreditGrant(g) PROVE VendingStep
  BY <1>5, SilentIsStutter DEF Silent, AddCreditGrant, outside, history
<1>6. ASSUME NEW h \in Hashes, Pay(h) PROVE VendingStep
  BY <1>6, PayVends
<1>7. CASE Tick
  BY <1>1, <1>7 DEF Tick, history
<1>8. CASE UNCHANGED vars
  BY <1>1, <1>8 DEF vars, outside, history
<1> QED
  BY <1>2, <1>3, <1>4, <1>5, <1>6, <1>7, <1>8 DEF Next, Environment

(* GATE takes the money first, gives one receipt for it, and the same      *)
(* receipt to whoever asks again.                                          *)
THEOREM GateImplementsVending == Spec => VendsLikeTheMachine
<1>1. Init => Machine!Init
  BY DEF Init, Machine!Init, IsPaid, Receipt, NoIntentRow, NotAuthorized
<1>2. IInv /\ [Next]_vars => [Machine!Next]_(Machine!vars)
  BY StepVends DEF VendingStep
<1> QED
  BY <1>1, <1>2, Invariant, PTL DEF Spec, VendsLikeTheMachine, Machine!Spec
-----------------------------------------------------------------------------
(* A pack of GATE is metered as the other capabilities are: it is charged  *)
(* one credit at a time, for as many as it was sold with, and a credit     *)
(* never comes back.  Its row knows no end; see PacksChargedInTime.        *)
Pack(g) == INSTANCE Metered WITH
  Limit <- PackSize, used <- Cardinality(SpentOf(g)),
  spent <- grant[g].expires # 0 /\ grant[g].left = 0, ended <- FALSE

IsUntouched(g) == UNCHANGED <<grant[g], SpentOf(g)>>
IsAdded(g) ==
  /\ grant[g].expires = 0 /\ grant'[g].left = PackSize /\ UNCHANGED SpentOf(g)
IsCharged(g) ==
  /\ grant[g].left > 0 /\ grant[g].expires # 0 /\ grant'[g].expires # 0
  /\ Cardinality(SpentOf(g))' = Cardinality(SpentOf(g)) + 1

LEMMA AuthorizeCharges ==
  ASSUME IInv, NEW r \in Requests, AuthorizeIntent(r), NEW g \in Grants
  PROVE  IsUntouched(g) \/ IsCharged(g)
<1> PICK j : j = on(r)
  OBVIOUS
<1>1. /\ j \in Intents /\ ledger[j].source = "none" /\ SourceInv(r)
      /\ ledger'[j].source = seen[r].source
      /\ \A k \in Intents \ {j} : ledger'[k] = ledger[k]
  BY AuthorizeRows DEF IInv, RowInv
<1>2. grant \in [Grants -> GrantRow]
  BY DEF IInv, TypeOK
<1>3. grant' = IF seen[r].source \in Grants
               THEN [grant EXCEPT ![seen[r].source].left = @ - 1] ELSE grant
  BY DEF AuthorizeIntent
<1>4. CASE g # seen[r].source
  <2>1. SpentOf(g)' = SpentOf(g)
    BY <1>1, <1>4, Assumptions DEF SpentOf
  <2>2. grant'[g] = grant[g]
    BY <1>2, <1>3, <1>4
  <2> QED
    BY <2>1, <2>2 DEF IsUntouched
<1>5. CASE g = seen[r].source
  <2>1. SpentOf(g)' = SpentOf(g) \cup {j} /\ j \notin SpentOf(g)
    BY <1>1, <1>5, Assumptions DEF SpentOf
  <2>2. IsFiniteSet(SpentOf(g))
    BY DEF IInv, CreditInv
  <2>3. Cardinality(SpentOf(g) \cup {j}) = Cardinality(SpentOf(g)) + 1
    BY <2>1, <2>2, FS_AddElement
  <2>4. Cardinality(SpentOf(g))' = Cardinality(SpentOf(g)) + 1
    BY <2>1, <2>3
  <2>5. grant[g].left > 0
    BY <1>1, <1>5, Assumptions DEF SourceInv
  <2>6. grant[g].expires # 0
    <3>1. NoGrant.left = 0
      BY DEF NoGrant
    <3>2. grant[g].expires = 0 => grant[g] = NoGrant
      BY DEF IInv, CreditInv
    <3> QED
      BY <2>5, <3>1, <3>2
  <2>7. grant'[g].expires = grant[g].expires
    BY <1>2, <1>3, <1>5 DEF GrantRow
  <2> QED
    BY <2>4, <2>5, <2>6, <2>7 DEF IsCharged
<1> QED
  BY <1>4, <1>5

LEMMA StepOfPack ==
  ASSUME IInv, [Next]_vars, NEW g \in Grants
  PROVE  IsUntouched(g) \/ IsAdded(g) \/ IsCharged(g)
<1>1. CASE UNCHANGED <<ledger, grant>>
  BY <1>1, UsageKeeps DEF IsUntouched
<1>2. ASSUME NEW r \in Requests,
             Arrive(r) \/ AmbiguousFailure(r) \/ ProviderRefused(r) \/ Fail(r) \/ Reply(r)
      PROVE  UNCHANGED <<ledger, grant>>
  BY <1>2 DEF Arrive, StartQuote, StartProve, StartPoll, Start, AmbiguousFailure,
     ProviderRefused, Fail, Throw, Move, Reply, rows
<1>3. ASSUME NEW r \in Requests, Serve(r), ~AuthorizeIntent(r)
      PROVE  UNCHANGED <<ledger, grant>>
  BY <1>3 DEF Serve, CreateIntent, ClaimInvoice, CreateInvoice, MarkUncertain,
     AttachInvoice, WaitForInvoice, GetIntentToProve, GetIntentToPoll, VerifyInvoice,
     MarkPaid, RecheckPaid, LockIntent, ChooseSource, SetIntent, QuoteAnswer,
     ReceiptAnswer, Unsettled, Error, Answer, Settle, Throw, Move, rows
<1>4. ASSUME NEW j \in Intents, ExpireIntent(j) PROVE UNCHANGED <<ledger, grant>>
  BY <1>4 DEF ExpireIntent, SetIntent
<1>5. ASSUME NEW h \in Grants, AddCreditGrant(h)
      PROVE  IsUntouched(g) \/ IsAdded(g)
  <2>1. /\ grant \in [Grants -> GrantRow] /\ grant[h] = NoGrant
        /\ grant' = [grant EXCEPT ![h] = [left |-> PackSize, expires |-> now + GrantLife]]
        /\ SpentOf(g)' = SpentOf(g)
    BY <1>5, UsageKeeps DEF AddCreditGrant, IInv, TypeOK
  <2>2. CASE h # g
    BY <2>1, <2>2 DEF IsUntouched
  <2>3. CASE h = g
    BY <2>1, <2>3 DEF IsAdded, NoGrant
  <2> QED
    BY <2>2, <2>3
<1>6. ASSUME NEW h \in Hashes, Pay(h) PROVE UNCHANGED <<ledger, grant>>
  BY <1>6 DEF Pay, rows
<1>7. CASE Tick \/ UNCHANGED vars
  BY <1>1, <1>7 DEF Tick, rows, vars
<1> QED
  BY <1>1, <1>2, <1>3, <1>4, <1>5, <1>6, <1>7, AuthorizeCharges
     DEF Next, Progress, Environment

LEMMA PackStepIsMetered ==
  ASSUME IInv, IInv', NEW g \in Grants, IsUntouched(g) \/ IsAdded(g) \/ IsCharged(g)
  PROVE  [Pack(g)!Next]_(Pack(g)!vars)
<1> USE DEF Pack!vars, Pack!Next
<1>1. CASE IsUntouched(g)
  BY <1>1 DEF IsUntouched
<1>2. /\ Cardinality(SpentOf(g)) \in Nat /\ Cardinality(SpentOf(g))' \in Nat
      /\ grant[g].left \in Int /\ grant'[g].left \in Int
  <2>1. Cardinality(SpentOf(g)) \in Nat
    BY FS_CardinalityType DEF IInv, CreditInv
  <2>2. Cardinality(SpentOf(g)') \in Nat
    BY FS_CardinalityType DEF IInv, CreditInv
  <2>3. grant[g].left \in Int /\ grant'[g].left \in Int
    BY DEF IInv, TypeOK, GrantRow
  <2> QED
    BY <2>1, <2>2, <2>3
<1>3. CASE IsAdded(g)
  <2>1. grant'[g].left # 0 /\ UNCHANGED SpentOf(g)
    BY <1>3, Assumptions DEF IsAdded
  <2>2. (grant[g].expires # 0 /\ grant[g].left = 0)' <=>
          (grant[g].expires # 0 /\ grant[g].left = 0)
    BY <1>3, <2>1 DEF IsAdded
  <2> QED
    BY <2>1, <2>2
<1>4. CASE IsCharged(g)
  <2>1. grant[g].left + Cardinality(SpentOf(g)) = PackSize
    BY <1>4 DEF IsCharged, IInv, CreditInv
  <2>2. grant'[g].left + Cardinality(SpentOf(g))' = PackSize
    BY <1>4 DEF IsCharged, IInv, CreditInv
  <2>3. Cardinality(SpentOf(g)) < PackSize
    BY <1>2, <1>4, <2>1, Assumptions DEF IsCharged
  <2>4. grant'[g].left = 0 <=> Cardinality(SpentOf(g))' = PackSize
    BY <1>2, <2>2, Assumptions
  <2>5. (grant[g].expires # 0 /\ grant[g].left = 0)' <=> grant'[g].left = 0
    BY <1>4 DEF IsCharged
  <2>6. (grant[g].expires # 0 /\ grant[g].left = 0)'
          \in (IF Cardinality(SpentOf(g))' = PackSize THEN {TRUE} ELSE BOOLEAN)
    BY <2>4, <2>5
  <2>7. grant[g].left # 0
    BY <1>2, <1>4 DEF IsCharged
  <2> QED
    BY <1>4, <2>3, <2>6, <2>7 DEF IsCharged, Pack!Use
<1> QED
  BY <1>1, <1>3, <1>4

(* For every pack that was added.                                          *)
THEOREM PackIsMetered == \A g \in Grants : Spec => Pack(g)!Spec
<1> SUFFICES ASSUME NEW g \in Grants PROVE Spec => Pack(g)!Spec
  OBVIOUS
<1>1. Init => Pack(g)!Init
  <2> SUFFICES ASSUME Init PROVE Pack(g)!Init
    OBVIOUS
  <2>1. grant[g].expires = 0 /\ SpentOf(g) = {}
    BY Assumptions DEF Init, NoGrant, NotAuthorized, SpentOf
  <2> QED
    BY <2>1, FS_EmptySet DEF Pack!Init
<1>2. IInv /\ IInv' /\ [Next]_vars => [Pack(g)!Next]_(Pack(g)!vars)
  BY StepOfPack, PackStepIsMetered
<1> QED
  BY <1>1, <1>2, Invariant, PTL DEF Spec, Pack!Spec
-----------------------------------------------------------------------------
(* GATE and its clients.                                                   *)

(* What is paid was quoted, and what was served had the receipt of the     *)
(* ledger, for its request and within its life.                            *)
PaidWasQuoted ==
  \A h \in Hashes : invoice[h].paid =>
    \E j \in Intents, b \in Bindings : <<h, b>> \in quoted[j]

ServedInv(j) ==
  \A p \in admitted[j] :
    /\ intent[j].state = "authorized"
    /\ p[1] = intent[j].binding
    /\ p[2] \in Int /\ ledger[j].at <= p[2] /\ p[2] < ledger[j].at + ReceiptLife

AdmittedOK ==
  /\ admitted \in [Intents -> SUBSET (Bindings \X (0 .. MaxTime))]
  /\ \A j \in Intents : ServedInv(j)

ClientInv == IInv /\ PaidWasQuoted /\ AdmittedOK

LEMMA InitClientInv == ClientInit => ClientInv
<1> SUFFICES ASSUME ClientInit PROVE ClientInv
  OBVIOUS
<1>1. IInv
  BY InitIInv DEF ClientInit
<1>2. PaidWasQuoted
  BY DEF ClientInit, Init, PaidWasQuoted, NotIssued
<1>3. AdmittedOK
  BY DEF ClientInit, AdmittedOK, ServedInv
<1> QED
  BY <1>1, <1>2, <1>3 DEF ClientInv

(* A credential starts the same request as a proof, and names its binding. *)
ByCredential(r) == \E j \in Intents, b \in Bindings : ProveByCredential(r, j, b)

LEMMA CredentialKeeps ==
  ASSUME IInv, NEW r \in Requests, ByCredential(r)
  PROVE  IInv' /\ UNCHANGED <<rows, outside, history>>
BY StartKeeps DEF ByCredential, ProveByCredential, Start

LEMMA ServerKeepsIInv ==
  ASSUME IInv, [ClientNext]_clientVars
  PROVE  IInv'
<1>1. CASE [Next]_vars
  BY <1>1, Inductive
<1>2. ASSUME NEW r \in Requests, ByCredential(r) PROVE IInv'
  BY <1>2, CredentialKeeps
<1>3. ASSUME NEW r \in Requests, NEW b, HandleGateResponse(r, b) PROVE IInv'
  BY <1>3, ReplyKeeps DEF HandleGateResponse
<1> QED
  BY <1>1, <1>2, <1>3
     DEF ClientNext, ServerStep, ByCredential, clientVars, Next, Progress

(* An authorized intent and its ledger row never change again.             *)
AuthorizedStays ==
  \A j \in Intents : intent[j].state = "authorized" =>
    intent'[j] = intent[j] /\ ledger'[j] = ledger[j]

LEMMA RowStays ==
  ASSUME IInv, NEW j \in Intents, NEW row, intent[j].state # "authorized",
         intent' = [intent EXCEPT ![j] = row], UNCHANGED ledger
  PROVE  AuthorizedStays
BY DEF AuthorizedStays, IInv, TypeOK

LEMMA AuthorizeStays ==
  ASSUME IInv, NEW r \in Requests, AuthorizeIntent(r)
  PROVE  AuthorizedStays
<1> PICK j : j = on(r)
  OBVIOUS
<1> QED
  BY AuthorizeRows DEF AuthorizedStays

LEMMA ServeStays ==
  ASSUME IInv, NEW r \in Requests, Serve(r)
  PROVE  AuthorizedStays
<1>0. CASE UNCHANGED <<intent, ledger>>
  BY <1>0 DEF AuthorizedStays
<1>1. pc[r] # "idle" => on(r) \in Intents
  BY DEF IInv, RequestInv
<1>2. CASE CreateIntent(r)
  BY <1>0, <1>1, <1>2, RowStays
     DEF CreateIntent, SetIntent, Throw, Move, QuoteAnswer, Answer, rows
<1>3. CASE ClaimInvoice(r)
  BY <1>0, <1>1, <1>3, RowStays DEF ClaimInvoice, Claimable, SetIntent, Move, rows
<1>4. CASE MarkUncertain(r)
  <2>1. CASE intent[on(r)].state = "invoice_issuing"
    BY <1>1, <1>4, <2>1, RowStays DEF MarkUncertain
  <2>2. CASE intent[on(r)].state # "invoice_issuing"
    BY <1>0, <1>1, <1>4, <2>2 DEF MarkUncertain, IInv, TypeOK
  <2> QED
    BY <2>1, <2>2
<1>5. CASE AttachInvoice(r)
  BY <1>0, <1>1, <1>5, RowStays DEF AttachInvoice, Throw, rows
<1>6. CASE MarkPaid(r)
  BY <1>0, <1>1, <1>6, RowStays DEF MarkPaid, Markable, SetIntent, Move, rows
<1>7. CASE CreateInvoice(r) \/ WaitForInvoice(r) \/ GetIntentToProve(r)
             \/ GetIntentToPoll(r) \/ VerifyInvoice(r)
  BY <1>0, <1>7
     DEF CreateInvoice, WaitForInvoice, GetIntentToProve, GetIntentToPoll,
         VerifyInvoice, QuoteAnswer, ReceiptAnswer, Unsettled, Error, Answer, Settle,
         Throw, Move, rows
<1>8. CASE RecheckPaid(r) \/ LockIntent(r) \/ ChooseSource(r)
  BY <1>0, <1>8
     DEF RecheckPaid, LockIntent, ChooseSource, ReceiptAnswer, Answer, Throw, Move, rows
<1> QED
  BY <1>2, <1>3, <1>4, <1>5, <1>6, <1>7, <1>8, AuthorizeStays DEF Serve

LEMMA StepStays ==
  ASSUME IInv, [ClientNext]_clientVars
  PROVE  AuthorizedStays
<1>1. CASE UNCHANGED <<intent, ledger>>
  BY <1>1 DEF AuthorizedStays
<1>2. ASSUME NEW r \in Requests,
             Arrive(r) \/ AmbiguousFailure(r) \/ ProviderRefused(r) \/ Fail(r)
      PROVE  AuthorizedStays
  BY <1>1, <1>2
     DEF Arrive, StartQuote, StartProve, StartPoll, Start, AmbiguousFailure,
         ProviderRefused, Fail, Throw, Move, rows
<1>3. ASSUME NEW r \in Requests, ByCredential(r) PROVE AuthorizedStays
  BY <1>1, <1>3, CredentialKeeps DEF rows
<1>4. ASSUME NEW j \in Intents, ExpireIntent(j) PROVE AuthorizedStays
  BY <1>4, RowStays DEF ExpireIntent, Due, SetIntent
<1>5. CASE (\E g \in Grants : AddCreditGrant(g)) \/ (\E h \in Hashes : Pay(h)) \/ Tick
  BY <1>1, <1>5 DEF AddCreditGrant, Pay, Tick, rows
<1>6. CASE UNCHANGED clientVars
  BY <1>1, <1>6 DEF clientVars, vars, rows
<1>7. ASSUME NEW r \in Requests, NEW b, HandleGateResponse(r, b) PROVE AuthorizedStays
  BY <1>1, <1>7 DEF HandleGateResponse, Reply, rows
<1> QED
  BY <1>2, <1>3, <1>4, <1>5, <1>6, <1>7, ServeStays
     DEF ClientNext, ServerStep, ByCredential, Environment

(* Quotes are never taken back, and only a quoted invoice is paid.         *)
LEMMA QuotesStay ==
  ASSUME IInv, [ClientNext]_clientVars
  PROVE  \A j \in Intents : quoted[j] \subseteq quoted'[j]
<1>1. CASE UNCHANGED quoted
  BY <1>1
<1>2. ASSUME NEW r \in Requests, Reply(r) PROVE \A j \in Intents : quoted[j] \subseteq quoted'[j]
  BY <1>2 DEF Reply, IInv, TypeOK
<1>3. ASSUME NEW r \in Requests,
             Arrive(r) \/ AmbiguousFailure(r) \/ ProviderRefused(r) \/ Fail(r)
      PROVE  UNCHANGED quoted
  BY <1>3
     DEF Arrive, StartQuote, StartProve, StartPoll, Start, AmbiguousFailure,
         ProviderRefused, Fail, Throw, Move, history
<1>4. ASSUME NEW r \in Requests, Serve(r) PROVE UNCHANGED quoted
  BY <1>4
     DEF Serve, CreateIntent, ClaimInvoice, CreateInvoice, MarkUncertain, AttachInvoice,
         WaitForInvoice, GetIntentToProve, GetIntentToPoll, VerifyInvoice, MarkPaid,
         RecheckPaid, LockIntent, ChooseSource, AuthorizeIntent, QuoteAnswer,
         ReceiptAnswer, Unsettled, Error, Answer, Settle, Throw, Move, history
<1>5. CASE Environment
  BY <1>1, <1>5 DEF Environment, ExpireIntent, AddCreditGrant, Pay, Tick, history
<1>6. ASSUME NEW r \in Requests, ByCredential(r) PROVE UNCHANGED quoted
  BY <1>6, CredentialKeeps DEF history
<1>7. CASE UNCHANGED clientVars
  BY <1>1, <1>7 DEF clientVars, vars, history
<1> QED
  BY <1>1, <1>2, <1>3, <1>4, <1>5, <1>6, <1>7
     DEF ClientNext, ServerStep, HandleGateResponse, ByCredential

(* An invoice becomes paid by a payer who was quoted it, and a new one is  *)
(* not paid.                                                               *)
LEMMA PaidStep ==
  ASSUME IInv, [ClientNext]_clientVars, NEW h \in Hashes, invoice'[h].paid
  PROVE  invoice[h].paid \/ \E j \in Intents, b \in Bindings : <<h, b>> \in quoted[j]
<1>1. CASE UNCHANGED invoice
  BY <1>1
<1>2. ASSUME NEW r \in Requests, CreateInvoice(r) PROVE invoice[h].paid
  <2>1. PICK i \in Hashes : \/ UNCHANGED invoice
                          \/ \E url \in BOOLEAN :
                               invoice' = [invoice EXCEPT ![i] =
                                 [issued |-> TRUE, expires |-> now + Lifetime,
                                  url |-> url, paid |-> FALSE]]
    BY <1>2 DEF CreateInvoice
  <2>2. CASE UNCHANGED invoice
    BY <2>2
  <2>3. CASE ~ UNCHANGED invoice
    <3>1. PICK url \in BOOLEAN : invoice' = [invoice EXCEPT ![i] =
            [issued |-> TRUE, expires |-> now + Lifetime, url |-> url, paid |-> FALSE]]
      BY <2>1, <2>3
    <3>2. h # i
      BY <3>1 DEF IInv, TypeOK
    <3> QED
      BY <3>1, <3>2 DEF IInv, TypeOK
  <2> QED
    BY <2>2, <2>3
<1>3. ASSUME NEW r \in Requests, Serve(r), ~ CreateInvoice(r) PROVE UNCHANGED invoice
  BY <1>3
     DEF Serve, CreateIntent, ClaimInvoice, MarkUncertain, AttachInvoice,
         WaitForInvoice, GetIntentToProve, GetIntentToPoll, VerifyInvoice, MarkPaid,
         RecheckPaid, LockIntent, ChooseSource, AuthorizeIntent, QuoteAnswer,
         ReceiptAnswer, Unsettled, Error, Answer, Settle, SetIntent, Throw, Move, outside
<1>4. ASSUME NEW r \in Requests,
             \/ Arrive(r) \/ AmbiguousFailure(r) \/ ProviderRefused(r) \/ Fail(r)
             \/ Reply(r)
      PROVE  UNCHANGED invoice
  BY <1>4
     DEF Arrive, StartQuote, StartProve, StartPoll, Start, AmbiguousFailure,
         ProviderRefused, Fail, Reply, Throw, Move, outside
<1>5. ASSUME NEW i \in Hashes, Pay(i)
      PROVE  invoice[h].paid \/ \E j \in Intents, b \in Bindings : <<h, b>> \in quoted[j]
  <2>1. CASE h = i
    BY <1>5, <2>1 DEF Pay
  <2>2. CASE h # i
    BY <1>5, <2>2 DEF Pay, IInv, TypeOK
  <2> QED
    BY <2>1, <2>2
<1>6. CASE (\E j \in Intents : ExpireIntent(j)) \/ (\E g \in Grants : AddCreditGrant(g)) \/ Tick
  BY <1>1, <1>6 DEF ExpireIntent, AddCreditGrant, Tick, SetIntent, outside
<1>7. ASSUME NEW r \in Requests, ByCredential(r) PROVE UNCHANGED invoice
  BY <1>7, CredentialKeeps DEF outside
<1>8. CASE UNCHANGED clientVars
  BY <1>1, <1>8 DEF clientVars, vars, outside
<1> QED
  BY <1>1, <1>2, <1>3, <1>4, <1>5, <1>6, <1>7, <1>8
     DEF ClientNext, ServerStep, HandleGateResponse, ByCredential, Environment

LEMMA PaidKeepsQuoted ==
  ASSUME IInv, PaidWasQuoted, [ClientNext]_clientVars
  PROVE  PaidWasQuoted'
BY PaidStep, QuotesStay DEF PaidWasQuoted

(* What is served now: the receipt in the answer is that of the ledger.    *)
LEMMA ServedNow ==
  ASSUME IInv, NEW r \in Requests, NEW b \in CallersRequest(r), HandleGateResponse(r, b),
         answer[r].type = "receipt", Verifies(on(r), b)
  PROVE  /\ on(r) \in Intents /\ b \in Bindings /\ now \in 0 .. MaxTime
         /\ intent[on(r)].state = "authorized" /\ b = intent[on(r)].binding
         /\ ledger[on(r)].at <= now /\ now < ledger[on(r)].at + ReceiptLife
<1>1. /\ on(r) \in Intents /\ AnswerInv(r) /\ RowInv(on(r))
  BY DEF HandleGateResponse, Reply, IInv, RequestInv
<1>2. intent[on(r)].state = "authorized"
  BY <1>1 DEF AnswerInv, RowInv
<1>3. b \in Bindings
  <2>1. job[r].binding \in Bindings \cup {NoBinding}
    BY DEF IInv, TypeOK, Job
  <2> QED
    BY <2>1 DEF CallersRequest
<1> QED
  BY <1>1, <1>2, <1>3 DEF Verifies, ReceiptOf, IInv, TypeOK

LEMMA AdmittedKeeps ==
  ASSUME IInv, AdmittedOK, [ClientNext]_clientVars
  PROVE  AdmittedOK'
<1>1. AuthorizedStays
  BY StepStays
<1>2. ASSUME NEW j \in Intents, NEW p \in admitted[j]
      PROVE  /\ intent'[j].state = "authorized"
             /\ p[1] = intent'[j].binding
             /\ p[2] \in Int /\ ledger'[j].at <= p[2] /\ p[2] < ledger'[j].at + ReceiptLife
  <2>1. intent[j].state = "authorized"
    BY <1>2 DEF AdmittedOK, ServedInv
  <2>2. intent'[j] = intent[j] /\ ledger'[j] = ledger[j]
    BY <1>1, <2>1 DEF AuthorizedStays
  <2> QED
    BY <1>2, <2>1, <2>2 DEF AdmittedOK, ServedInv
<1>3. CASE UNCHANGED admitted
  BY <1>2, <1>3 DEF AdmittedOK, ServedInv
<1>4. ASSUME NEW r \in Requests, NEW b \in CallersRequest(r), HandleGateResponse(r, b),
             answer[r].type = "receipt", Verifies(on(r), b)
      PROVE  AdmittedOK'
  <2> PICK j \in Intents : j = on(r)
    BY <1>4, ServedNow
  <2> PICK p : p = <<b, now>>
    OBVIOUS
  <2>1. /\ p \in Bindings \X (0 .. MaxTime) /\ p[1] = b /\ p[2] = now /\ now \in Int
        /\ intent[j].state = "authorized" /\ b = intent[j].binding
        /\ ledger[j].at <= now /\ now < ledger[j].at + ReceiptLife
    BY <1>4, ServedNow, Assumptions
  <2>2. admitted' = [admitted EXCEPT ![j] = @ \cup {p}]
    BY <1>4 DEF HandleGateResponse
  <2>3. intent'[j] = intent[j] /\ ledger'[j] = ledger[j]
    BY <1>1, <2>1 DEF AuthorizedStays
  <2>4. admitted' \in [Intents -> SUBSET (Bindings \X (0 .. MaxTime))]
    BY <2>1, <2>2 DEF AdmittedOK
  <2>5. ASSUME NEW k \in Intents PROVE ServedInv(k)'
    <3>1. \A q \in admitted'[k] : q \in admitted[k] \/ (k = j /\ q = p)
      BY <2>2 DEF AdmittedOK
    <3> QED
      BY <1>2, <2>1, <2>3, <3>1 DEF ServedInv
  <2> QED
    BY <2>4, <2>5 DEF AdmittedOK
<1>5. ASSUME NEW r \in Requests, NEW b \in CallersRequest(r), HandleGateResponse(r, b)
      PROVE  AdmittedOK'
  <2>1. CASE answer[r].type = "receipt" /\ Verifies(on(r), b)
    BY <1>4, <1>5, <2>1
  <2>2. CASE ~ (answer[r].type = "receipt" /\ Verifies(on(r), b))
    BY <1>3, <1>5, <2>2 DEF HandleGateResponse
  <2> QED
    BY <2>1, <2>2
<1> QED
  BY <1>3, <1>5 DEF ClientNext, ServerStep, clientVars

LEMMA ClientInvariant == ClientSpec => []ClientInv
<1>1. ClientInit => ClientInv
  BY InitClientInv
<1>2. ClientInv /\ [ClientNext]_clientVars => ClientInv'
  BY ServerKeepsIInv, PaidKeepsQuoted, AdmittedKeeps DEF ClientInv
<1> QED
  BY <1>1, <1>2, PTL DEF ClientSpec

(* Once a receipt is committed, neither the expiry worker nor a late       *)
(* settlement nor another proof rewrites its intent or its ledger row.     *)
THEOREM AuthorizationIsFinal == ClientSpec => [][AuthorizedStays]_clientVars
<1>1. ClientInv /\ [ClientNext]_clientVars => [AuthorizedStays]_clientVars
  BY StepStays DEF ClientInv
<1> QED
  BY <1>1, ClientInvariant, PTL DEF ClientSpec

(* Over retries, lost answers and late proofs, and whatever request the    *)
(* prover of an intent is about to serve: the origin serves only what was  *)
(* quoted and paid, and only within one life of a receipt.                 *)
THEOREM OneRequestIsServed == ClientSpec => []ReceiptsServeOneRequest
<1>1. ASSUME ClientInv, NEW j \in Intents, NEW served \in admitted[j]
      PROVE  /\ IsPaid(j) /\ <<intent[j].hash, served[1]>> \in quoted[j]
             /\ \A other \in admitted[j] : other[2] < served[2] + ReceiptLife
  <2>1. /\ intent[j].state = "authorized" /\ served[1] = intent[j].binding
        /\ served[2] \in Int /\ ledger[j].at <= served[2]
        /\ \A other \in admitted[j] : other[2] \in Int /\ other[2] < ledger[j].at + ReceiptLife
    BY <1>1 DEF ClientInv, AdmittedOK, ServedInv
  <2>2. IsPaid(j)
    BY <1>1, <2>1 DEF ClientInv, IInv, RowInv
  <2>3. <<intent[j].hash, served[1]>> \in quoted[j]
    <3>1. intent[j].hash \in Hashes /\ invoice[intent[j].hash].paid
      BY <1>1, <2>2 DEF ClientInv, IInv, TypeOK, IntentRow, IsPaid
    <3>2. PICK k \in Intents, b \in Bindings : <<intent[j].hash, b>> \in quoted[k]
      BY <1>1, <3>1 DEF ClientInv, PaidWasQuoted
    <3>3. <<intent[j].hash, b>> = <<intent[k].hash, intent[k].binding>>
      BY <1>1, <3>2 DEF ClientInv, IInv, RowInv
    <3>4. intent[j].hash = intent[k].hash /\ b = intent[k].binding /\ intent[j].hash # NoHash
      BY <3>3, <2>2 DEF IsPaid
    <3>5. k = j
      BY <1>1, <3>4 DEF ClientInv, IInv, OneIntentPerPayment
    <3> QED
      BY <2>1, <3>2, <3>4, <3>5
  <2>4. ledger[j].at \in Int /\ ReceiptLife \in Int
    BY <1>1, Assumptions, ReceiptAssumption DEF ClientInv, IInv, TypeOK, LedgerRow, Times
  <2> QED
    BY <2>1, <2>2, <2>3, <2>4
<1>2. ClientInv => ReceiptsServeOneRequest
  BY <1>1 DEF ReceiptsServeOneRequest
<1> QED
  BY <1>2, ClientInvariant, PTL
=============================================================================
