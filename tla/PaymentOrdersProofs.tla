------------------------ MODULE PaymentOrdersProofs ------------------------
(***************************************************************************)
(* Proofs about PaymentOrders, for every set of orders, requests, invoices *)
(* and resources, and that it implements Vending.                          *)
(***************************************************************************)
EXTENDS PaymentOrders, TLAPS

-----------------------------------------------------------------------------
(* Rows and records.  The record sets stay closed elsewhere: these lemmas  *)
(* say all that the invariants need of their members.                      *)

LEMMA OrderRows ==
  /\ NoOrder \in OrderRow
  /\ \A p \in Purchases \cup {NoPurchase} :
       /\ NewOrder(p) \in OrderRow
       /\ NewOrder(p).status = "created"
       /\ NewOrder(p).invoice = NoInvoice
       /\ NewOrder(p).resource = NoResource
  /\ \A row \in OrderRow :
       /\ row.status \in Statuses
       /\ row.invoice \in Invoices \cup {NoInvoice}
       /\ row.resource \in Resources \cup {NoResource}
       /\ MarkedPaid(row) \in OrderRow
       /\ MarkedPaid(row).status = "paid"
       /\ MarkedPaid(row).invoice = row.invoice
       /\ MarkedPaid(row).resource = row.resource
  BY DEF OrderRow, Statuses, NoOrder, NewOrder, MarkedPaid

LEMMA InvoicedRows ==
  ASSUME NEW row \in OrderRow, NEW i \in Invoices \cup {NoInvoice}
  PROVE  /\ Invoiced(row, i) \in OrderRow
         /\ Invoiced(row, i).status = "invoice_issued"
         /\ Invoiced(row, i).invoice = i
         /\ Invoiced(row, i).resource = row.resource
  BY DEF OrderRow, Statuses, Invoiced

LEMMA DispensedRows ==
  ASSUME NEW row \in OrderRow, NEW x \in Resources
  PROVE  /\ Dispensed(row, x) \in OrderRow
         /\ Dispensed(row, x).status = "dispensed"
         /\ Dispensed(row, x).invoice = row.invoice
         /\ Dispensed(row, x).resource = x
  BY DEF OrderRow, Statuses, Dispensed

LEMMA InvoiceRows ==
  /\ NotIssued \in InvoiceRow
  /\ \A row \in InvoiceRow :
       /\ row.pay \in {"open", "claimed", "settled"}
       /\ row.order \in Keys \cup {NoKey}
       /\ Claimed(row) \in InvoiceRow
       /\ Claimed(row).order = row.order
       /\ Reported(row) \in InvoiceRow
       /\ Reported(row).order = row.order
       /\ Reported(row).pay = "settled"
       /\ Expired(row) \in InvoiceRow
       /\ Expired(row).order = row.order
       /\ Expired(row).pay = row.pay
  /\ \A k \in Keys :
       [order |-> k, pay |-> "open", lapsed |-> FALSE] \in InvoiceRow
  BY DEF InvoiceRow, NotIssued, Claimed, Reported, Expired

LEMMA Records ==
  /\ NoJob \in Job /\ NoJob.afterDispense = FALSE
  /\ \A j \in Job : /\ j.kind \in Kinds
                    /\ j.key \in Keys \cup {NoKey}
                    /\ j.purchase \in Purchases \cup {NoPurchase}
                    /\ j.protocol \in Protocols \cup {NoProtocol}
                    /\ j.afterDispense \in BOOLEAN
  /\ \A kind \in Kinds, k \in Keys, p \in Purchases \cup {NoPurchase},
        protocol \in Protocols \cup {NoProtocol}, after \in BOOLEAN :
       [kind |-> kind, key |-> k, purchase |-> p, protocol |-> protocol,
        afterDispense |-> after] \in Job
  /\ Unseen \in Seen
  /\ \A s \in Seen : /\ s.status \in Statuses
                     /\ s.invoice \in Invoices \cup {NoInvoice}
  /\ \A status \in Statuses, i \in Invoices \cup {NoInvoice} :
       [status |-> status, invoice |-> i] \in Seen
  /\ NoAnswer \in Response /\ NoAnswer.type = "none"
  /\ \A a \in Response : /\ a.type \in Answers
                         /\ a.resource \in Resources \cup {NoResource}
  /\ \A type \in Answers, x \in Resources \cup {NoResource} :
       [type |-> type, resource |-> x] \in Response
  /\ NoChallenge \in ChallengeRow
  /\ \A protocol \in Protocols \cup {NoProtocol}, c \in BOOLEAN :
       [protocol |-> protocol, consumed |-> c] \in ChallengeRow
  BY DEF Job, Kinds, NoJob, Seen, Statuses, Unseen, Response, Answers, NoAnswer,
         ChallengeRow, NoChallenge

-----------------------------------------------------------------------------
(* Types.                                                                  *)

(* Locals: what the bookkeeping operators do to the types.                *)

LEMMA GotoOK ==
  ASSUME LocalOK, NEW r \in Requests, NEW step \in Steps, pc[r] # "idle",
         Goto(r, step)
  PROVE  LocalOK'
  BY DEF LocalOK, Goto, key

LEMMA RememberOK ==
  ASSUME LocalOK, NEW r \in Requests, NEW step \in Steps, pc[r] # "idle",
         NEW status \in Statuses, NEW i \in Invoices \cup {NoInvoice},
         pc' = [pc EXCEPT ![r] = step], Remember(r, status, i),
         UNCHANGED <<job, answer>>
  PROVE  LocalOK'
  BY Records DEF LocalOK, Remember, key

LEMMA AnswerOK ==
  ASSUME LocalOK, NEW r \in Requests, NEW type \in Answers, pc[r] # "idle",
         NEW x \in Resources \cup {NoResource}, Answer(r, type, x)
  PROVE  LocalOK'
<1>1. [type |-> type, resource |-> x] \in Response
  BY Records
<1> QED
  BY <1>1 DEF LocalOK, Answer, key, Steps

LEMMA FinishOK ==
  ASSUME LocalOK, RowsOK, NEW r \in Requests, Finish(r)
  PROVE  LocalOK' /\ lock' \in [Keys -> Requests \cup {NoRequest}]
<1>1. /\ pc' \in [Requests -> Steps]
      /\ job' \in [Requests -> Job]
      /\ seen' \in [Requests -> Seen]
      /\ answer' \in [Requests -> Response]
  BY Records DEF LocalOK, Finish, Steps
<1>2. \A s \in Requests : pc'[s] # "idle" => job'[s].key \in Keys
  BY DEF LocalOK, Finish, key, Steps
<1>3. lock' \in [Keys -> Requests \cup {NoRequest}]
  BY DEF RowsOK, Finish
<1> QED
  BY <1>1, <1>2, <1>3 DEF LocalOK, key

LEMMA ThrowOK ==
  ASSUME TypeOK, NEW r \in Requests, Throw(r)
  PROVE  TypeOK'
  BY FinishOK DEF TypeOK, Throw, RowsOK, LnbitsOK, BuyerOK, lnbits, buyer

LEMMA StartOK ==
  ASSUME TypeOK, NEW r \in Requests, NEW input \in Job, input.key \in Keys,
         NEW step \in Steps, Start(r, input, step)
  PROVE  TypeOK'
<1>1. LocalOK'
  BY DEF TypeOK, LocalOK, Start, key
<1> QED
  BY <1>1 DEF TypeOK, RowsOK, LnbitsOK, BuyerOK, Start, rows, lnbits, buyer

LEMMA Unchanged ==
  /\ RowsOK /\ UNCHANGED rows => RowsOK'
  /\ LnbitsOK /\ UNCHANGED lnbits => LnbitsOK'
  /\ LocalOK /\ UNCHANGED local => LocalOK'
  /\ BuyerOK /\ UNCHANGED buyer => BuyerOK'
  BY DEF RowsOK, LnbitsOK, LocalOK, BuyerOK, rows, lnbits, local, buyer, key

LEMMA DispenseOK ==
  ASSUME RowsOK, NEW k \in Keys, NEW x \in Resources, Dispense(k, x),
         UNCHANGED lock, challenge' \in [Keys -> ChallengeRow]
  PROVE  RowsOK'
<1>1. order' \in [Keys -> OrderRow]
  BY DispensedRows DEF RowsOK, Dispense
<1> QED
  BY <1>1 DEF RowsOK, Dispense

LEMMA TypeStep ==
  ASSUME ConstantsAssumption, TypeOK, [Next]_vars
  PROVE  TypeOK'
<1> USE DEF TypeOK
<1>1. ASSUME NEW r \in Requests, Arrive(r) PROVE TypeOK'
  BY <1>1, StartOK, Records
     DEF Arrive, StartPoll, StartQuote, StartAgent, Steps, Kinds
<1>2. ASSUME NEW r \in Requests, CreateOrder(r) PROVE TypeOK'
  <2>1. CASE Throw(r)
    BY <2>1, ThrowOK
  <2>2. CASE Goto(r, "ensureInvoice") /\ UNCHANGED <<rows, lnbits, buyer>>
    BY <1>2, <2>2, GotoOK, Unchanged DEF CreateOrder, Steps
  <2>3. CASE /\ Goto(r, "ensureInvoice")
             /\ order' = [order EXCEPT ![key(r)] = NewOrder(job[r].purchase)]
             /\ UNCHANGED <<lock, challenge, resource, ledger, lnbits, buyer>>
    <3>1. LocalOK'
      BY <1>2, <2>3, GotoOK DEF CreateOrder, Steps
    <3>2. order' \in [Keys -> OrderRow]
      BY <2>3, Records, OrderRows DEF RowsOK, LocalOK
    <3> QED
      BY <2>3, <3>1, <3>2, Unchanged DEF RowsOK
  <2> QED
    BY <1>2, <2>1, <2>2, <2>3 DEF CreateOrder
<1>3. ASSUME NEW r \in Requests, EnsureInvoice(r) PROVE TypeOK'
  <2>1. CASE Goto(r, "findInvoice")
    BY <1>3, <2>1, GotoOK, Unchanged DEF EnsureInvoice, Steps, RowsOK
  <2>2. CASE ~Goto(r, "findInvoice")
    <3>1. key(r) \in Keys /\ order[key(r)].invoice \in Invoices \cup {NoInvoice}
      BY <1>3, OrderRows DEF EnsureInvoice, LocalOK, RowsOK
    <3> QED
      BY <1>3, <2>2, <3>1, RememberOK, Unchanged DEF EnsureInvoice, Steps, Statuses
  <2> QED
    BY <2>1, <2>2
<1>4. ASSUME NEW r \in Requests, FindInvoice(r) PROVE TypeOK'
  BY <1>4, GotoOK, RememberOK, ThrowOK, Unchanged
     DEF FindInvoice, InvoicesOf, Steps, Statuses
<1>5. ASSUME NEW r \in Requests, CreateInvoice(r) PROVE TypeOK'
  <2>1. LocalOK'
    BY <1>5, RememberOK DEF CreateInvoice, Steps, Statuses
  <2>2. LnbitsOK'
    BY <1>5, InvoiceRows DEF CreateInvoice, Issue, LnbitsOK, LocalOK
  <2> QED
    BY <1>5, <2>1, <2>2, Unchanged DEF CreateInvoice
<1>6. ASSUME NEW r \in Requests, AttachInvoice(r) PROVE TypeOK'
  <2>0. CASE Throw(r)
    BY <2>0, ThrowOK
  <2> SUFFICES ASSUME ~Throw(r) PROVE TypeOK'
    BY <2>0
  <2>1. LocalOK'
    BY <1>6, GotoOK DEF AttachInvoice, Steps
  <2>2. seen[r].invoice \in Invoices \cup {NoInvoice}
    BY Records DEF LocalOK
  <2>3. order' \in [Keys -> OrderRow]
    BY <1>6, <2>2, InvoicedRows DEF AttachInvoice, RowsOK
  <2> QED
    BY <1>6, <2>1, <2>3, Unchanged DEF AttachInvoice, RowsOK
<1>7. ASSUME NEW r \in Requests, ValidateBolt11(r) PROVE TypeOK'
  BY <1>7, ThrowOK, GotoOK, AnswerOK, Unchanged DEF ValidateBolt11, Steps, Answers
<1>8. ASSUME NEW r \in Requests, GetOrder(r) PROVE TypeOK'
  <2>1. key(r) \in Keys /\ order[key(r)].invoice \in Invoices \cup {NoInvoice}
                        /\ order[key(r)].status \in Statuses
    BY <1>8, OrderRows DEF GetOrder, LocalOK, RowsOK
  <2> QED
    BY <1>8, <2>1, AnswerOK, RememberOK, Unchanged
       DEF GetOrder, AfterRead, Steps, Answers
<1>9. ASSUME NEW r \in Requests, PresentCredential(r) PROVE TypeOK'
  <2>1. key(r) \in Keys /\ order[key(r)].status \in Statuses
    BY <1>9, OrderRows DEF PresentCredential, LocalOK, RowsOK
  <2>2. seen[r].invoice \in Invoices \cup {NoInvoice}
    BY Records DEF LocalOK
  <2> QED
    BY <1>9, <2>1, <2>2, AnswerOK, RememberOK, Unchanged
       DEF PresentCredential, Steps, Answers
<1>10. ASSUME NEW r \in Requests, VerifyInvoice(r) PROVE TypeOK'
  BY <1>10, AnswerOK, GotoOK, Unchanged DEF VerifyInvoice, AfterVerify, Steps, Answers
<1>11. ASSUME NEW r \in Requests, MarkPaid(r) PROVE TypeOK'
  <2>1. LocalOK'
    BY <1>11, AnswerOK, GotoOK DEF MarkPaid, Steps, Answers
  <2>2. order' \in [Keys -> OrderRow]
    BY <1>11, OrderRows DEF MarkPaid, RowsOK
  <2>3. RowsOK'
    BY <1>11, <2>2 DEF MarkPaid, RowsOK
  <2> QED
    BY <1>11, <2>1, <2>3, Unchanged DEF MarkPaid
<1>12. ASSUME NEW r \in Requests, DispensePaidOrder(r) PROVE TypeOK'
  <2>1. key(r) \in Keys /\ order[key(r)].resource \in Resources \cup {NoResource}
    BY <1>12, OrderRows DEF DispensePaidOrder, LocalOK, RowsOK
  <2>2. ASSUME NEW x \in Resources, Dispense(key(r), x), Answer(r, "resource", x),
               UNCHANGED <<lock, challenge, lnbits, buyer>>
        PROVE  TypeOK'
    <3>1. RowsOK'
      BY <2>1, <2>2, DispenseOK DEF RowsOK
    <3> QED
      BY <1>12, <2>2, <3>1, AnswerOK, Unchanged DEF DispensePaidOrder, Answers
  <2> QED
    BY <1>12, <2>1, <2>2, AnswerOK, ThrowOK, Unchanged
       DEF DispensePaidOrder, ProvisionFails, Answers
<1>13. ASSUME NEW r \in Requests, ConsumeChallenge(r) PROVE TypeOK'
  <2>1. key(r) \in Keys /\ job[r].protocol \in Protocols \cup {NoProtocol}
    BY <1>13, Records DEF ConsumeChallenge, LocalOK
  <2>2. \A c \in BOOLEAN :
          [challenge EXCEPT ![key(r)] = [protocol |-> job[r].protocol,
                                         consumed |-> c]] \in [Keys -> ChallengeRow]
    BY <2>1, Records DEF RowsOK
  <2>3. ASSUME NEW x \in Resources, Dispense(key(r), x), Answer(r, "resource", x),
               challenge' = [challenge EXCEPT ![key(r)] =
                               [protocol |-> job[r].protocol, consumed |-> TRUE]],
               UNCHANGED <<lock, lnbits, buyer>>
        PROVE  TypeOK'
    <3>1. RowsOK'
      BY <2>1, <2>2, <2>3, DispenseOK
    <3> QED
      BY <1>13, <2>3, <3>1, AnswerOK, Unchanged DEF ConsumeChallenge, Answers
  <2>4. ASSUME Answer(r, "expired", NoResource),
               challenge' = [challenge EXCEPT ![key(r)] =
                               [protocol |-> job[r].protocol, consumed |-> FALSE]],
               UNCHANGED <<order, lock, resource, ledger, lnbits, buyer>>
        PROVE  TypeOK'
    <3>1. RowsOK'
      BY <2>2, <2>4 DEF RowsOK
    <3> QED
      BY <1>13, <2>4, <3>1, AnswerOK, Unchanged DEF ConsumeChallenge, Answers
  <2> QED
    BY <1>13, <2>3, <2>4, AnswerOK, ThrowOK, Unchanged
       DEF ConsumeChallenge, ProvisionFails, Answers
<1>14. ASSUME NEW r \in Requests, Reply(r) PROVE TypeOK'
  <2>1. LocalOK' /\ RowsOK'
    BY <1>14, FinishOK DEF Reply, RowsOK
  <2>2. key(r) \in Keys /\ seen[r].invoice \in Invoices \cup {NoInvoice}
                        /\ answer[r].resource \in Resources \cup {NoResource}
    BY <1>14, Records DEF Reply, LocalOK
  <2>3. BuyerOK'
    BY <1>14, <2>2 DEF Reply, BuyerOK
  <2> QED
    BY <1>14, <2>1, <2>3, Unchanged DEF Reply
<1>15. ASSUME NEW r \in Requests, AbandonCreateInvoice(r) PROVE TypeOK'
  <2>1. LocalOK' /\ RowsOK'
    BY <1>15, FinishOK DEF AbandonCreateInvoice, RowsOK
  <2>2. LnbitsOK'
    BY <1>15, InvoiceRows DEF AbandonCreateInvoice, Issue, LnbitsOK, LocalOK
  <2> QED
    BY <1>15, <2>1, <2>2, Unchanged DEF AbandonCreateInvoice
<1>16. ASSUME NEW r \in Requests, Fail(r) PROVE TypeOK'
  BY <1>16, ThrowOK DEF Fail
<1>17. ASSUME Network PROVE TypeOK'
  <2>1. LnbitsOK'
    BY <1>17, InvoiceRows
       DEF Network, Pay, ReportPayment, Lapse, LateInvoice, Issue, LnbitsOK
  <2> QED
    BY <1>17, <2>1, Unchanged DEF Network, Pay, ReportPayment, Lapse, LateInvoice
<1>18. CASE UNCHANGED vars
  BY <1>18, Unchanged DEF vars
<1> QED
  BY <1>1, <1>2, <1>3, <1>4, <1>5, <1>6, <1>7, <1>8, <1>9, <1>10, <1>11,
     <1>12, <1>13, <1>14, <1>15, <1>16, <1>17, <1>18 DEF Next, Progress

LEMMA TypeInit == ConstantsAssumption /\ Init => TypeOK
  BY OrderRows, InvoiceRows, Records
     DEF Init, TypeOK, RowsOK, LnbitsOK, LocalOK, BuyerOK, Steps

(* Every row, record and history stays in its type, for any number of      *)
(* orders, requests and invoices.                                          *)
THEOREM TypeCorrect == Spec => []TypeOK
<1>1. Init => TypeOK
  BY TypeInit, ConstantsAssumption
<1>2. TypeOK /\ [Next]_vars => TypeOK'
  BY TypeStep, ConstantsAssumption
<1> QED
  BY <1>1, <1>2, PTL DEF Spec

-----------------------------------------------------------------------------
(* The inductive invariant.  First, what no step ever takes back: an       *)
(* attached invoice, a dispensed resource, an invoice's order and its      *)
(* settlement.  Then what a step of one request leaves to the others.      *)

Frame ==
  /\ \A k \in Keys : order[k].invoice \in Invoices =>
                       order'[k].invoice = order[k].invoice
  /\ \A k \in Keys : order[k].resource \in Resources =>
                       order'[k].resource = order[k].resource
  /\ \A i \in Invoices : invoice[i].order \in Keys =>
       invoice'[i].order = invoice[i].order /\ (Settled(i) => Settled(i)')

OthersKeep(r) ==
  \A s \in Requests \ {r} :
    /\ pc'[s] = pc[s] /\ job'[s] = job[s]
    /\ seen'[s] = seen[s] /\ answer'[s] = answer[s]
    /\ \A k \in Keys : lock[k] = s => lock'[k] = s

LEMMA FrameStep ==
  ASSUME ConstantsAssumption, TypeOK, IInv, [Next]_vars
  PROVE  Frame
<1> DEFINE Rows == order' = order
           Wallet == invoice' = invoice
<1>1. CASE Rows /\ Wallet
  BY <1>1 DEF Frame, Settled
<1>2. ASSUME NEW k \in Keys, NEW row \in OrderRow, Wallet,
             order' = [order EXCEPT ![k] = row],
             order[k].invoice \in Invoices => row.invoice = order[k].invoice,
             order[k].resource \in Resources => row.resource = order[k].resource
      PROVE  Frame
  BY <1>2 DEF Frame, Settled, TypeOK, RowsOK
<1>3. ASSUME NEW k \in Keys, NEW i \in Invoices, Rows, Issue(i, k)
      PROVE  Frame
  BY <1>3, ConstantsAssumption
     DEF Frame, Settled, Issue, TypeOK, LnbitsOK, ConstantsAssumption
<1>4. ASSUME NEW i \in Invoices, NEW row \in InvoiceRow, Rows,
             invoice' = [invoice EXCEPT ![i] = row],
             row.order = invoice[i].order, Settled(i) => row.pay = "settled"
      PROVE  Frame
  BY <1>4 DEF Frame, Settled, TypeOK, LnbitsOK
<1>5. ASSUME NEW r \in Requests, CreateOrder(r) PROVE Frame
  <2>1. CASE ~Rows
    <3>1. /\ key(r) \in Keys /\ order[key(r)].status = "absent"
          /\ order' = [order EXCEPT ![key(r)] = NewOrder(job[r].purchase)]
          /\ Wallet
      BY <1>5, <2>1 DEF CreateOrder, Throw, TypeOK, LocalOK, rows, lnbits
    <3>2. /\ order[key(r)].invoice \notin Invoices
          /\ order[key(r)].resource \notin Resources
      BY <3>1, OrderRows, ConstantsAssumption
         DEF IInv, RowInv, ConstantsAssumption, TypeOK, RowsOK
    <3>3. NewOrder(job[r].purchase) \in OrderRow
      BY OrderRows, Records DEF TypeOK, LocalOK
    <3> QED
      BY <1>2, <3>1, <3>2, <3>3
  <2> QED
    BY <1>1, <1>5, <2>1 DEF CreateOrder, Throw, rows, lnbits
<1>6. ASSUME NEW r \in Requests, AttachInvoice(r) PROVE Frame
  <2>0. CASE Throw(r)
    BY <1>1, <2>0 DEF Throw, lnbits
  <2> SUFFICES ASSUME ~Throw(r) PROVE Frame
    BY <2>0
  <2>1. /\ key(r) \in Keys /\ seen[r].invoice \in Invoices \cup {NoInvoice}
        /\ order[key(r)].invoice \notin Invoices
        /\ order[key(r)].resource \notin Resources
    BY <1>6, Records, OrderRows, ConstantsAssumption
       DEF AttachInvoice, IInv, RowInv, ConstantsAssumption, TypeOK, RowsOK, LocalOK
  <2> QED
    BY <1>2, <1>6, <2>1, InvoicedRows DEF AttachInvoice, TypeOK, RowsOK, lnbits
<1>7. ASSUME NEW r \in Requests, MarkPaid(r) PROVE Frame
  <2>1. key(r) \in Keys /\ order[key(r)] \in OrderRow
    BY <1>7 DEF MarkPaid, TypeOK, RowsOK, LocalOK
  <2> QED
    BY <1>1, <1>2, <1>7, <2>1, OrderRows DEF MarkPaid, lnbits
<1>8. ASSUME NEW k \in Keys, NEW x \in Resources, Wallet, Dispense(k, x),
             order[k].status = "paid"
      PROVE  Frame
  <2>1. order[k] \in OrderRow /\ order[k].resource \notin Resources
    BY <1>8, OrderRows, ConstantsAssumption
       DEF IInv, RowInv, ConstantsAssumption, TypeOK, RowsOK
  <2> QED
    BY <1>2, <1>8, <2>1, DispensedRows DEF Dispense
<1>9. ASSUME NEW r \in Requests, DispensePaidOrder(r) \/ ConsumeChallenge(r)
      PROVE  Frame
  <2>1. key(r) \in Keys
    BY <1>9 DEF DispensePaidOrder, ConsumeChallenge, TypeOK, LocalOK
  <2> QED
    BY <1>1, <1>8, <1>9, <2>1
       DEF DispensePaidOrder, ConsumeChallenge, Challengeable, ProvisionFails,
           Throw, rows, lnbits
<1>10. ASSUME NEW r \in Requests, CreateInvoice(r) \/ AbandonCreateInvoice(r)
       PROVE  Frame
  BY <1>1, <1>3, <1>10
     DEF CreateInvoice, AbandonCreateInvoice, rows, TypeOK, LocalOK
<1>11. ASSUME Network PROVE Frame
  <2>1. ASSUME NEW k \in Keys, LateInvoice(k) PROVE Frame
    BY <1>3, <2>1 DEF LateInvoice, rows
  <2>2. ASSUME NEW i \in Invoices, Pay(i) \/ ReportPayment(i) \/ Lapse(i)
        PROVE  Frame
    <3>1. invoice[i] \in InvoiceRow
      BY DEF TypeOK, LnbitsOK
    <3> QED
      BY <1>4, <2>2, <3>1, InvoiceRows
         DEF Pay, ReportPayment, Lapse, rows, Settled
  <2> QED
    BY <1>11, <2>1, <2>2 DEF Network
<1>12. ASSUME NEW r \in Requests,
              \/ Arrive(r) \/ EnsureInvoice(r) \/ FindInvoice(r)
              \/ ValidateBolt11(r) \/ GetOrder(r) \/ PresentCredential(r)
              \/ VerifyInvoice(r) \/ Reply(r) \/ Fail(r)
       PROVE  Frame
  BY <1>1, <1>12
     DEF Arrive, StartPoll, StartQuote, StartAgent, Start, EnsureInvoice,
         FindInvoice, ValidateBolt11, GetOrder, PresentCredential,
         VerifyInvoice, Reply, Fail, Throw, rows, lnbits
<1>13. CASE UNCHANGED vars
  BY <1>1, <1>13 DEF vars, rows, lnbits
<1> QED
  BY <1>5, <1>6, <1>7, <1>9, <1>10, <1>11, <1>12, <1>13 DEF Next, Progress

(* An attached invoice is the order's own.                                 *)
LEMMA OwnInvoice ==
  ASSUME ConstantsAssumption, TypeOK, IInv, NEW k \in Keys,
         order[k].invoice \in Invoices
  PROVE  /\ order[k].status \in {"invoice_issued", "paid", "dispensed"}
         /\ invoice[order[k].invoice].order = k
<1>1. order[k].status \in Statuses /\ RowInv(k)
  BY OrderRows DEF TypeOK, RowsOK, IInv
<1> QED
  BY <1>1, ConstantsAssumption DEF RowInv, Statuses, ConstantsAssumption

(* The other requests keep what they rely on, whatever one of them does.   *)
LEMMA OthersRely ==
  ASSUME ConstantsAssumption, TypeOK, IInv, Frame,
         NEW r \in Requests, OthersKeep(r),
         NEW s \in Requests \ {r}
  PROVE  RequestInv(s)'
<1>1. RequestInv(s)
  BY DEF IInv
<1>2. pc[s] # "idle" => key(s) \in Keys
  BY DEF TypeOK, LocalOK
<1>3. pc'[s] = pc[s] /\ job'[s] = job[s] /\ seen'[s] = seen[s] /\ answer'[s] = answer[s]
  BY DEF OthersKeep
<1>4. pc[s] = "markPaid" =>
        seen[s].invoice \in Invoices /\ invoice[seen[s].invoice].order \in Keys
  BY <1>1, <1>2, OwnInvoice DEF RequestInv, SawAttached
<1>5. RequestInv(s)!1' /\ RequestInv(s)!2' /\ RequestInv(s)!3'
  BY <1>1, <1>2, <1>3 DEF RequestInv, SawAttached, Frame, key
<1>6. RequestInv(s)!4'
  BY <1>1, <1>3, <1>4 DEF RequestInv, Frame, Settled
<1>7. RequestInv(s)!5'
  BY <1>1, <1>2, <1>3 DEF RequestInv, Frame, key
<1>8. RequestInv(s)!6'
  BY <1>1, <1>2, <1>3 DEF RequestInv, Calling, OthersKeep, key
<1> QED
  BY <1>5, <1>6, <1>7, <1>8 DEF RequestInv

LEMMA RequestStep ==
  ASSUME ConstantsAssumption, TypeOK, TypeOK', IInv, Frame, [Next]_vars
  PROVE  \A s \in Requests : RequestInv(s)'
<1> DEFINE Goal == \A s \in Requests : RequestInv(s)'
<1>1. ASSUME NEW r \in Requests, OthersKeep(r), RequestInv(r)' PROVE Goal
  BY <1>1, OthersRely
<1>2. ASSUME NEW r \in Requests, Finish(r) PROVE Goal
  <2>1. OthersKeep(r)
    BY <1>2 DEF Finish, OthersKeep, TypeOK, RowsOK, LocalOK
  <2>2. RequestInv(r)'
    BY <1>2, Records
       DEF Finish, RequestInv, SawAttached, Calling, TypeOK, LocalOK
  <2> QED
    BY <1>1, <2>1, <2>2
<1>3. ASSUME NEW r \in Requests, Throw(r) PROVE Goal
  BY <1>2, <1>3 DEF Throw
<1>4. ASSUME NEW r \in Requests, pc[r] \notin {"idle", "reply"}, UNCHANGED lock,
             NEW type \in Answers \ {"quote", "resource"}, NEW x,
             Answer(r, type, x)
      PROVE  Goal
  <2>1. OthersKeep(r)
    BY <1>4 DEF Answer, OthersKeep, TypeOK, LocalOK
  <2>2. RequestInv(r)'
    BY <1>4 DEF Answer, RequestInv, SawAttached, Calling, TypeOK, LocalOK
  <2> QED
    BY <1>1, <2>1, <2>2
<1>5. ASSUME NEW r \in Requests, pc[r] \notin {"idle", "reply"}, UNCHANGED lock,
             NEW x \in Resources, Answer(r, "resource", x),
             x = order'[key(r)].resource
      PROVE  Goal
  <2>1. OthersKeep(r)
    BY <1>5 DEF Answer, OthersKeep, TypeOK, LocalOK
  <2>2. RequestInv(r)'
    BY <1>5 DEF Answer, RequestInv, SawAttached, Calling, TypeOK, LocalOK, key
  <2> QED
    BY <1>1, <2>1, <2>2
<1>6. ASSUME NEW r \in Requests, Arrive(r) PROVE Goal
  <2>1. OthersKeep(r)
    BY <1>6
       DEF Arrive, StartPoll, StartQuote, StartAgent, Start, OthersKeep,
           TypeOK, LocalOK, rows
  <2>2. answer'[r].type = "none" /\ pc'[r] \in {"createOrder", "getOrder"}
                                /\ (pc'[r] = "getOrder" => job'[r].kind = "poll")
    BY <1>6, Records
       DEF Arrive, StartPoll, StartQuote, StartAgent, Start, TypeOK, LocalOK,
           IInv, RequestInv, Answers
  <2> QED
    BY <1>1, <2>1, <2>2 DEF RequestInv, SawAttached, Calling
<1>7. ASSUME NEW r \in Requests, CreateOrder(r) PROVE Goal
  <2>1. CASE Throw(r)
    BY <1>3, <2>1
  <2>2. CASE ~Throw(r)
    <3>1. OthersKeep(r) /\ pc'[r] = "ensureInvoice" /\ answer'[r].type = "none"
      BY <1>7, <2>2, Records
         DEF CreateOrder, Goto, OthersKeep, TypeOK, LocalOK, rows, IInv, RequestInv
    <3> QED
      BY <1>1, <3>1 DEF RequestInv, SawAttached, Calling
  <2> QED
    BY <2>1, <2>2
<1>8. ASSUME NEW r \in Requests, EnsureInvoice(r) PROVE Goal
  <2>1. OthersKeep(r) /\ answer'[r].type = "none" /\ key(r) \in Keys
    BY <1>8, ConstantsAssumption
       DEF EnsureInvoice, Goto, Remember, OthersKeep, TypeOK, LocalOK, RowsOK,
           rows, IInv, RequestInv, Unlocked, ConstantsAssumption
  <2>2. order[key(r)].invoice \in Invoices \cup {NoInvoice}
    BY <2>1, OrderRows DEF TypeOK, RowsOK
  <2>3. RequestInv(r)'
    BY <1>8, <2>1, <2>2
       DEF EnsureInvoice, Goto, Remember, TypeOK, LocalOK, RowsOK, rows,
           RequestInv, SawAttached, Calling, key
  <2> QED
    BY <1>1, <2>1, <2>3
<1>9. ASSUME NEW r \in Requests, FindInvoice(r) PROVE Goal
  <2>1. CASE Throw(r)
    BY <1>3, <2>1
  <2>2. CASE ~Throw(r)
    <3>1. OthersKeep(r) /\ answer'[r].type = "none"
      BY <1>9, <2>2
         DEF FindInvoice, Goto, Remember, OthersKeep, TypeOK, LocalOK, rows,
             IInv, RequestInv
    <3>2. RequestInv(r)
      BY DEF IInv
    <3>3. RequestInv(r)'
      BY <1>9, <2>2, <3>1, <3>2
         DEF FindInvoice, InvoicesOf, Goto, Remember, TypeOK, LocalOK, rows,
             lnbits, RequestInv, SawAttached, Calling, key
    <3> QED
      BY <1>1, <3>1, <3>3
  <2> QED
    BY <2>1, <2>2
<1>10. ASSUME NEW r \in Requests, CreateInvoice(r) PROVE Goal
  <2>1. OthersKeep(r) /\ answer'[r].type = "none"
    BY <1>10
       DEF CreateInvoice, Remember, OthersKeep, TypeOK, LocalOK, rows, IInv, RequestInv
  <2>2. RequestInv(r) /\ key(r) \in Keys
    BY <1>10 DEF IInv, CreateInvoice, TypeOK, LocalOK
  <2>3. RequestInv(r)'
    BY <1>10, <2>1, <2>2
       DEF CreateInvoice, Issue, Remember, TypeOK, LocalOK, LnbitsOK, rows,
           RequestInv, SawAttached, Calling, key
  <2> QED
    BY <1>1, <2>1, <2>3
<1>11. ASSUME NEW r \in Requests, AttachInvoice(r) PROVE Goal
  <2>0. CASE Throw(r)
    BY <1>3, <2>0
  <2> SUFFICES ASSUME ~Throw(r) PROVE Goal
    BY <2>0
  <2>1. RequestInv(r) /\ key(r) \in Keys /\ lock[key(r)] = r
    BY <1>11 DEF IInv, AttachInvoice, TypeOK, LocalOK, RequestInv, Calling
  <2>2. OthersKeep(r) /\ answer'[r].type = "none"
    BY <1>11, <2>1
       DEF AttachInvoice, Goto, OthersKeep, TypeOK, LocalOK, RowsOK, RequestInv
  <2>3. order'[key(r)].invoice = seen[r].invoice
    BY <1>11, <2>1, InvoicedRows DEF AttachInvoice, TypeOK, RowsOK, RequestInv
  <2>4. RequestInv(r)'
    BY <1>11, <2>1, <2>2, <2>3
       DEF AttachInvoice, Goto, TypeOK, LocalOK, RequestInv, SawAttached, Calling, key
  <2> QED
    BY <1>1, <2>2, <2>4
<1>12. ASSUME NEW r \in Requests, ValidateBolt11(r) PROVE Goal
  <2>1. CASE Throw(r)
    BY <1>3, <2>1
  <2>2. CASE ~Throw(r)
    <3>1. OthersKeep(r) /\ RequestInv(r)
      BY <1>12, <2>2
         DEF ValidateBolt11, Goto, Answer, OthersKeep, TypeOK, LocalOK, rows, IInv
    <3>2. RequestInv(r)'
      BY <1>12, <2>2, <3>1
         DEF ValidateBolt11, Goto, Answer, TypeOK, LocalOK, rows, RequestInv,
             SawAttached, Calling, key
    <3> QED
      BY <1>1, <3>1, <3>2
  <2> QED
    BY <2>1, <2>2
<1>13. ASSUME NEW r \in Requests, GetOrder(r) PROVE Goal
  <2>1. /\ OthersKeep(r) /\ RequestInv(r) /\ key(r) \in Keys
        /\ order[key(r)].invoice \in Invoices \cup {NoInvoice}
    BY <1>13, OrderRows
       DEF GetOrder, AfterRead, Remember, Answer, OthersKeep, TypeOK, LocalOK, RowsOK, rows, IInv
  <2>2. RequestInv(r)'
    BY <1>13, <2>1
       DEF GetOrder, AfterRead, Remember, Answer, TypeOK, LocalOK, rows, RequestInv,
           SawAttached, Calling, key
  <2> QED
    BY <1>1, <2>1, <2>2
<1>14. ASSUME NEW r \in Requests, PresentCredential(r) PROVE Goal
  <2>1. OthersKeep(r) /\ RequestInv(r)
    BY <1>14
       DEF PresentCredential, Remember, Answer, OthersKeep, TypeOK, LocalOK, rows, IInv
  <2>2. RequestInv(r)'
    BY <1>14, <2>1
       DEF PresentCredential, Remember, Answer, TypeOK, LocalOK, rows,
           RequestInv, SawAttached, Calling, key
  <2> QED
    BY <1>1, <2>1, <2>2
<1>15. ASSUME NEW r \in Requests, VerifyInvoice(r) PROVE Goal
  <2>1. OthersKeep(r) /\ RequestInv(r)
    BY <1>15
       DEF VerifyInvoice, AfterVerify, ReportsPaid, Goto, Answer, OthersKeep, TypeOK, LocalOK, rows, IInv
  <2>2. RequestInv(r)'
    BY <1>15, <2>1
       DEF VerifyInvoice, AfterVerify, ReportsPaid, Goto, Answer, TypeOK, LocalOK, rows, lnbits,
           RequestInv, SawAttached, Calling, key, Settled
  <2> QED
    BY <1>1, <2>1, <2>2
<1>16. ASSUME NEW r \in Requests, MarkPaid(r) PROVE Goal
  <2>1. /\ OthersKeep(r) /\ RequestInv(r) /\ key(r) \in Keys
        /\ order[key(r)].invoice \in Invoices
    BY <1>16
       DEF MarkPaid, Goto, Answer, OthersKeep, TypeOK, LocalOK, IInv,
           RequestInv, SawAttached
  <2>2. order'[key(r)].invoice = order[key(r)].invoice
    BY <2>1 DEF Frame
  <2>3. RequestInv(r)'
    BY <1>16, <2>1, <2>2
       DEF MarkPaid, Goto, Answer, TypeOK, LocalOK, RequestInv, SawAttached,
           Calling, key
  <2> QED
    BY <1>1, <2>1, <2>3
<1>17. ASSUME NEW k \in Keys, NEW x \in Resources, Dispense(k, x)
       PROVE  x = order'[k].resource
  BY <1>17, DispensedRows DEF Dispense, TypeOK, RowsOK
<1>18. ASSUME NEW r \in Requests, DispensePaidOrder(r) PROVE Goal
  <2>1. key(r) \in Keys
    BY <1>18 DEF DispensePaidOrder, TypeOK, LocalOK
  <2>2. order[key(r)].status = "dispensed" => order[key(r)].resource \in Resources
    BY <2>1, OrderRows DEF TypeOK, RowsOK, IInv, RowInv
  <2> QED
    BY <1>3, <1>4, <1>5, <1>17, <1>18, <2>1, <2>2
       DEF DispensePaidOrder, ProvisionFails, Answers, rows
<1>19. ASSUME NEW r \in Requests, ConsumeChallenge(r) PROVE Goal
  <2>1. key(r) \in Keys
    BY <1>19 DEF ConsumeChallenge, TypeOK, LocalOK
  <2> QED
    BY <1>3, <1>4, <1>5, <1>17, <1>19, <2>1
       DEF ConsumeChallenge, ProvisionFails, Answers, rows
<1>20. ASSUME NEW r \in Requests, Reply(r) \/ AbandonCreateInvoice(r) \/ Fail(r)
       PROVE  Goal
  BY <1>2, <1>20 DEF Reply, AbandonCreateInvoice, Fail, Throw
<1>21. CASE UNCHANGED <<local, lock>>
  <2> SUFFICES ASSUME NEW s \in Requests PROVE RequestInv(s)'
    OBVIOUS
  <2>1. RequestInv(s)
    BY DEF IInv
  <2>2. pc[s] # "idle" => key(s) \in Keys
    BY DEF TypeOK, LocalOK
  <2>3. /\ pc'[s] = pc[s] /\ job'[s] = job[s] /\ seen'[s] = seen[s]
        /\ answer'[s] = answer[s] /\ lock' = lock
    BY <1>21 DEF local
  <2>4. pc[s] = "markPaid" =>
          seen[s].invoice \in Invoices /\ invoice[seen[s].invoice].order \in Keys
    BY <2>1, <2>2, OwnInvoice DEF RequestInv, SawAttached
  <2> QED
    BY <2>1, <2>2, <2>3, <2>4
       DEF RequestInv, SawAttached, Calling, Frame, key, Settled
<1> QED
  BY <1>6, <1>7, <1>8, <1>9, <1>10, <1>11, <1>12, <1>13, <1>14, <1>15, <1>16,
     <1>18, <1>19, <1>20, <1>21
     DEF Next, Progress, Network, Pay, ReportPayment, Lapse, LateInvoice, vars, rows

(* A row nobody writes keeps its invariant, whatever happens to its invoice. *)
LEMMA RowKeeps ==
  ASSUME ConstantsAssumption, TypeOK, IInv, Frame, NEW k \in Keys,
         order'[k] = order[k], quoted'[k] = quoted[k], told'[k] = told[k],
         \A x \in Resources : resource'[x] = k <=> resource[x] = k
  PROVE  RowInv(k)'
<1>1. RowInv(k)
  BY DEF IInv
<1>2. order[k].invoice \in Invoices =>
        /\ invoice'[order[k].invoice].order = k
        /\ Settled(order[k].invoice) => Settled(order[k].invoice)'
  BY OwnInvoice DEF Frame
<1> QED
  BY <1>1, <1>2 DEF RowInv, Settled

LEMMA RowStep ==
  ASSUME ConstantsAssumption, TypeOK, TypeOK', IInv, Frame, [Next]_vars
  PROVE  \A k \in Keys : RowInv(k)'
<1> DEFINE Goal == \A k \in Keys : RowInv(k)'
<1>1. CASE UNCHANGED <<order, resource, buyer>>
  BY <1>1, RowKeeps DEF buyer
<1>2. ASSUME NEW j \in Keys, UNCHANGED <<resource, buyer>>, NEW row,
             order' = [order EXCEPT ![j] = row], RowInv(j)'
      PROVE  Goal
  <2>1. \A k \in Keys \ {j} : order'[k] = order[k]
    BY <1>2 DEF TypeOK, RowsOK
  <2> QED
    BY <1>2, <2>1, RowKeeps DEF buyer
<1>3. ASSUME NEW r \in Requests, CreateOrder(r) PROVE Goal
  <2> PICK k \in Keys : k = key(r)
    BY <1>3 DEF CreateOrder, TypeOK, LocalOK
  <2> PICK row : row = NewOrder(job[r].purchase)
    OBVIOUS
  <2>1. CASE ~UNCHANGED order
    <3>1. /\ k \in Keys /\ order[k].status = "absent"
          /\ order' = [order EXCEPT ![k] = row]
          /\ UNCHANGED <<resource, buyer>>
      BY <1>3, <2>1 DEF CreateOrder, Throw, TypeOK, LocalOK, rows
    <3>2. order'[k] = row
      BY <3>1 DEF TypeOK, RowsOK
    <3>3. row.status = "created" /\ row.invoice = NoInvoice /\ row.resource = NoResource
      BY OrderRows, Records DEF TypeOK, LocalOK
    <3>4. /\ order[k].invoice = NoInvoice /\ order[k].resource = NoResource
          /\ \A x \in Resources : resource[x] = k <=> order[k].resource = x
          /\ quoted[k] \subseteq {order[k].invoice} \ {NoInvoice}
          /\ told[k] \subseteq {order[k].resource} \ {NoResource}
      BY <3>1 DEF IInv, RowInv
    <3>5. RowInv(k)'
      BY <3>1, <3>2, <3>3, <3>4 DEF RowInv, buyer
    <3> QED
      BY <1>2, <3>1, <3>5
  <2> QED
    BY <1>1, <1>3, <2>1 DEF CreateOrder, Throw, rows
<1>4. ASSUME NEW r \in Requests, AttachInvoice(r) PROVE Goal
  <2>0. CASE Throw(r)
    BY <1>1, <2>0 DEF Throw
  <2> SUFFICES ASSUME ~Throw(r) PROVE Goal
    BY <2>0
  <2> PICK k \in Keys : k = key(r)
    BY <1>4 DEF AttachInvoice, TypeOK, LocalOK
  <2> PICK row : row = Invoiced(order[k], seen[r].invoice)
    OBVIOUS
  <2>1. /\ k \in Keys /\ order[k].status = "created"
        /\ order' = [order EXCEPT ![k] = row]
        /\ UNCHANGED <<resource, invoice, buyer>>
    BY <1>4 DEF AttachInvoice, TypeOK, LocalOK, lnbits
  <2>2. seen[r].invoice \in Invoices /\ invoice[seen[r].invoice].order = k
    BY <1>4 DEF AttachInvoice, IInv, RequestInv
  <2>3. order'[k] = row
    BY <2>1 DEF TypeOK, RowsOK
  <2>4. /\ row.status = "invoice_issued" /\ row.invoice = seen[r].invoice
        /\ row.resource = order[k].resource
    BY <2>1, <2>2, InvoicedRows DEF TypeOK, RowsOK
  <2>5. RowInv(k)'
    BY <2>1, <2>2, <2>3, <2>4 DEF IInv, RowInv, buyer
  <2> QED
    BY <1>2, <2>1, <2>5
<1>5. ASSUME NEW r \in Requests, MarkPaid(r) PROVE Goal
  <2> PICK k \in Keys : k = key(r)
    BY <1>5 DEF MarkPaid, TypeOK, LocalOK
  <2> PICK row : row = MarkedPaid(order[k])
    OBVIOUS
  <2>1. CASE ~UNCHANGED order
    <3>1. /\ k \in Keys /\ order[k].status = "invoice_issued"
          /\ order' = [order EXCEPT ![k] = row]
          /\ UNCHANGED <<resource, invoice, buyer>>
      BY <1>5, <2>1 DEF MarkPaid, Payable, TypeOK, LocalOK, lnbits
    <3>2. Settled(order[k].invoice)
      BY <1>5 DEF MarkPaid, IInv, RequestInv, SawAttached
    <3>3. order'[k] = row
      BY <3>1 DEF TypeOK, RowsOK
    <3>4. /\ row.status = "paid" /\ row.invoice = order[k].invoice
          /\ row.resource = order[k].resource
      BY <3>1, OrderRows DEF TypeOK, RowsOK
    <3>5. RowInv(k)'
      BY <3>1, <3>2, <3>3, <3>4 DEF IInv, RowInv, buyer, Settled
    <3> QED
      BY <1>2, <3>1, <3>5
  <2> QED
    BY <1>1, <1>5, <2>1 DEF MarkPaid
<1>6. ASSUME NEW k \in Keys, NEW x \in Resources, Dispense(k, x),
             order[k].status = "paid", UNCHANGED <<invoice, buyer>>
      PROVE  Goal
  <2> PICK row : row = Dispensed(order[k], x)
    OBVIOUS
  <2>1. order'[k] = row /\ \A j \in Keys \ {k} : order'[j] = order[j]
    BY <1>6 DEF Dispense, TypeOK, RowsOK
  <2>2. row.status = "dispensed" /\ row.invoice = order[k].invoice /\ row.resource = x
    BY DispensedRows DEF TypeOK, RowsOK
  <2>3. /\ resource[x] = NoKey
        /\ \A y \in Resources : resource'[y] = IF y = x THEN k ELSE resource[y]
    BY <1>6 DEF Dispense, TypeOK, RowsOK
  <2>4. x # NoResource /\ NoKey \notin Keys
    BY ConstantsAssumption DEF ConstantsAssumption
  <2>5. /\ RowInv(k) /\ order[k].resource = NoResource
        /\ order[k].invoice \in Invoices
    BY <1>6 DEF IInv, RowInv
  <2>6. RowInv(k)'
    BY <1>6, <2>1, <2>2, <2>3, <2>4, <2>5 DEF RowInv, Settled, buyer
  <2>7. ASSUME NEW j \in Keys \ {k} PROVE RowInv(j)'
    BY <1>6, <2>1, <2>3, <2>4, RowKeeps DEF buyer
  <2> QED
    BY <2>6, <2>7
<1>7. ASSUME NEW r \in Requests, DispensePaidOrder(r) \/ ConsumeChallenge(r)
      PROVE  Goal
  <2>1. key(r) \in Keys
    BY <1>7 DEF DispensePaidOrder, ConsumeChallenge, TypeOK, LocalOK
  <2> QED
    BY <1>1, <1>6, <1>7, <2>1
       DEF DispensePaidOrder, ConsumeChallenge, Challengeable, ProvisionFails,
           Throw, rows, lnbits
<1>8. ASSUME NEW r \in Requests, Reply(r) PROVE Goal
  <2> PICK k \in Keys : k = key(r)
    BY <1>8 DEF Reply, TypeOK, LocalOK
  <2>1. k \in Keys /\ UNCHANGED <<order, resource, invoice>>
    BY <1>8 DEF Reply, TypeOK, LocalOK, lnbits
  <2>2. ASSUME NEW j \in Keys \ {k} PROVE RowInv(j)'
    <3>1. quoted'[j] = quoted[j] /\ told'[j] = told[j]
      BY <1>8, <2>2 DEF Reply, TypeOK, BuyerOK
    <3> QED
      BY <2>1, <2>2, <3>1, RowKeeps
  <2>3. /\ quoted'[k] = IF answer[r].type = "quote"
                        THEN quoted[k] \cup {seen[r].invoice} ELSE quoted[k]
        /\ told'[k] = IF answer[r].type = "resource"
                      THEN told[k] \cup {answer[r].resource} ELSE told[k]
    BY <1>8, <2>1 DEF Reply, TypeOK, BuyerOK
  <2>4. /\ answer[r].type = "quote" => seen[r].invoice \in {order[k].invoice} \ {NoInvoice}
        /\ answer[r].type = "resource" => answer[r].resource \in {order[k].resource} \ {NoResource}
    BY <1>8, ConstantsAssumption
       DEF Reply, IInv, RequestInv, SawAttached, ConstantsAssumption
  <2>5. RowInv(k)'
    BY <2>1, <2>3, <2>4 DEF IInv, RowInv, Settled
  <2> QED
    BY <2>2, <2>5
<1>9. ASSUME NEW r \in Requests,
             \/ Arrive(r) \/ EnsureInvoice(r) \/ FindInvoice(r)
             \/ CreateInvoice(r) \/ AbandonCreateInvoice(r)
             \/ ValidateBolt11(r) \/ GetOrder(r) \/ PresentCredential(r)
             \/ VerifyInvoice(r) \/ Fail(r)
      PROVE  Goal
  BY <1>1, <1>9
     DEF Arrive, StartPoll, StartQuote, StartAgent, Start, EnsureInvoice,
         FindInvoice, CreateInvoice, AbandonCreateInvoice, ValidateBolt11,
         GetOrder, PresentCredential, VerifyInvoice, Fail, Throw, rows
<1>10. CASE Network
  BY <1>1, <1>10 DEF Network, Pay, ReportPayment, Lapse, LateInvoice, rows
<1>11. CASE UNCHANGED vars
  BY <1>1, <1>11 DEF vars, rows
<1> QED
  BY <1>3, <1>4, <1>5, <1>7, <1>8, <1>9, <1>10, <1>11 DEF Next, Progress

LEMMA IInvInit == ConstantsAssumption /\ Init => IInv
  BY Records DEF Init, IInv, RowInv, RequestInv, SawAttached, Calling,
     NoOrder, ConstantsAssumption

(* The inductive invariant holds of every behaviour.                       *)
THEOREM Inductive == Spec => [](TypeOK /\ IInv)
<1>1. Init => TypeOK /\ IInv
  BY TypeInit, IInvInit, ConstantsAssumption
<1>2. TypeOK /\ IInv /\ [Next]_vars => TypeOK' /\ IInv'
  <2> SUFFICES ASSUME TypeOK, IInv, [Next]_vars PROVE TypeOK' /\ IInv'
    OBVIOUS
  <2>1. TypeOK' /\ Frame
    BY TypeStep, FrameStep, ConstantsAssumption
  <2> QED
    BY <2>1, RowStep, RequestStep, ConstantsAssumption DEF IInv
<1> QED
  BY <1>1, <1>2, PTL DEF Spec

-----------------------------------------------------------------------------
(* What the inductive invariant gives.                                     *)

(* No order is paid or dispensed without the settlement of its invoice.    *)
THEOREM NothingIsFree == Spec => []SettledBeforePaid
<1>1. TypeOK /\ IInv => SettledBeforePaid
  BY DEF IInv, RowInv, SettledBeforePaid
<1> QED
  BY <1>1, Inductive, PTL

(* No payment buys two resources, however many requests dispense it.       *)
THEOREM NothingIsSoldTwice == Spec => []OneResourcePerOrder
<1>1. TypeOK /\ IInv => OneResourcePerOrder
  <2> SUFFICES ASSUME TypeOK, IInv, NEW k \in Keys
               PROVE  {x \in Resources : resource[x] = k}
                        = {order[k].resource} \ {NoResource}
    BY DEF OneResourcePerOrder
  <2>1. /\ \A x \in Resources : resource[x] = k <=> order[k].resource = x
        /\ order[k].resource \in Resources \cup {NoResource}
        /\ NoResource \notin Resources
    BY OrderRows, ConstantsAssumption
       DEF IInv, RowInv, TypeOK, RowsOK, ConstantsAssumption
  <2> QED
    BY <2>1
<1> QED
  BY <1>1, Inductive, PTL

(* The buyer of an order is only ever handed the resource of the order.    *)
THEOREM DeliveryIsTheOrders == Spec => []DeliveryIsStable
<1>1. TypeOK /\ IInv => DeliveryIsStable
  BY DEF IInv, RowInv, DeliveryIsStable
<1> QED
  BY <1>1, Inductive, PTL

(* The buyer of an order is only ever asked to pay its attached invoice.   *)
THEOREM QuoteIsTheOrders == Spec => []QuotedInvoiceIsAttached
<1>1. TypeOK /\ IInv => QuotedInvoiceIsAttached
  BY DEF IInv, RowInv, QuotedInvoiceIsAttached
<1> QED
  BY <1>1, Inductive, PTL

(* The row lock serialises the calls to LNbits for one order.              *)
THEOREM LockSpansTheCall == Spec => []OneCallerPerOrder
<1>1. TypeOK /\ IInv => OneCallerPerOrder
  BY DEF IInv, RequestInv, OneCallerPerOrder, TypeOK, LocalOK, Calling
<1> QED
  BY <1>1, Inductive, PTL
-----------------------------------------------------------------------------
(* The three ledgers.  Row, challenge and events of an order change in one *)
(* transaction, so their agreement is an invariant of its own.             *)

Agree(row, spent, events) ==
  /\ spent.consumed => row.status = "dispensed"
  /\ "resource_dispensed" \in events <=> row.status = "dispensed"
  /\ "payment_paid" \in events <=> row.status \in {"paid", "dispensed"}

LEMMA AgreeStep ==
  ASSUME ConstantsAssumption, TypeOK, LedgersAgree, [Next]_vars
  PROVE  LedgersAgree'
<1>1. CASE UNCHANGED <<order, challenge, ledger>>
  BY <1>1 DEF LedgersAgree
<1>2. ASSUME NEW k \in Keys, NEW row, NEW spent, NEW events,
             Agree(row, spent, events),
             order' = [order EXCEPT ![k] = row],
             challenge' = [challenge EXCEPT ![k] = spent],
             ledger' = [ledger EXCEPT ![k] = events]
      PROVE  LedgersAgree'
  BY <1>2 DEF Agree, LedgersAgree, TypeOK, RowsOK
<1>3. \A k \in Keys : /\ challenge = [challenge EXCEPT ![k] = challenge[k]]
                      /\ ledger = [ledger EXCEPT ![k] = ledger[k]]
                      /\ order = [order EXCEPT ![k] = order[k]]
  BY DEF TypeOK, RowsOK
<1>4. \A k \in Keys : order[k] \in OrderRow /\ Agree(order[k], challenge[k], ledger[k])
  BY DEF Agree, LedgersAgree, TypeOK, RowsOK
<1>5. ASSUME NEW r \in Requests, Throw(r) PROVE LedgersAgree'
  BY <1>1, <1>5 DEF Throw
<1>6. ASSUME NEW k \in Keys, NEW row, order' = [order EXCEPT ![k] = row],
              {order[k].status, row.status} \cap {"paid", "dispensed"} = {},
              UNCHANGED <<challenge, ledger>>
       PROVE  LedgersAgree'
  BY <1>4, <1>6 DEF Agree, LedgersAgree, TypeOK, RowsOK
<1>7. ASSUME NEW r \in Requests, CreateOrder(r) PROVE LedgersAgree'
  <2>1. key(r) \in Keys /\ job[r].purchase \in Purchases \cup {NoPurchase}
    BY <1>7, Records DEF CreateOrder, TypeOK, LocalOK
  <2>2. CASE /\ order[key(r)].status = "absent"
             /\ order' = [order EXCEPT ![key(r)] = NewOrder(job[r].purchase)]
             /\ UNCHANGED <<challenge, ledger>>
    <3>1. PICK row : row = NewOrder(job[r].purchase)
      OBVIOUS
    <3>2. row.status = "created"
      BY <2>1, <3>1, OrderRows
    <3> QED
      BY <1>6, <2>1, <2>2, <3>1, <3>2
  <2> QED
    BY <1>1, <1>5, <1>7, <2>2 DEF CreateOrder, rows
<1>8. ASSUME NEW r \in Requests, AttachInvoice(r) PROVE LedgersAgree'
  <2>1. key(r) \in Keys /\ seen[r].invoice \in Invoices \cup {NoInvoice}
    BY <1>8, Records DEF AttachInvoice, TypeOK, LocalOK
  <2>2. CASE /\ order[key(r)].status = "created"
             /\ order' = [order EXCEPT ![key(r)] = Invoiced(@, seen[r].invoice)]
             /\ UNCHANGED <<challenge, ledger>>
    <3>1. PICK row : row = Invoiced(order[key(r)], seen[r].invoice)
      OBVIOUS
    <3>2. row.status = "invoice_issued"
      BY <1>4, <2>1, <3>1, InvoicedRows
    <3> QED
      BY <1>6, <2>1, <2>2, <3>1, <3>2
  <2> QED
    BY <1>5, <1>8, <2>2 DEF AttachInvoice
<1>9. ASSUME NEW r \in Requests, MarkPaid(r) PROVE LedgersAgree'
  <2>1. key(r) \in Keys
    BY <1>9 DEF MarkPaid, TypeOK, LocalOK
  <2>2. CASE /\ Payable(order[key(r)])
             /\ order' = [order EXCEPT ![key(r)] = MarkedPaid(@)]
             /\ ledger' = [ledger EXCEPT ![key(r)] = @ \cup {"payment_paid"}]
             /\ UNCHANGED challenge
    <3>1. MarkedPaid(order[key(r)]).status = "paid"
      BY <1>4, <2>1, OrderRows
    <3>2. Agree(MarkedPaid(order[key(r)]), challenge[key(r)],
                ledger[key(r)] \cup {"payment_paid"})
      BY <1>4, <2>1, <2>2, <3>1 DEF Agree, Payable
    <3> QED
      BY <1>2, <1>3, <2>1, <2>2, <3>2
  <2> QED
    BY <1>1, <1>9, <2>2 DEF MarkPaid
<1>10. ASSUME NEW k \in Keys, NEW x \in Resources, Dispense(k, x),
             order[k].status = "paid", NEW spent,
             challenge' = [challenge EXCEPT ![k] = spent]
      PROVE  LedgersAgree'
  <2>1. Dispensed(order[k], x).status = "dispensed"
    BY <1>4, DispensedRows
  <2>2. Agree(Dispensed(order[k], x), spent, ledger[k] \cup {"resource_dispensed"})
    BY <1>4, <1>10, <2>1 DEF Agree
  <2> QED
    BY <1>2, <1>10, <2>2 DEF Dispense
<1>11. ASSUME NEW r \in Requests, DispensePaidOrder(r) PROVE LedgersAgree'
  <2>1. key(r) \in Keys
    BY <1>11 DEF DispensePaidOrder, TypeOK, LocalOK
  <2>2. CASE \E x \in Resources : Dispense(key(r), x) /\ order[key(r)].status = "paid"
                                 /\ UNCHANGED challenge
    BY <1>3, <1>10, <2>1, <2>2
  <2> QED
    BY <1>1, <1>5, <1>11, <2>2 DEF DispensePaidOrder, ProvisionFails, rows
<1>12. ASSUME NEW r \in Requests, ConsumeChallenge(r) PROVE LedgersAgree'
  <2> DEFINE k == key(r)
             spent(c) == [protocol |-> job[r].protocol, consumed |-> c]
  <2>1. k \in Keys
    BY <1>12 DEF ConsumeChallenge, TypeOK, LocalOK
  <2>2. CASE /\ challenge' = [challenge EXCEPT ![k] = spent(FALSE)]
             /\ UNCHANGED <<order, ledger>>
    <3>1. Agree(order[k], spent(FALSE), ledger[k])
      BY <1>4, <2>1 DEF Agree
    <3> QED
      BY <1>2, <1>3, <2>1, <2>2, <3>1
  <2>3. CASE /\ order[k].status = "paid"
             /\ challenge' = [challenge EXCEPT ![k] = spent(TRUE)]
             /\ \E x \in Resources : Dispense(k, x)
    BY <1>10, <2>1, <2>3
  <2> QED
    BY <1>1, <1>5, <1>12, <2>2, <2>3
       DEF ConsumeChallenge, Challengeable, ProvisionFails, rows
<1>13. ASSUME NEW r \in Requests,
              \/ Arrive(r) \/ EnsureInvoice(r) \/ FindInvoice(r) \/ CreateInvoice(r)
              \/ ValidateBolt11(r) \/ GetOrder(r) \/ PresentCredential(r)
              \/ VerifyInvoice(r) \/ Reply(r) \/ AbandonCreateInvoice(r) \/ Fail(r)
       PROVE  LedgersAgree'
  BY <1>1, <1>13
     DEF Arrive, StartPoll, StartQuote, StartAgent, Start, EnsureInvoice,
         FindInvoice, CreateInvoice, ValidateBolt11, GetOrder, PresentCredential,
         VerifyInvoice, Reply, AbandonCreateInvoice, Fail, Throw, rows
<1>14. CASE Network \/ UNCHANGED vars
  BY <1>1, <1>14 DEF Network, Pay, ReportPayment, Lapse, LateInvoice, vars, rows
<1> QED
  BY <1>7, <1>8, <1>9, <1>11, <1>12, <1>13, <1>14 DEF Next, Progress

(* A challenge is consumed with the dispensing it paid for, and the events *)
(* say what the row says, whatever requests race or die.                   *)
THEOREM LedgersAlwaysAgree == Spec => []LedgersAgree
<1>1. Init => LedgersAgree
  BY Records DEF Init, LedgersAgree, NoOrder, NoChallenge
<1>2. TypeOK /\ LedgersAgree /\ [Next]_vars => LedgersAgree'
  BY AgreeStep, ConstantsAssumption
<1> QED
  BY <1>1, <1>2, TypeCorrect, PTL DEF Spec
-----------------------------------------------------------------------------
(* A poll of a dispensed order.  A dispensed order stays so, and the poll  *)
(* meets its resource however often the order is read in between.          *)

AfterDispenseInv(r) ==
  job[r].afterDispense =>
    /\ job[r].kind = "poll"
    /\ pc[r] \in {"getOrder", "dispensePaidOrder", "reply"}
    /\ order[key(r)].status = "dispensed"
    /\ answer[r].type # "unsettled"

LEMMA DispensedStays ==
  ASSUME ConstantsAssumption, TypeOK, IInv, IInv', Frame, NEW k \in Keys,
         order[k].status = "dispensed"
  PROVE  order'[k].status = "dispensed"
<1>1. order[k].resource \in Resources
  BY OrderRows DEF IInv, RowInv, TypeOK, RowsOK
<1>2. order'[k].resource # NoResource
  BY <1>1, ConstantsAssumption DEF Frame, ConstantsAssumption
<1> QED
  BY <1>2 DEF IInv, RowInv

LEMMA AfterDispenseStep ==
  ASSUME ConstantsAssumption, TypeOK, IInv, IInv', Frame,
         \A r \in Requests : AfterDispenseInv(r), [Next]_vars
  PROVE  \A r \in Requests : AfterDispenseInv(r)'
<1> DEFINE Goal == \A r \in Requests : AfterDispenseInv(r)'
<1>1. ASSUME NEW s \in Requests, pc'[s] = pc[s], job'[s] = job[s], answer'[s] = answer[s]
      PROVE  AfterDispenseInv(s)'
  <2>1. job[s].afterDispense => key(s) \in Keys
    BY DEF AfterDispenseInv, TypeOK, LocalOK
  <2> QED
    BY <1>1, <2>1, DispensedStays DEF AfterDispenseInv, key
<1>2. ASSUME NEW r \in Requests, OthersKeep(r), AfterDispenseInv(r)' PROVE Goal
  BY <1>1, <1>2 DEF OthersKeep
<1>3. ASSUME NEW r \in Requests, Finish(r) PROVE Goal
  <2>1. OthersKeep(r) /\ ~job'[r].afterDispense
    BY <1>3, Records DEF Finish, OthersKeep, TypeOK, RowsOK, LocalOK
  <2> QED
    BY <1>2, <2>1 DEF AfterDispenseInv
<1>4. ASSUME NEW r \in Requests, NEW k \in Keys, StartPoll(r, k) PROVE Goal
  <2>1. OthersKeep(r)
    BY <1>4 DEF StartPoll, Start, OthersKeep, TypeOK, LocalOK, rows
  <2>2. /\ pc'[r] = "getOrder" /\ UNCHANGED order
        /\ job'[r].kind = "poll" /\ job'[r].key = k
        /\ job'[r].afterDispense <=> order[k].status = "dispensed"
    BY <1>4 DEF StartPoll, Start, TypeOK, LocalOK, rows
  <2>3. answer'[r].type = "none"
    BY <1>4, Records DEF StartPoll, Start, TypeOK, LocalOK, IInv, RequestInv, Answers
  <2> QED
    BY <1>2, <2>1, <2>2, <2>3 DEF AfterDispenseInv, key
<1>5. ASSUME NEW r \in Requests, NEW k \in Keys, NEW p \in Purchases,
             StartQuote(r, k, p) \/ \E protocol \in Protocols : StartAgent(r, k, p, protocol)
      PROVE  Goal
  <2>1. OthersKeep(r) /\ ~job'[r].afterDispense
    BY <1>5 DEF StartQuote, StartAgent, Start, OthersKeep, TypeOK, LocalOK, rows
  <2> QED
    BY <1>2, <2>1 DEF AfterDispenseInv
<1>6. ASSUME NEW r \in Requests, OthersKeep(r), UNCHANGED job, ~job[r].afterDispense
      PROVE  Goal
  BY <1>2, <1>6 DEF AfterDispenseInv
<1>7. ASSUME NEW r \in Requests, GetOrder(r) PROVE Goal
  <2>1. OthersKeep(r) /\ UNCHANGED <<order, job>>
    BY <1>7 DEF GetOrder, Answer, Remember, OthersKeep, TypeOK, LocalOK, rows
  <2>2. CASE job[r].afterDispense
    <3>1. key(r) \in Keys /\ order[key(r)].status = "dispensed"
      BY <1>7, <2>2 DEF GetOrder, AfterDispenseInv, TypeOK, LocalOK
    <3>2. order[key(r)].invoice # NoInvoice
      BY <3>1, ConstantsAssumption DEF IInv, RowInv, ConstantsAssumption
    <3>3. pc'[r] = "dispensePaidOrder" /\ UNCHANGED answer
      BY <1>7, <3>1, <3>2 DEF GetOrder, AfterRead, TypeOK, LocalOK
    <3> QED
      BY <1>2, <2>1, <2>2, <3>1, <3>3 DEF AfterDispenseInv, key
  <2> QED
    BY <1>6, <2>1, <2>2
<1>8. ASSUME NEW r \in Requests, DispensePaidOrder(r) PROVE Goal
  <2>1. CASE Finish(r)
    BY <1>3, <2>1
  <2>2. CASE ~Finish(r)
    <3>1. OthersKeep(r) /\ UNCHANGED job
      BY <1>8, <2>2
         DEF DispensePaidOrder, ProvisionFails, Throw, Answer, OthersKeep, TypeOK,
             LocalOK, rows
    <3>2. CASE job[r].afterDispense
      <4>1. key(r) \in Keys /\ order[key(r)].status = "dispensed"
        BY <1>8, <3>2 DEF DispensePaidOrder, AfterDispenseInv, TypeOK, LocalOK
      <4>2. Answer(r, "resource", order[key(r)].resource) /\ UNCHANGED order
        BY <1>8, <2>2, <4>1 DEF DispensePaidOrder, ProvisionFails, Throw, rows
      <4>3. pc'[r] = "reply" /\ answer'[r].type = "resource"
        BY <4>2 DEF Answer, TypeOK, LocalOK
      <4> QED
        BY <1>2, <3>1, <3>2, <4>1, <4>2, <4>3 DEF AfterDispenseInv, key
    <3> QED
      BY <1>6, <3>1, <3>2
  <2> QED
    BY <2>1, <2>2
<1>9. ASSUME NEW r \in Requests, pc[r] \notin {"getOrder", "dispensePaidOrder", "reply"},
             OthersKeep(r), UNCHANGED job
      PROVE  Goal
  BY <1>6, <1>9 DEF AfterDispenseInv
<1>10. ASSUME NEW r \in Requests, CreateOrder(r) \/ EnsureInvoice(r) \/ FindInvoice(r)
       PROVE  Goal
  <2>1. CASE ~Finish(r)
    <3>1. OthersKeep(r)
      BY <1>10, <2>1, ConstantsAssumption
         DEF CreateOrder, EnsureInvoice, FindInvoice, Throw, Goto, Remember, Unlocked,
             OthersKeep, TypeOK, RowsOK, LocalOK, rows, ConstantsAssumption
    <3>2. UNCHANGED job
      BY <1>10, <2>1 DEF CreateOrder, EnsureInvoice, FindInvoice, Throw, Goto
    <3> QED
      BY <1>9, <1>10, <3>1, <3>2 DEF CreateOrder, EnsureInvoice, FindInvoice
  <2> QED
    BY <1>3, <2>1
<1>11. ASSUME NEW r \in Requests, CreateInvoice(r) \/ VerifyInvoice(r) \/ MarkPaid(r)
       PROVE  Goal
  <2>1. OthersKeep(r) /\ UNCHANGED job
    BY <1>11
       DEF CreateInvoice, VerifyInvoice, MarkPaid, Goto, Answer, Remember, OthersKeep,
           TypeOK, LocalOK, rows
  <2> QED
    BY <1>9, <1>11, <2>1 DEF CreateInvoice, VerifyInvoice, MarkPaid
<1>12. ASSUME NEW r \in Requests, AttachInvoice(r) PROVE Goal
  <2>1. CASE ~Finish(r)
    <3>1. lock[key(r)] = r
      BY <1>12 DEF AttachInvoice, IInv, RequestInv, Calling
    <3>2. OthersKeep(r) /\ UNCHANGED job
      BY <1>12, <2>1, <3>1
         DEF AttachInvoice, Throw, Goto, OthersKeep, TypeOK, RowsOK, LocalOK
    <3> QED
      BY <1>9, <1>12, <3>2 DEF AttachInvoice
  <2> QED
    BY <1>3, <2>1
<1>13. ASSUME NEW r \in Requests, ValidateBolt11(r) \/ ConsumeChallenge(r) PROVE Goal
  <2>1. CASE ~Finish(r)
    <3>1. OthersKeep(r) /\ UNCHANGED job
      BY <1>13, <2>1
         DEF ValidateBolt11, ConsumeChallenge, ProvisionFails, Throw, Goto, Answer,
             OthersKeep, TypeOK, LocalOK, rows
    <3> QED
      BY <1>9, <1>13, <3>1 DEF ValidateBolt11, ConsumeChallenge
  <2> QED
    BY <1>3, <2>1
<1>14. ASSUME NEW r \in Requests, PresentCredential(r) PROVE Goal
  <2>1. OthersKeep(r) /\ UNCHANGED job
    BY <1>14
       DEF PresentCredential, Answer, Remember, OthersKeep, TypeOK, LocalOK, rows
  <2>2. ~job[r].afterDispense
    BY <1>14 DEF PresentCredential, AfterDispenseInv
  <2> QED
    BY <1>6, <2>1, <2>2
<1>15. ASSUME NEW r \in Requests, Reply(r) \/ AbandonCreateInvoice(r) \/ Fail(r)
       PROVE  Goal
  BY <1>3, <1>15 DEF Reply, AbandonCreateInvoice, Fail, Throw
<1>16. CASE Network \/ UNCHANGED vars
  <2>1. UNCHANGED local
    BY <1>16 DEF Network, Pay, ReportPayment, Lapse, LateInvoice, vars
  <2> QED
    BY <1>1, <2>1 DEF local
<1> QED
  BY <1>4, <1>5, <1>7, <1>8, <1>10, <1>11, <1>12, <1>13, <1>14, <1>15, <1>16
     DEF Next, Progress, Arrive

(* Whoever polls an order after it was dispensed is never told that it is  *)
(* unsettled, whatever interleaves with the two reads of the poll.         *)
THEOREM PollsAlwaysDeliver == Spec => []PollAfterDispenseDelivers
<1> DEFINE All == \A r \in Requests : AfterDispenseInv(r)
<1>1. Init => All
  BY Records DEF Init, AfterDispenseInv
<1>2. TypeOK /\ TypeOK' /\ IInv /\ IInv' /\ All /\ [Next]_vars => All'
  BY AfterDispenseStep, FrameStep, ConstantsAssumption
<1>3. All => PollAfterDispenseDelivers
  BY DEF AfterDispenseInv, PollAfterDispenseDelivers
<1> QED
  BY <1>1, <1>2, <1>3, Inductive, PTL DEF Spec
-----------------------------------------------------------------------------
(* PaymentOrders implements Vending: each step settles one purchase, vends *)
(* one item, hands an item out, or changes nothing the buyer was promised. *)

Vended == [k \in Keys |-> order[k].resource]

(* The step of the abstract machine that a step here stands for.           *)
VendingStep == [Machine!Next]_(Machine!vars)

LEMMA Stutter ==
  ASSUME UNCHANGED <<PaidKeys, Vended, told>>
  PROVE  VendingStep
  BY DEF VendingStep, Machine!vars, Vended

LEMMA StepOfKey ==
  ASSUME NEW k \in Keys,
         \/ Machine!Settle(k) \/ Machine!Hand(k)
         \/ \E x \in Resources : Machine!Vend(k, x)
  PROVE  VendingStep
  BY DEF VendingStep, Machine!Next

(* Whether an order is paid depends on its invoice and the wallet alone.   *)
LEMMA PaidKeysKeep ==
  ASSUME \A k \in Keys : order'[k].invoice = order[k].invoice,
         \A i \in Invoices : (\E k \in Keys : order[k].invoice = i) =>
           (Settled(i)' <=> Settled(i))
  PROVE  PaidKeys' = PaidKeys
  BY DEF PaidKeys

(* A step that changes neither order rows nor what was handed out, nor the *)
(* settlement of an attached invoice.                                      *)
LEMMA QuietStep ==
  ASSUME UNCHANGED <<order, told>>,
         \A i \in Invoices : (\E k \in Keys : order[k].invoice = i) =>
           (Settled(i)' <=> Settled(i))
  PROVE  VendingStep
  BY Stutter, PaidKeysKeep DEF Vended

LEMMA VendingRefines ==
  ASSUME ConstantsAssumption, TypeOK, IInv, [Next]_vars
  PROVE  VendingStep
<1>1. CASE UNCHANGED <<order, told, invoice>>
  BY <1>1, QuietStep DEF Settled
<1>2. ASSUME NEW j \in Keys, NEW row \in OrderRow,
             order' = [order EXCEPT ![j] = row], UNCHANGED <<told, invoice>>,
             row.invoice = order[j].invoice, row.resource = order[j].resource
      PROVE  VendingStep
  <2>1. \A k \in Keys : /\ order'[k].invoice = order[k].invoice
                        /\ order'[k].resource = order[k].resource
    BY <1>2 DEF TypeOK, RowsOK
  <2> QED
    BY <1>2, <2>1, Stutter, PaidKeysKeep DEF Vended, Settled
<1>3. ASSUME NEW r \in Requests, CreateOrder(r) PROVE VendingStep
  <2> PICK k \in Keys : k = key(r)
    BY <1>3 DEF CreateOrder, TypeOK, LocalOK
  <2> PICK row : row = NewOrder(job[r].purchase)
    OBVIOUS
  <2>1. CASE ~UNCHANGED order
    <3>1. /\ order[k].status = "absent"
          /\ order' = [order EXCEPT ![k] = row]
          /\ UNCHANGED <<told, invoice>>
      BY <1>3, <2>1 DEF CreateOrder, Throw, TypeOK, LocalOK, rows, lnbits, buyer
    <3>2. row \in OrderRow /\ row.invoice = NoInvoice /\ row.resource = NoResource
      BY OrderRows, Records DEF TypeOK, LocalOK
    <3>3. order[k].invoice = NoInvoice /\ order[k].resource = NoResource
      BY <3>1 DEF IInv, RowInv
    <3> QED
      BY <1>2, <3>1, <3>2, <3>3
  <2> QED
    BY <1>1, <1>3, <2>1 DEF CreateOrder, Throw, rows, lnbits, buyer
(* The payment may be known before its invoice is attached.                *)
<1>4. ASSUME NEW r \in Requests, AttachInvoice(r) PROVE VendingStep
  <2>0. CASE Throw(r)
    BY <1>1, <2>0 DEF Throw, lnbits, buyer
  <2> SUFFICES ASSUME ~Throw(r) PROVE VendingStep
    BY <2>0
  <2> PICK k \in Keys : k = key(r)
    BY <1>4 DEF AttachInvoice, TypeOK, LocalOK
  <2> PICK i \in Invoices : i = seen[r].invoice
    BY <1>4 DEF AttachInvoice, IInv, RequestInv
  <2> PICK row : row = Invoiced(order[k], i)
    OBVIOUS
  <2>1. /\ order[k].status = "created"
        /\ order' = [order EXCEPT ![k] = row]
        /\ UNCHANGED <<told, invoice>>
    BY <1>4 DEF AttachInvoice, lnbits, buyer
  <2>2. row.invoice = i /\ row.resource = order[k].resource
    BY <2>1, InvoicedRows DEF TypeOK, RowsOK
  <2>3. \A j \in Keys : /\ order'[j].resource = order[j].resource
                        /\ order'[j].invoice = IF j = k THEN i ELSE order[j].invoice
    BY <2>1, <2>2 DEF TypeOK, RowsOK
  <2>4. k \notin PaidKeys
    BY <2>1, ConstantsAssumption DEF PaidKeys, IInv, RowInv, ConstantsAssumption
  <2>5. Vended' = Vended
    BY <2>3 DEF Vended
  <2>6. CASE Settled(i)
    <3>1. PaidKeys' = PaidKeys \cup {k}
      BY <2>1, <2>3, <2>6 DEF PaidKeys, Settled
    <3>2. Machine!Settle(k)
      BY <2>1, <2>4, <2>5, <3>1 DEF Machine!Settle, Vended
    <3> QED
      BY <3>2, StepOfKey
  <2>7. CASE ~Settled(i)
    <3>1. PaidKeys' = PaidKeys
      BY <2>1, <2>3, <2>4, <2>7 DEF PaidKeys, Settled
    <3> QED
      BY <2>1, <2>5, <3>1, Stutter
  <2> QED
    BY <2>6, <2>7
<1>5. ASSUME NEW r \in Requests, MarkPaid(r) PROVE VendingStep
  <2>1. key(r) \in Keys /\ order[key(r)] \in OrderRow
    BY <1>5 DEF MarkPaid, TypeOK, RowsOK, LocalOK
  <2>2. CASE UNCHANGED order
    BY <1>1, <1>5, <2>2 DEF MarkPaid, lnbits, buyer
  <2>3. CASE ~UNCHANGED order
    BY <1>2, <1>5, <2>1, <2>3, OrderRows DEF MarkPaid, lnbits, buyer
  <2> QED
    BY <2>2, <2>3
<1>6. ASSUME NEW k \in Keys, NEW x \in Resources, Dispense(k, x),
             order[k].status = "paid", UNCHANGED <<told, invoice>>
      PROVE  VendingStep
  <2>1. /\ order'[k] = Dispensed(order[k], x)
        /\ \A j \in Keys \ {k} : order'[j] = order[j]
    BY <1>6 DEF Dispense, TypeOK, RowsOK
  <2>2. order'[k].invoice = order[k].invoice /\ order'[k].resource = x
    BY <2>1, DispensedRows DEF TypeOK, RowsOK
  <2>3. PaidKeys' = PaidKeys
    BY <1>6, <2>1, <2>2, PaidKeysKeep DEF Settled
  <2>4. k \in PaidKeys /\ Vended[k] = NoResource
    BY <1>6 DEF IInv, RowInv, PaidKeys, Vended
  <2>5. \A other \in Keys : Vended[other] # x
    BY <1>6, ConstantsAssumption
       DEF Dispense, IInv, RowInv, Vended, ConstantsAssumption
  <2>6. Vended' = [Vended EXCEPT ![k] = x]
    BY <2>1, <2>2 DEF Vended
  <2>7. Machine!Vend(k, x)
    BY <1>6, <2>3, <2>4, <2>5, <2>6 DEF Machine!Vend, Vended
  <2> QED
    BY <2>7, StepOfKey
<1>7. ASSUME NEW r \in Requests, DispensePaidOrder(r) \/ ConsumeChallenge(r)
      PROVE  VendingStep
  <2>1. key(r) \in Keys
    BY <1>7 DEF DispensePaidOrder, ConsumeChallenge, TypeOK, LocalOK
  <2> QED
    BY <1>1, <1>6, <1>7, <2>1
       DEF DispensePaidOrder, ConsumeChallenge, Challengeable, ProvisionFails,
           Throw, rows, lnbits, buyer
(* The same item again to whoever asks again.                              *)
<1>8. ASSUME NEW r \in Requests, Reply(r) PROVE VendingStep
  <2> PICK k \in Keys : k = key(r)
    BY <1>8 DEF Reply, TypeOK, LocalOK
  <2>1. UNCHANGED <<order, invoice>>
    BY <1>8 DEF Reply, lnbits
  <2>2. CASE answer[r].type = "resource"
    <3>1. /\ answer[r].resource = order[k].resource
          /\ order[k].resource # NoResource
      BY <2>2, <1>8, ConstantsAssumption
         DEF IInv, RequestInv, ConstantsAssumption, Reply
    <3>2. told' = [told EXCEPT ![k] = {order[k].resource}]
      <4>1. told[k] \subseteq {order[k].resource}
        BY DEF IInv, RowInv
      <4>2. told' = [told EXCEPT ![k] = told[k] \cup {answer[r].resource}]
        BY <1>8, <2>2 DEF Reply
      <4>3. told[k] \cup {answer[r].resource} = {order[k].resource}
        BY <3>1, <4>1
      <4> QED
        BY <4>2, <4>3
    <3>3. PaidKeys' = PaidKeys /\ Vended' = Vended
      BY <2>1, PaidKeysKeep DEF Vended, Settled
    <3>4. Machine!Hand(k)
      BY <3>1, <3>2, <3>3 DEF Machine!Hand, Vended
    <3> QED
      BY <3>4, StepOfKey
  <2>3. CASE answer[r].type # "resource"
    BY <1>1, <1>8, <2>1, <2>3 DEF Reply
  <2> QED
    BY <2>2, <2>3
(* An invoice that LNbits creates now is attached to no order yet.         *)
<1>9. ASSUME NEW k \in Keys, NEW i \in Invoices, Issue(i, k), UNCHANGED <<order, told>>
      PROVE  VendingStep
  <2>1. \A j \in Keys : order[j].invoice # i
    BY <1>9, OwnInvoice, ConstantsAssumption DEF Issue, ConstantsAssumption
  <2>2. \A other \in Invoices \ {i} : invoice'[other] = invoice[other]
    BY <1>9 DEF Issue, TypeOK, LnbitsOK
  <2> QED
    BY <1>9, <2>1, <2>2, QuietStep DEF Settled
<1>10. ASSUME NEW r \in Requests, CreateInvoice(r) \/ AbandonCreateInvoice(r)
       PROVE  VendingStep
  <2>1. key(r) \in Keys
    BY <1>10 DEF CreateInvoice, AbandonCreateInvoice, TypeOK, LocalOK
  <2> QED
    BY <1>1, <1>9, <1>10, <2>1 DEF CreateInvoice, AbandonCreateInvoice, rows, buyer
<1>11. ASSUME NEW k \in Keys, LateInvoice(k) PROVE VendingStep
  BY <1>9, <1>11 DEF LateInvoice, rows, buyer
<1>12. ASSUME NEW i \in Invoices, Pay(i) \/ Lapse(i) PROVE VendingStep
  <2>1. \A j \in Invoices : Settled(j)' <=> Settled(j)
    <3>1. invoice[i] \in InvoiceRow
      BY DEF TypeOK, LnbitsOK
    <3>2. Expired(invoice[i]).pay = invoice[i].pay /\ Claimed(invoice[i]).pay = "claimed"
      BY <3>1 DEF Expired, Claimed, InvoiceRow
    <3> QED
      BY <1>12, <3>2 DEF Pay, Lapse, Settled, TypeOK, LnbitsOK
  <2> QED
    BY <1>12, <2>1, QuietStep DEF Pay, Lapse, rows, buyer
(* LNbits reports a payment: the order of the invoice, if it was attached. *)
<1>13. ASSUME NEW i \in Invoices, ReportPayment(i) PROVE VendingStep
  <2>1. /\ UNCHANGED <<order, told>> /\ ~Settled(i) /\ Settled(i)'
        /\ \A j \in Invoices \ {i} : invoice'[j] = invoice[j]
    BY <1>13, InvoiceRows DEF ReportPayment, Settled, TypeOK, LnbitsOK, rows, buyer
  <2>2. CASE \A k \in Keys : order[k].invoice # i
    BY <2>1, <2>2, QuietStep DEF Settled
  <2>3. CASE \E k \in Keys : order[k].invoice = i
    <3>1. PICK k \in Keys : order[k].invoice = i
      BY <2>3
    <3>2. \A j \in Keys \ {k} : order[j].invoice # i
      BY <3>1, OwnInvoice, ConstantsAssumption
    <3>3. k \notin PaidKeys /\ PaidKeys' = PaidKeys \cup {k}
      BY <2>1, <3>1, <3>2 DEF PaidKeys, Settled
    <3>4. Machine!Settle(k)
      BY <2>1, <3>3 DEF Machine!Settle
    <3> QED
      BY <3>4, StepOfKey
  <2> QED
    BY <2>2, <2>3
<1>14. ASSUME NEW r \in Requests,
              \/ Arrive(r) \/ EnsureInvoice(r) \/ FindInvoice(r)
              \/ ValidateBolt11(r) \/ GetOrder(r) \/ PresentCredential(r)
              \/ VerifyInvoice(r) \/ Fail(r)
       PROVE  VendingStep
  BY <1>1, <1>14
     DEF Arrive, StartPoll, StartQuote, StartAgent, Start, EnsureInvoice,
         FindInvoice, ValidateBolt11, GetOrder, PresentCredential,
         VerifyInvoice, Fail, Throw, rows, lnbits, buyer
<1>15. CASE UNCHANGED vars
  BY <1>1, <1>15 DEF vars, rows, lnbits, buyer
<1> QED
  BY <1>3, <1>4, <1>5, <1>7, <1>8, <1>10, <1>11, <1>12, <1>13, <1>14, <1>15
     DEF Next, Progress, Network

(* Whatever the interleaving of polls, agents, lost calls, crashes and     *)
(* expiring invoices, each order is paid, then vended once, then handed    *)
(* out as often as asked.                                                  *)
THEOREM OrdersImplementVending == Spec => VendsLikeTheMachine
<1>1. Init => Machine!Init
  BY OrderRows DEF Init, Machine!Init, PaidKeys, NotIssued, Settled, NoOrder
<1>2. TypeOK /\ IInv /\ [Next]_vars => [Machine!Next]_(Machine!vars)
  BY VendingRefines, ConstantsAssumption DEF VendingStep
<1> QED
  BY <1>1, <1>2, Inductive, PTL DEF Spec, VendsLikeTheMachine, Machine!Spec
=============================================================================
