------------------------------ MODULE Checkout ------------------------------
(***************************************************************************)
(* The checkout dialog of one browser tab.  Handlers run to their next     *)
(* await without interruption and share the variables of the page, so a    *)
(* submission or a poll goes on with whatever a later checkout has put     *)
(* there; the session counter tells it that it was overtaken.  A purchase  *)
(* waiting for its payment is kept in sessionStorage and taken up again    *)
(* after a reload.  The buyer presses what is visible.                     *)
(***************************************************************************)
EXTENDS Naturals

CONSTANTS
  Products,  \* what is sold; "whisper" is encrypted by the page
  Plans,     \* the plans of every product, each at its own price
  Attempts,  \* quote attempts: an idempotency key, its order, its encryption key
  Flows,     \* handlers that can be suspended at an await at the same time
  None,
  MaxSession \* bound: checkouts opened or closed

Requests == [product : Products, plan : Plans]
Purchases == [order : Attempts, product : Products, plan : Plans, key : Attempts \cup {None}]

ASSUME CheckoutAssumption ==
  /\ None \notin Attempts \cup Requests \cup Purchases
  /\ MaxSession \in Nat

VARIABLES
  page,    \* catalog loaded, dialog open, its stage, the submit button is there,
           \* its title says that a purchase is resumed
  product, plan, session,
  attempt, \* quoteAttempt: what was asked for and under which key
  key,     \* encryptionKey: the attempt it belongs to, or None ("")
  shown,   \* the order whose invoice is in the panel, or None: it is hidden
  output,  \* the delivery on screen and the key in its link, or None
  pending, \* sessionStorage
  flow,    \* where each handler is suspended and what it holds
  orders,  \* the server's orders
  paid     \* the settled ones

vars == <<page, product, plan, session, attempt, key, shown, output, pending, flow, orders, paid>>

choice == <<product, plan>>
server == <<orders, paid>>

Idle == [pc |-> "idle", session |-> 0, plan |-> None, order |-> None, request |-> None,
         resumed |-> FALSE]
NoAttempt == [id |-> None, request |-> None]
BlankPage == [loaded |-> FALSE, open |-> FALSE, stage |-> "review", button |-> FALSE,
              resumed |-> FALSE]

-----------------------------------------------------------------------------
(* Faults that the runs must notice: mutated forms of definitions below.   *)

NeverOvertaken(f) == FALSE
Forgets(f) == None
SessionBefore == session
-----------------------------------------------------------------------------
Overtaken(f) == flow[f].session # session \/ ~page.open

Init ==
  /\ page = BlankPage
  /\ product \in Products /\ plan \in Plans /\ session = 0
  /\ attempt = NoAttempt /\ key = None /\ shown = None /\ output = None /\ pending = None
  /\ flow = [f \in Flows |-> Idle]
  /\ orders = [a \in Attempts |-> None] /\ paid = {}

(* resetCheckoutState, in a dialog opened for the next session.            *)
Opens(stage) ==
  /\ session < MaxSession
  /\ session' = session + 1
  /\ page' = [loaded |-> TRUE, open |-> TRUE, stage |-> stage, button |-> stage = "review",
              resumed |-> stage = "pending"]
  /\ attempt' = NoAttempt /\ output' = None

(* The dialog is modal: the buttons of the page wait until it is closed.   *)
OpenCheckout(p, pl) ==
  /\ page.loaded /\ ~page.open
  /\ Opens("review")
  /\ product' = p /\ plan' = pl
  /\ key' = None /\ shown' = None
  /\ UNCHANGED <<pending, flow, server>>

(* The plans are hidden only while an invoice waits.                       *)
ChoosePlan(pl) ==
  /\ page.open /\ page.stage # "pending"
  /\ plan' = pl
  /\ UNCHANGED <<page, product, session, attempt, key, shown, output, pending, flow, server>>

(* A delivery on screen is closed only on the buyer's confirmation, which   *)
(* may always be given.                                                    *)
CloseCheckout ==
  /\ page.open /\ session < MaxSession
  /\ session' = session + 1
  /\ page' = [page EXCEPT !.open = FALSE]
  /\ UNCHANGED <<choice, attempt, key, shown, output, pending, flow, server>>

(* The page starts anew; the counter goes on in the model, since no handler *)
(* of the old page is left to compare it.                                  *)
Reload ==
  /\ page' = BlankPage
  /\ attempt' = NoAttempt /\ key' = None /\ shown' = None /\ output' = None
  /\ flow' = [f \in Flows |-> Idle]
  /\ UNCHANGED <<choice, session, pending, server>>
-----------------------------------------------------------------------------
Resting(f) == flow' = [flow EXCEPT ![f] = Idle]

(* The button comes back.  The invoice panel stays if it is there: only a   *)
(* new checkout and a delivery hide it.                                    *)
Review == page' = [page EXCEPT !.stage = "review", !.button = TRUE]

(* A resumption that fails gives up the stored purchase as well.           *)
KeptAfter(f) == IF flow[f].resumed THEN None ELSE pending

(* The catch of a submission or of a resumption.                           *)
Fails(f) ==
  /\ Resting(f)
  /\ \/ Overtaken(f) /\ UNCHANGED <<page, pending>>
     \/ ~Overtaken(f) /\ Review /\ pending' = KeptAfter(f)
  /\ UNCHANGED <<choice, session, attempt, key, shown, output>>

Submit(f) ==
  /\ page.open /\ page.button /\ flow[f] = Idle
  /\ page' = [page EXCEPT !.stage = "requesting", !.button = FALSE]
  /\ flow' = [flow EXCEPT ![f] = [Idle EXCEPT !.pc = "catalog", !.session = session, !.plan = plan]]
  /\ UNCHANGED <<choice, session, attempt, key, shown, output, pending, server>>

Asked == [product |-> product, plan |-> plan]
AsksAnew == attempt.request # Asked

Fresh(a) ==
  /\ orders[a] = None /\ key # a /\ attempt.id # a
  /\ \A f \in Flows : flow[f].order # a

Await(f, pc, a, request) ==
  flow' = [flow EXCEPT ![f] = [@ EXCEPT !.pc = pc, !.order = a, !.request = request]]

(* The catalogue answers: what the page shows now is asked for, under the   *)
(* key of the attempt before if that asked for the same.                   *)
CatalogAnswers(f) ==
  /\ flow[f].pc = "catalog" /\ plan = flow[f].plan
  /\ \/ /\ AsksAnew /\ product = "whisper"
        /\ \E a \in Attempts : Fresh(a) /\ Await(f, "seal", a, Asked)
        /\ UNCHANGED <<attempt, key>>
     \/ /\ AsksAnew /\ product # "whisper"
        /\ \E a \in Attempts :
             Fresh(a) /\ attempt' = [id |-> a, request |-> Asked] /\ Await(f, "quote", a, Asked)
        /\ UNCHANGED key
     \/ /\ ~AsksAnew
        /\ Await(f, "quote", attempt.id, Asked)
        /\ key' = IF product = "whisper" THEN attempt.id ELSE key
        /\ UNCHANGED attempt
  /\ UNCHANGED <<page, choice, session, shown, output, pending, server>>

(* The catalogue or the price changed, or it does not answer.              *)
CatalogFails(f) == flow[f].pc = "catalog" /\ Fails(f) /\ UNCHANGED server

(* sealWhisper is done: the plan in the header is the one selected by now.  *)
Sealed(f) ==
  /\ flow[f].pc = "seal"
  /\ attempt' = [id |-> flow[f].order, request |-> flow[f].request]
  /\ key' = flow[f].order
  /\ Await(f, "quote", flow[f].order, [product |-> "whisper", plan |-> plan])
  /\ UNCHANGED <<page, choice, session, shown, output, pending, server>>

(* The browser refuses the encryption.                                     *)
SealFails(f) == flow[f].pc = "seal" /\ Fails(f) /\ UNCHANGED server
-----------------------------------------------------------------------------
(* The server makes the order of this key, or finds it.                    *)
Arrives(f) ==
  orders' = [orders EXCEPT ![flow[f].order] = IF @ = None THEN flow[f].request ELSE @]

Quoted(f) ==
  /\ orders'[flow[f].order] = flow[f].request
  /\ flow[f].request.plan = flow[f].plan

Stored(a) == [order |-> a, product |-> product, plan |-> plan,
              key |-> IF product = "whisper" THEN key ELSE None]

QuoteAnswers(f) ==
  /\ flow[f].pc = "quote"
  /\ Arrives(f)
  /\ \/ /\ Quoted(f) /\ ~Overtaken(f)
        /\ pending' = Stored(flow[f].order)
        /\ shown' = flow[f].order
        /\ page' = [page EXCEPT !.stage = "pending", !.button = FALSE]
        /\ flow' = [flow EXCEPT ![f].pc = "sleep", ![f].request = None]
        /\ UNCHANGED <<choice, session, attempt, key, output>>
     \/ /\ Quoted(f) /\ Overtaken(f)
        /\ Resting(f)
        /\ UNCHANGED <<page, choice, session, attempt, key, shown, output, pending>>
     \/ ~Quoted(f) /\ Fails(f)
  /\ UNCHANGED paid

(* The request or its answer is lost, or the server refuses.               *)
QuoteFails(f) ==
  /\ flow[f].pc = "quote"
  /\ Arrives(f) \/ UNCHANGED orders
  /\ Fails(f)
  /\ UNCHANGED paid

TimerFires(f) ==
  /\ flow[f].pc = "sleep"
  /\ \/ Overtaken(f) /\ Resting(f)
     \/ ~Overtaken(f) /\ flow' = [flow EXCEPT ![f].pc = "poll"]
  /\ UNCHANGED <<page, choice, session, attempt, key, shown, output, pending, server>>

(* One poll of at most 205: the loop goes on or is over.                   *)
Unpaid(f) ==
  /\ flow[f].pc = "poll" /\ flow[f].order \notin paid
  /\ \/ /\ flow' = [flow EXCEPT ![f].pc = "sleep"]
        /\ UNCHANGED <<page, choice, session, attempt, key, shown, output, pending>>
     \/ Fails(f)
  /\ UNCHANGED server

PollFails(f) == flow[f].pc = "poll" /\ Fails(f) /\ UNCHANGED server

(* The answer is shown without another look at the session.                *)
Delivered(f) ==
  /\ flow[f].pc = "poll" /\ flow[f].order \in paid
  /\ pending' = None
  /\ page' = [page EXCEPT !.stage = "paid"]
  /\ shown' = None
  /\ output' = [order |-> flow[f].order, key |-> key]
  /\ Resting(f)
  /\ UNCHANGED <<choice, session, attempt, key, server>>
-----------------------------------------------------------------------------
(* loadPendingCheckout drops what has expired, and the resumption what is   *)
(* not sold at that price any more.                                        *)
Resumable == pending # None /\ pending.plan = orders[pending.order].plan

ResumedSession == session + 1

Resume(f) ==
  /\ ~page.loaded /\ Resumable
  /\ Opens("pending")
  /\ product' = pending.product /\ plan' = pending.plan
  /\ key' = pending.key
  /\ shown' = pending.order
  /\ flow' = [flow EXCEPT ![f] = [Idle EXCEPT !.pc = "sleep", !.session = ResumedSession,
                                              !.plan = pending.plan, !.order = pending.order,
                                              !.resumed = TRUE]]
  /\ UNCHANGED <<pending, server>>

NothingToResume ==
  /\ ~page.loaded
  /\ page' = [page EXCEPT !.loaded = TRUE]
  /\ pending' = None
  /\ UNCHANGED <<choice, session, attempt, key, shown, output, flow, server>>

(* The buyer's wallet settles an invoice.                                  *)
Pay(a) ==
  /\ orders[a] # None /\ paid' = paid \cup {a}
  /\ UNCHANGED <<page, choice, session, attempt, key, shown, output, pending, flow, orders>>
-----------------------------------------------------------------------------
Answered(f) ==
  \/ CatalogAnswers(f) \/ CatalogFails(f) \/ Sealed(f) \/ SealFails(f)
  \/ QuoteAnswers(f) \/ QuoteFails(f) \/ TimerFires(f) \/ Unpaid(f) \/ PollFails(f) \/ Delivered(f)

Next ==
  \/ \E p \in Products, pl \in Plans : OpenCheckout(p, pl)
  \/ \E pl \in Plans : ChoosePlan(pl)
  \/ CloseCheckout \/ Reload \/ NothingToResume
  \/ \E f \in Flows : Submit(f) \/ Resume(f) \/ Answered(f)
  \/ \E a \in Attempts : Pay(a)

Spec == Init /\ [][Next]_vars

(* Every await ends: timers fire, requests are answered or fail.           *)
FairSpec == Spec /\ \A f \in Flows : WF_vars(Answered(f))
-----------------------------------------------------------------------------
TypeOK ==
  /\ page \in [loaded : BOOLEAN, open : BOOLEAN, button : BOOLEAN, resumed : BOOLEAN,
               stage : {"review", "requesting", "pending", "paid"}]
  /\ product \in Products /\ plan \in Plans /\ session \in 0 .. MaxSession
  /\ attempt \in [id : Attempts, request : Requests] \cup {NoAttempt}
  /\ {key, shown} \subseteq Attempts \cup {None}
  /\ output \in [order : Attempts, key : Attempts \cup {None}] \cup {None}
  /\ pending \in Purchases \cup {None}
  /\ flow \in [Flows -> [pc : {"idle", "catalog", "seal", "quote", "sleep", "poll"},
                         session : 0 .. MaxSession, plan : Plans \cup {None},
                         order : Attempts \cup {None}, request : Requests \cup {None},
                         resumed : BOOLEAN]]
  /\ orders \in [Attempts -> Requests \cup {None}] /\ paid \subseteq Attempts

(* The page says that it waits for the payment and updates by itself.      *)
Awaiting == page.open /\ page.stage = "pending"

(* An invoice and its wallet button are there to be used, awaited or not.  *)
OnScreen == page.open /\ shown # None

(* The invoice that is awaited is for the product of this dialog and for   *)
(* the plan that was selected when the buyer pressed the button, whatever  *)
(* was selected since and whichever older submission is answered late.     *)
ShownIsReviewed ==
  Awaiting =>
    /\ orders[shown].product = product
    /\ \E f \in Flows : flow[f].session = session /\ flow[f].order = shown
                        /\ flow[f].plan = orders[shown].plan

(* The invoice that is awaited is being polled, by a loop that the session *)
(* check will not end.  One that stays on screen when its check has failed *)
(* is polled no more, but its purchase is still stored, so that a reload   *)
(* takes it up again; only a resumption that fails drops it for good.      *)
ShownIsFollowed ==
  /\ Awaiting => \E f \in Flows : /\ flow[f].pc \in {"sleep", "poll"}
                                  /\ flow[f].order = shown /\ ~Overtaken(f)
  /\ OnScreen => \/ pending # None /\ pending.order = shown
                 \/ pending = None /\ page.resumed /\ ~Awaiting

(* The buyer is not left waiting: a request ends, and the order that is    *)
(* awaited and paid is delivered, unless the page says that it could not   *)
(* check the payment (the invoice is still there then) or is closed.       *)
BuyerIsAnswered ==
  /\ (page.stage = "requesting") ~> (page.stage # "requesting" \/ ~page.open)
  /\ \A a \in Attempts :
       (Awaiting /\ shown = a /\ a \in paid)
         ~> \/ output # None /\ output.order = a
            \/ page.stage = "review" \/ ~page.open

(* "Anyone with the file can read the message while it remains available":  *)
(* the link and the file handed over hold the key of this order's message.  *)
DeliveredLinkOpens ==
  output # None /\ orders[output.order].product = "whisper" => output.key = output.order
=============================================================================
