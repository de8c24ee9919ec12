--------------------------- MODULE CheckoutProofs ---------------------------
(***************************************************************************)
(* The checkout dialog, for any products, plans and attempts, any number   *)
(* of suspended handlers and any bound on openings and closings: the       *)
(* invoice that is awaited is for what the buyer reviewed and is polled,   *)
(* and one that is only on screen can be taken up again.                   *)
(***************************************************************************)
EXTENDS Checkout, TLAPS

(* The sets of TypeOK, kept closed but in the lemmas about their members.  *)
PageRow == [loaded : BOOLEAN, open : BOOLEAN, button : BOOLEAN, resumed : BOOLEAN,
            stage : {"review", "requesting", "pending", "paid"}]
AttemptRow == [id : Attempts, request : Requests]
OutputRow == [order : Attempts, key : Attempts \cup {None}]
Steps == {"idle", "catalog", "seal", "quote", "sleep", "poll"}
FlowRow == [pc : Steps, session : 0 .. MaxSession, plan : Plans \cup {None},
            order : Attempts \cup {None}, request : Requests \cup {None},
            resumed : BOOLEAN]

DialogOK ==
  /\ page \in PageRow
  /\ product \in Products /\ plan \in Plans /\ session \in 0 .. MaxSession
  /\ key \in Attempts \cup {None} /\ shown \in Attempts \cup {None}
DeliveryOK ==
  /\ attempt \in AttemptRow \cup {NoAttempt}
  /\ output \in OutputRow \cup {None}
  /\ pending \in Purchases \cup {None}
FlowsOK == flow \in [Flows -> FlowRow]
ServerOK == orders \in [Attempts -> Requests \cup {None}] /\ paid \subseteq Attempts
Types == DialogOK /\ DeliveryOK /\ FlowsOK /\ ServerOK

LEMMA TypesAreTypeOK == Types => TypeOK
BY DEF Types, DialogOK, DeliveryOK, FlowsOK, ServerOK, TypeOK, PageRow, AttemptRow,
       OutputRow, Purchases, FlowRow, Steps

LEMMA Pages ==
  /\ BlankPage \in PageRow /\ ~BlankPage.open /\ BlankPage.stage = "review"
  /\ \A stage \in {"review", "pending"} :
       LET new == [loaded |-> TRUE, open |-> TRUE, stage |-> stage,
                   button |-> stage = "review", resumed |-> stage = "pending"]
       IN new \in PageRow /\ new.stage = stage
  /\ \A row \in PageRow :
       /\ LET new == [row EXCEPT !.open = FALSE] IN new \in PageRow /\ ~new.open
       /\ LET new == [row EXCEPT !.loaded = TRUE] IN
            new \in PageRow /\ (new.open <=> row.open) /\ new.stage = row.stage
       /\ LET new == [row EXCEPT !.stage = "paid"] IN
            new \in PageRow /\ new.stage = "paid"
BY DEF PageRow, BlankPage

LEMMA Flowing ==
  /\ Idle \in FlowRow
  /\ Idle.pc = "idle" /\ Idle.session = 0 /\ Idle.request = None
  /\ \A row \in FlowRow :
       /\ row.pc \in Steps /\ row.session \in 0 .. MaxSession
       /\ row.plan \in Plans \cup {None}
       /\ row.order \in Attempts \cup {None}
       /\ row.request \in Requests \cup {None}
BY CheckoutAssumption DEF FlowRow, Steps, Idle, CheckoutAssumption

LEMMA Asking ==
  /\ None \notin Requests /\ None \notin Attempts
  /\ product \in Products /\ plan \in Plans => Asked \in Requests
  /\ Asked.product = product
  /\ \A q \in Requests : q.product \in Products /\ q.plan \in Plans
  /\ \A p \in Products, pl \in Plans :
       LET q == [product |-> p, plan |-> pl] IN q \in Requests /\ q.product = p
  /\ \A a \in Attempts, q \in Requests : [id |-> a, request |-> q] \in AttemptRow
  /\ \A old \in AttemptRow \cup {NoAttempt} :
       old.request \in Requests => old.id \in Attempts
BY CheckoutAssumption
   DEF CheckoutAssumption, Asked, Requests, AttemptRow, NoAttempt

LEMMA Keeping ==
  /\ \A row \in Purchases :
       /\ row.order \in Attempts /\ row.product \in Products /\ row.plan \in Plans
       /\ row.key \in Attempts \cup {None}
  /\ \A a \in Attempts : product \in Products /\ plan \in Plans /\ key \in Attempts \cup {None}
       => /\ Stored(a) \in Purchases
          /\ Stored(a).order = a /\ Stored(a).product = product
  /\ \A a \in Attempts, k \in Attempts \cup {None} : [order |-> a, key |-> k] \in OutputRow
BY DEF Purchases, Stored, OutputRow
-----------------------------------------------------------------------------
(* The inductive invariant.  A handler belongs to this dialog or to an     *)
(* earlier one, and what it asks for in this one is what the dialog sells; *)
(* the stored purchase and the invoice on screen are orders of the server, *)
(* and the invoice has a loop of this dialog that asks about it.           *)

JobOf(row, n, p) ==
  /\ row.session <= n
  /\ row.session = n /\ row.request # None => row.request.product = p
  /\ row.pc \in {"seal", "quote"} => row.request \in Requests /\ row.order \in Attempts
  /\ row.pc = "seal" => row.request.product = "whisper"
  /\ row.pc \in {"sleep", "poll"} => row.order \in Attempts

JobsInv == \A f \in Flows : JobOf(flow[f], session, product)

StoredInv ==
  pending # None =>
    /\ orders[pending.order] \in Requests
    /\ orders[pending.order].product = pending.product

Polls(f) ==
  /\ flow[f].pc \in {"sleep", "poll"} /\ flow[f].order = shown
  /\ flow[f].session = session /\ flow[f].plan = orders[shown].plan

ShownInv ==
  Awaiting =>
    /\ shown \in Attempts /\ orders[shown] \in Requests
    /\ orders[shown].product = product
    /\ \E f \in Flows : Polls(f)

IInv == Types /\ JobsInv /\ StoredInv /\ ShownInv

(* What a step leaves of all that.                                         *)
OrdersStay == \A a \in Attempts : orders[a] # None => orders'[a] = orders[a]

LEMMA InitIInv == Init => IInv
<1> SUFFICES ASSUME Init PROVE IInv
  OBVIOUS
<1>1. Types
  BY Pages, Flowing, CheckoutAssumption
     DEF Init, Types, DialogOK, DeliveryOK, FlowsOK, ServerOK, CheckoutAssumption
<1>2. JobsInv
  BY Flowing DEF Init, JobsInv, JobOf
<1>3. StoredInv /\ ShownInv
  BY Pages DEF Init, StoredInv, ShownInv, Awaiting
<1> QED
  BY <1>1, <1>2, <1>3 DEF IInv

LEMMA RowOf ==
  ASSUME IInv, NEW f \in Flows
  PROVE  flow[f] \in FlowRow /\ JobOf(flow[f], session, product)
BY DEF IInv, Types, FlowsOK, JobsInv

(* One handler moves within the dialog.                                    *)
LEMMA HandlerMoves ==
  ASSUME IInv, NEW f \in Flows, NEW row \in FlowRow, flow' = [flow EXCEPT ![f] = row],
         UNCHANGED <<product, session>>, JobOf(row, session, product)
  PROVE  FlowsOK' /\ JobsInv'
BY DEF IInv, Types, FlowsOK, JobsInv

LEMMA HandlerRests ==
  ASSUME IInv, NEW f \in Flows, Resting(f), UNCHANGED <<product, session>>
  PROVE  FlowsOK' /\ JobsInv'
<1>1. Idle \in FlowRow /\ JobOf(Idle, session, product)
  BY Flowing DEF JobOf, IInv, Types, DialogOK
<1> QED
  BY <1>1, HandlerMoves DEF Resting

(* A dialog is opened or closed: no handler belongs to the new session.    *)
LEMMA SessionMoves ==
  ASSUME IInv, session' = session + 1, UNCHANGED flow
  PROVE  FlowsOK' /\ JobsInv'
<1>1. session \in Nat
  BY DEF IInv, Types, DialogOK
<1>2. ASSUME NEW f \in Flows PROVE JobOf(flow[f], session', product')
  BY <1>1, RowOf, Flowing DEF JobOf
<1> QED
  BY <1>2 DEF IInv, Types, FlowsOK, JobsInv

LEMMA StoredStays ==
  ASSUME IInv, OrdersStay, pending' \in {pending, None}
  PROVE  StoredInv' /\ pending' \in Purchases \cup {None}
<1>1. pending \in Purchases \cup {None}
  BY DEF IInv, Types, DeliveryOK
<1>2. CASE pending' = None
  BY <1>2 DEF StoredInv
<1>3. CASE pending' = pending /\ pending # None
  <2>1. pending.order \in Attempts /\ orders[pending.order] \in Requests
    BY <1>1, <1>3, Keeping DEF IInv, StoredInv
  <2>2. orders'[pending.order] = orders[pending.order]
    BY <2>1, Asking DEF OrdersStay
  <2> QED
    BY <1>1, <1>3, <2>1, <2>2 DEF IInv, StoredInv
<1> QED
  BY <1>1, <1>2, <1>3

(* The invoice screen stays, or is left.                                   *)
LEMMA ShownStays ==
  ASSUME IInv, OrdersStay, Awaiting' => Awaiting /\ UNCHANGED <<shown, product, session>>,
         Awaiting' => \A f \in Flows : flow[f].pc \in {"sleep", "poll"} =>
           /\ flow'[f].pc \in {"sleep", "poll"} /\ flow'[f].order = flow[f].order
           /\ flow'[f].session = flow[f].session /\ flow'[f].plan = flow[f].plan
  PROVE  ShownInv'
<1> SUFFICES ASSUME Awaiting'
             PROVE  /\ shown' \in Attempts /\ orders'[shown'] \in Requests
                    /\ orders'[shown'].product = product'
                    /\ \E f \in Flows : Polls(f)'
  BY DEF ShownInv
<1>1. /\ shown \in Attempts /\ orders[shown] \in Requests
      /\ orders[shown].product = product
  BY DEF IInv, ShownInv
<1>2. PICK f \in Flows : Polls(f)
  BY DEF IInv, ShownInv
<1>3. orders'[shown] = orders[shown] /\ shown' = shown /\ product' = product
  BY <1>1, Asking DEF OrdersStay
<1>4. Polls(f)'
  BY <1>2, <1>3 DEF Polls
<1> QED
  BY <1>1, <1>3, <1>4

LEMMA ServerStays ==
  ASSUME IInv, UNCHANGED server
  PROVE  ServerOK' /\ OrdersStay
BY DEF server, ServerOK, OrdersStay, IInv, Types

(* The server makes an order or finds it.                                  *)
LEMMA OrderArrives ==
  ASSUME IInv, NEW f \in Flows, flow[f].pc = "quote", UNCHANGED paid,
         Arrives(f) \/ UNCHANGED orders
  PROVE  ServerOK' /\ OrdersStay
<1>1. flow[f].request \in Requests /\ flow[f].order \in Attempts
  BY RowOf DEF JobOf
<1> QED
  BY <1>1 DEF Arrives, ServerOK, OrdersStay, IInv, Types
-----------------------------------------------------------------------------
(* The buyer.                                                              *)

LEMMA OpenKeeps ==
  ASSUME IInv, NEW p \in Products, NEW pl \in Plans, OpenCheckout(p, pl)
  PROVE  IInv'
<1>1. session \in 0 .. MaxSession /\ MaxSession \in Nat
  BY CheckoutAssumption DEF IInv, Types, DialogOK, CheckoutAssumption
<1>2. page' \in PageRow /\ page'.stage = "review"
  BY Pages DEF OpenCheckout, Opens
<1>3. ServerOK' /\ OrdersStay
  BY ServerStays DEF OpenCheckout
<1>4. FlowsOK' /\ JobsInv'
  BY SessionMoves DEF OpenCheckout, Opens
<1>5. StoredInv' /\ pending' \in Purchases \cup {None}
  BY <1>3, StoredStays DEF OpenCheckout
<1>6. ShownInv'
  BY <1>2 DEF ShownInv, Awaiting
<1>7. DialogOK' /\ DeliveryOK'
  BY <1>1, <1>2, <1>5 DEF OpenCheckout, Opens, DialogOK, DeliveryOK
<1> QED
  BY <1>3, <1>4, <1>5, <1>6, <1>7 DEF IInv, Types

LEMMA ChooseKeeps ==
  ASSUME IInv, NEW pl \in Plans, ChoosePlan(pl)
  PROVE  IInv'
<1>1. ServerOK' /\ OrdersStay
  BY ServerStays DEF ChoosePlan
<1>2. FlowsOK' /\ JobsInv'
  BY DEF ChoosePlan, IInv, Types, FlowsOK, JobsInv
<1>3. StoredInv' /\ pending' \in Purchases \cup {None}
  BY <1>1, StoredStays DEF ChoosePlan
<1>4. ShownInv'
  BY DEF ChoosePlan, ShownInv, Awaiting
<1>5. DialogOK' /\ DeliveryOK'
  BY DEF ChoosePlan, DialogOK, DeliveryOK, IInv, Types
<1> QED
  BY <1>1, <1>2, <1>3, <1>4, <1>5 DEF IInv, Types

LEMMA CloseKeeps ==
  ASSUME IInv, CloseCheckout
  PROVE  IInv'
<1>1. session \in 0 .. MaxSession /\ MaxSession \in Nat
  BY CheckoutAssumption DEF IInv, Types, DialogOK, CheckoutAssumption
<1>2. page' \in PageRow /\ ~page'.open
  BY Pages DEF CloseCheckout, IInv, Types, DialogOK
<1>3. ServerOK' /\ OrdersStay
  BY ServerStays DEF CloseCheckout
<1>4. FlowsOK' /\ JobsInv'
  BY SessionMoves DEF CloseCheckout
<1>5. StoredInv' /\ pending' \in Purchases \cup {None}
  BY <1>3, StoredStays DEF CloseCheckout
<1>6. ShownInv'
  BY <1>2 DEF ShownInv, Awaiting
<1>7. DialogOK' /\ DeliveryOK'
  BY <1>1, <1>2 DEF CloseCheckout, choice, DialogOK, DeliveryOK, IInv, Types
<1> QED
  BY <1>3, <1>4, <1>5, <1>6, <1>7 DEF IInv, Types

LEMMA ReloadKeeps ==
  ASSUME IInv, Reload
  PROVE  IInv'
<1>1. page' \in PageRow /\ ~page'.open
  BY Pages DEF Reload
<1>2. ServerOK' /\ OrdersStay
  BY ServerStays DEF Reload
<1>3. \A f \in Flows : JobOf(Idle, session, product)
  BY Flowing DEF JobOf, IInv, Types, DialogOK
<1>4. FlowsOK' /\ JobsInv'
  BY <1>3, Flowing DEF Reload, choice, FlowsOK, JobsInv
<1>5. StoredInv' /\ pending' \in Purchases \cup {None}
  BY <1>2, StoredStays DEF Reload
<1>6. ShownInv'
  BY <1>1 DEF ShownInv, Awaiting
<1>7. DialogOK' /\ DeliveryOK'
  BY <1>1, <1>5 DEF Reload, choice, DialogOK, DeliveryOK, IInv, Types
<1> QED
  BY <1>2, <1>4, <1>5, <1>6, <1>7 DEF IInv, Types

LEMMA NothingKeeps ==
  ASSUME IInv, NothingToResume
  PROVE  IInv'
<1>1. page' \in PageRow /\ (page'.open <=> page.open) /\ page'.stage = page.stage
  BY Pages DEF NothingToResume, IInv, Types, DialogOK
<1>2. ServerOK' /\ OrdersStay
  BY ServerStays DEF NothingToResume
<1>3. FlowsOK' /\ JobsInv'
  BY DEF NothingToResume, choice, IInv, Types, FlowsOK, JobsInv
<1>4. StoredInv' /\ pending' \in Purchases \cup {None}
  BY <1>2, StoredStays DEF NothingToResume
<1>5. ShownInv'
  BY <1>1, <1>2, ShownStays DEF NothingToResume, choice, Awaiting
<1>6. DialogOK' /\ DeliveryOK'
  BY <1>1, <1>4 DEF NothingToResume, choice, DialogOK, DeliveryOK, IInv, Types
<1> QED
  BY <1>2, <1>3, <1>4, <1>5, <1>6 DEF IInv, Types

LEMMA PayKeeps ==
  ASSUME IInv, NEW a \in Attempts, Pay(a)
  PROVE  IInv'
<1>1. ServerOK' /\ OrdersStay
  BY DEF Pay, ServerOK, OrdersStay, IInv, Types
<1>2. FlowsOK' /\ JobsInv'
  BY DEF Pay, choice, IInv, Types, FlowsOK, JobsInv
<1>3. StoredInv' /\ pending' \in Purchases \cup {None}
  BY <1>1, StoredStays DEF Pay
<1>4. ShownInv'
  BY <1>1, ShownStays DEF Pay, choice, Awaiting
<1>5. DialogOK' /\ DeliveryOK'
  BY DEF Pay, choice, DialogOK, DeliveryOK, IInv, Types
<1> QED
  BY <1>1, <1>2, <1>3, <1>4, <1>5 DEF IInv, Types
-----------------------------------------------------------------------------
(* The handlers.                                                           *)

LEMMA SubmitKeeps ==
  ASSUME IInv, NEW f \in Flows, Submit(f)
  PROVE  IInv'
<1>1. /\ page \in PageRow /\ session \in 0 .. MaxSession /\ plan \in Plans
  BY DEF IInv, Types, DialogOK
<1>2. page' \in PageRow /\ page'.stage = "requesting"
  BY <1>1 DEF Submit, PageRow
<1>3. PICK row : row = [Idle EXCEPT !.pc = "catalog", !.session = session, !.plan = plan]
  OBVIOUS
<1>4. row \in FlowRow /\ row.pc = "catalog" /\ row.session = session /\ row.request = None
  BY <1>1, <1>3 DEF FlowRow, Steps, Idle
<1>5. JobOf(row, session, product)
  BY <1>1, <1>4 DEF JobOf
<1>6. FlowsOK' /\ JobsInv'
  BY <1>3, <1>4, <1>5, HandlerMoves DEF Submit, choice
<1>7. ServerOK' /\ OrdersStay
  BY ServerStays DEF Submit
<1>8. StoredInv' /\ pending' \in Purchases \cup {None}
  BY <1>7, StoredStays DEF Submit
<1>9. ShownInv'
  BY <1>2 DEF ShownInv, Awaiting
<1>10. DialogOK' /\ DeliveryOK'
  BY <1>1, <1>2 DEF Submit, choice, DialogOK, DeliveryOK, IInv, Types
<1> QED
  BY <1>6, <1>7, <1>8, <1>9, <1>10 DEF IInv, Types

(* A handler that leaves the screen to others.                             *)
LEMMA OthersPoll ==
  ASSUME IInv, NEW f \in Flows, flow[f].pc \notin {"sleep", "poll"}, NEW row,
         flow' = [flow EXCEPT ![f] = row], OrdersStay,
         UNCHANGED <<page, product, session, shown>>
  PROVE  ShownInv'
<1>1. \A g \in Flows \ {f} : flow'[g] = flow[g]
  BY DEF IInv, Types, FlowsOK
<1> QED
  BY <1>1, ShownStays DEF Awaiting

LEMMA CatalogKeeps ==
  ASSUME IInv, NEW f \in Flows, CatalogAnswers(f)
  PROVE  IInv'
<1>1. /\ product \in Products /\ plan \in Plans /\ Asked \in Requests
      /\ Asked.product = product
      /\ attempt \in AttemptRow \cup {NoAttempt}
      /\ key \in Attempts \cup {None}
  BY Asking DEF IInv, Types, DialogOK, DeliveryOK
<1>2. /\ flow[f].pc = "catalog" /\ UNCHANGED <<page, choice, session, shown, output, pending, server>>
  BY DEF CatalogAnswers
<1>3. PICK pc \in {"seal", "quote"}, a \in Attempts :
        /\ Await(f, pc, a, Asked)
        /\ pc = "seal" => product = "whisper"
        /\ attempt' \in {attempt, [id |-> a, request |-> Asked]}
        /\ key' \in {key, a}
  <2>1. CASE AsksAnew
    BY <2>1 DEF CatalogAnswers
  <2>2. CASE ~AsksAnew
    <3>1. attempt.id \in Attempts
      BY <1>1, <2>2, Asking DEF AsksAnew
    <3> QED
      BY <2>2, <3>1 DEF CatalogAnswers
  <2> QED
    BY <2>1, <2>2
<1>4. PICK row : row = [flow[f] EXCEPT !.pc = pc, !.order = a, !.request = Asked]
  OBVIOUS
<1>5. /\ row \in FlowRow /\ row.pc = pc /\ row.session = flow[f].session
      /\ row.order = a /\ row.request = Asked
  BY <1>1, <1>4, RowOf DEF FlowRow, Steps
<1>6. flow' = [flow EXCEPT ![f] = row]
  BY <1>3, <1>4 DEF Await
<1>7. JobOf(row, session, product)
  BY <1>1, <1>3, <1>5, RowOf DEF JobOf
<1>8. FlowsOK' /\ JobsInv'
  BY <1>2, <1>5, <1>6, <1>7, HandlerMoves DEF choice
<1>9. ServerOK' /\ OrdersStay
  BY <1>2, ServerStays
<1>10. StoredInv' /\ pending' \in Purchases \cup {None}
  BY <1>2, <1>9, StoredStays
<1>11. ShownInv'
  BY <1>2, <1>6, <1>9, OthersPoll DEF choice
<1>12. attempt' \in AttemptRow \cup {NoAttempt} /\ key' \in Attempts \cup {None}
  BY <1>1, <1>3, Asking
<1>13. DialogOK' /\ DeliveryOK'
  BY <1>2, <1>12 DEF choice, DialogOK, DeliveryOK, IInv, Types
<1> QED
  BY <1>8, <1>9, <1>10, <1>11, <1>13 DEF IInv, Types

LEMMA SealKeeps ==
  ASSUME IInv, NEW f \in Flows, Sealed(f)
  PROVE  IInv'
<1>1. plan \in Plans /\ product \in Products
  BY DEF IInv, Types, DialogOK
<1>2. /\ flow[f].pc = "seal" /\ flow[f].request \in Requests /\ flow[f].order \in Attempts
      /\ flow[f].request.product = "whisper"
      /\ flow[f].session = session => product = "whisper"
  BY RowOf, Asking DEF Sealed, JobOf
<1>3. UNCHANGED <<page, choice, session, shown, output, pending, server>>
  BY DEF Sealed
<1>4. PICK q \in Requests : q = [product |-> "whisper", plan |-> plan] /\ q.product = "whisper"
  BY <1>1, <1>2, Asking
<1>5. PICK row : row = [flow[f] EXCEPT !.pc = "quote", !.order = flow[f].order, !.request = q]
  OBVIOUS
<1>6. /\ row \in FlowRow /\ row.pc = "quote" /\ row.session = flow[f].session
      /\ row.order \in Attempts /\ row.request = q
  BY <1>2, <1>4, <1>5, RowOf DEF FlowRow, Steps
<1>7. flow' = [flow EXCEPT ![f] = row]
  BY <1>4, <1>5 DEF Sealed, Await
<1>8. JobOf(row, session, product)
  BY <1>2, <1>4, <1>6, RowOf DEF JobOf
<1>9. FlowsOK' /\ JobsInv'
  BY <1>3, <1>6, <1>7, <1>8, HandlerMoves DEF choice
<1>10. ServerOK' /\ OrdersStay
  BY <1>3, ServerStays
<1>11. StoredInv' /\ pending' \in Purchases \cup {None}
  BY <1>3, <1>10, StoredStays
<1>12. ShownInv'
  BY <1>2, <1>3, <1>7, <1>10, OthersPoll DEF choice
<1>13. attempt' \in AttemptRow /\ key' \in Attempts
  BY <1>2, Asking DEF Sealed
<1>14. DialogOK' /\ DeliveryOK'
  BY <1>3, <1>13 DEF choice, DialogOK, DeliveryOK, IInv, Types
<1> QED
  BY <1>9, <1>10, <1>11, <1>12, <1>14 DEF IInv, Types

(* A handler that fails leaves the dialog of a later session alone, and    *)
(* takes the one of its own back to the review.                            *)
LEMMA FailKeeps ==
  ASSUME IInv, NEW f \in Flows, Fails(f), OrdersStay, ServerOK'
  PROVE  IInv'
<1>1. UNCHANGED <<choice, session, attempt, key, shown, output>> /\ Resting(f)
  BY DEF Fails
<1>2. FlowsOK' /\ JobsInv'
  BY <1>1, HandlerRests DEF choice
<1>3. pending' \in {pending, None}
  BY DEF Fails, KeptAfter
<1>4. StoredInv' /\ pending' \in Purchases \cup {None}
  BY <1>3, StoredStays
<1>5. CASE Review
  <2>1. page' \in PageRow /\ page'.stage = "review"
    BY <1>5 DEF Review, IInv, Types, DialogOK, PageRow
  <2>2. ShownInv'
    BY <2>1 DEF ShownInv, Awaiting
  <2>3. DialogOK' /\ DeliveryOK'
    BY <1>1, <1>4, <2>1 DEF choice, DialogOK, DeliveryOK, IInv, Types
  <2> QED
    BY <1>2, <1>4, <2>2, <2>3 DEF IInv, Types
<1>6. CASE Overtaken(f) /\ UNCHANGED page
  <2>1. \A g \in Flows \ {f} : flow'[g] = flow[g]
    BY <1>1 DEF Resting, IInv, Types, FlowsOK
  <2>2. ShownInv'
    <3> SUFFICES ASSUME Awaiting'
                 PROVE  /\ shown' \in Attempts /\ orders'[shown'] \in Requests
                        /\ orders'[shown'].product = product'
                        /\ \E g \in Flows : Polls(g)'
      BY DEF ShownInv
    <3>1. /\ shown \in Attempts /\ orders[shown] \in Requests
          /\ orders[shown].product = product
          /\ \E g \in Flows : Polls(g)
      BY <1>6 DEF IInv, ShownInv, Awaiting
    <3>2. PICK g \in Flows : Polls(g)
      BY <3>1
    <3>3. g # f
      BY <1>6, <3>2 DEF Polls, Overtaken, Awaiting
    <3>4. orders'[shown] = orders[shown] /\ shown' = shown /\ product' = product
      BY <1>1, <3>1, Asking DEF OrdersStay, choice
    <3>5. Polls(g)'
      BY <1>1, <2>1, <3>2, <3>3, <3>4 DEF Polls
    <3> QED
      BY <3>1, <3>4, <3>5
  <2>3. DialogOK' /\ DeliveryOK'
    BY <1>1, <1>4, <1>6 DEF choice, DialogOK, DeliveryOK, IInv, Types
  <2> QED
    BY <1>2, <1>4, <2>2, <2>3 DEF IInv, Types
<1> QED
  BY <1>5, <1>6 DEF Fails

LEMMA QuotedKeeps ==
  ASSUME IInv, NEW f \in Flows, QuoteAnswers(f), Quoted(f), ~Overtaken(f),
         pending' = Stored(flow[f].order), shown' = flow[f].order,
         page' = [page EXCEPT !.stage = "pending", !.button = FALSE],
         flow' = [flow EXCEPT ![f].pc = "sleep", ![f].request = None],
         UNCHANGED <<choice, session, attempt, key, output>>
  PROVE  IInv'
<1>1. /\ page \in PageRow /\ product \in Products /\ plan \in Plans
      /\ key \in Attempts \cup {None}
  BY DEF IInv, Types, DialogOK
<1>2. /\ flow[f] \in FlowRow /\ flow[f].order \in Attempts
      /\ flow[f].request \in Requests /\ flow[f].session = session
      /\ flow[f].request.product = product
  BY RowOf, Asking DEF QuoteAnswers, Overtaken, JobOf
<1>3. /\ orders'[flow[f].order] = flow[f].request
      /\ flow[f].plan = flow[f].request.plan
  BY DEF Quoted
<1>4. ServerOK' /\ OrdersStay
  BY OrderArrives DEF QuoteAnswers
<1>5. PICK row : row = [flow[f] EXCEPT !.pc = "sleep", !.request = None]
  OBVIOUS
<1>6. /\ row \in FlowRow /\ row.pc = "sleep" /\ row.session = session
      /\ row.order = flow[f].order /\ row.plan = flow[f].plan /\ row.request = None
  BY <1>2, <1>5 DEF FlowRow, Steps
<1>7. flow' = [flow EXCEPT ![f] = row]
  BY <1>5 DEF IInv, Types, FlowsOK
<1>8. JobOf(row, session, product)
  BY <1>2, <1>6, RowOf DEF JobOf
<1>9. FlowsOK' /\ JobsInv'
  BY <1>6, <1>7, <1>8, HandlerMoves DEF choice
<1>10. /\ pending' \in Purchases /\ pending'.order = flow[f].order
       /\ pending'.product = product
  BY <1>1, <1>2, Keeping
<1>11. StoredInv'
  BY <1>2, <1>3, <1>10 DEF StoredInv
<1>12. page' \in PageRow
  BY <1>1 DEF PageRow
<1>13. Polls(f)'
  <2>1. flow'[f] = row
    BY <1>7 DEF IInv, Types, FlowsOK
  <2> QED
    BY <1>3, <1>6, <2>1 DEF Polls
<1>14. ShownInv'
  BY <1>2, <1>3, <1>13 DEF ShownInv, choice
<1>15. DialogOK' /\ DeliveryOK'
  BY <1>2, <1>10, <1>12 DEF choice, DialogOK, DeliveryOK, IInv, Types
<1> QED
  BY <1>4, <1>9, <1>11, <1>14, <1>15 DEF IInv, Types

LEMMA QuoteKeeps ==
  ASSUME IInv, NEW f \in Flows, QuoteAnswers(f) \/ QuoteFails(f)
  PROVE  IInv'
<1>1. ServerOK' /\ OrdersStay
  BY OrderArrives DEF QuoteAnswers, QuoteFails
<1>2. CASE Fails(f)
  BY <1>1, <1>2, FailKeeps
<1>3. CASE QuoteAnswers(f) /\ ~Fails(f) /\ ~Overtaken(f)
  BY <1>3, QuotedKeeps DEF QuoteAnswers
<1>4. CASE Overtaken(f) /\ Resting(f)
           /\ UNCHANGED <<page, choice, session, attempt, key, shown, output, pending>>
  BY <1>1, <1>4, FailKeeps DEF Fails
<1> QED
  BY <1>2, <1>3, <1>4 DEF QuoteAnswers, QuoteFails

LEMMA LoopKeeps ==
  ASSUME IInv, NEW f \in Flows, TimerFires(f) \/ Unpaid(f) \/ PollFails(f) \/ CatalogFails(f)
                                \/ SealFails(f)
  PROVE  IInv'
<1>1. ServerOK' /\ OrdersStay
  BY ServerStays DEF TimerFires, Unpaid, PollFails, CatalogFails, SealFails
<1>2. CASE Fails(f)
  BY <1>1, <1>2, FailKeeps
<1>3. CASE Overtaken(f) /\ Resting(f)
           /\ UNCHANGED <<page, choice, session, attempt, key, shown, output, pending>>
  BY <1>1, <1>3, FailKeeps DEF Fails
<1>4. ASSUME NEW pc \in {"sleep", "poll"}, flow' = [flow EXCEPT ![f].pc = pc],
             flow[f].pc \in {"sleep", "poll"},
             UNCHANGED <<page, choice, session, attempt, key, shown, output, pending>>
      PROVE  IInv'
  <2>1. PICK row : row = [flow[f] EXCEPT !.pc = pc]
    OBVIOUS
  <2>2. /\ row \in FlowRow /\ row.pc = pc /\ row.session = flow[f].session
        /\ row.order = flow[f].order /\ row.plan = flow[f].plan
        /\ row.request \in {flow[f].request, None}
    BY <2>1, RowOf DEF FlowRow, Steps
  <2>3. flow' = [flow EXCEPT ![f] = row]
    BY <1>4, <2>1 DEF IInv, Types, FlowsOK
  <2>4. JobOf(row, session, product)
    BY <1>4, <2>2, RowOf DEF JobOf
  <2>5. FlowsOK' /\ JobsInv'
    BY <1>4, <2>2, <2>3, <2>4, HandlerMoves DEF choice
  <2>6. StoredInv' /\ pending' \in Purchases \cup {None}
    BY <1>1, <1>4, StoredStays
  <2>7. \A g \in Flows : flow'[g] = IF g = f THEN row ELSE flow[g]
    BY <2>3 DEF IInv, Types, FlowsOK
  <2>8. ShownInv'
    BY <1>1, <1>4, <2>2, <2>7, ShownStays DEF Awaiting, choice
  <2>9. DialogOK' /\ DeliveryOK'
    BY <1>4 DEF choice, DialogOK, DeliveryOK, IInv, Types
  <2> QED
    BY <1>1, <2>5, <2>6, <2>8, <2>9 DEF IInv, Types
<1> QED
  BY <1>2, <1>3, <1>4 DEF TimerFires, Unpaid, PollFails, CatalogFails, SealFails

LEMMA DeliverKeeps ==
  ASSUME IInv, NEW f \in Flows, Delivered(f)
  PROVE  IInv'
<1>1. /\ page \in PageRow /\ key \in Attempts \cup {None} /\ flow[f].order \in Attempts
  BY RowOf DEF Delivered, JobOf, IInv, Types, DialogOK
<1>2. page' \in PageRow /\ page'.stage = "paid"
  BY <1>1, Pages DEF Delivered
<1>3. ServerOK' /\ OrdersStay
  BY ServerStays DEF Delivered
<1>4. FlowsOK' /\ JobsInv'
  BY HandlerRests DEF Delivered, choice
<1>5. StoredInv' /\ pending' \in Purchases \cup {None}
  BY <1>3, StoredStays DEF Delivered
<1>6. ShownInv'
  BY <1>2 DEF ShownInv, Awaiting
<1>7. output' \in OutputRow
  BY <1>1, Keeping DEF Delivered
<1>8. DialogOK' /\ DeliveryOK'
  BY <1>2, <1>5, <1>7 DEF Delivered, choice, DialogOK, DeliveryOK, IInv, Types
<1> QED
  BY <1>3, <1>4, <1>5, <1>6, <1>8 DEF IInv, Types

LEMMA ResumeKeeps ==
  ASSUME IInv, NEW f \in Flows, Resume(f)
  PROVE  IInv'
<1>1. session \in 0 .. MaxSession /\ MaxSession \in Nat /\ session < MaxSession
  BY CheckoutAssumption
     DEF Resume, Opens, IInv, Types, DialogOK, CheckoutAssumption
<1>2. /\ pending \in Purchases /\ pending.order \in Attempts
      /\ pending.product \in Products /\ pending.plan \in Plans
      /\ pending.key \in Attempts \cup {None}
      /\ orders[pending.order] \in Requests
      /\ orders[pending.order].product = pending.product
      /\ orders[pending.order].plan = pending.plan
  BY Keeping DEF Resume, Resumable, IInv, Types, DeliveryOK, StoredInv
<1>3. page' \in PageRow /\ session' = session + 1
      /\ attempt' = NoAttempt /\ output' = None
  BY Pages DEF Resume, Opens
<1>4. ServerOK' /\ OrdersStay
  BY ServerStays DEF Resume
<1>5. PICK row : row = [Idle EXCEPT !.pc = "sleep", !.session = session + 1,
                                    !.plan = pending.plan, !.order = pending.order,
                                    !.resumed = TRUE]
  OBVIOUS
<1>6. /\ row \in FlowRow /\ row.pc = "sleep" /\ row.session = session + 1
      /\ row.plan = pending.plan /\ row.order = pending.order /\ row.request = None
  <2>1. PICK n \in 0 .. MaxSession, pl \in Plans, a \in Attempts :
          n = session + 1 /\ pl = pending.plan /\ a = pending.order
    BY <1>1, <1>2
  <2>2. row = [Idle EXCEPT !.pc = "sleep", !.session = n, !.plan = pl, !.order = a,
                           !.resumed = TRUE]
    BY <1>5, <2>1
  <2>3. /\ row \in FlowRow /\ row.pc = "sleep" /\ row.session = n
        /\ row.plan = pl /\ row.order = a /\ row.request = None
    BY <2>2 DEF FlowRow, Steps, Idle
  <2> QED
    BY <2>1, <2>3
<1>7. \A g \in Flows : flow'[g] = IF g = f THEN row ELSE flow[g]
  BY <1>5 DEF Resume, ResumedSession, IInv, Types, FlowsOK
<1>8. FlowsOK' /\ JobsInv'
  <2>1. JobOf(row, session + 1, product')
    BY <1>1, <1>2, <1>6 DEF JobOf
  <2>2. ASSUME NEW g \in Flows PROVE JobOf(flow[g], session + 1, product')
    BY <1>1, RowOf, Flowing DEF JobOf
  <2>3. flow' \in [Flows -> FlowRow]
    BY <1>5, <1>6 DEF Resume, ResumedSession, IInv, Types, FlowsOK
  <2> QED
    BY <1>3, <1>7, <2>1, <2>2, <2>3 DEF FlowsOK, JobsInv
<1>9. StoredInv' /\ pending' \in Purchases \cup {None}
  BY <1>4, StoredStays DEF Resume
<1>10. shown' = pending.order /\ product' = pending.product /\ plan' = pending.plan
       /\ key' = pending.key /\ orders' = orders
  BY DEF Resume, server
<1>11. Polls(f)'
  BY <1>2, <1>3, <1>6, <1>7, <1>10 DEF Polls
<1>12. ShownInv'
  BY <1>2, <1>10, <1>11 DEF ShownInv
<1>13. DialogOK' /\ DeliveryOK'
  BY <1>1, <1>2, <1>3, <1>9, <1>10 DEF DialogOK, DeliveryOK
<1> QED
  BY <1>4, <1>8, <1>9, <1>12, <1>13 DEF IInv, Types
-----------------------------------------------------------------------------
LEMMA Inductive ==
  ASSUME IInv, [Next]_vars
  PROVE  IInv'
<1>1. CASE UNCHANGED vars
  <2>1. ServerOK' /\ FlowsOK' /\ JobsInv' /\ DialogOK' /\ DeliveryOK'
    BY <1>1
       DEF vars, ServerOK, FlowsOK, JobsInv, DialogOK, DeliveryOK, IInv, Types
  <2>2. StoredInv' /\ ShownInv'
    BY <1>1 DEF vars, StoredInv, ShownInv, Awaiting, Polls, IInv
  <2> QED
    BY <2>1, <2>2 DEF IInv, Types
<1>2. CASE \E p \in Products, pl \in Plans : OpenCheckout(p, pl)
  BY <1>2, OpenKeeps
<1>3. CASE \E pl \in Plans : ChoosePlan(pl)
  BY <1>3, ChooseKeeps
<1>4. CASE CloseCheckout \/ Reload \/ NothingToResume
  BY <1>4, CloseKeeps, ReloadKeeps, NothingKeeps
<1>5. CASE \E f \in Flows : Submit(f) \/ Resume(f) \/ Answered(f)
  BY <1>5, SubmitKeeps, ResumeKeeps, CatalogKeeps, SealKeeps, QuoteKeeps, LoopKeeps,
     DeliverKeeps
     DEF Answered
<1>6. CASE \E a \in Attempts : Pay(a)
  BY <1>6, PayKeeps
<1> QED
  BY <1>1, <1>2, <1>3, <1>4, <1>5, <1>6 DEF Next

LEMMA Invariant == Spec => []IInv
<1>1. Init => IInv
  BY InitIInv
<1>2. IInv /\ [Next]_vars => IInv'
  BY Inductive
<1> QED
  BY <1>1, <1>2, PTL DEF Spec

(* Every variable keeps its type.                                          *)
THEOREM TypesAreKept == Spec => []TypeOK
<1>1. IInv => TypeOK
  BY TypesAreTypeOK DEF IInv
<1> QED
  BY <1>1, Invariant, PTL

-----------------------------------------------------------------------------
(* The invoice panel, which stays when a check fails.  A resumption that   *)
(* can still fail belongs to the dialog whose title says so, and the       *)
(* purchase of an invoice on screen is stored or was dropped by one.       *)

Resumes(f) == flow[f].resumed /\ flow[f].session = session

Followable ==
  \/ pending # None /\ pending.order = shown
  \/ pending = None /\ page.resumed /\ ~Awaiting

PanelInv ==
  /\ page.open => page.loaded
  /\ \A f \in Flows : Resumes(f) => page.resumed
  /\ OnScreen => Followable

LEMMA PanelStays ==
  ASSUME IInv, PanelInv, NEW f \in Flows, NEW row, flow' = [flow EXCEPT ![f] = row],
         row.resumed /\ row.session = session => Resumes(f),
         UNCHANGED <<page, session, shown, pending>>
  PROVE  PanelInv'
<1>1. \A g \in Flows : flow'[g] = IF g = f THEN row ELSE flow[g]
  BY DEF IInv, Types, FlowsOK
<1>2. \A g \in Flows : Resumes(g)' => Resumes(g)
  BY <1>1 DEF Resumes
<1> QED
  BY <1>2 DEF PanelInv, OnScreen, Followable, Awaiting

(* No handler belongs to a session that has just begun.                    *)
LEMMA NobodyResumes ==
  ASSUME IInv, session' = session + 1, UNCHANGED flow, NEW f \in Flows
  PROVE  ~Resumes(f)'
<1>1. session \in Nat /\ flow[f].session \in Nat /\ flow[f].session <= session
  BY RowOf, Flowing DEF IInv, Types, DialogOK, JobOf
<1> QED
  BY <1>1 DEF Resumes

LEMMA BuyerKeepsPanel ==
  ASSUME IInv, PanelInv,
         \/ \E p \in Products, pl \in Plans : OpenCheckout(p, pl)
         \/ \E pl \in Plans : ChoosePlan(pl)
         \/ CloseCheckout \/ Reload \/ NothingToResume
         \/ \E a \in Attempts : Pay(a)
  PROVE  PanelInv'
<1>0. page \in PageRow
  BY DEF IInv, Types, DialogOK
<1>1. ASSUME NEW p \in Products, NEW pl \in Plans, OpenCheckout(p, pl)
      PROVE  PanelInv'
  <2>1. /\ session' = session + 1 /\ UNCHANGED flow /\ shown' = None /\ page'.loaded
    BY <1>1 DEF OpenCheckout, Opens
  <2> QED
    BY <2>1, NobodyResumes DEF PanelInv, OnScreen
<1>2. CASE (\E pl \in Plans : ChoosePlan(pl)) \/ (\E a \in Attempts : Pay(a))
  BY <1>2 DEF ChoosePlan, Pay, choice, PanelInv, Resumes, OnScreen, Followable, Awaiting
<1>3. CASE CloseCheckout
  <2>1. session' = session + 1 /\ UNCHANGED flow /\ ~page'.open
    BY <1>0, <1>3, Pages DEF CloseCheckout
  <2> QED
    BY <2>1, NobodyResumes DEF PanelInv, OnScreen
<1>4. CASE Reload
  BY <1>4 DEF Reload, PanelInv, Resumes, OnScreen, Idle, BlankPage
<1>5. CASE NothingToResume
  <2>1. /\ page'.loaded /\ ~page'.open /\ page'.resumed = page.resumed
        /\ UNCHANGED <<flow, session>>
    BY <1>0, <1>5 DEF NothingToResume, PanelInv, PageRow, choice
  <2> QED
    BY <2>1 DEF PanelInv, Resumes, OnScreen
<1> QED
  BY <1>1, <1>2, <1>3, <1>4, <1>5

(* A failure leaves the panel, and takes the purchase from the store only   *)
(* in a dialog that resumed it, which then awaits it no more.              *)
LEMMA FailKeepsPanel ==
  ASSUME IInv, PanelInv, NEW f \in Flows, Fails(f)
  PROVE  PanelInv'
<1>1. UNCHANGED <<session, shown>> /\ flow' = [flow EXCEPT ![f] = Idle]
  BY DEF Fails, Resting
<1>2. CASE Overtaken(f) /\ UNCHANGED <<page, pending>>
  BY <1>1, <1>2, PanelStays DEF Idle
<1>3. CASE ~Overtaken(f) /\ Review /\ pending' = KeptAfter(f)
  <2>1. page \in PageRow
    BY DEF IInv, Types, DialogOK
  <2>2. /\ page'.stage = "review" /\ page'.open = page.open
        /\ page'.loaded = page.loaded /\ page'.resumed = page.resumed
    BY <1>3, <2>1 DEF Review, PageRow
  <2>3. \A g \in Flows : Resumes(g)' => Resumes(g)
    BY <1>1 DEF Resumes, Idle, IInv, Types, FlowsOK
  <2>4. pending' = None => pending = None \/ page.resumed
    BY <1>3 DEF KeptAfter, PanelInv, Resumes, Overtaken
  <2>5. pending' \in {pending, None}
    BY <1>3 DEF KeptAfter
  <2>6. OnScreen' => Followable'
    BY <1>1, <2>2, <2>4, <2>5 DEF PanelInv, OnScreen, Followable, Awaiting
  <2> QED
    BY <2>2, <2>3, <2>6 DEF PanelInv
<1> QED
  BY <1>2, <1>3 DEF Fails

LEMMA HandlerKeepsPanel ==
  ASSUME IInv, PanelInv, NEW f \in Flows, Submit(f) \/ Resume(f) \/ Answered(f)
  PROVE  PanelInv'
<1>0. page \in PageRow /\ flow \in [Flows -> FlowRow]
  BY DEF IInv, Types, DialogOK, FlowsOK
<1>1. CASE Submit(f)
  <2>1. PICK row : row = [Idle EXCEPT !.pc = "catalog", !.session = session, !.plan = plan]
    OBVIOUS
  <2>2. ~row.resumed /\ flow' = [flow EXCEPT ![f] = row]
    BY <1>1, <2>1 DEF Submit, Idle
  <2>3. \A g \in Flows : Resumes(g)' => Resumes(g)
    BY <1>0, <1>1, <2>2 DEF Submit, choice, Resumes
  <2>4. /\ page'.stage = "requesting" /\ page'.open = page.open
        /\ page'.loaded = page.loaded /\ page'.resumed = page.resumed
        /\ UNCHANGED <<shown, pending>>
    BY <1>0, <1>1 DEF Submit, PageRow
  <2> QED
    BY <2>3, <2>4 DEF PanelInv, OnScreen, Followable, Awaiting
<1>2. CASE Resume(f)
  <2>1. page'.loaded /\ page'.resumed
    BY <1>2 DEF Resume, Opens
  <2>2. pending # None /\ UNCHANGED pending /\ shown' = pending.order
    BY <1>2 DEF Resume, Resumable
  <2> QED
    BY <2>1, <2>2 DEF PanelInv, Followable
<1>3. CASE CatalogAnswers(f)
  <2>1. PICK pc, a : Await(f, pc, a, Asked)
    BY <1>3 DEF CatalogAnswers
  <2>2. PICK row : row = [flow[f] EXCEPT !.pc = pc, !.order = a, !.request = Asked]
    OBVIOUS
  <2>3. row.resumed = flow[f].resumed /\ row.session = flow[f].session
    BY <1>0, <2>2 DEF FlowRow
  <2>4. flow' = [flow EXCEPT ![f] = row]
    BY <2>1, <2>2 DEF Await
  <2> QED
    BY <1>3, <2>3, <2>4, PanelStays DEF CatalogAnswers, Resumes
<1>4. CASE Sealed(f)
  <2>1. PICK q : q = [product |-> "whisper", plan |-> plan]
    OBVIOUS
  <2>2. PICK row : row = [flow[f] EXCEPT !.pc = "quote", !.order = flow[f].order,
                                         !.request = q]
    OBVIOUS
  <2>3. row.resumed = flow[f].resumed /\ row.session = flow[f].session
    BY <1>0, <2>2 DEF FlowRow
  <2>4. flow' = [flow EXCEPT ![f] = row]
    BY <1>4, <2>1, <2>2 DEF Sealed, Await
  <2> QED
    BY <1>4, <2>3, <2>4, PanelStays DEF Sealed, Resumes
<1>5. CASE Fails(f)
  BY <1>5, FailKeepsPanel
<1>6. CASE Resting(f) /\ UNCHANGED <<page, session, shown, pending>>
  BY <1>6, PanelStays DEF Resting, Idle
<1>7. ASSUME NEW pc, flow' = [flow EXCEPT ![f].pc = pc],
             UNCHANGED <<page, session, shown, pending>>
      PROVE  PanelInv'
  <2>1. PICK row : row = [flow[f] EXCEPT !.pc = pc]
    OBVIOUS
  <2>2. row.resumed = flow[f].resumed /\ row.session = flow[f].session
    BY <1>0, <2>1 DEF FlowRow
  <2>3. flow' = [flow EXCEPT ![f] = row]
    BY <1>7, <2>1
  <2> QED
    BY <1>7, <2>2, <2>3, PanelStays DEF Resumes
<1>8. CASE /\ QuoteAnswers(f) /\ ~Overtaken(f)
           /\ pending' = Stored(flow[f].order) /\ shown' = flow[f].order
           /\ page' = [page EXCEPT !.stage = "pending", !.button = FALSE]
           /\ flow' = [flow EXCEPT ![f].pc = "sleep", ![f].request = None]
           /\ UNCHANGED <<choice, session, attempt, key, output>>
  <2>1. /\ flow[f].order \in Attempts /\ product \in Products /\ plan \in Plans
        /\ key \in Attempts \cup {None}
    BY <1>8, RowOf DEF QuoteAnswers, JobOf, IInv, Types, DialogOK
  <2>2. pending' # None /\ pending'.order = shown'
    BY <1>8, <2>1, Keeping, CheckoutAssumption DEF CheckoutAssumption
  <2>3. page'.open = page.open /\ page'.loaded = page.loaded /\ page'.resumed = page.resumed
    BY <1>0, <1>8 DEF PageRow
  <2>4. PICK row : row = [flow[f] EXCEPT !.pc = "sleep", !.request = None]
    OBVIOUS
  <2>5. row.resumed = flow[f].resumed /\ row.session = flow[f].session
    BY <1>0, <2>4 DEF FlowRow
  <2>6. flow' = [flow EXCEPT ![f] = row]
    BY <1>0, <1>8, <2>4
  <2>7. \A g \in Flows : Resumes(g)' => Resumes(g)
    BY <1>0, <1>8, <2>5, <2>6 DEF Resumes
  <2> QED
    BY <2>2, <2>3, <2>7 DEF PanelInv, Followable
<1>9. CASE Delivered(f)
  <2>1. /\ page'.open = page.open /\ page'.loaded = page.loaded
        /\ page'.resumed = page.resumed /\ shown' = None /\ UNCHANGED session
    BY <1>0, <1>9 DEF Delivered, PageRow
  <2>2. \A g \in Flows : Resumes(g)' => Resumes(g)
    BY <1>0, <1>9, <2>1 DEF Delivered, Resting, Resumes, Idle
  <2> QED
    BY <2>1, <2>2 DEF PanelInv, OnScreen
<1>10. CASE QuoteAnswers(f)
  BY <1>5, <1>6, <1>8, <1>10 DEF QuoteAnswers
<1>11. CASE TimerFires(f) \/ Unpaid(f)
  BY <1>5, <1>6, <1>7, <1>11 DEF TimerFires, Unpaid
<1> QED
  BY <1>1, <1>2, <1>3, <1>4, <1>5, <1>9, <1>10, <1>11
     DEF Answered, CatalogFails, SealFails, QuoteFails, PollFails

LEMMA PanelInvariant == Spec => []PanelInv
<1>1. Init => PanelInv
  BY Flowing, Pages DEF Init, PanelInv, Resumes, OnScreen, Idle
<1>2. IInv /\ PanelInv /\ [Next]_vars => PanelInv'
  <2> SUFFICES ASSUME IInv, PanelInv, [Next]_vars PROVE PanelInv'
    OBVIOUS
  <2>1. CASE UNCHANGED vars
    BY <2>1 DEF vars, PanelInv, Resumes, OnScreen, Followable, Awaiting
  <2> QED
    BY <2>1, BuyerKeepsPanel, HandlerKeepsPanel DEF Next
<1> QED
  BY <1>1, <1>2, Invariant, PTL DEF Spec

(* Whatever is selected while a submission waits, and whichever older one  *)
(* is answered late, the invoice that is awaited is for the product of     *)
(* this dialog and the plan that was selected when it was submitted.       *)
THEOREM ReviewedIsShown == Spec => []ShownIsReviewed
<1>1. IInv => ShownIsReviewed
  BY DEF IInv, ShownInv, Polls, ShownIsReviewed
<1> QED
  BY <1>1, Invariant, PTL

(* While the page says that it waits, a loop of this very dialog polls the *)
(* invoice on screen.  One that it has stopped polling (setPaymentStage    *)
(* leaves the panel) is that of the stored purchase, unless a resumption   *)
(* that failed has dropped it.                                             *)
THEOREM FollowedIsShown == Spec => []ShownIsFollowed
<1>1. IInv /\ PanelInv => ShownIsFollowed
  BY DEF IInv, ShownInv, Polls, ShownIsFollowed, Overtaken, Awaiting, PanelInv, Followable
<1> QED
  BY <1>1, Invariant, PanelInvariant, PTL
=============================================================================
