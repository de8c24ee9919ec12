----------------------------- MODULE GateClient -----------------------------
(***************************************************************************)
(* The other end of GATE: the merchant's server, which asks GateIntents    *)
(* through the SDK and serves a request of its own origin when the receipt *)
(* in the answer verifies, and the agents that prove with an HTTP Payment  *)
(* credential.  A receipt is kept with the intent and sent again on every  *)
(* retry; the merchant's and the server's clocks are taken for one.        *)
(***************************************************************************)
EXTENDS GateIntents

CONSTANT ReceiptLife  \* validity of a receipt (5 minutes)

ASSUME ReceiptAssumption == ReceiptLife \in Nat \ {0}

VARIABLE admitted  \* history: for each intent, the requests served and when

clientVars == <<vars, admitted>>

ClientInit == Init /\ admitted = [j \in Intents |-> {}]
-----------------------------------------------------------------------------
(* Faults that the runs must notice: mutated forms of definitions below.   *)

SignedAgain(j) ==
  [binding |-> intent[j].binding, iat |-> now, exp |-> now + ReceiptLife]
-----------------------------------------------------------------------------
(* The claims are the bound request and the time of the settlement, which  *)
(* is not the time of the answer.                                          *)
ReceiptOf(j) == [binding |-> intent[j].binding, iat |-> ledger[j].at,
                 exp |-> ledger[j].at + ReceiptLife]

(* The SDK compares the claims with the request it is about to serve; the  *)
(* server did not ask which one that is.                                   *)
Verifies(j, b) ==
  /\ ReceiptOf(j).binding = b
  /\ ReceiptOf(j).iat <= now /\ now < ReceiptOf(j).exp

(* The answer for the caller's request b; without a valid receipt the SDK  *)
(* throws, or hands the 402 on.                                            *)
HandleGateResponse(r, b) ==
  /\ Reply(r)
  /\ admitted' = IF answer[r].type = "receipt" /\ Verifies(on(r), b)
                 THEN [admitted EXCEPT ![on(r)] = @ \cup {<<b, now>>}]
                 ELSE admitted

(* A quote or a credential names its request, a proof or a poll only the   *)
(* intent: its caller may be about to serve any request.                   *)
CallersRequest(r) ==
  IF job[r].binding = NoBinding THEN Bindings ELSE {job[r].binding}

(* A credential holds the challenge of a quote and the preimage; it is     *)
(* refused for another request and once the invoice has expired, within    *)
(* the grace too.                                                          *)
ValidCredential(j, b) ==
  /\ intent[j].hash # NoHash
  /\ <<intent[j].hash, b>> \in quoted[j]
  /\ HasPreimage(intent[j].hash)
  /\ now < invoice[intent[j].hash].expires

ProveByCredential(r, j, b) ==
  ValidCredential(j, b) /\ Start(r, "prove", j, b, "getIntent")
-----------------------------------------------------------------------------
ServerStep ==
  /\ \/ \E r \in Requests : \/ Arrive(r) \/ Serve(r)
                            \/ AmbiguousFailure(r) \/ ProviderRefused(r) \/ Fail(r)
                            \/ \E j \in Intents, b \in Bindings : ProveByCredential(r, j, b)
     \/ Environment
  /\ UNCHANGED admitted

ClientNext ==
  \/ ServerStep
  \/ \E r \in Requests : \E b \in CallersRequest(r) : HandleGateResponse(r, b)

ClientSpec == ClientInit /\ [][ClientNext]_clientVars
-----------------------------------------------------------------------------
(* The origin serves a request only for a payment of an invoice quoted for *)
(* that very request, and all that one payment unlocks within the life of  *)
(* a receipt (README.md:39), over retries, lost answers and late proofs.   *)
ReceiptsServeOneRequest ==
  \A j \in Intents : \A served \in admitted[j] :
    /\ IsPaid(j) /\ <<intent[j].hash, served[1]>> \in quoted[j]
    /\ \A other \in admitted[j] : other[2] < served[2] + ReceiptLife

(* Requests are scheduled fairly, the failures that are no step of theirs  *)
(* stop some day, and the caller of the right request keeps proving.       *)
RunsOn(r) ==
  \/ Serve(r) /\ UNCHANGED admitted
  \/ \E b \in CallersRequest(r) : HandleGateResponse(r, b)

AsksAgain(j) == \E r \in Requests : StartProve(r, j) /\ UNCHANGED admitted

IsServed(j) ==
  \E r \in Requests : /\ job[r].kind = "prove" /\ on(r) = j
                      /\ HandleGateResponse(r, intent[j].binding)

FairClientSpec ==
  /\ ClientSpec
  /\ \A r \in Requests : WF_clientVars(RunsOn(r))
  /\ \A j \in Intents : SF_clientVars(AsksAgain(j)) /\ SF_clientVars(IsServed(j))
  /\ <>[][\A r \in Requests : Fail(r) => RunsOn(r)]_clientVars

ReceiptExpired(j) == ledger[j].jti # NoJti /\ now >= ReceiptOf(j).exp

(* Neither a free authorization of this month nor a prepaid one is left.    *)
NothingLeft == FreeExhausted(Month(now)) /\ Spendable(now) = {}

=============================================================================
