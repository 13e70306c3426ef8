------------------------------ MODULE Payments ------------------------------
(***************************************************************************)
(* Payments of invoices: PaymentService, InvoiceService and the override   *)
(* of AdminService, over the collections Invoice and Payment and the       *)
(* payment gateway Paymob.                                                 *)
(*                                                                         *)
(* As in Offers one action is one awaited call of one request, requests    *)
(* interleave and may die between two calls.  The gateway is external: it  *)
(* starts transactions on checkouts it has issued and reports them by      *)
(* webhooks that arrive late, repeatedly and in any order, or never.       *)
(* Amounts, billing data, signatures and the content of the gateway's      *)
(* answer are left out: a webhook that fails validation writes nothing.    *)
(***************************************************************************)
EXTENDS Naturals, FiniteSets

CONSTANTS
    Invoices,       \* ids of invoices; each is created at most once
    Txns,           \* transaction ids of the gateway
    Requests,       \* requests being served at the same time
    None,           \* null
    SendsPending,   \* whether the gateway reports a transaction still pending
    RequestsFail    \* whether a request may die between two calls

ASSUME NoneAssumption == None \notin Invoices \cup Txns

ASSUME SwitchAssumption == SendsPending \in BOOLEAN /\ RequestsFail \in BOOLEAN

VARIABLES
    invoices,       \* the Invoice collection
    payments,       \* the Payment collection, by its unique transactionId
    checkouts,      \* invoices with a checkout at the gateway
    txns,           \* the gateway's transactions: their invoice and state
    webhooks,       \* the webhooks sent so far
    requests,       \* what each request in flight has read and does next
    answered        \* history: transactions whose success was answered with 200

gateway == <<checkouts, txns, webhooks>>
vars == <<invoices, payments, gateway, requests, answered>>

(***************************************************************************)
(* Documents, webhooks and requests.                                       *)
(***************************************************************************)
\* payment is Invoice.paymentStatus, "none" while there is no document.
InvoiceDoc == [payment: {"none", "pending", "paid", "failed"},
               status: {"pending", "cancelled"}, method: {"manual", "paymob"},
               txn: Txns \cup {None}, overrides: 0..1]

NewInvoice == [payment |-> "pending", status |-> "pending", method |-> "manual",
               txn |-> None, overrides |-> 0]

PaymentDoc == [invoice: Invoices \cup {None}, status: {"none", "paid", "failed"}]
NoPayment == [invoice |-> None, status |-> "none"]

Webhook == [txn: Txns, invoice: Invoices, success: BOOLEAN, pending: BOOLEAN]

DeterminePaymentStatus(event) ==
    IF event.success /\ ~event.pending THEN "paid" ELSE "failed"

Steps == {"idle", "session_order", "session_key", "persist", "apply", "force_pay", "cancel"}

Idle == [pc |-> "idle", invoice |-> None, txn |-> None, status |-> "failed"]

Request == [pc: Steps, invoice: Invoices \cup {None}, txn: Txns \cup {None},
            status: {"paid", "failed"}]

At(r, step) == requests[r].pc = step
Become(r, state) == requests' = [requests EXCEPT ![r] = state]
Goto(r, step) == Become(r, [requests[r] EXCEPT !.pc = step])
Finish(r) == Become(r, Idle)

TypeOK ==
    /\ invoices \in [Invoices -> InvoiceDoc]
    /\ payments \in [Txns -> PaymentDoc]
    /\ checkouts \subseteq Invoices
    /\ txns \in [Txns -> [invoice: Invoices \cup {None},
                          state: {"none", "pending", "success", "failure"}]]
    /\ webhooks \subseteq Webhook
    /\ requests \in [Requests -> Request]
    /\ answered \subseteq Txns

Init ==
    /\ invoices = [i \in Invoices |-> [NewInvoice EXCEPT !.payment = "none"]]
    /\ payments = [t \in Txns |-> NoPayment]
    /\ checkouts = {}
    /\ txns = [t \in Txns |-> [invoice |-> None, state |-> "none"]]
    /\ webhooks = {}
    /\ requests = [r \in Requests |-> Idle]
    /\ answered = {}

(***************************************************************************)
(* InvoiceService: create and cancel.                                      *)
(***************************************************************************)
CreateInvoice(i) ==
    /\ invoices[i].payment = "none"
    /\ invoices' = [invoices EXCEPT ![i] = NewInvoice]
    /\ UNCHANGED <<payments, gateway, requests, answered>>

ReadInvoiceForCancel(r, i) ==
    /\ At(r, "idle")
    /\ invoices[i].payment # "none"
    /\ Become(r, [Idle EXCEPT !.pc = "cancel", !.invoice = i])
    /\ UNCHANGED <<invoices, payments, gateway, answered>>

SaveCancelled(r) ==
    /\ At(r, "cancel")
    /\ invoices' = [invoices EXCEPT ![requests[r].invoice].status = "cancelled"]
    /\ Finish(r)
    /\ UNCHANGED <<payments, gateway, answered>>

(***************************************************************************)
(* PaymentService.createPaymentSession.                                    *)
(***************************************************************************)
ReadInvoiceForSession(r, i) ==
    /\ At(r, "idle")
    /\ invoices[i].payment \notin {"none", "paid"}
    /\ invoices[i].status # "cancelled"
    /\ Become(r, [Idle EXCEPT !.pc = "session_order", !.invoice = i])
    /\ UNCHANGED <<invoices, payments, gateway, answered>>

\* The client has no profile or the gateway fails (502), or it has an order now.
CreateOrder(r) ==
    /\ At(r, "session_order")
    /\ Finish(r) \/ Goto(r, "session_key")
    /\ UNCHANGED <<invoices, payments, gateway, answered>>

\* Nobody can pay an order without the key that the checkout URL carries.
GeneratePaymentKey(r) ==
    /\ At(r, "session_key")
    /\ Finish(r)
    /\ checkouts' = checkouts \cup {requests[r].invoice} \/ UNCHANGED checkouts
    /\ UNCHANGED <<invoices, payments, txns, webhooks, answered>>

(***************************************************************************)
(* The gateway (external).                                                 *)
(***************************************************************************)
Report(t, i, success, pending) ==
    webhooks' = webhooks \cup
        {[txn |-> t, invoice |-> i, success |-> success, pending |-> pending]}

StartTransaction(t, i) ==
    /\ i \in checkouts
    /\ txns[t].state = "none"
    /\ txns' = [txns EXCEPT ![t] = [invoice |-> i, state |-> "pending"]]
    /\ IF SendsPending THEN Report(t, i, FALSE, TRUE) ELSE UNCHANGED webhooks
    /\ UNCHANGED <<invoices, payments, checkouts, requests, answered>>

EndTransaction(t, success) ==
    /\ txns[t].state = "pending"
    /\ txns' = [txns EXCEPT ![t].state = IF success THEN "success" ELSE "failure"]
    /\ Report(t, txns[t].invoice, success, FALSE)
    /\ UNCHANGED <<invoices, payments, checkouts, requests, answered>>

(***************************************************************************)
(* PaymentService.handleWebhook.                                           *)
(***************************************************************************)
\* Mutant: a failed invoice cannot be paid by another transaction.
TransitionsFromPending(status) ==
    IF status = "pending" THEN {"paid", "failed"} ELSE {}

\* Mutant: the outcome that arrives last is the one that counts.
TransitionsLastWins(status) == {"paid", "failed"}

\* PAYMENT_TRANSITIONS: what a payment status may become.
Transitions(status) ==
    CASE status = "pending" -> {"paid", "failed"}
      [] status = "failed" -> {"paid"}
      [] OTHER -> {}

ReceiveWebhook(r, event) ==
    /\ At(r, "idle")
    /\ event \in webhooks
    /\ Become(r, [pc |-> "persist", invoice |-> event.invoice, txn |-> event.txn,
                  status |-> DeterminePaymentStatus(event)])
    /\ UNCHANGED <<invoices, payments, gateway, answered>>

Answer(req) == answered' = IF req.status = "paid" THEN answered \cup {req.txn} ELSE answered

\* Mutant: a redelivery replaces the record.
PersistPaymentOver(r) ==
    LET req == requests[r] IN
    /\ At(r, "persist")
    /\ payments' = [payments EXCEPT ![req.txn] =
                       [invoice |-> req.invoice, status |-> req.status]]
    /\ Goto(r, "apply")
    /\ UNCHANGED <<invoices, gateway, answered>>

\* Mutant: the invoice is left for later.
PersistPaymentOnly(r) ==
    LET req == requests[r] IN
    /\ At(r, "persist")
    /\ payments' = IF payments[req.txn] = NoPayment
                   THEN [payments EXCEPT ![req.txn] =
                           [invoice |-> req.invoice, status |-> req.status]]
                   ELSE payments
    /\ Answer(req)
    /\ Finish(r)
    /\ UNCHANGED <<invoices, gateway>>

\* A duplicate transactionId (11000) is answered as alreadyProcessed.
PersistPayment(r) ==
    LET req == requests[r] IN
    /\ At(r, "persist")
    /\ IF payments[req.txn] = NoPayment
       THEN /\ payments' = [payments EXCEPT ![req.txn] =
                               [invoice |-> req.invoice, status |-> req.status]]
            /\ Goto(r, "apply")
            /\ UNCHANGED answered
       ELSE /\ Finish(r)
            /\ Answer(req)
            /\ UNCHANGED payments
    /\ UNCHANGED <<invoices, gateway>>

\* One conditional findOneAndUpdate; a settled invoice is left alone.
ApplyInvoiceUpdate(r) ==
    LET req == requests[r] IN
    /\ At(r, "apply")
    /\ invoices' = [invoices EXCEPT ![req.invoice] =
           IF req.status \notin Transitions(@.payment) THEN @
           ELSE IF req.status = "paid"
           THEN [@ EXCEPT !.payment = "paid", !.method = "paymob", !.txn = req.txn]
           ELSE [@ EXCEPT !.payment = "failed"]]
    /\ Answer(req)
    /\ Finish(r)
    /\ UNCHANGED <<payments, gateway>>

(***************************************************************************)
(* AdminService.markAsPaidOnly.                                            *)
(***************************************************************************)
ReadInvoiceForOverride(r, i) ==
    /\ At(r, "idle")
    /\ invoices[i].payment \notin {"none", "paid"}
    /\ Become(r, [Idle EXCEPT !.pc = "force_pay", !.invoice = i])
    /\ UNCHANGED <<invoices, payments, gateway, answered>>

Overridden(doc) == [doc EXCEPT !.payment = "paid", !.method = "manual", !.txn = None,
                               !.overrides = @ + 1]

\* Mutant: the update trusts the check made on what was read.
MarkAsPaidOnlyAlways(r) ==
    /\ At(r, "force_pay")
    /\ invoices' = [invoices EXCEPT ![requests[r].invoice] = Overridden(@)]
    /\ Finish(r)
    /\ UNCHANGED <<payments, gateway, answered>>

MarkAsPaidOnly(r) ==
    /\ At(r, "force_pay")
    /\ invoices' = [invoices EXCEPT ![requests[r].invoice] =
                       IF @.payment = "paid" THEN @ ELSE Overridden(@)]
    /\ Finish(r)
    /\ UNCHANGED <<payments, gateway, answered>>

\* The process serving r crashes, or a call of r throws.
Fail(r) ==
    /\ RequestsFail
    /\ ~At(r, "idle")
    /\ Finish(r)
    /\ UNCHANGED <<invoices, payments, gateway, answered>>

----------------------------------------------------------------------------
Proceed(r) ==
    \/ SaveCancelled(r) \/ CreateOrder(r) \/ GeneratePaymentKey(r)
    \/ PersistPayment(r) \/ ApplyInvoiceUpdate(r) \/ MarkAsPaidOnly(r)

Arrive(r) ==
    \/ \E i \in Invoices : \/ ReadInvoiceForCancel(r, i) \/ ReadInvoiceForSession(r, i)
                           \/ ReadInvoiceForOverride(r, i)
    \/ \E event \in webhooks : ReceiveWebhook(r, event)

Next ==
    \/ \E r \in Requests : Arrive(r) \/ Proceed(r) \/ Fail(r)
    \/ \E i \in Invoices : CreateInvoice(i) \/ \E t \in Txns : StartTransaction(t, i)
    \/ \E t \in Txns, success \in BOOLEAN : EndTransaction(t, success)

Spec == Init /\ [][Next]_vars

\* The event loop and the database answer every call; callers and the gateway owe
\* nothing.
FairSpec == Spec /\ \A r \in Requests : WF_vars(Proceed(r))
----------------------------------------------------------------------------
\* However webhooks, duplicates and overrides interleave, a paid invoice has one
\* explanation: the Payment of its transaction, down as paid for this invoice, or
\* one override and no transaction.  A failed one has a failed Payment
\* (processPaymentEvent, markAsPaidOnly).
Explains(i, doc) ==
    /\ doc.payment = "failed" =>
          \E t \in Txns : payments[t] = [invoice |-> i, status |-> "failed"]
    /\ doc.payment = "paid" =>
          \/ /\ doc.method = "paymob" /\ doc.overrides = 0 /\ doc.txn \in Txns
             /\ payments[doc.txn] = [invoice |-> i, status |-> "paid"]
          \/ doc.method = "manual" /\ doc.overrides = 1 /\ doc.txn = None
    /\ doc.payment # "paid" => doc.txn = None /\ doc.overrides = 0

PaymentExplained == \A i \in Invoices : Explains(i, invoices[i])

\* Payments do what InvoiceSettlement says, one abstract step per document written.
settled == [i \in Invoices |-> [payment |-> invoices[i].payment, txn |-> invoices[i].txn]]
S == INSTANCE InvoiceSettlement WITH ledger <- payments
ImplementsSettlement == S!Spec

\* A Payment recorded as paid pays its invoice, in whatever order the webhooks of
\* the invoice's transactions are handled, unless the request handling it dies.
PaidPaymentSettles == \A t \in Txns, i \in Invoices :
    payments[t] = [invoice |-> i, status |-> "paid"] ~> invoices[i].payment = "paid"

\* When no request is being served, an invoice whose success the gateway had
\* acknowledged is paid: "alreadyProcessed" is the truth
\* (tests/unit/modules/payments/payments.service.test.js, "duplicate transaction idempotency").
Quiet == \A r \in Requests : At(r, "idle")
AnsweredSuccessSettles ==
    Quiet => \A t \in answered : invoices[txns[t].invoice].payment = "paid"

(***************************************************************************)
(* The inductive invariant: the Payment of a webhook is on record before   *)
(* the invoice is updated from it.                                         *)
(***************************************************************************)
SlotOK(q) ==
    /\ q.pc # "idle" => q.invoice \in Invoices /\ invoices[q.invoice].payment # "none"
    /\ q.pc \in {"persist", "apply"} => q.txn \in Txns
    /\ q.pc = "apply" => payments[q.txn] = [invoice |-> q.invoice, status |-> q.status]

\* Only invoices that exist are on their way through the gateway.
GatewayOK ==
    /\ \A i \in checkouts : invoices[i].payment # "none"
    /\ \A t \in Txns : txns[t].state # "none" => txns[t].invoice \in checkouts
    /\ \A event \in webhooks : event.invoice \in checkouts

IInv ==
    /\ TypeOK
    /\ PaymentExplained
    /\ GatewayOK
    /\ \A r \in Requests : SlotOK(requests[r])

(***************************************************************************)
(* What holds besides where the gateway reports only ends and no request   *)
(* dies: everything said of a transaction is how it ended, and a Payment   *)
(* down as paid has paid its invoice or is about to.                       *)
(***************************************************************************)
Ended(t) == txns[t].state \in {"success", "failure"}
Outcome(t) == IF txns[t].state = "success" THEN "paid" ELSE "failed"

WebhookTrue(event) ==
    /\ Ended(event.txn) /\ ~event.pending
    /\ event.invoice = txns[event.txn].invoice
    /\ event.success <=> txns[event.txn].state = "success"

SlotTrue(q) == q.pc \in {"persist", "apply"} =>
    Ended(q.txn) /\ q.invoice = txns[q.txn].invoice /\ q.status = Outcome(q.txn)

PaymentTrue(t) == payments[t] # NoPayment =>
    Ended(t) /\ payments[t] = [invoice |-> txns[t].invoice, status |-> Outcome(t)]

Applying(t) == \E r \in Requests : At(r, "apply") /\ requests[r].txn = t

SettledInv ==
    /\ \A event \in webhooks : WebhookTrue(event)
    /\ \A r \in Requests : SlotTrue(requests[r])
    /\ \A t \in Txns : PaymentTrue(t)
    /\ \A t \in answered : payments[t].status = "paid"
    /\ \A t \in Txns : payments[t].status = "paid" =>
          invoices[txns[t].invoice].payment = "paid" \/ Applying(t)
=============================================================================
