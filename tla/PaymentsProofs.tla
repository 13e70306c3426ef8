--------------------------- MODULE PaymentsProofs ---------------------------
(***************************************************************************)
(* Theorems about Payments, for any number of invoices, transactions and   *)
(* requests in flight, with or without failures: the inductive invariant,  *)
(* and that Payments implements InvoiceSettlement.                         *)
(***************************************************************************)
EXTENDS Payments, TLAPS

\* What every step preserves of what requests rely on.
Grows ==
    /\ \A t \in Txns : payments[t] # NoPayment => payments'[t] = payments[t]
    /\ \A i \in Invoices : invoices[i].payment # "none" => invoices'[i].payment # "none"

\* Everything of TypeOK but the slots.
DocsTypeOK ==
    /\ invoices \in [Invoices -> InvoiceDoc]
    /\ payments \in [Txns -> PaymentDoc]
    /\ checkouts \subseteq Invoices
    /\ txns \in [Txns -> [invoice: Invoices \cup {None},
                          state: {"none", "pending", "success", "failure"}]]
    /\ webhooks \subseteq Webhook
    /\ answered \subseteq Txns

LEMMA IdleOK == Idle \in Request /\ SlotOK(Idle)'
BY DEF Idle, Request, Steps, SlotOK

LEMMA SlotStays ==
    ASSUME NEW q \in Request, Grows, SlotOK(q)
    PROVE  SlotOK(q)'
BY DEF SlotOK, Grows, Request, NoPayment

LEMMA SetSlot ==
    ASSUME IInv, DocsTypeOK', PaymentExplained', GatewayOK', Grows,
           NEW r \in Requests, NEW q \in Request, SlotOK(q)', Become(r, q)
    PROVE  IInv'
<1>1. requests' = [requests EXCEPT ![r] = q]
  BY DEF Become
<1>2. requests' \in [Requests -> Request]
  BY <1>1 DEF IInv, TypeOK
<1>3. ASSUME NEW s \in Requests PROVE SlotOK(requests[s])'
  <2>1. CASE s = r
    <3>1. requests'[s] = q
      BY <1>1, <2>1 DEF IInv, TypeOK
    <3> QED BY <3>1 DEF SlotOK
  <2>2. CASE s # r
    <3>1. requests'[s] = requests[s] /\ requests[s] \in Request
      BY <1>1, <2>2 DEF IInv, TypeOK
    <3>2. PICK p \in Request : p = requests[s]
      BY <3>1
    <3>3. SlotOK(p)'
      BY <3>2, SlotStays DEF IInv
    <3> QED BY <3>1, <3>2, <3>3 DEF SlotOK
  <2> QED BY <2>1, <2>2
<1> QED BY <1>2, <1>3 DEF IInv, TypeOK, DocsTypeOK

\* A step that changes neither documents nor the gateway.
LEMMA ReadSlot ==
    ASSUME IInv, NEW r \in Requests, NEW q \in Request, SlotOK(q), Become(r, q),
           UNCHANGED <<invoices, payments, gateway, answered>>
    PROVE  IInv'
<1>1. Grows
  BY DEF Grows
<1>2. DocsTypeOK' /\ PaymentExplained' /\ GatewayOK'
  BY DEF IInv, TypeOK, DocsTypeOK, PaymentExplained, Explains, GatewayOK, gateway
<1> QED BY <1>1, <1>2, SlotStays, SetSlot

LEMMA ReadIdle ==
    ASSUME IInv, NEW r \in Requests, Finish(r), UNCHANGED <<invoices, payments, gateway, answered>>
    PROVE  IInv'
<1>1. Idle \in Request /\ SlotOK(Idle)
  BY IdleOK DEF Idle, SlotOK
<1> QED BY <1>1, ReadSlot DEF Finish

\* A step that keeps every slot.
LEMMA KeepSlots ==
    ASSUME IInv, DocsTypeOK', PaymentExplained', GatewayOK', Grows, UNCHANGED requests
    PROVE  IInv'
<1>1. ASSUME NEW s \in Requests PROVE SlotOK(requests[s])'
  <2>1. PICK p \in Request : p = requests[s]
    BY DEF IInv, TypeOK
  <2>2. SlotOK(p)'
    BY <2>1, SlotStays DEF IInv
  <2> QED BY <2>1, <2>2 DEF SlotOK
<1> QED BY <1>1 DEF IInv, TypeOK, DocsTypeOK

LEMMA InitIInv == Init => IInv
<1> SUFFICES ASSUME Init PROVE IInv
  OBVIOUS
<1>1. TypeOK
  BY DEF Init, TypeOK, NewInvoice, InvoiceDoc, NoPayment, PaymentDoc, Idle, Request, Steps
<1>2. PaymentExplained /\ GatewayOK
  BY DEF Init, PaymentExplained, Explains, GatewayOK, NewInvoice
<1>3. \A r \in Requests : SlotOK(requests[r])
  BY DEF Init, SlotOK, Idle
<1> QED BY <1>1, <1>2, <1>3 DEF IInv

(***************************************************************************)
(* Steps that only set a slot.                                             *)
(***************************************************************************)
LEMMA ArriveStep ==
    ASSUME IInv, NEW r \in Requests, Arrive(r)
    PROVE  IInv'
<1>1. ASSUME NEW i \in Invoices,
             ReadInvoiceForCancel(r, i) \/ ReadInvoiceForSession(r, i) \/ ReadInvoiceForOverride(r, i)
      PROVE  IInv'
  <2>1. PICK step \in {"cancel", "session_order", "force_pay"} :
           Become(r, [Idle EXCEPT !.pc = step, !.invoice = i])
    BY <1>1 DEF ReadInvoiceForCancel, ReadInvoiceForSession, ReadInvoiceForOverride
  <2>2. [Idle EXCEPT !.pc = step, !.invoice = i] \in Request
    BY IdleOK DEF Idle, Request, Steps
  <2>3. PICK q \in Request : q = [Idle EXCEPT !.pc = step, !.invoice = i]
    BY <2>2
  <2>4. q.pc = step /\ q.invoice = i
    BY <2>3 DEF Idle
  <2>5. SlotOK(q)
    BY <1>1, <2>4 DEF SlotOK, ReadInvoiceForCancel, ReadInvoiceForSession, ReadInvoiceForOverride
  <2>6. Become(r, q) /\ UNCHANGED <<invoices, payments, gateway, answered>>
    BY <1>1, <2>1, <2>3 DEF ReadInvoiceForCancel, ReadInvoiceForSession, ReadInvoiceForOverride
  <2> QED BY <2>5, <2>6, ReadSlot
<1>2. ASSUME NEW event \in webhooks, ReceiveWebhook(r, event) PROVE IInv'
  <2> DEFINE slot == [pc |-> "persist", invoice |-> event.invoice, txn |-> event.txn,
                      status |-> DeterminePaymentStatus(event)]
  <2>1. event \in Webhook /\ event.invoice \in checkouts /\ event.invoice \in Invoices
        /\ invoices[event.invoice].payment # "none"
    BY DEF IInv, TypeOK, GatewayOK
  <2>2. slot \in Request
    BY <2>1 DEF Webhook, Request, Steps, DeterminePaymentStatus
  <2>3. PICK q \in Request : q = slot
    BY <2>2
  <2>4. SlotOK(q)
    BY <2>1, <2>3 DEF SlotOK, Webhook
  <2>5. Become(r, q) /\ UNCHANGED <<invoices, payments, gateway, answered>>
    BY <1>2, <2>3 DEF ReceiveWebhook
  <2> QED BY <2>4, <2>5, ReadSlot
<1> QED BY <1>1, <1>2 DEF Arrive

LEMMA CreateOrderStep ==
    ASSUME IInv, NEW r \in Requests, CreateOrder(r)
    PROVE  IInv'
<1>1. CASE Finish(r)
  BY <1>1, ReadIdle DEF CreateOrder
<1>2. CASE Goto(r, "session_key")
  <2>1. requests[r] \in Request /\ SlotOK(requests[r]) /\ requests[r].pc = "session_order"
    BY DEF IInv, TypeOK, CreateOrder, At
  <2>2. [requests[r] EXCEPT !.pc = "session_key"] \in Request
    BY <2>1 DEF Request, Steps
  <2>3. PICK q \in Request : q = [requests[r] EXCEPT !.pc = "session_key"]
    BY <2>2
  <2>4. SlotOK(q)
    BY <2>1, <2>3 DEF SlotOK, Request
  <2> QED BY <1>2, <2>3, <2>4, ReadSlot DEF CreateOrder, Goto
<1> QED BY <1>1, <1>2 DEF CreateOrder

(***************************************************************************)
(* Steps of the gateway.                                                   *)
(***************************************************************************)
LEMMA GatewayStep ==
    ASSUME IInv, UNCHANGED <<invoices, payments, answered>>, DocsTypeOK', GatewayOK'
    PROVE  PaymentExplained' /\ Grows
BY DEF IInv, PaymentExplained, Explains, Grows

LEMMA GeneratePaymentKeyStep ==
    ASSUME IInv, NEW r \in Requests, GeneratePaymentKey(r)
    PROVE  IInv'
<1>1. requests[r].invoice \in Invoices /\ invoices[requests[r].invoice].payment # "none"
  BY DEF IInv, SlotOK, GeneratePaymentKey, At
<1>2. DocsTypeOK' /\ GatewayOK'
  BY <1>1 DEF IInv, TypeOK, DocsTypeOK, GatewayOK, GeneratePaymentKey
<1>3. PaymentExplained' /\ Grows
  BY <1>2, GatewayStep DEF GeneratePaymentKey
<1> QED BY <1>2, <1>3, IdleOK, SetSlot DEF GeneratePaymentKey, Finish

\* A webhook about a checkout's invoice is one more sound webhook.
LEMMA ReportOK ==
    ASSUME IInv, NEW t \in Txns, NEW i \in Invoices, i \in checkouts,
           NEW success \in BOOLEAN, NEW pending \in BOOLEAN, Report(t, i, success, pending)
    PROVE  \A event \in webhooks' : event \in Webhook /\ event.invoice \in checkouts
<1> DEFINE sent == [txn |-> t, invoice |-> i, success |-> success, pending |-> pending]
<1>1. sent \in Webhook /\ sent.invoice = i
  BY DEF Webhook
<1>2. PICK e \in Webhook : e = sent /\ e.invoice = i
  BY <1>1
<1>3. webhooks' = webhooks \cup {e}
  BY <1>2 DEF Report
<1> QED BY <1>2, <1>3 DEF IInv, TypeOK, GatewayOK

LEMMA TransactionStep ==
    ASSUME IInv, NEW t \in Txns,
           (\E i \in Invoices : StartTransaction(t, i))
               \/ (\E success \in BOOLEAN : EndTransaction(t, success))
    PROVE  IInv'
<1>0. TypeOK /\ GatewayOK
  BY DEF IInv
<1>1. ASSUME NEW i \in Invoices, StartTransaction(t, i) PROVE DocsTypeOK' /\ GatewayOK'
  <2>1. /\ txns'[t] = [invoice |-> i, state |-> "pending"]
        /\ \A u \in Txns \ {t} : txns'[u] = txns[u]
        /\ i \in checkouts
        /\ UNCHANGED <<invoices, payments, checkouts, answered>>
    BY <1>0, <1>1 DEF TypeOK, StartTransaction
  <2>2. txns' \in [Txns -> [invoice: Invoices \cup {None},
                           state: {"none", "pending", "success", "failure"}]]
    BY <1>0, <1>1 DEF TypeOK, StartTransaction
  <2>3. \A event \in webhooks' : event \in Webhook /\ event.invoice \in checkouts
    <3>1. CASE SendsPending
      BY <1>1, <2>1, <3>1, ReportOK DEF StartTransaction
    <3>2. CASE ~SendsPending
      BY <1>0, <1>1, <3>2 DEF StartTransaction, TypeOK, GatewayOK
    <3> QED BY <3>1, <3>2
  <2>4. DocsTypeOK'
    BY <1>0, <2>1, <2>2, <2>3 DEF TypeOK, DocsTypeOK
  <2>5. GatewayOK'
    BY <1>0, <2>1, <2>3 DEF GatewayOK
  <2> QED BY <2>4, <2>5
<1>2. ASSUME NEW success \in BOOLEAN, EndTransaction(t, success) PROVE DocsTypeOK' /\ GatewayOK'
  <2>1. txns[t].invoice \in checkouts /\ txns[t].invoice \in Invoices
    BY <1>0, <1>2 DEF TypeOK, GatewayOK, EndTransaction
  <2>2. /\ txns'[t].invoice = txns[t].invoice
        /\ \A u \in Txns \ {t} : txns'[u] = txns[u]
        /\ UNCHANGED <<invoices, payments, checkouts, answered>>
    BY <1>0, <1>2 DEF TypeOK, EndTransaction
  <2>3. txns' \in [Txns -> [invoice: Invoices \cup {None},
                           state: {"none", "pending", "success", "failure"}]]
    BY <1>0, <1>2 DEF TypeOK, EndTransaction
  <2>4. \A event \in webhooks' : event \in Webhook /\ event.invoice \in checkouts
    <3>1. PICK i \in Invoices : i = txns[t].invoice
      BY <2>1
    <3> QED BY <1>2, <2>1, <3>1, ReportOK DEF EndTransaction
  <2>5. DocsTypeOK'
    BY <1>0, <2>2, <2>3, <2>4 DEF TypeOK, DocsTypeOK
  <2>6. GatewayOK'
    BY <1>0, <2>1, <2>2, <2>4 DEF GatewayOK
  <2> QED BY <2>5, <2>6
<1>3. DocsTypeOK' /\ GatewayOK' /\ UNCHANGED <<invoices, payments, requests, answered>>
  BY <1>1, <1>2 DEF StartTransaction, EndTransaction
<1> QED BY <1>3, GatewayStep, KeepSlots

(***************************************************************************)
(* Steps that write documents.                                             *)
(***************************************************************************)
\* One invoice document changes, and stays explained.
LEMMA InvoiceWrite ==
    ASSUME IInv, NEW i \in Invoices, NEW doc \in InvoiceDoc, doc.payment # "none",
           invoices' = [invoices EXCEPT ![i] = doc],
           UNCHANGED <<payments, gateway>>, answered' \subseteq Txns,
           Explains(i, doc)
    PROVE  DocsTypeOK' /\ PaymentExplained' /\ GatewayOK' /\ Grows
<1>0. TypeOK /\ PaymentExplained /\ GatewayOK
  BY DEF IInv
<1>1. invoices'[i] = doc /\ \A j \in Invoices \ {i} : invoices'[j] = invoices[j]
  BY <1>0 DEF TypeOK
<1>2. DocsTypeOK'
  BY <1>0 DEF TypeOK, DocsTypeOK, gateway
<1>3. PaymentExplained'
  <2>1. \A j \in Invoices : Explains(j, invoices'[j])
    BY <1>0, <1>1 DEF PaymentExplained
  <2> QED BY <2>1 DEF PaymentExplained, Explains
<1>4. GatewayOK'
  BY <1>0, <1>1 DEF TypeOK, GatewayOK, gateway
<1>5. Grows
  BY <1>1 DEF Grows
<1> QED BY <1>2, <1>3, <1>4, <1>5

\* What is known of an invoice that is not paid.
LEMMA Unpaid ==
    ASSUME IInv, NEW i \in Invoices
    PROVE  /\ invoices[i] \in InvoiceDoc
           /\ invoices[i].payment # "paid" => invoices[i].txn = None /\ invoices[i].overrides = 0
BY DEF IInv, TypeOK, PaymentExplained, Explains

LEMMA CreateInvoiceStep ==
    ASSUME IInv, NEW i \in Invoices, CreateInvoice(i)
    PROVE  IInv'
<1>1. NewInvoice \in InvoiceDoc
  BY DEF NewInvoice, InvoiceDoc
<1>2. PICK doc \in InvoiceDoc : doc = NewInvoice
  BY <1>1
<1>3. doc.payment = "pending" /\ doc.txn = None /\ doc.overrides = 0
  BY <1>2 DEF NewInvoice
<1> Explains(i, doc)
  BY <1>3 DEF Explains
<1>4. answered' \subseteq Txns
  BY DEF IInv, TypeOK, CreateInvoice
<1>5. DocsTypeOK' /\ PaymentExplained' /\ GatewayOK' /\ Grows
  BY <1>2, <1>3, <1>4, InvoiceWrite DEF CreateInvoice
<1> QED BY <1>5, KeepSlots DEF CreateInvoice

LEMMA SaveCancelledStep ==
    ASSUME IInv, NEW r \in Requests, SaveCancelled(r)
    PROVE  IInv'
<1> DEFINE i == requests[r].invoice
<1>1. i \in Invoices /\ invoices[i].payment # "none"
  BY DEF IInv, SlotOK, SaveCancelled, At
<1>2. invoices[i] \in InvoiceDoc
  BY <1>1, Unpaid
<1>3. [invoices[i] EXCEPT !.status = "cancelled"] \in InvoiceDoc
  BY <1>2 DEF InvoiceDoc
<1>4. PICK doc \in InvoiceDoc : doc = [invoices[i] EXCEPT !.status = "cancelled"]
  BY <1>3
<1>5. /\ doc.payment = invoices[i].payment /\ doc.txn = invoices[i].txn
      /\ doc.method = invoices[i].method /\ doc.overrides = invoices[i].overrides
  BY <1>2, <1>4 DEF InvoiceDoc
<1>6. /\ invoices' = [invoices EXCEPT ![i] = doc]
      /\ UNCHANGED <<payments, gateway>> /\ answered' \subseteq Txns
  BY <1>4 DEF SaveCancelled, IInv, TypeOK
<1>7. Explains(i, doc)
  BY <1>1, <1>5 DEF IInv, PaymentExplained, Explains
<1>8. DocsTypeOK' /\ PaymentExplained' /\ GatewayOK' /\ Grows
  BY <1>1, <1>5, <1>6, <1>7, InvoiceWrite
<1> QED BY <1>8, IdleOK, SetSlot DEF SaveCancelled, Finish

LEMMA MarkAsPaidOnlyStep ==
    ASSUME IInv, NEW r \in Requests, MarkAsPaidOnly(r)
    PROVE  IInv'
<1> DEFINE i == requests[r].invoice
<1>1. i \in Invoices /\ invoices[i].payment # "none"
  BY DEF IInv, SlotOK, MarkAsPaidOnly, At
<1>2. CASE invoices[i].payment = "paid"
  <2>1. invoices' = invoices
    BY <1>2 DEF MarkAsPaidOnly, IInv, TypeOK
  <2> QED BY <2>1, ReadIdle DEF MarkAsPaidOnly
<1>3. CASE invoices[i].payment # "paid"
  <2>1. invoices[i] \in InvoiceDoc /\ invoices[i].overrides = 0
    BY <1>1, <1>3, Unpaid
  <2>2. Overridden(invoices[i]) \in InvoiceDoc
    <3>1. invoices[i].overrides + 1 \in 0..1
      BY <2>1
    <3> QED BY <2>1, <3>1 DEF Overridden, InvoiceDoc
  <2>3. PICK doc \in InvoiceDoc : doc = Overridden(invoices[i])
    BY <2>2
  <2>4. doc.payment = "paid" /\ doc.method = "manual" /\ doc.txn = None /\ doc.overrides = 1
    BY <2>1, <2>3 DEF Overridden, InvoiceDoc
  <2>5. /\ invoices' = [invoices EXCEPT ![i] = doc]
        /\ UNCHANGED <<payments, gateway>> /\ answered' \subseteq Txns
    BY <1>3, <2>3 DEF MarkAsPaidOnly, IInv, TypeOK
  <2>6. Explains(i, doc)
    BY <2>4 DEF Explains
  <2>7. DocsTypeOK' /\ PaymentExplained' /\ GatewayOK' /\ Grows
    BY <1>1, <2>4, <2>5, <2>6, InvoiceWrite
  <2> QED BY <2>7, IdleOK, SetSlot DEF MarkAsPaidOnly, Finish
<1> QED BY <1>2, <1>3

LEMMA PersistPaymentStep ==
    ASSUME IInv, NEW r \in Requests, PersistPayment(r)
    PROVE  IInv'
<1> DEFINE req == requests[r]
<1>0. /\ req \in Request /\ SlotOK(req) /\ req.pc = "persist"
      /\ TypeOK /\ PaymentExplained /\ GatewayOK
  BY DEF IInv, TypeOK, PersistPayment, At
<1>1. req.txn \in Txns /\ req.invoice \in Invoices /\ req.status \in {"paid", "failed"}
  BY <1>0 DEF SlotOK, Request
<1>2. CASE payments[req.txn] = NoPayment
  <2>1. /\ payments' = [payments EXCEPT ![req.txn] =
                          [invoice |-> req.invoice, status |-> req.status]]
        /\ Goto(r, "apply") /\ UNCHANGED <<invoices, gateway, answered>>
    BY <1>2 DEF PersistPayment
  <2>2. /\ payments'[req.txn] = [invoice |-> req.invoice, status |-> req.status]
        /\ \A t \in Txns \ {req.txn} : payments'[t] = payments[t]
    BY <1>0, <1>1, <2>1 DEF TypeOK
  <2>3. DocsTypeOK'
    BY <1>0, <1>1, <2>1 DEF TypeOK, DocsTypeOK, PaymentDoc, gateway
  <2>4. PaymentExplained'
    <3>1. ASSUME NEW i \in Invoices PROVE Explains(i, invoices[i])'
      <4>1. Explains(i, invoices[i]) /\ invoices' = invoices
        BY <1>0, <2>1 DEF PaymentExplained
      <4>2. \A t \in Txns : payments[t].status \in {"paid", "failed"} => payments'[t] = payments[t]
        BY <1>2, <2>2 DEF NoPayment
      <4> QED BY <4>1, <4>2 DEF Explains
    <3> QED BY <3>1 DEF PaymentExplained
  <2>5. GatewayOK' /\ Grows
    BY <1>0, <1>2, <2>1, <2>2 DEF GatewayOK, gateway, Grows
  <2>6. [req EXCEPT !.pc = "apply"] \in Request
    BY <1>0 DEF Request, Steps
  <2>7. PICK q \in Request : q = [req EXCEPT !.pc = "apply"]
    BY <2>6
  <2>8. SlotOK(q)'
    BY <1>0, <2>1, <2>2, <2>7 DEF SlotOK, Request
  <2>9. Become(r, q)
    BY <2>1, <2>7 DEF Goto
  <2> QED BY <2>3, <2>4, <2>5, <2>8, <2>9, SetSlot
<1>3. CASE payments[req.txn] # NoPayment
  <2>1. Finish(r) /\ Answer(req) /\ UNCHANGED <<invoices, payments, gateway>>
    BY <1>3 DEF PersistPayment
  <2>2. DocsTypeOK' /\ PaymentExplained' /\ GatewayOK' /\ Grows
    BY <1>0, <1>1, <2>1
    DEF TypeOK, DocsTypeOK, Answer, PaymentExplained, Explains, GatewayOK, gateway, Grows
  <2> QED BY <2>1, <2>2, IdleOK, SetSlot DEF Finish
<1> QED BY <1>2, <1>3

LEMMA ApplyInvoiceUpdateStep ==
    ASSUME IInv, NEW r \in Requests, ApplyInvoiceUpdate(r)
    PROVE  IInv'
<1> DEFINE req == requests[r]
           i == req.invoice
<1>0. /\ req \in Request /\ SlotOK(req) /\ req.pc = "apply"
      /\ TypeOK /\ PaymentExplained /\ GatewayOK
  BY DEF IInv, TypeOK, ApplyInvoiceUpdate, At
<1>1. /\ req.txn \in Txns /\ i \in Invoices /\ req.status \in {"paid", "failed"}
      /\ payments[req.txn] = [invoice |-> i, status |-> req.status]
      /\ invoices[i].payment # "none"
  BY <1>0 DEF SlotOK, Request
<1>2. Finish(r) /\ UNCHANGED <<payments, gateway>> /\ answered' \subseteq Txns
  BY <1>0, <1>1 DEF ApplyInvoiceUpdate, Answer, TypeOK
<1>3. invoices[i] \in InvoiceDoc
  BY <1>1, Unpaid
<1>4. CASE req.status \notin Transitions(invoices[i].payment)
  <2>1. invoices' = invoices
    BY <1>0, <1>1, <1>4 DEF ApplyInvoiceUpdate, TypeOK
  <2>2. DocsTypeOK' /\ PaymentExplained' /\ GatewayOK' /\ Grows
    BY <1>0, <1>2, <2>1 DEF TypeOK, DocsTypeOK, PaymentExplained, Explains, GatewayOK, gateway, Grows
  <2> QED BY <1>2, <2>2, IdleOK, SetSlot DEF Finish
<1>5. CASE req.status \in Transitions(invoices[i].payment)
  <2>1. invoices[i].payment \in {"pending", "failed"}
    BY <1>3, <1>5 DEF Transitions, InvoiceDoc
  <2>2. invoices[i].txn = None /\ invoices[i].overrides = 0
    BY <1>1, <2>1, Unpaid
  <2>3. CASE req.status = "paid"
    <3>1. [invoices[i] EXCEPT !.payment = "paid", !.method = "paymob", !.txn = req.txn]
             \in InvoiceDoc
      BY <1>1, <1>3 DEF InvoiceDoc
    <3>2. PICK doc \in InvoiceDoc :
             doc = [invoices[i] EXCEPT !.payment = "paid", !.method = "paymob",
                                       !.txn = req.txn]
      BY <3>1
    <3>3. /\ doc.payment = "paid" /\ doc.method = "paymob" /\ doc.txn = req.txn
          /\ doc.overrides = 0
      BY <1>3, <2>2, <3>2 DEF InvoiceDoc
    <3>4. invoices' = [invoices EXCEPT ![i] = doc]
      BY <1>5, <2>3, <3>2 DEF ApplyInvoiceUpdate
    <3>5. Explains(i, doc)
      BY <1>1, <2>3, <3>3 DEF Explains
    <3>6. DocsTypeOK' /\ PaymentExplained' /\ GatewayOK' /\ Grows
      BY <1>1, <1>2, <3>3, <3>4, <3>5, InvoiceWrite
    <3> QED BY <1>2, <3>6, IdleOK, SetSlot DEF Finish
  <2>4. CASE req.status = "failed"
    <3>1. [invoices[i] EXCEPT !.payment = "failed"] \in InvoiceDoc
      BY <1>3 DEF InvoiceDoc
    <3>2. PICK doc \in InvoiceDoc : doc = [invoices[i] EXCEPT !.payment = "failed"]
      BY <3>1
    <3>3. doc.payment = "failed" /\ doc.txn = None /\ doc.overrides = 0
      BY <1>3, <2>2, <3>2 DEF InvoiceDoc
    <3>4. invoices' = [invoices EXCEPT ![i] = doc]
      BY <1>5, <2>4, <3>2 DEF ApplyInvoiceUpdate
    <3>5. Explains(i, doc)
      BY <1>1, <2>4, <3>3 DEF Explains
    <3>6. DocsTypeOK' /\ PaymentExplained' /\ GatewayOK' /\ Grows
      BY <1>1, <1>2, <3>3, <3>4, <3>5, InvoiceWrite
    <3> QED BY <1>2, <3>6, IdleOK, SetSlot DEF Finish
  <2> QED BY <1>1, <2>3, <2>4
<1> QED BY <1>4, <1>5

LEMMA NextIInv == IInv /\ [Next]_vars => IInv'
<1> SUFFICES ASSUME IInv, [Next]_vars PROVE IInv'
  OBVIOUS
<1>1. ASSUME NEW r \in Requests, Arrive(r) PROVE IInv'
  BY <1>1, ArriveStep
<1>2. ASSUME NEW r \in Requests, Proceed(r) PROVE IInv'
  BY <1>2, SaveCancelledStep, CreateOrderStep, GeneratePaymentKeyStep, PersistPaymentStep,
     ApplyInvoiceUpdateStep, MarkAsPaidOnlyStep DEF Proceed
<1>3. ASSUME NEW r \in Requests, Fail(r) PROVE IInv'
  BY <1>3, ReadIdle DEF Fail
<1>4. ASSUME NEW i \in Invoices, CreateInvoice(i) PROVE IInv'
  BY <1>4, CreateInvoiceStep
<1>5. ASSUME NEW t \in Txns,
             (\E i \in Invoices : StartTransaction(t, i))
                 \/ (\E success \in BOOLEAN : EndTransaction(t, success))
      PROVE  IInv'
  BY <1>5, TransactionStep
<1>6. CASE UNCHANGED vars
  <2>1. DocsTypeOK' /\ PaymentExplained' /\ GatewayOK' /\ Grows
    BY <1>6 DEF vars, IInv, TypeOK, DocsTypeOK, PaymentExplained, Explains, GatewayOK, gateway, Grows
  <2> QED BY <1>6, <2>1, KeepSlots DEF vars
<1> QED BY <1>1, <1>2, <1>3, <1>4, <1>5, <1>6 DEF Next

(***************************************************************************)
(* The theorems.                                                           *)
(***************************************************************************)
\* What requests, documents and the gateway know of each other, at every step of
\* PaymentService, InvoiceService and AdminService.markAsPaidOnly.
THEOREM Invariance == Spec => []IInv
BY InitIInv, NextIInv, PTL DEF Spec

\* Documents, webhooks and slots keep their types; no invoice is overridden twice.
THEOREM TypeCorrect == Spec => []TypeOK
<1>1. IInv => TypeOK
  BY DEF IInv
<1> QED BY <1>1, Invariance, PTL

\* However webhooks, redeliveries, overrides and failures interleave, the payment
\* status of an invoice has one explanation in the Payment collection.
THEOREM Explained == Spec => []PaymentExplained
<1>1. IInv => PaymentExplained
  BY DEF IInv
<1> QED BY <1>1, Invariance, PTL

(***************************************************************************)
(* Payments implements InvoiceSettlement.                                  *)
(***************************************************************************)
LEMMA InitMaps == Init => S!Init
BY DEF Init, S!Init, S!NoEntry, settled, NoPayment, NewInvoice

LEMMA PersistMaps ==
    ASSUME IInv, NEW r \in Requests, PersistPayment(r)
    PROVE  S!Next \/ UNCHANGED <<payments, settled>>
<1> DEFINE req == requests[r]
<1>1. req.txn \in Txns /\ req.invoice \in Invoices /\ req.status \in {"paid", "failed"}
  BY DEF IInv, TypeOK, SlotOK, PersistPayment, At, Request
<1>2. UNCHANGED settled
  BY DEF PersistPayment, settled
<1>3. CASE payments[req.txn] = NoPayment
  <2>1. S!Record(req.txn, req.invoice, req.status)
    BY <1>2, <1>3 DEF S!Record, S!NoEntry, NoPayment, PersistPayment
  <2> QED BY <1>1, <2>1 DEF S!Next
<1>4. CASE payments[req.txn] # NoPayment
  BY <1>2, <1>4 DEF PersistPayment
<1> QED BY <1>3, <1>4

LEMMA ApplyMaps ==
    ASSUME IInv, NEW r \in Requests, ApplyInvoiceUpdate(r)
    PROVE  S!Next \/ UNCHANGED <<payments, settled>>
<1> DEFINE req == requests[r]
           i == req.invoice
<1>1. /\ req.txn \in Txns /\ i \in Invoices /\ req.status \in {"paid", "failed"}
      /\ payments[req.txn] = [invoice |-> i, status |-> req.status]
      /\ invoices[i] \in InvoiceDoc /\ invoices \in [Invoices -> InvoiceDoc]
  BY DEF IInv, TypeOK, SlotOK, ApplyInvoiceUpdate, At, Request
<1>2. UNCHANGED payments
  BY DEF ApplyInvoiceUpdate
<1>3. CASE req.status \notin Transitions(invoices[i].payment)
  <2>1. invoices' = invoices
    BY <1>1, <1>3 DEF ApplyInvoiceUpdate
  <2> QED BY <1>2, <2>1 DEF settled
<1>4. CASE req.status \in Transitions(invoices[i].payment)
  <2>1. /\ settled[i].payment = invoices[i].payment /\ settled[i].txn = invoices[i].txn
        /\ settled[i] = [payment |-> invoices[i].payment, txn |-> invoices[i].txn]
    BY <1>1 DEF settled
  <2>2. CASE req.status = "paid"
    <3>1. invoices[i].payment \in {"pending", "failed"}
      BY <1>1, <1>4 DEF Transitions, InvoiceDoc
    <3> DEFINE doc == [invoices[i] EXCEPT !.payment = "paid", !.method = "paymob",
                                          !.txn = req.txn]
    <3>2. invoices' = [invoices EXCEPT ![i] = doc]
      BY <1>4, <2>2 DEF ApplyInvoiceUpdate
    <3>3. doc.payment = "paid" /\ doc.txn = req.txn
      BY <1>1 DEF InvoiceDoc
    <3>4. settled' = [settled EXCEPT ![i] = [payment |-> doc.payment, txn |-> doc.txn]]
      BY <1>1, <3>2 DEF settled
    <3>5. S!Pay(i, req.txn)
      BY <1>1, <1>2, <2>1, <2>2, <3>1, <3>3, <3>4 DEF S!Pay
    <3> QED BY <1>1, <3>5 DEF S!Next
  <2>3. CASE req.status = "failed"
    <3>1. invoices[i].payment = "pending"
      BY <1>1, <1>4, <2>3 DEF Transitions, InvoiceDoc
    <3> DEFINE doc == [invoices[i] EXCEPT !.payment = "failed"]
    <3>2. invoices' = [invoices EXCEPT ![i] = doc]
      BY <1>4, <2>3 DEF ApplyInvoiceUpdate
    <3>3. doc.payment = "failed" /\ doc.txn = invoices[i].txn
      BY <1>1 DEF InvoiceDoc
    <3>4. settled' = [settled EXCEPT ![i] = [payment |-> doc.payment, txn |-> doc.txn]]
      BY <1>1, <3>2 DEF settled
    <3>5. settled' = [settled EXCEPT ![i].payment = "failed"]
      BY <1>1, <2>1, <3>3, <3>4 DEF settled
    <3>6. S!MarkFailed(i)
      BY <1>1, <1>2, <2>1, <2>3, <3>1, <3>5 DEF S!MarkFailed
    <3> QED BY <1>1, <3>6 DEF S!Next
  <2> QED BY <1>1, <2>2, <2>3
<1> QED BY <1>3, <1>4

LEMMA OverrideMaps ==
    ASSUME IInv, NEW r \in Requests, MarkAsPaidOnly(r)
    PROVE  S!Next \/ UNCHANGED <<payments, settled>>
<1> DEFINE i == requests[r].invoice
<1>1. /\ i \in Invoices /\ invoices[i].payment # "none"
      /\ invoices[i] \in InvoiceDoc /\ invoices \in [Invoices -> InvoiceDoc]
  BY DEF IInv, TypeOK, SlotOK, MarkAsPaidOnly, At
<1>2. UNCHANGED payments
  BY DEF MarkAsPaidOnly
<1>3. CASE invoices[i].payment = "paid"
  <2>1. invoices' = invoices
    BY <1>1, <1>3 DEF MarkAsPaidOnly
  <2> QED BY <1>2, <2>1 DEF settled
<1>4. CASE invoices[i].payment # "paid"
  <2>1. invoices' = [invoices EXCEPT ![i] = Overridden(invoices[i])]
    BY <1>4 DEF MarkAsPaidOnly
  <2>2. Overridden(invoices[i]).payment = "paid" /\ Overridden(invoices[i]).txn = None
    BY <1>1 DEF Overridden, InvoiceDoc
  <2>3. settled' = [settled EXCEPT ![i] = [payment |-> "paid", txn |-> None]]
    BY <1>1, <2>1, <2>2 DEF settled
  <2>4. settled[i].payment \in {"pending", "failed"}
    BY <1>1, <1>4 DEF settled, InvoiceDoc
  <2>5. S!Override(i)
    BY <1>2, <2>3, <2>4 DEF S!Override
  <2> QED BY <1>1, <2>5 DEF S!Next
<1> QED BY <1>3, <1>4

LEMMA InvoiceMaps ==
    ASSUME IInv, (\E i \in Invoices : CreateInvoice(i)) \/ (\E r \in Requests : SaveCancelled(r))
    PROVE  S!Next \/ UNCHANGED <<payments, settled>>
<1>1. ASSUME NEW i \in Invoices, CreateInvoice(i) PROVE S!Next
  <2>1. /\ settled[i] = [payment |-> "none", txn |-> None]
        /\ settled' = [settled EXCEPT ![i] = [payment |-> "pending", txn |-> None]]
    BY <1>1 DEF IInv, TypeOK, PaymentExplained, Explains, CreateInvoice, NewInvoice, settled
  <2>2. settled' = [settled EXCEPT ![i].payment = "pending"]
    BY <2>1 DEF settled
  <2>3. settled[i].payment = "none" /\ UNCHANGED payments
    BY <1>1, <2>1 DEF CreateInvoice
  <2>4. S!Issue(i)
    BY <2>2, <2>3 DEF S!Issue
  <2> QED BY <2>4 DEF S!Next
<1>2. ASSUME NEW r \in Requests, SaveCancelled(r) PROVE UNCHANGED <<payments, settled>>
  <2> DEFINE i == requests[r].invoice
  <2>1. invoices \in [Invoices -> InvoiceDoc] /\ UNCHANGED payments
        /\ invoices' = [invoices EXCEPT ![i] = [invoices[i] EXCEPT !.status = "cancelled"]]
    BY <1>2 DEF IInv, TypeOK, SaveCancelled
  <2>2. \A j \in Invoices : /\ invoices'[j].payment = invoices[j].payment
                            /\ invoices'[j].txn = invoices[j].txn
    BY <2>1 DEF InvoiceDoc
  <2> QED BY <2>1, <2>2 DEF settled
<1> QED BY <1>1, <1>2

LEMMA StepMaps == IInv /\ [Next]_vars => [S!Next]_<<payments, settled>>
<1> SUFFICES ASSUME IInv, [Next]_vars PROVE S!Next \/ UNCHANGED <<payments, settled>>
  OBVIOUS
<1>1. CASE UNCHANGED <<invoices, payments>>
  BY <1>1 DEF settled
<1>2. CASE \E r \in Requests : PersistPayment(r) \/ ApplyInvoiceUpdate(r) \/ MarkAsPaidOnly(r)
  BY <1>2, PersistMaps, ApplyMaps, OverrideMaps
<1>3. CASE (\E i \in Invoices : CreateInvoice(i)) \/ (\E r \in Requests : SaveCancelled(r))
  BY <1>3, InvoiceMaps
<1> QED BY <1>1, <1>2, <1>3
  DEF Next, vars, Arrive, Proceed, Fail, ReadInvoiceForCancel, ReadInvoiceForSession,
      ReadInvoiceForOverride, ReceiveWebhook, CreateOrder, GeneratePaymentKey,
      StartTransaction, EndTransaction

\* Seen through the documents alone, requests that overlap and die do nothing that
\* InvoiceSettlement does not: an outcome is recorded once, and what pays an invoice
\* is on record and never changes.
THEOREM Refines == Spec => ImplementsSettlement
<1>1. Init => S!Init
  BY InitMaps
<1>2. IInv /\ [Next]_vars => [S!Next]_<<payments, settled>>
  BY StepMaps
<1> QED BY <1>1, <1>2, Invariance, PTL DEF Spec, ImplementsSettlement, S!Spec

(***************************************************************************)
(* A success acknowledged to the gateway is the truth, where it reports    *)
(* only ends and no request dies.                                          *)
(***************************************************************************)
LEMMA SettledInit == Init => SettledInv
BY DEF Init, SettledInv, Idle, SlotTrue, PaymentTrue, NoPayment

\* A step that sets the slot of a request that is not applying a Payment.
LEMMA SettledSlot ==
    ASSUME IInv, SettledInv, NEW r \in Requests, NEW q \in Request, Become(r, q),
           ~At(r, "apply"), q.pc # "apply", SlotTrue(q),
           UNCHANGED <<invoices, payments, txns, webhooks, answered>>
    PROVE  SettledInv'
<1>1. requests' = [requests EXCEPT ![r] = q] /\ requests \in [Requests -> Request]
  BY DEF Become, IInv, TypeOK
<1>2. \A event \in webhooks' : WebhookTrue(event)'
  BY DEF SettledInv, WebhookTrue, Ended
<1>3. \A s \in Requests : SlotTrue(requests[s])'
  BY <1>1 DEF SettledInv, SlotTrue, Ended, Outcome
<1>4. \A t \in Txns : PaymentTrue(t)'
  BY DEF SettledInv, PaymentTrue, Ended, Outcome
<1>5. \A t \in Txns : Applying(t) => Applying(t)'
  BY <1>1 DEF Applying, At
<1> QED BY <1>2, <1>3, <1>4, <1>5 DEF SettledInv

LEMMA SettledIdle ==
    ASSUME IInv, SettledInv, NEW r \in Requests, Finish(r), ~At(r, "apply"),
           UNCHANGED <<invoices, payments, txns, webhooks, answered>>
    PROVE  SettledInv'
<1>1. Idle \in Request /\ Idle.pc # "apply" /\ SlotTrue(Idle)
  BY IdleOK DEF Idle, SlotTrue
<1> QED BY <1>1, SettledSlot DEF Finish

\* A step that writes invoices, of which the paid ones stay paid, and finishes no
\* request that is applying a Payment.
LEMMA SettledKeep ==
    ASSUME IInv, SettledInv,
           UNCHANGED requests \/ \E r \in Requests : Finish(r) /\ ~At(r, "apply"),
           UNCHANGED <<payments, txns, webhooks, answered>>,
           \A i \in Invoices : invoices[i].payment = "paid" => invoices'[i].payment = "paid"
    PROVE  SettledInv'
<1>1. /\ requests \in [Requests -> Request]
      /\ \/ requests' = requests
         \/ \E r \in Requests : /\ requests' = [requests EXCEPT ![r] = Idle]
                                /\ requests[r].pc # "apply"
  BY DEF At, Finish, Become, IInv, TypeOK
<1>2. \A event \in webhooks' : WebhookTrue(event)'
  BY DEF SettledInv, WebhookTrue, Ended
<1>3. \A s \in Requests : SlotTrue(requests[s])'
  BY <1>1 DEF SettledInv, SlotTrue, Ended, Outcome, Idle
<1>4. \A t \in Txns : PaymentTrue(t)'
  BY DEF SettledInv, PaymentTrue, Ended, Outcome
<1>5. \A t \in Txns : Applying(t) => Applying(t)'
  BY <1>1 DEF Applying, At
<1>6. \A t \in Txns : payments[t].status = "paid" => txns[t].invoice \in Invoices
  BY DEF SettledInv, PaymentTrue, IInv, TypeOK, GatewayOK, Ended, NoPayment
<1>7. \A t \in Txns : payments'[t].status = "paid" =>
         invoices'[txns'[t].invoice].payment = "paid" \/ Applying(t)'
  BY <1>5, <1>6 DEF SettledInv
<1> QED BY <1>2, <1>3, <1>4, <1>7 DEF SettledInv

LEMMA SettledArrive ==
    ASSUME IInv, SettledInv, NEW r \in Requests, Arrive(r)
    PROVE  SettledInv'
<1>1. ~At(r, "apply") /\ UNCHANGED <<invoices, payments, txns, webhooks, answered>>
  BY DEF Arrive, At, ReadInvoiceForCancel, ReadInvoiceForSession, ReadInvoiceForOverride,
         ReceiveWebhook, gateway
<1>2. ASSUME NEW i \in Invoices,
             ReadInvoiceForCancel(r, i) \/ ReadInvoiceForSession(r, i) \/ ReadInvoiceForOverride(r, i)
      PROVE  SettledInv'
  <2>1. PICK step \in {"cancel", "session_order", "force_pay"} :
           Become(r, [Idle EXCEPT !.pc = step, !.invoice = i])
    BY <1>2 DEF ReadInvoiceForCancel, ReadInvoiceForSession, ReadInvoiceForOverride
  <2>2. [Idle EXCEPT !.pc = step, !.invoice = i] \in Request
    BY IdleOK DEF Idle, Request, Steps
  <2>3. PICK q \in Request : q = [Idle EXCEPT !.pc = step, !.invoice = i]
    BY <2>2
  <2>4. q.pc = step
    BY <2>3 DEF Idle
  <2>5. q.pc # "apply" /\ SlotTrue(q)
    BY <2>4 DEF SlotTrue
  <2> QED BY <1>1, <2>1, <2>3, <2>5, SettledSlot
<1>3. ASSUME NEW event \in webhooks, ReceiveWebhook(r, event) PROVE SettledInv'
  <2> DEFINE slot == [pc |-> "persist", invoice |-> event.invoice, txn |-> event.txn,
                      status |-> DeterminePaymentStatus(event)]
  <2>1. event \in Webhook /\ event.txn \in Txns /\ WebhookTrue(event)
    BY DEF IInv, TypeOK, Webhook, SettledInv
  <2>2. slot \in Request
    BY <2>1 DEF Webhook, Request, Steps, DeterminePaymentStatus
  <2>3. PICK q \in Request : q = slot
    BY <2>2
  <2>4. q.pc # "apply" /\ SlotTrue(q)
    BY <2>1, <2>3 DEF SlotTrue, WebhookTrue, DeterminePaymentStatus, Outcome
  <2>5. Become(r, q)
    BY <1>3, <2>3 DEF ReceiveWebhook
  <2> QED BY <1>1, <2>4, <2>5, SettledSlot
<1> QED BY <1>2, <1>3 DEF Arrive

\* Nothing is said of a transaction before it has ended, so ending it is free.
LEMMA SettledTransaction ==
    ASSUME IInv, SettledInv, ~SendsPending, NEW t \in Txns,
           (\E i \in Invoices : StartTransaction(t, i))
               \/ (\E success \in BOOLEAN : EndTransaction(t, success))
    PROVE  SettledInv'
<1>1. /\ ~Ended(t) /\ UNCHANGED <<invoices, payments, requests, answered>>
      /\ txns \in [Txns -> [invoice: Invoices \cup {None},
                            state: {"none", "pending", "success", "failure"}]]
  BY DEF StartTransaction, EndTransaction, Ended, IInv, TypeOK
<1>2. \A u \in Txns : u # t => txns'[u] = txns[u]
  BY <1>1 DEF StartTransaction, EndTransaction
<1>3. \A s \in Requests : SlotTrue(requests[s])'
  <2> SUFFICES ASSUME NEW s \in Requests, requests[s].pc \in {"persist", "apply"}
               PROVE  SlotTrue(requests[s])'
    BY <1>1 DEF SlotTrue
  <2>1. SlotTrue(requests[s]) /\ requests[s].txn \in Txns
    BY DEF IInv, SlotOK, SettledInv
  <2>2. txns'[requests[s].txn] = txns[requests[s].txn]
    BY <1>1, <1>2, <2>1 DEF SlotTrue
  <2> QED BY <1>1, <2>1, <2>2 DEF SlotTrue, Ended, Outcome
<1>4. \A u \in Txns : PaymentTrue(u)'
  BY <1>1, <1>2 DEF SettledInv, PaymentTrue, Ended, Outcome
<1>5. \A u \in Txns : payments'[u].status = "paid" =>
         invoices'[txns'[u].invoice].payment = "paid" \/ Applying(u)'
  <2>1. payments[t] = NoPayment
    BY <1>1 DEF SettledInv, PaymentTrue
  <2>2. payments[t].status # "paid"
    BY <2>1 DEF NoPayment
  <2> QED BY <1>1, <1>2, <2>2 DEF SettledInv, Applying, At
<1>6. \A event \in webhooks' : WebhookTrue(event)'
  <2>1. \A event \in webhooks : WebhookTrue(event)'
    <3> SUFFICES ASSUME NEW event \in webhooks PROVE WebhookTrue(event)'
      OBVIOUS
    <3>1. WebhookTrue(event) /\ event.txn \in Txns
      BY DEF SettledInv, IInv, TypeOK, Webhook
    <3>2. txns'[event.txn] = txns[event.txn]
      BY <1>1, <1>2, <3>1 DEF WebhookTrue
    <3> QED BY <3>1, <3>2 DEF WebhookTrue, Ended
  <2>2. CASE \E i \in Invoices : StartTransaction(t, i)
    BY <2>1, <2>2 DEF StartTransaction
  <2>3. ASSUME NEW success \in BOOLEAN, EndTransaction(t, success)
        PROVE  \A event \in webhooks' : WebhookTrue(event)'
    <3> DEFINE sent == [txn |-> t, invoice |-> txns[t].invoice, success |-> success,
                        pending |-> FALSE]
    <3>1. webhooks' = webhooks \cup {sent}
      BY <2>3 DEF EndTransaction, Report
    <3>2. /\ txns'[t].invoice = txns[t].invoice
          /\ txns'[t].state = IF success THEN "success" ELSE "failure"
      BY <1>1, <2>3 DEF EndTransaction
    <3>3. ASSUME NEW event \in {sent} PROVE WebhookTrue(event)'
      BY <3>2 DEF WebhookTrue, Ended
    <3> QED BY <2>1, <3>1, <3>3
  <2> QED BY <2>2, <2>3
<1>7. \A u \in answered' : payments'[u].status = "paid"
  BY <1>1 DEF SettledInv
<1> QED BY <1>3, <1>4, <1>5, <1>6, <1>7 DEF SettledInv

LEMMA SettledPersist ==
    ASSUME IInv, SettledInv, NEW r \in Requests, PersistPayment(r)
    PROVE  SettledInv'
<1> DEFINE req == requests[r]
<1>0. /\ req \in Request /\ req.pc = "persist" /\ SlotTrue(req)
      /\ req.txn \in Txns /\ req.status \in {"paid", "failed"}
      /\ Ended(req.txn) /\ req.invoice = txns[req.txn].invoice /\ req.status = Outcome(req.txn)
      /\ requests \in [Requests -> Request] /\ payments \in [Txns -> PaymentDoc]
      /\ answered \subseteq Txns
      /\ UNCHANGED <<invoices, txns, webhooks>>
  BY DEF IInv, TypeOK, SlotOK, SettledInv, SlotTrue, PersistPayment, At, Request, gateway
<1>1. \A event \in webhooks' : WebhookTrue(event)'
  BY <1>0 DEF SettledInv, WebhookTrue, Ended
<1>2. CASE payments[req.txn] = NoPayment
  <2>1. /\ payments' = [payments EXCEPT ![req.txn] =
                          [invoice |-> req.invoice, status |-> req.status]]
        /\ Goto(r, "apply") /\ UNCHANGED answered
    BY <1>2 DEF PersistPayment
  <2>2. PICK q : q = [req EXCEPT !.pc = "apply"]
    OBVIOUS
  <2>3. /\ q.pc = "apply" /\ q.txn = req.txn /\ q.invoice = req.invoice /\ q.status = req.status
        /\ requests' = [requests EXCEPT ![r] = q]
    BY <1>0, <2>1, <2>2 DEF Goto, Become, Request
  <2>4. \A s \in Requests : SlotTrue(requests[s])'
    BY <1>0, <2>3 DEF SettledInv, SlotTrue, Ended, Outcome
  <2>5. /\ payments'[req.txn] = [invoice |-> req.invoice, status |-> req.status]
        /\ \A t \in Txns : t # req.txn => payments'[t] = payments[t]
    BY <1>0, <2>1
  <2>6. \A t \in Txns : PaymentTrue(t)'
    BY <1>0, <2>5 DEF SettledInv, PaymentTrue, Ended, Outcome
  <2>7. \A t \in answered' : payments'[t].status = "paid"
    BY <1>0, <1>2, <2>1, <2>5 DEF SettledInv, NoPayment
  <2>8. \A t \in Txns : Applying(t) => Applying(t)'
    BY <1>0, <2>3 DEF Applying, At
  <2>9. requests'[r].pc = "apply" /\ requests'[r].txn = req.txn
    BY <1>0, <2>3
  <2>10. \A t \in Txns : payments'[t].status = "paid" =>
            invoices'[txns'[t].invoice].payment = "paid" \/ Applying(t)'
    <3> SUFFICES ASSUME NEW t \in Txns, payments'[t].status = "paid"
                 PROVE  invoices'[txns[t].invoice].payment = "paid" \/ Applying(t)'
      BY <1>0
    <3>1. CASE t = req.txn
      BY <2>9, <3>1 DEF Applying, At
    <3>2. CASE t # req.txn
      BY <1>0, <2>5, <2>8, <3>2 DEF SettledInv
    <3> QED BY <3>1, <3>2
  <2> QED BY <1>1, <2>4, <2>6, <2>7, <2>10 DEF SettledInv
<1>3. CASE payments[req.txn] # NoPayment
  <2>1. Finish(r) /\ Answer(req) /\ UNCHANGED payments
    BY <1>3 DEF PersistPayment
  <2>2. requests' = [requests EXCEPT ![r] = Idle]
    BY <2>1 DEF Finish, Become
  <2>3. \A s \in Requests : SlotTrue(requests[s])'
    BY <1>0, <2>2 DEF SettledInv, SlotTrue, Ended, Outcome, Idle
  <2>4. \A t \in Txns : PaymentTrue(t)'
    BY <1>0, <2>1 DEF SettledInv, PaymentTrue, Ended, Outcome
  <2>5. payments[req.txn].status = req.status
    BY <1>0, <1>3 DEF SettledInv, PaymentTrue
  <2>6. \A t \in answered' : payments'[t].status = "paid"
    BY <1>0, <2>1, <2>5 DEF SettledInv, Answer
  <2>7. \A t \in Txns : Applying(t) => Applying(t)'
    BY <1>0, <2>2 DEF Applying, At
  <2> QED BY <1>0, <1>1, <2>1, <2>3, <2>4, <2>6, <2>7 DEF SettledInv
<1> QED BY <1>2, <1>3

LEMMA SettledApply ==
    ASSUME IInv, SettledInv, NEW r \in Requests, ApplyInvoiceUpdate(r)
    PROVE  SettledInv'
<1> DEFINE req == requests[r]
           i == req.invoice
<1>0. /\ req.pc = "apply" /\ req.txn \in Txns /\ i \in Invoices
      /\ req.status \in {"paid", "failed"}
      /\ i = txns[req.txn].invoice
      /\ payments[req.txn] = [invoice |-> i, status |-> req.status]
      /\ requests \in [Requests -> Request] /\ invoices \in [Invoices -> InvoiceDoc]
      /\ invoices[i].payment # "none"
      /\ answered \subseteq Txns
      /\ UNCHANGED <<payments, txns, webhooks>> /\ Answer(req)
      /\ requests' = [requests EXCEPT ![r] = Idle]
  BY DEF IInv, TypeOK, SlotOK, SettledInv, SlotTrue, ApplyInvoiceUpdate, At, Request, gateway,
         Finish, Become
<1>1. \A event \in webhooks' : WebhookTrue(event)'
  BY <1>0 DEF SettledInv, WebhookTrue, Ended
<1>2. \A s \in Requests : SlotTrue(requests[s])'
  BY <1>0 DEF SettledInv, SlotTrue, Ended, Outcome, Idle
<1>3. \A t \in Txns : PaymentTrue(t)'
  BY <1>0 DEF SettledInv, PaymentTrue, Ended, Outcome
<1>4. \A t \in answered' : payments'[t].status = "paid"
  BY <1>0 DEF SettledInv, Answer
<1>5. \A t \in Txns : t # req.txn /\ Applying(t) => Applying(t)'
  BY <1>0 DEF Applying, At
<1>6. /\ \A j \in Invoices : invoices[j].payment = "paid" => invoices'[j].payment = "paid"
      /\ req.status = "paid" => invoices'[i].payment = "paid"
  <2>1. \A j \in Invoices : j # i => invoices'[j] = invoices[j]
    BY <1>0 DEF ApplyInvoiceUpdate
  <2>2. CASE req.status \notin Transitions(invoices[i].payment)
    <3>1. invoices'[i] = invoices[i]
      BY <1>0, <2>2 DEF ApplyInvoiceUpdate
    <3>2. req.status = "paid" => invoices[i].payment = "paid"
      BY <1>0, <2>2 DEF Transitions, InvoiceDoc
    <3> QED BY <2>1, <3>1, <3>2
  <2>3. CASE req.status \in Transitions(invoices[i].payment)
    <3>1. invoices[i].payment # "paid"
      BY <2>3 DEF Transitions
    <3>2. req.status = "paid" => invoices'[i].payment = "paid"
      BY <1>0, <2>3 DEF ApplyInvoiceUpdate, InvoiceDoc
    <3> QED BY <2>1, <3>1, <3>2
  <2> QED BY <2>2, <2>3
<1>7. \A t \in Txns : payments[t].status = "paid" => txns[t].invoice \in Invoices
  BY DEF SettledInv, PaymentTrue, IInv, TypeOK, GatewayOK, Ended, NoPayment
<1>8. \A t \in Txns : payments'[t].status = "paid" =>
         invoices'[txns'[t].invoice].payment = "paid" \/ Applying(t)'
  <2> SUFFICES ASSUME NEW t \in Txns, payments[t].status = "paid"
               PROVE  invoices'[txns[t].invoice].payment = "paid" \/ Applying(t)'
    BY <1>0
  <2>1. CASE t = req.txn
    BY <1>0, <1>6, <2>1
  <2>2. CASE t # req.txn
    BY <1>5, <1>6, <1>7, <2>2 DEF SettledInv
  <2> QED BY <2>1, <2>2
<1> QED BY <1>1, <1>2, <1>3, <1>4, <1>8 DEF SettledInv

LEMMA SettledStep ==
    ASSUME ~RequestsFail, ~SendsPending
    PROVE  IInv /\ SettledInv /\ [Next]_vars => SettledInv'
<1> SUFFICES ASSUME IInv, SettledInv, [Next]_vars PROVE SettledInv'
  OBVIOUS
<1>1. ASSUME NEW r \in Requests, Arrive(r) PROVE SettledInv'
  BY <1>1, SettledArrive
<1>2. ASSUME NEW r \in Requests, SaveCancelled(r) \/ MarkAsPaidOnly(r) PROVE SettledInv'
  <2>1. /\ Finish(r) /\ ~At(r, "apply") /\ UNCHANGED <<payments, txns, webhooks, answered>>
    BY <1>2 DEF SaveCancelled, MarkAsPaidOnly, gateway, At
  <2>2. invoices \in [Invoices -> InvoiceDoc]
    BY DEF IInv, TypeOK
  <2>3. \A i \in Invoices : invoices[i].payment = "paid" => invoices'[i].payment = "paid"
    BY <1>2, <2>2 DEF SaveCancelled, MarkAsPaidOnly, InvoiceDoc
  <2> QED BY <2>1, <2>3, SettledKeep
<1>3. ASSUME NEW r \in Requests, CreateOrder(r) PROVE SettledInv'
  <2>1. ~At(r, "apply") /\ requests[r] \in Request
        /\ UNCHANGED <<invoices, payments, txns, webhooks, answered>>
    BY <1>3 DEF CreateOrder, At, gateway, IInv, TypeOK
  <2>2. CASE Finish(r)
    BY <2>1, <2>2, SettledIdle
  <2>3. CASE Goto(r, "session_key")
    <3>1. [requests[r] EXCEPT !.pc = "session_key"] \in Request
      BY <2>1 DEF Request, Steps
    <3>2. PICK q \in Request : q = [requests[r] EXCEPT !.pc = "session_key"]
      BY <3>1
    <3>3. q.pc # "apply" /\ SlotTrue(q)
      BY <2>1, <3>2 DEF SlotTrue, Request
    <3> QED BY <2>1, <2>3, <3>2, <3>3, SettledSlot DEF Goto
  <2> QED BY <1>3, <2>2, <2>3 DEF CreateOrder
<1>4. ASSUME NEW r \in Requests, GeneratePaymentKey(r) PROVE SettledInv'
  BY <1>4, SettledIdle DEF GeneratePaymentKey, At
<1>5. ASSUME NEW r \in Requests, PersistPayment(r) PROVE SettledInv'
  BY <1>5, SettledPersist
<1>6. ASSUME NEW r \in Requests, ApplyInvoiceUpdate(r) PROVE SettledInv'
  BY <1>6, SettledApply
<1>7. ASSUME NEW r \in Requests, Fail(r) PROVE SettledInv'
  BY <1>7 DEF Fail
<1>8. ASSUME NEW i \in Invoices, CreateInvoice(i) PROVE SettledInv'
  <2>1. \A j \in Invoices : invoices[j].payment = "paid" => invoices'[j] = invoices[j]
    BY <1>8 DEF CreateInvoice, IInv, TypeOK
  <2> QED BY <1>8, <2>1, SettledKeep DEF CreateInvoice, gateway
<1>9. ASSUME NEW t \in Txns,
             (\E i \in Invoices : StartTransaction(t, i))
                 \/ (\E success \in BOOLEAN : EndTransaction(t, success))
      PROVE  SettledInv'
  BY <1>9, SettledTransaction
<1>10. CASE UNCHANGED vars
  BY <1>10, SettledKeep DEF vars, gateway
<1> QED BY <1>1, <1>2, <1>3, <1>4, <1>5, <1>6, <1>7, <1>8, <1>9, <1>10 DEF Next, Proceed

\* Where the gateway reports only how a transaction ended and no request dies half way,
\* an invoice whose success was acknowledged is paid whenever no request is in flight:
\* "alreadyProcessed" is the truth, whatever redeliveries, failures of other
\* transactions and overrides come between (PaymentService.handleWebhook).
THEOREM AcknowledgedIsPaid ==
    ASSUME ~RequestsFail, ~SendsPending
    PROVE  Spec => []AnsweredSuccessSettles
<1>1. SettledInv /\ IInv => AnsweredSuccessSettles
  BY DEF SettledInv, IInv, TypeOK, AnsweredSuccessSettles, Quiet, Applying, At
<1> QED BY <1>1, SettledInit, SettledStep, Invariance, PTL DEF Spec
=============================================================================
