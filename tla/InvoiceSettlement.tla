------------------------- MODULE InvoiceSettlement -------------------------
(***************************************************************************)
(* What payments promise: the outcome of a transaction is written down     *)
(* once; an invoice is paid by a transaction that is down as paid for it,  *)
(* or by an administrator, and once it is paid it stays as it is.          *)
(***************************************************************************)
CONSTANTS Invoices, Txns, None

VARIABLES
    ledger,     \* transaction -> the invoice it is for and its outcome
    settled     \* invoice -> its payment status and the transaction that paid it

NoEntry == [invoice |-> None, status |-> "none"]

Init ==
    /\ ledger = [t \in Txns |-> NoEntry]
    /\ settled = [i \in Invoices |-> [payment |-> "none", txn |-> None]]

Issue(i) ==
    /\ settled[i].payment = "none"
    /\ settled' = [settled EXCEPT ![i].payment = "pending"]
    /\ UNCHANGED ledger

Record(t, i, outcome) ==
    /\ ledger[t] = NoEntry
    /\ ledger' = [ledger EXCEPT ![t] = [invoice |-> i, status |-> outcome]]
    /\ UNCHANGED settled

Pay(i, t) ==
    /\ settled[i].payment \in {"pending", "failed"}
    /\ ledger[t] = [invoice |-> i, status |-> "paid"]
    /\ settled' = [settled EXCEPT ![i] = [payment |-> "paid", txn |-> t]]
    /\ UNCHANGED ledger

Override(i) ==
    /\ settled[i].payment \in {"pending", "failed"}
    /\ settled' = [settled EXCEPT ![i] = [payment |-> "paid", txn |-> None]]
    /\ UNCHANGED ledger

MarkFailed(i) ==
    /\ settled[i].payment = "pending"
    /\ \E t \in Txns : ledger[t] = [invoice |-> i, status |-> "failed"]
    /\ settled' = [settled EXCEPT ![i].payment = "failed"]
    /\ UNCHANGED ledger

Next == \E i \in Invoices :
    \/ Issue(i) \/ Override(i) \/ MarkFailed(i)
    \/ \E t \in Txns : Pay(i, t) \/ \E s \in {"paid", "failed"} : Record(t, i, s)

Spec == Init /\ [][Next]_<<ledger, settled>>
=============================================================================
