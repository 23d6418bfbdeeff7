------------------------------ MODULE Billing ------------------------------
(***************************************************************************)
(* A client of the library: the subscription billing example.  Commands go *)
(* to two kinds of aggregates, a projection follows the events of both,    *)
(* and a subscription is cancelled only when the projection says that the  *)
(* customer owes nothing.                                                  *)
(*                                                                         *)
(* The example has one repository over the in-memory store, so a command   *)
(* is one step, on the replay of its stream (LoadIsReplay of Repository),  *)
(* and events have their positions in the order of their commits.          *)
(***************************************************************************)
EXTENDS Integers, FiniteSetsExt

CONSTANTS
    Customers,
    Invoices,     \* the streams of the Invoice aggregate
    CustomerOf,   \* [Invoices -> Customers]: the customer in its id, whom its IssueInvoice names too
    Amounts       \* the cents commands may name, zero and negative ones too

ASSUME BillingAssumption ==
    /\ CustomerOf \in [Invoices -> Customers]
    /\ Amounts \subseteq Int

VARIABLES
    subscription,   \* the status of each customer's Subscription aggregate
    invoice,        \* the state of each Invoice aggregate
    projected,      \* what loading CustomerBillingProjection now would give
    readModel,      \* what it gave when it was loaded last
    overlapped,     \* history: customers with two unsettled invoices at once since they last owed nothing
    asOf            \* history: invoices and overlapped when readModel was loaded

vars == <<subscription, invoice, projected, readModel, overlapped, asOf>>

Status == {"Inactive", "Active", "Cancelled"}
Invoice == [issued : BOOLEAN, settled : BOOLEAN, amount : Nat, paid : Nat]
CustomerSnapshot == [known : BOOLEAN, active : BOOLEAN, balance : Nat]

NewInvoice == [issued |-> FALSE, settled |-> FALSE, amount |-> 0, paid |-> 0]
NewSnapshot == [known |-> FALSE, active |-> FALSE, balance |-> 0]

Open(i) == invoice[i].issued /\ ~invoice[i].settled
Outstanding(i) == invoice[i].amount - invoice[i].paid
OtherOpen(i) == \E j \in Invoices \ {i} : CustomerOf[j] = CustomerOf[i] /\ Open(j)

Init ==
    /\ subscription = [c \in Customers |-> "Inactive"]
    /\ invoice = [i \in Invoices |-> NewInvoice]
    /\ projected = [c \in Customers |-> NewSnapshot]
    /\ readModel = projected
    /\ overlapped = {}
    /\ asOf = [issued |-> {}, overlapped |-> {}]

-----------------------------------------------------------------------------
(* Apply<E> for Subscription and Invoice: unconditional, the handlers decide. *)
ApplyStarted(status) == "Active"
ApplyCancelled(status) == "Cancelled"
ApplyIssued(inv, amount) == [inv EXCEPT !.issued = TRUE, !.amount = amount]
ApplyPayment(inv, amount) == [inv EXCEPT !.paid = @ + amount]
ApplySettled(inv) == [inv EXCEPT !.settled = TRUE]

(* ApplyProjection<E>; each touches, that is, inserts the customer. *)
Touched(snapshot) == [snapshot EXCEPT !.known = TRUE]
ProjectStarted(snapshot) == [Touched(snapshot) EXCEPT !.active = TRUE]
\* Mutant: the customer is touched and nothing else.
ProjectCancelledOnlyTouches(snapshot) == Touched(snapshot)
ProjectCancelled(snapshot) == [Touched(snapshot) EXCEPT !.active = FALSE]
ProjectIssued(snapshot, amount) == [Touched(snapshot) EXCEPT !.balance = @ + amount]
\* Mutants: without max(0); the payment is not subtracted.
ProjectPaymentUnclamped(snapshot, amount) == [Touched(snapshot) EXCEPT !.balance = @ - amount]
ProjectPaymentForgotten(snapshot, amount) == Touched(snapshot)
ProjectPayment(snapshot, amount) ==
    [Touched(snapshot) EXCEPT !.balance = IF @ >= amount THEN @ - amount ELSE 0]
ProjectSettled(snapshot) == [Touched(snapshot) EXCEPT !.balance = 0]

-----------------------------------------------------------------------------
(* Commands.  What a handler rejects changes nothing and is no step. *)

StartSubscription(c) ==
    /\ subscription[c] = "Inactive"
    /\ subscription' = [subscription EXCEPT ![c] = ApplyStarted(@)]
    /\ projected' = [projected EXCEPT ![c] = ProjectStarted(@)]
    /\ UNCHANGED <<invoice, readModel, overlapped, asOf>>

\* The command is sent only for a customer whom the read model knows and to
\* whom it ascribes no debt.  Mutant: the balance is not looked at.
MayCancelAnyone(c) == readModel[c].known
MayCancel(c) == readModel[c].known /\ readModel[c].balance = 0

CancelSubscription(c) ==
    /\ MayCancel(c)
    /\ subscription[c] = "Active"
    /\ subscription' = [subscription EXCEPT ![c] = ApplyCancelled(@)]
    /\ projected' = [projected EXCEPT ![c] = ProjectCancelled(@)]
    /\ UNCHANGED <<invoice, readModel, overlapped, asOf>>

\* Mutant: an issued invoice is issued anew.
AcceptsReissue(i, amount) == amount > 0
AcceptsIssue(i, amount) == ~invoice[i].issued /\ amount > 0

IssueInvoice(i, amount) ==
    /\ AcceptsIssue(i, amount)
    /\ invoice' = [invoice EXCEPT ![i] = ApplyIssued(@, amount)]
    /\ projected' = [projected EXCEPT ![CustomerOf[i]] = ProjectIssued(@, amount)]
    /\ overlapped' = overlapped \cup (IF OtherOpen(i) THEN {CustomerOf[i]} ELSE {})
    /\ UNCHANGED <<subscription, readModel, asOf>>

AcceptsPayment(i, amount) ==
    /\ invoice[i].issued
    /\ ~invoice[i].settled
    /\ amount > 0
    /\ amount <= Outstanding(i)

Settles(i, amount) == amount = Outstanding(i)

\* PaymentRecorded, and in the same batch InvoiceSettled once all is paid.
RecordPayment(i, amount) ==
    LET paid     == ApplyPayment(invoice[i], amount)
        snapshot == ProjectPayment(projected[CustomerOf[i]], amount)
        settles  == Settles(i, amount)
    IN  /\ AcceptsPayment(i, amount)
        /\ invoice' = [invoice EXCEPT ![i] = IF settles THEN ApplySettled(paid) ELSE paid]
        /\ projected' = [projected EXCEPT ![CustomerOf[i]] =
                            IF settles THEN ProjectSettled(snapshot) ELSE snapshot]
        /\ overlapped' = overlapped \ (IF settles /\ ~OtherOpen(i) THEN {CustomerOf[i]} ELSE {})
        /\ UNCHANGED <<subscription, readModel, asOf>>

\* build_projection ... load.  The example does so right before it cancels, and
\* says that it would typically happen asynchronously.
LoadReadModel ==
    /\ readModel' = projected
    /\ asOf' = [issued |-> {i \in Invoices : invoice[i].issued}, overlapped |-> overlapped]
    /\ UNCHANGED <<subscription, invoice, projected, overlapped>>

Next ==
    \/ \E c \in Customers : StartSubscription(c)
    \/ \E c \in Customers : CancelSubscription(c)
    \/ \E i \in Invoices, amount \in Amounts : IssueInvoice(i, amount)
    \/ \E i \in Invoices, amount \in Amounts : RecordPayment(i, amount)
    \/ LoadReadModel

Spec == Init /\ [][Next]_vars

-----------------------------------------------------------------------------
\* Every variable has the values its comment says; balances are never negative.
TypeOK ==
    /\ subscription \in [Customers -> Status]
    /\ invoice \in [Invoices -> Invoice]
    /\ projected \in [Customers -> CustomerSnapshot]
    /\ readModel \in [Customers -> CustomerSnapshot]
    /\ overlapped \subseteq Customers
    /\ asOf \in [issued : SUBSET Invoices, overlapped : SUBSET Customers]

\* Whatever payments are tried in whatever order, an invoice is never overpaid
\* and is settled exactly when its whole amount has been paid.
InvoicesBalance ==
    \A i \in Invoices :
        /\ invoice[i].paid <= invoice[i].amount
        /\ invoice[i].settled <=> invoice[i].issued /\ Outstanding(i) = 0
        /\ ~invoice[i].issued => invoice[i] = NewInvoice

\* The projection agrees with the aggregates whose events it follows: on who is
\* active, on who owes nothing, and, as long as a customer's invoices come one
\* after the other, on how much is owed.
ReadModelAgrees ==
    \A c \in Customers :
        /\ projected[c].active <=> subscription[c] = "Active"
        /\ (\A i \in Invoices : CustomerOf[i] = c => ~Open(i)) => projected[c].balance = 0
        /\ c \notin overlapped =>
               \A i \in Invoices : CustomerOf[i] = c /\ Open(i) =>
                   projected[c].balance = Outstanding(i)

\* The projection never asks a customer for more than the invoices do, although
\* settling one invoice clears the balance and later payments are still
\* subtracted from it.
NeverOverstated ==
    \A c \in Customers :
        projected[c].balance <=
            MapThenSumSet(Outstanding, {i \in Invoices : CustomerOf[i] = c /\ Open(i)})

\* However old the read model is, a subscription that is cancelled on it belongs
\* to a customer who has paid every invoice the read model could know of, unless
\* it was loaded while the customer's invoices overlapped.
CancelledOnlyIfPaid ==
    [][\A c \in Customers :
          subscription[c] = "Active" /\ subscription'[c] = "Cancelled" =>
              \/ c \in asOf.overlapped
              \/ \A i \in asOf.issued : CustomerOf[i] = c => invoice[i].settled]_vars
=============================================================================
