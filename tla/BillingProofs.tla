--------------------------- MODULE BillingProofs ---------------------------
(***************************************************************************)
(* Proofs about Billing, for any customers, invoices and amounts: types,   *)
(* the invoices' books, the projection's agreement with the aggregates,    *)
(* and what a cancellation on an old read model implies.                   *)
(***************************************************************************)
EXTENDS Billing, FiniteSetTheorems, WellFoundedInduction, TLAPS

(***************************************************************************)
(* What the handlers of the projection and of Invoice make of a record.    *)
(***************************************************************************)
LEMMA ProjectionHandlers ==
    ASSUME NEW s \in CustomerSnapshot
    PROVE  /\ ProjectStarted(s) \in CustomerSnapshot
           /\ ProjectStarted(s).active /\ ProjectStarted(s).balance = s.balance
           /\ ProjectCancelled(s) \in CustomerSnapshot
           /\ ~ProjectCancelled(s).active /\ ProjectCancelled(s).balance = s.balance
           /\ ProjectSettled(s) \in CustomerSnapshot
           /\ ProjectSettled(s).active <=> s.active
           /\ ProjectSettled(s).balance = 0
<1>1. /\ Touched(s) \in CustomerSnapshot
      /\ Touched(s).active <=> s.active
      /\ Touched(s).balance = s.balance
    BY DEF Touched, CustomerSnapshot
<1>2. /\ ProjectStarted(s) \in CustomerSnapshot
      /\ ProjectStarted(s).active /\ ProjectStarted(s).balance = s.balance
    BY <1>1 DEF ProjectStarted, CustomerSnapshot
<1>3. /\ ProjectCancelled(s) \in CustomerSnapshot
      /\ ~ProjectCancelled(s).active /\ ProjectCancelled(s).balance = s.balance
    BY <1>1 DEF ProjectCancelled, CustomerSnapshot
<1>4. /\ ProjectSettled(s) \in CustomerSnapshot
      /\ ProjectSettled(s).active <=> s.active
      /\ ProjectSettled(s).balance = 0
    BY <1>1 DEF ProjectSettled, CustomerSnapshot
<1> QED
    BY <1>2, <1>3, <1>4

LEMMA IssueProjected ==
    ASSUME NEW s \in CustomerSnapshot, NEW amount \in Nat
    PROVE  /\ ProjectIssued(s, amount) \in CustomerSnapshot
           /\ ProjectIssued(s, amount).active <=> s.active
           /\ ProjectIssued(s, amount).balance = s.balance + amount
<1>1. /\ Touched(s) \in CustomerSnapshot
      /\ Touched(s).active <=> s.active
      /\ Touched(s).balance = s.balance
    BY DEF Touched, CustomerSnapshot
<1> QED
    BY <1>1 DEF ProjectIssued, CustomerSnapshot

LEMMA PaymentProjected ==
    ASSUME NEW s \in CustomerSnapshot, NEW amount \in Nat
    PROVE  /\ ProjectPayment(s, amount) \in CustomerSnapshot
           /\ ProjectPayment(s, amount).active <=> s.active
           /\ ProjectPayment(s, amount).balance =
                IF s.balance >= amount THEN s.balance - amount ELSE 0
<1>1. /\ Touched(s) \in CustomerSnapshot
      /\ Touched(s).active <=> s.active
      /\ Touched(s).balance = s.balance
    BY DEF Touched, CustomerSnapshot
<1> QED
    BY <1>1 DEF ProjectPayment, CustomerSnapshot

LEMMA InvoiceHandlers ==
    ASSUME NEW inv \in Invoice, NEW amount \in Nat
    PROVE  /\ ApplyIssued(inv, amount) \in Invoice
           /\ ApplyIssued(inv, amount).issued
           /\ ApplyIssued(inv, amount).settled <=> inv.settled
           /\ ApplyIssued(inv, amount).amount = amount
           /\ ApplyIssued(inv, amount).paid = inv.paid
           /\ ApplyPayment(inv, amount) \in Invoice
           /\ ApplyPayment(inv, amount).issued <=> inv.issued
           /\ ApplyPayment(inv, amount).settled <=> inv.settled
           /\ ApplyPayment(inv, amount).amount = inv.amount
           /\ ApplyPayment(inv, amount).paid = inv.paid + amount
<1>1. inv.amount \in Nat /\ inv.paid \in Nat
    BY DEF Invoice
<1>2. /\ ApplyIssued(inv, amount) \in Invoice
      /\ ApplyIssued(inv, amount).issued
      /\ ApplyIssued(inv, amount).settled <=> inv.settled
      /\ ApplyIssued(inv, amount).amount = amount
      /\ ApplyIssued(inv, amount).paid = inv.paid
    BY <1>1 DEF ApplyIssued, Invoice
<1>3. /\ ApplyPayment(inv, amount) \in Invoice
      /\ ApplyPayment(inv, amount).issued <=> inv.issued
      /\ ApplyPayment(inv, amount).settled <=> inv.settled
      /\ ApplyPayment(inv, amount).amount = inv.amount
      /\ ApplyPayment(inv, amount).paid = inv.paid + amount
    BY <1>1 DEF ApplyPayment, Invoice
<1> QED
    BY <1>2, <1>3

LEMMA SettledHandler ==
    ASSUME NEW inv \in Invoice
    PROVE  /\ ApplySettled(inv) \in Invoice
           /\ ApplySettled(inv).issued <=> inv.issued
           /\ ApplySettled(inv).settled
           /\ ApplySettled(inv).amount = inv.amount /\ ApplySettled(inv).paid = inv.paid
BY DEF ApplySettled, Invoice

(***************************************************************************)
(* Types.                                                                  *)
(***************************************************************************)
LEMMA BillingInitType == Init => TypeOK
BY BillingAssumption
   DEF Init, TypeOK, NewInvoice, NewSnapshot, Status, Invoice, CustomerSnapshot

LEMMA IssueType ==
    ASSUME TypeOK, NEW i \in Invoices, NEW amount \in Amounts, IssueInvoice(i, amount)
    PROVE  TypeOK'
<1>1. amount \in Nat
    BY BillingAssumption DEF IssueInvoice, AcceptsIssue
<1>2. CustomerOf[i] \in Customers
    BY BillingAssumption
<1>3. invoice' \in [Invoices -> Invoice]
    BY <1>1, InvoiceHandlers DEF TypeOK, IssueInvoice
<1>4. projected' \in [Customers -> CustomerSnapshot]
    BY <1>1, <1>2, IssueProjected DEF TypeOK, IssueInvoice
<1> QED
    BY <1>2, <1>3, <1>4 DEF TypeOK, IssueInvoice

LEMMA PaymentType ==
    ASSUME TypeOK, NEW i \in Invoices, NEW amount \in Amounts, RecordPayment(i, amount)
    PROVE  TypeOK'
<1> DEFINE paid     == ApplyPayment(invoice[i], amount)
           snapshot == ProjectPayment(projected[CustomerOf[i]], amount)
<1>1. amount \in Nat
    BY BillingAssumption DEF RecordPayment, AcceptsPayment
<1>2. CustomerOf[i] \in Customers
    BY BillingAssumption
<1>3. paid \in Invoice /\ ApplySettled(paid) \in Invoice
    BY <1>1, InvoiceHandlers, SettledHandler DEF TypeOK
<1>4. snapshot \in CustomerSnapshot /\ ProjectSettled(snapshot) \in CustomerSnapshot
    BY <1>1, <1>2, ProjectionHandlers, PaymentProjected DEF TypeOK
<1>5. invoice' \in [Invoices -> Invoice]
    BY <1>3 DEF TypeOK, RecordPayment
<1>6. projected' \in [Customers -> CustomerSnapshot]
    BY <1>4 DEF TypeOK, RecordPayment
<1> QED
    BY <1>5, <1>6 DEF TypeOK, RecordPayment

LEMMA BillingNextType == TypeOK /\ [Next]_vars => TypeOK'
<1> SUFFICES ASSUME TypeOK, [Next]_vars PROVE TypeOK'
    OBVIOUS
<1>1. ASSUME NEW c \in Customers, StartSubscription(c) PROVE TypeOK'
    BY <1>1, ProjectionHandlers DEF TypeOK, StartSubscription, ApplyStarted, Status
<1>2. ASSUME NEW c \in Customers, CancelSubscription(c) PROVE TypeOK'
    BY <1>2, ProjectionHandlers DEF TypeOK, CancelSubscription, ApplyCancelled, Status
<1>3. CASE LoadReadModel
    BY <1>3 DEF TypeOK, LoadReadModel
<1>4. CASE UNCHANGED vars
    BY <1>4 DEF TypeOK, vars
<1> QED
    BY <1>1, <1>2, <1>3, <1>4, IssueType, PaymentType DEF Next

\* Every variable of Billing keeps its type; in particular the balance of the
\* projection, from which payments are subtracted, never falls below zero.
THEOREM BillingTypeCorrect == Spec => []TypeOK
<1> QED
    BY BillingInitType, BillingNextType, PTL DEF Spec

(***************************************************************************)
(* The invoices' books.                                                    *)
(***************************************************************************)
LEMMA BooksInit == Init => InvoicesBalance
BY DEF Init, InvoicesBalance, NewInvoice, Outstanding

\* What issuing does to the invoices.
IssueEffect(i, amount) ==
    /\ amount \in Nat /\ amount > 0
    /\ ~invoice[i].issued
    /\ invoice'[i].issued
    /\ ~invoice'[i].settled
    /\ invoice'[i].amount = amount /\ invoice'[i].paid = 0
    /\ \A j \in Invoices \ {i} : invoice'[j] = invoice[j]

LEMMA IssuedInvoice ==
    ASSUME TypeOK, InvoicesBalance,
           NEW i \in Invoices, NEW amount \in Amounts, IssueInvoice(i, amount)
    PROVE  IssueEffect(i, amount)
<1>1. amount \in Nat /\ amount > 0
    BY BillingAssumption DEF IssueInvoice, AcceptsIssue
<1>2. invoice[i] = NewInvoice
    BY DEF IssueInvoice, AcceptsIssue, InvoicesBalance
<1>3. /\ invoice'[i].issued /\ ~invoice'[i].settled
      /\ invoice'[i].amount = amount /\ invoice'[i].paid = 0
  <2>1. invoice[i] \in Invoice
      BY DEF TypeOK
  <2>3. ~NewInvoice.settled /\ NewInvoice.paid = 0
      BY DEF NewInvoice
  <2>2. invoice'[i] = ApplyIssued(invoice[i], amount)
      BY DEF IssueInvoice, TypeOK
  <2> QED
      BY <1>1, <1>2, <2>1, <2>2, <2>3, InvoiceHandlers
<1>4. \A j \in Invoices \ {i} : invoice'[j] = invoice[j]
    BY DEF IssueInvoice, TypeOK
<1> QED
    BY <1>1, <1>3, <1>4 DEF IssueEffect, IssueInvoice, AcceptsIssue

LEMMA BooksIssue ==
    ASSUME TypeOK, InvoicesBalance,
           NEW i \in Invoices, NEW amount \in Amounts, IssueInvoice(i, amount)
    PROVE  InvoicesBalance'
<1>1. IssueEffect(i, amount)
    BY IssuedInvoice
<1> QED
    BY <1>1 DEF IssueEffect, InvoicesBalance, Outstanding

\* What an accepted payment does to the invoices.
PaymentEffect(i, amount) ==
    /\ invoice'[i].issued
    /\ invoice'[i].settled <=> amount = invoice[i].amount - invoice[i].paid
    /\ invoice'[i].amount = invoice[i].amount
    /\ invoice'[i].paid = invoice[i].paid + amount
    /\ \A j \in Invoices \ {i} : invoice'[j] = invoice[j]

LEMMA PaymentInvoice ==
    ASSUME TypeOK, NEW i \in Invoices, NEW amount \in Amounts, RecordPayment(i, amount)
    PROVE  PaymentEffect(i, amount)
<1> DEFINE paid == ApplyPayment(invoice[i], amount)
<1>1. /\ invoice[i] \in Invoice /\ invoice[i].issued /\ ~invoice[i].settled
      /\ amount \in Nat
    BY BillingAssumption DEF RecordPayment, AcceptsPayment, TypeOK
<1>2. /\ paid \in Invoice /\ paid.issued /\ ~paid.settled
      /\ paid.amount = invoice[i].amount /\ paid.paid = invoice[i].paid + amount
    BY <1>1, InvoiceHandlers
<1>3. /\ invoice'[i] = IF Settles(i, amount) THEN ApplySettled(paid) ELSE paid
      /\ \A j \in Invoices \ {i} : invoice'[j] = invoice[j]
    BY DEF RecordPayment, TypeOK
<1>4. CASE Settles(i, amount)
    BY <1>2, <1>3, <1>4, SettledHandler DEF PaymentEffect, Settles, Outstanding
<1>5. CASE ~Settles(i, amount)
    BY <1>2, <1>3, <1>5 DEF PaymentEffect, Settles, Outstanding
<1> QED
    BY <1>4, <1>5

LEMMA BooksPayment ==
    ASSUME TypeOK, InvoicesBalance,
           NEW i \in Invoices, NEW amount \in Amounts, RecordPayment(i, amount)
    PROVE  InvoicesBalance'
<1>1. /\ invoice[i] \in Invoice /\ invoice[i].issued /\ ~invoice[i].settled
      /\ amount \in Nat /\ amount > 0 /\ amount <= invoice[i].amount - invoice[i].paid
    BY BillingAssumption DEF RecordPayment, AcceptsPayment, Outstanding, TypeOK
<1>2. PaymentEffect(i, amount)
    BY PaymentInvoice
<1> QED
    BY <1>1, <1>2 DEF InvoicesBalance, Outstanding, PaymentEffect, Invoice

LEMMA BooksNext == TypeOK /\ InvoicesBalance /\ [Next]_vars => InvoicesBalance'
<1> SUFFICES ASSUME TypeOK, InvoicesBalance, [Next]_vars PROVE InvoicesBalance'
    OBVIOUS
<1>1. CASE UNCHANGED invoice
    BY <1>1 DEF InvoicesBalance, Outstanding
<1> QED
    BY <1>1, BooksIssue, BooksPayment
       DEF Next, StartSubscription, CancelSubscription, LoadReadModel, vars

\* For any invoices and amounts, no invoice is ever overpaid, and an invoice is
\* settled exactly when all of it has been paid.
THEOREM InvoicesBalanced == Spec => []InvoicesBalance
<1> QED
    BY BooksInit, BooksNext, BillingTypeCorrect, PTL DEF Spec

(***************************************************************************)
(* The projection's agreement with the aggregates.                         *)
(***************************************************************************)
\* Two unsettled invoices of one customer overlap.
OverlapsRecorded ==
    \A i, j \in Invoices :
        Open(i) /\ Open(j) /\ CustomerOf[i] = CustomerOf[j] /\ i # j => CustomerOf[i] \in overlapped

BillingInv == TypeOK /\ InvoicesBalance /\ OverlapsRecorded /\ ReadModelAgrees

LEMMA AgreementInit == Init => OverlapsRecorded /\ ReadModelAgrees
BY DEF Init, OverlapsRecorded, ReadModelAgrees, Open, NewInvoice, NewSnapshot

LEMMA AgreementSubscription ==
    ASSUME BillingInv, NEW c \in Customers, StartSubscription(c) \/ CancelSubscription(c)
    PROVE  OverlapsRecorded' /\ ReadModelAgrees'
<1>1. /\ UNCHANGED <<invoice, overlapped>>
      /\ \A d \in Customers \ {c} :
            projected'[d] = projected[d] /\ subscription'[d] = subscription[d]
    BY DEF BillingInv, TypeOK, StartSubscription, CancelSubscription
<1>2. projected[c] \in CustomerSnapshot
    BY DEF BillingInv, TypeOK
<1>3. projected'[c].balance = projected[c].balance
    BY <1>2, ProjectionHandlers
       DEF BillingInv, TypeOK, StartSubscription, CancelSubscription
<1>4. projected'[c].active <=> subscription'[c] = "Active"
  <2>1. CASE StartSubscription(c)
      BY <1>2, <2>1, ProjectionHandlers
         DEF BillingInv, TypeOK, StartSubscription, ApplyStarted
  <2>2. CASE CancelSubscription(c)
      BY <1>2, <2>2, ProjectionHandlers
         DEF BillingInv, TypeOK, CancelSubscription, ApplyCancelled
  <2> QED
      BY <2>1, <2>2
<1>5. \A i \in Invoices : (Open(i)' <=> Open(i)) /\ Outstanding(i)' = Outstanding(i)
    BY <1>1 DEF Open, Outstanding
<1>6. OverlapsRecorded'
    BY <1>1, <1>5 DEF BillingInv, OverlapsRecorded
<1>7. ASSUME NEW d \in Customers
      PROVE  /\ projected'[d].balance = projected[d].balance
             /\ projected'[d].active <=> subscription'[d] = "Active"
    BY <1>1, <1>3, <1>4, <1>7 DEF BillingInv, ReadModelAgrees
<1> QED
    BY <1>1, <1>5, <1>6, <1>7 DEF BillingInv, ReadModelAgrees

LEMMA AgreementIssue ==
    ASSUME BillingInv, NEW i \in Invoices, NEW amount \in Amounts, IssueInvoice(i, amount)
    PROVE  OverlapsRecorded' /\ ReadModelAgrees'
<1> DEFINE c == CustomerOf[i]
<1>1. c \in Customers /\ amount \in Nat
    BY BillingAssumption DEF IssueInvoice, AcceptsIssue
<1>2. /\ ~Open(i) /\ Open(i)' /\ Outstanding(i)' = amount
    BY IssuedInvoice DEF BillingInv, IssueEffect, Open, Outstanding
<1>3. \A j \in Invoices \ {i} : (Open(j)' <=> Open(j)) /\ Outstanding(j)' = Outstanding(j)
    BY DEF BillingInv, TypeOK, IssueInvoice, Open, Outstanding
<1>4. /\ projected'[c].balance = projected[c].balance + amount
      /\ projected'[c].active <=> projected[c].active
      /\ projected[c].balance \in Nat
      /\ \A d \in Customers \ {c} : projected'[d] = projected[d]
    <2>1. projected[c] \in CustomerSnapshot
        BY <1>1 DEF BillingInv, TypeOK
    <2>2. projected'[c] = ProjectIssued(projected[c], amount)
        BY <1>1 DEF BillingInv, TypeOK, IssueInvoice
    <2>3. \A d \in Customers \ {c} : projected'[d] = projected[d]
        BY <1>1 DEF BillingInv, TypeOK, IssueInvoice
    <2>4. projected[c].balance \in Nat
        BY <2>1 DEF CustomerSnapshot
    <2>5. /\ ProjectIssued(projected[c], amount).balance = projected[c].balance + amount
          /\ ProjectIssued(projected[c], amount).active <=> projected[c].active
        BY <1>1, <2>1, IssueProjected
    <2> QED
        BY <1>1, <2>1, <2>2, <2>3, <2>4, <2>5
<1>5. /\ overlapped' = overlapped \cup (IF OtherOpen(i) THEN {c} ELSE {})
      /\ subscription' = subscription
    BY DEF IssueInvoice
<1>6. OverlapsRecorded'
    BY <1>2, <1>3, <1>5 DEF BillingInv, OverlapsRecorded, OtherOpen
<1>7. ASSUME c \notin overlapped', NEW j \in Invoices, CustomerOf[j] = c, Open(j)'
      PROVE  projected'[c].balance = Outstanding(j)'
    <2>1. ~OtherOpen(i)
        BY <1>5, <1>7
    <2>2. j = i
        BY <1>3, <1>7, <2>1 DEF OtherOpen
    <2>3. projected[c].balance = 0
        BY <1>1, <1>2, <2>1 DEF BillingInv, ReadModelAgrees, OtherOpen
    <2> QED
        BY <1>1, <1>2, <1>4, <2>2, <2>3
<1>8. ASSUME NEW d \in Customers
      PROVE  /\ projected'[d].active <=> subscription'[d] = "Active"
             /\ (\A j \in Invoices : CustomerOf[j] = d => ~Open(j)') => projected'[d].balance = 0
             /\ d \notin overlapped' =>
                    \A j \in Invoices : CustomerOf[j] = d /\ Open(j)' =>
                        projected'[d].balance = Outstanding(j)'
    <2>1. CASE d = c
        BY <1>1, <1>2, <1>4, <1>5, <1>7, <2>1 DEF BillingInv, ReadModelAgrees
    <2>2. CASE d # c
        BY <1>3, <1>4, <1>5, <2>2 DEF BillingInv, ReadModelAgrees
    <2> QED
        BY <2>1, <2>2
<1> QED
    BY <1>6, <1>8 DEF ReadModelAgrees

LEMMA AgreementPayment ==
    ASSUME BillingInv, NEW i \in Invoices, NEW amount \in Amounts, RecordPayment(i, amount)
    PROVE  OverlapsRecorded' /\ ReadModelAgrees'
<1> DEFINE c == CustomerOf[i]
           snapshot == ProjectPayment(projected[c], amount)
<1>1. /\ c \in Customers /\ amount \in Nat /\ amount > 0
      /\ invoice[i].amount \in Nat /\ invoice[i].paid \in Nat
      /\ Open(i) /\ amount <= Outstanding(i)
    <2>1. /\ invoice[i] \in Invoice /\ c \in Customers
          /\ AcceptsPayment(i, amount) /\ amount \in Int
        BY BillingAssumption DEF RecordPayment, BillingInv, TypeOK
    <2> QED
        BY <2>1 DEF AcceptsPayment, Invoice, Open
<1>2. PaymentEffect(i, amount)
    BY PaymentInvoice DEF BillingInv
<1>3. /\ Open(i)' <=> ~Settles(i, amount)
      /\ Outstanding(i)' = Outstanding(i) - amount
    BY <1>1, <1>2 DEF Open, Outstanding, PaymentEffect, Settles
<1>4. \A j \in Invoices \ {i} : (Open(j)' <=> Open(j)) /\ Outstanding(j)' = Outstanding(j)
    BY <1>2 DEF PaymentEffect, Open, Outstanding
<1>5. /\ projected[c] \in CustomerSnapshot /\ projected[c].balance \in Nat
      /\ projected'[c] = IF Settles(i, amount) THEN ProjectSettled(snapshot) ELSE snapshot
      /\ \A d \in Customers \ {c} : projected'[d] = projected[d]
    BY <1>1 DEF BillingInv, TypeOK, RecordPayment, CustomerSnapshot
<1>6. /\ snapshot \in CustomerSnapshot
      /\ snapshot.active <=> projected[c].active
      /\ snapshot.balance =
           IF projected[c].balance >= amount THEN projected[c].balance - amount ELSE 0
    <2>1. projected[c] \in CustomerSnapshot /\ amount \in Nat
        BY <1>1, <1>5
    <2> QED
        BY <2>1, PaymentProjected
<1>7. /\ projected'[c].active <=> projected[c].active
      /\ Settles(i, amount) => projected'[c].balance = 0
      /\ ~Settles(i, amount) => projected'[c].balance = snapshot.balance
    <2>1. /\ ProjectSettled(snapshot).active <=> snapshot.active
          /\ ProjectSettled(snapshot).balance = 0
        BY <1>6, ProjectionHandlers
    <2> QED
        BY <1>5, <1>6, <2>1
<1>8. /\ overlapped' = overlapped \ (IF Settles(i, amount) /\ ~OtherOpen(i) THEN {c} ELSE {})
      /\ subscription' = subscription
    BY DEF RecordPayment
<1>9. OverlapsRecorded'
    BY <1>1, <1>3, <1>4, <1>8 DEF BillingInv, OverlapsRecorded, OtherOpen
<1>10. ASSUME c \notin overlapped', NEW j \in Invoices, CustomerOf[j] = c, Open(j)'
       PROVE  projected'[c].balance = Outstanding(j)'
    <2>1. Settles(i, amount) => OtherOpen(i)
        BY <1>3, <1>4, <1>10 DEF OtherOpen
    <2>2. c \notin overlapped
        BY <1>8, <1>10, <2>1
    <2>3. j = i
        BY <1>1, <1>4, <1>10, <2>2 DEF BillingInv, OverlapsRecorded
    <2>4. projected[c].balance = Outstanding(i)
        BY <1>1, <2>2 DEF BillingInv, ReadModelAgrees
    <2>5. ~Settles(i, amount)
        BY <1>3, <1>10, <2>3
    <2> QED
        BY <1>1, <1>3, <1>5, <1>6, <1>7, <2>3, <2>4, <2>5
<1>11. ASSUME NEW d \in Customers
       PROVE  /\ projected'[d].active <=> subscription'[d] = "Active"
              /\ (\A j \in Invoices : CustomerOf[j] = d => ~Open(j)') => projected'[d].balance = 0
              /\ d \notin overlapped' =>
                     \A j \in Invoices : CustomerOf[j] = d /\ Open(j)' =>
                         projected'[d].balance = Outstanding(j)'
    <2>1. CASE d = c
        BY <1>1, <1>3, <1>7, <1>8, <1>10, <2>1 DEF BillingInv, ReadModelAgrees
    <2>2. CASE d # c
        BY <1>4, <1>5, <1>8, <2>2 DEF BillingInv, ReadModelAgrees
    <2> QED
        BY <2>1, <2>2
<1> QED
    BY <1>9, <1>11 DEF ReadModelAgrees

LEMMA BillingInvNext == BillingInv /\ [Next]_vars => BillingInv'
<1> SUFFICES ASSUME BillingInv, [Next]_vars PROVE BillingInv'
    OBVIOUS
<1>1. TypeOK' /\ InvoicesBalance'
    BY BillingNextType, BooksNext DEF BillingInv
<1>2. ASSUME UNCHANGED <<subscription, invoice, projected, overlapped>>
      PROVE  OverlapsRecorded' /\ ReadModelAgrees'
    BY <1>2 DEF BillingInv, OverlapsRecorded, ReadModelAgrees, Open, Outstanding
<1>3. OverlapsRecorded' /\ ReadModelAgrees'
    BY <1>2, AgreementSubscription, AgreementIssue, AgreementPayment
       DEF Next, LoadReadModel, vars, BillingInv, OverlapsRecorded, ReadModelAgrees
<1> QED
    BY <1>1, <1>3 DEF BillingInv

LEMMA BillingInvHolds == Spec => []BillingInv
<1>1. Init => BillingInv
    BY BillingInitType, BooksInit, AgreementInit DEF BillingInv
<1> QED
    BY <1>1, BillingInvNext, PTL DEF Spec

\* What a load of the projection gives agrees with the aggregates: on who is
\* active, on who owes nothing, and on what a customer owes whose invoices have
\* come one after the other.
THEOREM ReadModelAgreed == Spec => []ReadModelAgrees
<1>1. BillingInv => ReadModelAgrees
    BY DEF BillingInv
<1> QED
    BY <1>1, BillingInvHolds, PTL

(***************************************************************************)
(* Cancellations.                                                          *)
(***************************************************************************)
\* Whom the read model, however old, lets cancel has paid what it could know of.
Justified ==
    \A c \in Customers :
        MayCancel(c) => \/ c \in asOf.overlapped
                        \/ \A i \in asOf.issued : CustomerOf[i] = c => invoice[i].settled

LEMMA JustifiedInit == Init => Justified
BY DEF Init, Justified, MayCancel, NewSnapshot

LEMMA JustifiedNext == BillingInv /\ Justified /\ [Next]_vars => Justified'
<1> SUFFICES ASSUME BillingInv, Justified, [Next]_vars PROVE Justified'
    OBVIOUS
<1>1. CASE LoadReadModel
    <2> SUFFICES ASSUME NEW c \in Customers, MayCancel(c)', c \notin asOf'.overlapped,
                        NEW i \in asOf'.issued, CustomerOf[i] = c
                 PROVE  invoice'[i].settled
        BY DEF Justified
    <2>1. /\ i \in Invoices /\ invoice[i].issued /\ c \notin overlapped
          /\ projected[c].balance = 0 /\ invoice' = invoice
        BY <1>1 DEF LoadReadModel, MayCancel
    <2>2. Open(i) => Outstanding(i) = 0
        BY <2>1 DEF BillingInv, ReadModelAgrees
    <2> QED
        BY <2>1, <2>2 DEF BillingInv, InvoicesBalance, Open
<1>2. ASSUME UNCHANGED <<readModel, asOf>>,
             \A i \in Invoices : invoice[i].settled => invoice'[i].settled
      PROVE  Justified'
    BY <1>2 DEF Justified, MayCancel, BillingInv, TypeOK
<1>3. ASSUME NEW i \in Invoices, NEW amount \in Amounts, IssueInvoice(i, amount)
      PROVE  Justified'
    <2>1. ~invoice[i].issued
        BY <1>3 DEF IssueInvoice, AcceptsIssue
    <2>2. ~invoice[i].settled
        BY <2>1 DEF BillingInv, InvoicesBalance
    <2> QED
        BY <1>2, <1>3, <2>2 DEF IssueInvoice, BillingInv, TypeOK
<1>4. ASSUME NEW i \in Invoices, NEW amount \in Amounts, RecordPayment(i, amount)
      PROVE  Justified'
    <2>1. ~invoice[i].settled
        BY <1>4 DEF RecordPayment, AcceptsPayment
    <2> QED
        BY <1>2, <1>4, <2>1 DEF RecordPayment, BillingInv, TypeOK
<1>5. CASE UNCHANGED <<invoice, readModel, asOf>>
    BY <1>2, <1>5
<1> QED
    BY <1>1, <1>3, <1>4, <1>5 DEF Next, StartSubscription, CancelSubscription, vars

\* For any customers, invoices and amounts, and however old the read model:
\* whose subscription is cancelled has paid every invoice issued before the read
\* model was loaded, unless two of them overlapped then.
THEOREM CancelsJustified == Spec => CancelledOnlyIfPaid
<1>1. BillingInv /\ Justified /\ [Next]_vars =>
        [\A c \in Customers :
            subscription[c] = "Active" /\ subscription'[c] = "Cancelled" =>
                \/ c \in asOf.overlapped
                \/ \A i \in asOf.issued : CustomerOf[i] = c => invoice[i].settled]_vars
    <2>1. SUFFICES ASSUME BillingInv, Justified, Next, NEW c \in Customers,
                          subscription[c] = "Active", subscription'[c] = "Cancelled"
                   PROVE  MayCancel(c)
        BY DEF Justified, vars
    <2>2. PICK d \in Customers : CancelSubscription(d) \/ StartSubscription(d)
        BY <2>1 DEF Next, IssueInvoice, RecordPayment, LoadReadModel
    <2>3. d = c
        BY <2>1, <2>2
           DEF CancelSubscription, StartSubscription, ApplyStarted, BillingInv, TypeOK
    <2> QED
        BY <2>1, <2>2, <2>3
           DEF CancelSubscription, StartSubscription, ApplyStarted, BillingInv, TypeOK
<1> QED
    BY <1>1, BillingInvHolds, JustifiedInit, JustifiedNext, PTL DEF Spec, CancelledOnlyIfPaid

(***************************************************************************)
(* Sums over finite sets.  MapThenSumSet takes its elements in an order    *)
(* that CHOOSE fixes; here the sum is shown to exist and not to depend on  *)
(* the order.  What would be an induction over the set looks instead at a  *)
(* smallest subset for which the claim fails.                              *)
(***************************************************************************)
Chosen(s) == CHOOSE x \in s : TRUE

\* g sums h over the subsets of S, the way MapThenSumSet does.
Sums(g, S, h) ==
    g = [s \in SUBSET S |-> IF s = {} THEN 0 ELSE h[Chosen(s)] + g[s \ {Chosen(s)}]]

Total(S, h) == (CHOOSE g : Sums(g, S, h))[S]

\* The same for the subsets of at most n elements.
UpTo(n, S) == {s \in SUBSET S : Cardinality(s) <= n}

SumsUpTo(g, n, S, h) ==
    g = [s \in UpTo(n, S) |-> IF s = {} THEN 0 ELSE h[Chosen(s)] + g[s \ {Chosen(s)}]]

LEMMA ChosenElement == ASSUME NEW s, s # {} PROVE Chosen(s) \in s
BY DEF Chosen

\* A set of numbers has a smallest element.
LEMMA LeastNumber ==
    ASSUME NEW T \in SUBSET Nat, T # {}
    PROVE  \E m \in T : \A n \in T : m <= n
<1>1. IsWellFoundedOn(OpToRel(<, Nat), Nat)
    BY NatLessThanWellFounded
<1>2. PICK m \in T : \A n \in T : ~(<<n, m>> \in OpToRel(<, Nat))
    BY <1>1, WFMin
<1>3. \A n \in T : ~(n < m)
    BY <1>2 DEF OpToRel
<1> QED
    BY <1>3

\* A set of finite sets has one without a proper subset in it.
LEMMA LeastSet ==
    ASSUME NEW S, IsFiniteSet(S), NEW B \in SUBSET SUBSET S, B # {}
    PROVE  \E s \in B : \A x \in s : s \ {x} \notin B
<1>1. IsWellFoundedOn(StrictSubsetOrdering(S), FiniteSubsetsOf(S))
    BY FS_StrictSubsetOrderingWellFounded
<1>2. B \subseteq FiniteSubsetsOf(S)
    BY FS_FiniteSubsetsOfFinite
<1>3. PICK s \in B : \A t \in B : ~(<<t, s>> \in StrictSubsetOrdering(S))
    BY <1>1, <1>2, WFMin
<1>4. ASSUME NEW x \in s, s \ {x} \in B PROVE FALSE
    BY <1>3, <1>4 DEF StrictSubsetOrdering
<1> QED
    BY <1>4

\* From sums up to n to sums up to n + 1.
LEMMA SumsOneMore ==
    ASSUME NEW S, IsFiniteSet(S), NEW h, NEW n \in Nat, NEW g, SumsUpTo(g, n, S, h)
    PROVE  \E k : SumsUpTo(k, n + 1, S, h)
<1>1. PICK k : k = [s \in UpTo(n + 1, S) |->
                      IF s = {} THEN 0 ELSE h[Chosen(s)] + g[s \ {Chosen(s)}]]
    OBVIOUS
<1>2. UpTo(n, S) \subseteq UpTo(n + 1, S)
    <2>1. \A s \in SUBSET S : Cardinality(s) \in Nat
        BY FS_Subset, FS_CardinalityType
    <2> QED
        BY <2>1 DEF UpTo
<1>3. \A s \in UpTo(n, S) : k[s] = g[s]
    BY <1>1, <1>2 DEF SumsUpTo
<1>4. ASSUME NEW s \in UpTo(n + 1, S), s # {}
      PROVE  s \ {Chosen(s)} \in UpTo(n, S)
    <2>1. s \in SUBSET S /\ Cardinality(s) <= n + 1 /\ IsFiniteSet(s) /\ Cardinality(s) \in Nat
        BY FS_Subset, FS_CardinalityType DEF UpTo
    <2>2. Cardinality(s \ {Chosen(s)}) = Cardinality(s) - 1
        BY <1>4, <2>1, ChosenElement, FS_RemoveElement
    <2> QED
        BY <2>1, <2>2 DEF UpTo
<1>5. \A s \in UpTo(n + 1, S) : s # {} => g[s \ {Chosen(s)}] = k[s \ {Chosen(s)}]
    BY <1>3, <1>4
<1>6. SumsUpTo(k, n + 1, S, h)
    BY <1>1, <1>5 DEF SumsUpTo
<1> QED
    BY <1>6

LEMMA SumsExist ==
    ASSUME NEW S, IsFiniteSet(S), NEW h
    PROVE  \E g : Sums(g, S, h)
<1> DEFINE Bad == {n \in Nat : ~\E g : SumsUpTo(g, n, S, h)}
<1>1. 0 \notin Bad
    <2>1. PICK g : g = [s \in UpTo(0, S) |-> 0]
        OBVIOUS
    <2>2. \A s \in UpTo(0, S) : s = {}
        <3>1. \A s \in SUBSET S : IsFiniteSet(s) /\ Cardinality(s) \in Nat
            BY FS_Subset, FS_CardinalityType
        <3> QED
            BY <3>1, FS_EmptySet DEF UpTo
    <2>3. SumsUpTo(g, 0, S, h)
        BY <2>1, <2>2 DEF SumsUpTo
    <2> QED
        BY <2>3
<1>2. Bad = {}
    <2>1. SUFFICES ASSUME Bad # {} PROVE FALSE
        OBVIOUS
    <2>2. PICK m \in Bad : \A n \in Bad : m <= n
        BY <2>1, LeastNumber
    <2>3. m \in Nat /\ m # 0
        BY <1>1
    <2>4. m - 1 \in Nat /\ ~(m <= m - 1)
        BY <2>3
    <2>5. PICK g : SumsUpTo(g, m - 1, S, h)
        BY <2>2, <2>4
    <2>6. \E k : SumsUpTo(k, (m - 1) + 1, S, h)
        BY <2>4, <2>5, SumsOneMore
    <2>7. (m - 1) + 1 = m
        BY <2>3
    <2> QED
        BY <2>6, <2>7
<1>3. PICK n : n = Cardinality(S) /\ n \in Nat
    BY FS_CardinalityType
<1>4. PICK g : SumsUpTo(g, n, S, h)
    BY <1>2, <1>3
<1>5. UpTo(n, S) = SUBSET S
    BY <1>3, FS_Subset DEF UpTo
<1>6. Sums(g, S, h)
    BY <1>4, <1>5 DEF SumsUpTo, Sums
<1> QED
    BY <1>6

\* One step of a sum.
LEMMA SumsStep ==
    ASSUME NEW S, NEW h, NEW g, Sums(g, S, h), NEW s \in SUBSET S
    PROVE  /\ s = {} => g[s] = 0
           /\ s # {} => g[s] = h[Chosen(s)] + g[s \ {Chosen(s)}]
BY DEF Sums

LEMMA SumsType ==
    ASSUME NEW S, IsFiniteSet(S), NEW h, NEW g, Sums(g, S, h), \A x \in S : h[x] \in Nat,
           NEW s \in SUBSET S
    PROVE  g[s] \in Nat
<1> DEFINE Bad == {t \in SUBSET S : g[t] \notin Nat}
<1>1. SUFFICES ASSUME Bad # {} PROVE FALSE
    OBVIOUS
<1>2. PICK t \in Bad : \A x \in t : t \ {x} \notin Bad
    BY <1>1, LeastSet
<1>3. t # {}
    <2>1. t \in SUBSET S /\ g[t] \notin Nat
        OBVIOUS
    <2>2. t = {} => g[t] = 0
        BY <2>1, SumsStep
    <2>3. 0 \in Nat
        OBVIOUS
    <2> QED
        BY <2>1, <2>2, <2>3
<1>4. /\ g[t] = h[Chosen(t)] + g[t \ {Chosen(t)}]
      /\ Chosen(t) \in t
    BY <1>3, SumsStep, ChosenElement
<1>5. g[t \ {Chosen(t)}] \in Nat
    BY <1>2, <1>4
<1>6. h[Chosen(t)] \in Nat
    BY <1>4
<1> QED
    BY <1>4, <1>5, <1>6

\* Two sums of functions that agree agree.
LEMMA SumsAgree ==
    ASSUME NEW S, IsFiniteSet(S), NEW h, NEW k, NEW T, NEW g, NEW f,
           Sums(g, S, h), Sums(f, T, k), S \subseteq T, \A x \in S : h[x] = k[x]
    PROVE  g[S] = f[S]
<1> DEFINE Bad == {t \in SUBSET S : g[t] # f[t]}
<1>1. SUFFICES ASSUME Bad # {} PROVE FALSE
    OBVIOUS
<1>2. PICK t \in Bad : \A x \in t : t \ {x} \notin Bad
    BY <1>1, LeastSet
<1>3. t \in SUBSET S /\ t \in SUBSET T
    OBVIOUS
<1>4. t # {}
    BY <1>3, SumsStep
<1>5. /\ g[t] = h[Chosen(t)] + g[t \ {Chosen(t)}]
      /\ f[t] = k[Chosen(t)] + f[t \ {Chosen(t)}]
      /\ Chosen(t) \in t
    BY <1>3, <1>4, SumsStep, ChosenElement
<1>6. g[t \ {Chosen(t)}] = f[t \ {Chosen(t)}]
    BY <1>2, <1>5
<1> QED
    BY <1>5, <1>6

\* Whichever element is taken away, the sum falls by its value.
LEMMA SumsRemove ==
    ASSUME NEW S, IsFiniteSet(S), NEW h, NEW g, Sums(g, S, h), \A x \in S : h[x] \in Nat,
           NEW s \in SUBSET S, NEW x \in s
    PROVE  g[s] = h[x] + g[s \ {x}]
<1> DEFINE Bad == {t \in SUBSET S : \E y \in t : g[t] # h[y] + g[t \ {y}]}
<1>1. SUFFICES ASSUME Bad # {} PROVE FALSE
    OBVIOUS
<1>2. PICK t \in Bad : \A y \in t : t \ {y} \notin Bad
    BY <1>1, LeastSet
<1>3. PICK y \in t : g[t] # h[y] + g[t \ {y}]
    OBVIOUS
<1>4. PICK z : z = Chosen(t)
    OBVIOUS
<1>5. z \in t /\ g[t] = h[z] + g[t \ {z}] /\ t \in SUBSET S
    BY <1>3, <1>4, SumsStep, ChosenElement
<1>6. z # y
    BY <1>3, <1>5
<1>7. g[t \ {z}] = h[y] + g[(t \ {z}) \ {y}]
    BY <1>2, <1>3, <1>5, <1>6
<1>8. g[t \ {y}] = h[z] + g[(t \ {y}) \ {z}]
    BY <1>2, <1>3, <1>5, <1>6
<1>9. (t \ {z}) \ {y} = (t \ {y}) \ {z}
    OBVIOUS
<1>10. PICK a, b, u : a = h[y] /\ b = h[z] /\ u = g[(t \ {y}) \ {z}]
    OBVIOUS
<1>11. a \in Nat /\ b \in Nat /\ u \in Nat
    BY <1>3, <1>5, <1>10, SumsType
<1>12. g[t] = b + (a + u) /\ g[t \ {y}] = b + u
    BY <1>5, <1>7, <1>8, <1>9, <1>10
<1>13. b + (a + u) = a + (b + u)
    BY <1>11
<1> QED
    BY <1>3, <1>10, <1>12, <1>13

LEMMA TotalSums ==
    ASSUME NEW S, IsFiniteSet(S), NEW h
    PROVE  \E g : Sums(g, S, h) /\ Total(S, h) = g[S]
<1>1. Sums(CHOOSE g : Sums(g, S, h), S, h)
    BY SumsExist
<1> QED
    BY <1>1 DEF Total

LEMMA TotalType ==
    ASSUME NEW S, IsFiniteSet(S), NEW h, \A x \in S : h[x] \in Nat
    PROVE  Total(S, h) \in Nat
BY TotalSums, SumsType

LEMMA TotalAgrees ==
    ASSUME NEW S, IsFiniteSet(S), NEW h, NEW k, \A x \in S : h[x] = k[x]
    PROVE  Total(S, h) = Total(S, k)
<1>1. PICK g : Sums(g, S, h) /\ Total(S, h) = g[S]
    BY TotalSums
<1>2. PICK f : Sums(f, S, k) /\ Total(S, k) = f[S]
    BY TotalSums
<1> QED
    BY <1>1, <1>2, SumsAgree

\* The total of a set is that of the others and the value of one element.
LEMMA TotalRemove ==
    ASSUME NEW S, IsFiniteSet(S), NEW h, \A x \in S : h[x] \in Nat, NEW x \in S
    PROVE  Total(S, h) = h[x] + Total(S \ {x}, h)
<1>1. PICK g : Sums(g, S, h) /\ Total(S, h) = g[S]
    BY TotalSums
<1>2. IsFiniteSet(S \ {x}) /\ S \ {x} \subseteq S
    BY FS_RemoveElement
<1>3. PICK f : Sums(f, S \ {x}, h) /\ Total(S \ {x}, h) = f[S \ {x}]
    BY <1>2, TotalSums
<1>4. g[S] = h[x] + g[S \ {x}]
    BY <1>1, SumsRemove
<1>5. f[S \ {x}] = g[S \ {x}]
    BY <1>1, <1>2, <1>3, SumsAgree
<1> QED
    BY <1>1, <1>3, <1>4, <1>5

(***************************************************************************)
(* What the projection says is owed.                                       *)
(***************************************************************************)
\* The invoices that c has still to pay, and what is outstanding on them.
Due(c) == {i \in Invoices : CustomerOf[i] = c /\ Open(i)}

Owed(c) == MapThenSumSet(Outstanding, Due(c))

\* g sums the outstanding amounts over the subsets of D.
SumsOutstanding(g, D) ==
    g = [s \in SUBSET D |->
            IF s = {} THEN 0
            ELSE Outstanding(CHOOSE x \in s : TRUE) + g[s \ {CHOOSE x \in s : TRUE}]]

\* Both kinds of sum are the same where h is what is outstanding.
LEMMA SumsOfOutstanding ==
    ASSUME NEW D, NEW h, \A i \in D : h[i] = Outstanding(i), NEW g
    PROVE  SumsOutstanding(g, D) <=> Sums(g, D, h)
<1>1. ASSUME NEW s \in SUBSET D, s # {}
      PROVE  h[Chosen(s)] = Outstanding(CHOOSE x \in s : TRUE)
    <2>1. Chosen(s) \in D
        BY <1>1, ChosenElement
    <2> QED
        BY <2>1 DEF Chosen
<1>2. [s \in SUBSET D |-> IF s = {} THEN 0 ELSE h[Chosen(s)] + g[s \ {Chosen(s)}]] =
      [s \in SUBSET D |->
            IF s = {} THEN 0
            ELSE Outstanding(CHOOSE x \in s : TRUE) + g[s \ {CHOOSE x \in s : TRUE}]]
    BY <1>1 DEF Chosen
<1> QED
    BY <1>2 DEF SumsOutstanding, Sums

LEMMA OwedTotal ==
    ASSUME NEW c, NEW D, D = Due(c), IsFiniteSet(D), NEW h, \A i \in D : h[i] = Outstanding(i)
    PROVE  Owed(c) = Total(D, h)
<1>0. PICK iter : iter = CHOOSE g : SumsOutstanding(g, D)
    OBVIOUS
<1>1. Owed(c) = iter[D]
    BY <1>0 DEF Owed, MapThenSumSet, MapThenFoldSet, SumsOutstanding
<1>2. PICK g : Sums(g, D, h) /\ Total(D, h) = g[D]
    BY TotalSums
<1>3. SumsOutstanding(g, D)
    BY <1>2, SumsOfOutstanding
<1>4. SumsOutstanding(iter, D)
    BY <1>0, <1>3
<1>5. Sums(iter, D, h)
    BY <1>4, SumsOfOutstanding
<1>6. iter[D] = g[D]
    BY <1>2, <1>5, SumsAgree
<1> QED
    BY <1>1, <1>2, <1>6

\* And after a step.
LEMMA SumsOfOutstandingNext ==
    ASSUME NEW D, NEW h, \A i \in D : h[i] = Outstanding(i)', NEW g
    PROVE  SumsOutstanding(g, D)' <=> Sums(g, D, h)
<1>1. ASSUME NEW s \in SUBSET D, s # {}
      PROVE  h[Chosen(s)] = Outstanding(CHOOSE x \in s : TRUE)'
    <2>1. Chosen(s) \in D
        BY <1>1, ChosenElement
    <2> QED
        BY <2>1 DEF Chosen
<1>2. [s \in SUBSET D |-> IF s = {} THEN 0 ELSE h[Chosen(s)] + g[s \ {Chosen(s)}]] =
      [s \in SUBSET D |->
            IF s = {} THEN 0
            ELSE Outstanding(CHOOSE x \in s : TRUE)' + g[s \ {CHOOSE x \in s : TRUE}]]
    BY <1>1 DEF Chosen
<1> QED
    BY <1>2 DEF SumsOutstanding, Sums

LEMMA OwedTotalNext ==
    ASSUME NEW c, NEW D, D = Due(c)', IsFiniteSet(D), NEW h, \A i \in D : h[i] = Outstanding(i)'
    PROVE  Owed(c)' = Total(D, h)
<1>0. PICK iter : iter = CHOOSE g : SumsOutstanding(g, D)'
    OBVIOUS
<1>1. Owed(c)' = iter[D]
    BY <1>0 DEF Owed, MapThenSumSet, MapThenFoldSet, SumsOutstanding
<1>2. PICK g : Sums(g, D, h) /\ Total(D, h) = g[D]
    BY TotalSums
<1>3. SumsOutstanding(g, D)'
    BY <1>2, SumsOfOutstandingNext
<1>4. SumsOutstanding(iter, D)'
    BY <1>0, <1>3
<1>5. Sums(iter, D, h)
    BY <1>4, SumsOfOutstandingNext
<1>6. iter[D] = g[D]
    BY <1>2, <1>5, SumsAgree
<1> QED
    BY <1>1, <1>2, <1>6

\* What a payment makes of the balance.
LEMMA PaidBalance ==
    ASSUME BillingInv, NEW i \in Invoices, NEW amount \in Amounts, RecordPayment(i, amount)
    PROVE  LET balance == projected[CustomerOf[i]].balance
           IN  /\ balance \in Nat
               /\ Settles(i, amount) => projected'[CustomerOf[i]].balance = 0
               /\ ~Settles(i, amount) =>
                    projected'[CustomerOf[i]].balance =
                      IF balance >= amount THEN balance - amount ELSE 0
<1>1. PICK s, n, p : /\ s = projected[CustomerOf[i]] /\ n = ProjectPayment(s, amount)
                     /\ p = projected'[CustomerOf[i]]
    OBVIOUS
<1>2. s \in CustomerSnapshot /\ amount \in Nat
    <2>1. CustomerOf[i] \in Customers /\ amount \in Nat
        BY BillingAssumption DEF RecordPayment, AcceptsPayment
    <2> QED
        BY <1>1, <2>1 DEF BillingInv, TypeOK
<1>3. /\ n \in CustomerSnapshot
      /\ n.balance = IF s.balance >= amount THEN s.balance - amount ELSE 0
    BY <1>1, <1>2, PaymentProjected
<1>4. p = IF Settles(i, amount) THEN ProjectSettled(n) ELSE n
    BY <1>1, BillingAssumption DEF BillingInv, TypeOK, RecordPayment
<1>5. ProjectSettled(n).balance = 0
    BY <1>3, ProjectionHandlers
<1>6. s.balance \in Nat
    BY <1>2 DEF CustomerSnapshot
<1> QED
    BY <1>1, <1>3, <1>4, <1>5, <1>6

\* Steps that leave the invoices alone leave the balances alone.
LEMMA SubscriptionBalance ==
    ASSUME BillingInv, [Next]_vars, UNCHANGED invoice, NEW c \in Customers
    PROVE  projected'[c].balance = projected[c].balance
<1>1. ASSUME NEW d \in Customers, StartSubscription(d) \/ CancelSubscription(d)
      PROVE  projected'[c].balance = projected[c].balance
    BY <1>1, ProjectionHandlers DEF BillingInv, TypeOK, StartSubscription, CancelSubscription
<1>2. ASSUME NEW i \in Invoices, NEW amount \in Amounts, IssueInvoice(i, amount) PROVE FALSE
    BY <1>2, IssuedInvoice DEF BillingInv, IssueEffect
<1>3. ASSUME NEW i \in Invoices, NEW amount \in Amounts, RecordPayment(i, amount) PROVE FALSE
    <2>1. /\ invoice[i].paid \in Nat /\ amount \in Int /\ amount > 0
          /\ invoice'[i].paid = invoice[i].paid + amount
        BY <1>3, PaymentInvoice, BillingAssumption
        DEF BillingInv, TypeOK, Invoice, PaymentEffect, RecordPayment, AcceptsPayment
    <2> QED
        BY <2>1
<1> QED
    BY <1>1, <1>2, <1>3 DEF Next, LoadReadModel, vars

\* The sum has a value because only finitely many invoices are open.
OwedInv ==
    \A c \in Customers : IsFiniteSet(Due(c)) /\ projected[c].balance <= Owed(c)

LEMMA OutstandingType ==
    ASSUME BillingInv, NEW i \in Invoices
    PROVE  Outstanding(i) \in Nat
<1>1. invoice[i].amount \in Nat /\ invoice[i].paid \in Nat
    BY DEF BillingInv, TypeOK, Invoice
<1>2. invoice[i].paid <= invoice[i].amount
    BY DEF BillingInv, InvoicesBalance
<1> QED
    BY <1>1, <1>2 DEF Outstanding

\* A step that concerns none of c's open invoices.
LEMMA OwedStays ==
    ASSUME OwedInv, NEW c \in Customers, UNCHANGED projected[c].balance,
           Due(c)' = Due(c), \A i \in Due(c) : Outstanding(i)' = Outstanding(i)
    PROVE  IsFiniteSet(Due(c))' /\ projected'[c].balance <= Owed(c)'
<1>1. PICK D, h : D = Due(c) /\ h = [i \in D |-> Outstanding(i)]
    OBVIOUS
<1>2. IsFiniteSet(D) /\ projected[c].balance <= Owed(c)
    BY <1>1 DEF OwedInv
<1>3. Owed(c) = Total(D, h)
    BY <1>1, <1>2, OwedTotal
<1>4. Owed(c)' = Total(D, h)
    BY <1>1, <1>2, OwedTotalNext
<1> QED
    BY <1>1, <1>2, <1>3, <1>4

\* One more invoice, nothing paid on it yet.
LEMMA OwedIssue ==
    ASSUME BillingInv, BillingInv', OwedInv,
           NEW i \in Invoices, NEW amount \in Amounts, IssueInvoice(i, amount)
    PROVE  LET c == CustomerOf[i]
           IN  IsFiniteSet(Due(c))' /\ projected'[c].balance <= Owed(c)'
<1>1. PICK c, D, E, h, k :
        /\ c = CustomerOf[i] /\ D = Due(c) /\ E = D \cup {i}
        /\ h = [j \in E |-> Outstanding(j)] /\ k = [j \in E |-> Outstanding(j)']
    OBVIOUS
<1>2. /\ c \in Customers /\ amount \in Nat
      /\ IsFiniteSet(D) /\ projected[c].balance <= Owed(c)
    BY <1>1, BillingAssumption DEF OwedInv, IssueInvoice, AcceptsIssue
<1>3. /\ IssueEffect(i, amount)
      /\ i \notin D /\ E = Due(c)' /\ IsFiniteSet(E) /\ E \ {i} = D
      /\ \A j \in D : k[j] = h[j]
      /\ k[i] = amount
    <2>1. IssueEffect(i, amount)
        BY IssuedInvoice DEF BillingInv
    <2>2. ~Open(i) /\ Open(i)' /\ Outstanding(i)' = amount
        BY <2>1 DEF IssueEffect, Open, Outstanding
    <2>3. \A j \in Invoices \ {i} : (Open(j)' <=> Open(j)) /\ Outstanding(j)' = Outstanding(j)
        BY <2>1 DEF IssueEffect, Open, Outstanding
    <2>4. i \notin D /\ D \subseteq Invoices
        BY <1>1, <2>2 DEF Due
    <2>5. E = Due(c)'
        BY <1>1, <2>2, <2>3 DEF Due
    <2>6. IsFiniteSet(E)
        BY <1>1, <1>2, FS_AddElement
    <2> QED
        BY <1>1, <2>1, <2>2, <2>3, <2>4, <2>5, <2>6
<1>4. Owed(c) = Total(D, h) /\ Owed(c)' = Total(E, k)
    BY <1>1, <1>2, <1>3, OwedTotal, OwedTotalNext
<1>5. /\ \A j \in D : h[j] \in Nat
      /\ \A j \in E : k[j] \in Nat
    BY <1>1, <1>2, <1>3, OutstandingType DEF Due
<1>6. Total(E, k) = amount + Total(D, k)
    BY <1>1, <1>3, <1>5, TotalRemove
<1>7. Total(D, k) = Total(D, h) /\ Total(D, h) \in Nat
    BY <1>2, <1>3, <1>5, TotalAgrees, TotalType
<1>8. projected'[c].balance = projected[c].balance + amount /\ projected[c].balance \in Nat
    BY <1>1, <1>2, IssueProjected DEF BillingInv, TypeOK, IssueInvoice, CustomerSnapshot
<1>9. projected'[c].balance <= Owed(c)'
    BY <1>2, <1>4, <1>6, <1>7, <1>8
<1> QED
    BY <1>1, <1>3, <1>9

\* A payment takes as much from the sum as from the balance, or clears the
\* balance.
LEMMA OwedPayment ==
    ASSUME BillingInv, BillingInv', OwedInv,
           NEW i \in Invoices, NEW amount \in Amounts, RecordPayment(i, amount)
    PROVE  LET c == CustomerOf[i]
           IN  IsFiniteSet(Due(c))' /\ projected'[c].balance <= Owed(c)'
<1>1. PICK c, D, E, h, k :
        /\ c = CustomerOf[i] /\ D = Due(c) /\ E = Due(c)'
        /\ h = [j \in D |-> Outstanding(j)] /\ k = [j \in D |-> Outstanding(j)']
    OBVIOUS
<1>2. /\ c \in Customers /\ amount \in Nat /\ amount > 0
      /\ IsFiniteSet(D) /\ projected[c].balance <= Owed(c)
    BY <1>1, BillingAssumption DEF OwedInv, RecordPayment, AcceptsPayment
<1>3. /\ PaymentEffect(i, amount)
      /\ invoice[i].amount \in Nat /\ invoice[i].paid \in Nat /\ Open(i)
    BY PaymentInvoice DEF BillingInv, TypeOK, Invoice, RecordPayment, AcceptsPayment, Open
<1>4. /\ i \in D /\ E \subseteq D /\ IsFiniteSet(E)
      /\ ~Settles(i, amount) => E = D
      /\ \A j \in D \ {i} : k[j] = h[j]
      /\ h[i] = k[i] + amount
      /\ \A j \in E : k[j] = Outstanding(j)'
    <2>1. i \in D /\ D \subseteq Invoices
        BY <1>1, <1>3 DEF Due
    <2>2. \A j \in Invoices \ {i} : (Open(j)' <=> Open(j)) /\ Outstanding(j)' = Outstanding(j)
        BY <1>3 DEF PaymentEffect, Open, Outstanding
    <2>3. E \subseteq D
        BY <1>1, <1>3, <2>2 DEF Due
    <2>4. ~Settles(i, amount) => E = D
        <3>1. ~Settles(i, amount) => Open(i)'
            BY <1>3 DEF PaymentEffect, Open, Settles, Outstanding
        <3> QED
            BY <1>1, <1>3, <2>2, <3>1 DEF Due
    <2>5. Outstanding(i) = Outstanding(i)' + amount
        BY <1>2, <1>3 DEF PaymentEffect, Outstanding
    <2>6. IsFiniteSet(E)
        BY <1>2, <2>3, FS_Subset
    <2> QED
        BY <1>1, <2>1, <2>2, <2>3, <2>4, <2>5, <2>6
<1>5. Owed(c) = Total(D, h) /\ Owed(c)' = Total(E, k)
    BY <1>1, <1>2, <1>4, OwedTotal, OwedTotalNext
<1>6. \A j \in D : h[j] \in Nat /\ k[j] \in Nat
    <2>1. \A j \in D : h[j] \in Nat
        BY <1>1, OutstandingType DEF Due
    <2>2. k[i] \in Nat
        <3>1. invoice'[i] \in Invoice
            BY DEF BillingInv, TypeOK
        <3>2. k[i] \in Int /\ h[i] \in Nat /\ amount <= h[i]
            BY <1>1, <1>4, <2>1, <3>1
            DEF Outstanding, Invoice, RecordPayment, AcceptsPayment
        <3> QED
            BY <1>2, <1>4, <3>2
    <2> QED
        BY <1>4, <2>1, <2>2
<1>7. Total(E, k) \in Nat
    BY <1>4, <1>6, TotalType
<1>8. /\ projected[c].balance \in Nat
      /\ Settles(i, amount) => projected'[c].balance = 0
      /\ ~Settles(i, amount) =>
           projected'[c].balance =
             IF projected[c].balance >= amount THEN projected[c].balance - amount ELSE 0
    BY <1>1, <1>2, PaidBalance
<1>9. CASE Settles(i, amount)
    BY <1>1, <1>4, <1>5, <1>7, <1>8, <1>9
<1>10. CASE ~Settles(i, amount)
    <2>1. PICK R : R = D \ {i}
        OBVIOUS
    <2>2. IsFiniteSet(R) /\ R \subseteq D
        BY <1>2, <2>1, FS_RemoveElement
    <2>3. Total(D, h) = h[i] + Total(R, h) /\ Total(D, k) = k[i] + Total(R, k)
        BY <1>2, <1>4, <1>6, <2>1, TotalRemove
    <2>4. Total(R, k) = Total(R, h)
        BY <1>4, <2>1, <2>2, TotalAgrees
    <2>5. Total(R, h) \in Nat
        BY <1>6, <2>2, TotalType
    <2>6. PICK a, u, o, b : /\ a = k[i] /\ u = Total(R, h) /\ o = Owed(c)'
                            /\ b = projected[c].balance
        OBVIOUS
    <2>7. /\ a \in Nat /\ u \in Nat /\ b \in Nat /\ o = a + u
          /\ b <= (a + amount) + u
        BY <1>2, <1>4, <1>5, <1>6, <1>8, <1>10, <2>3, <2>4, <2>5, <2>6
    <2>8. projected'[c].balance = IF b >= amount THEN b - amount ELSE 0
        BY <1>8, <1>10, <2>6
    <2>9. projected'[c].balance <= o
        BY <1>2, <2>7, <2>8
    <2> QED
        BY <1>1, <1>4, <2>6, <2>9
<1> QED
    BY <1>9, <1>10

LEMMA OwedNext == BillingInv /\ BillingInv' /\ OwedInv /\ [Next]_vars => OwedInv'
<1> SUFFICES ASSUME BillingInv, BillingInv', OwedInv, [Next]_vars PROVE OwedInv'
    OBVIOUS
<1>1. CASE UNCHANGED invoice
    <2>1. \A c \in Customers : projected'[c].balance = projected[c].balance
        BY <1>1, SubscriptionBalance
    <2>2. ASSUME NEW c \in Customers
          PROVE  Due(c)' = Due(c) /\ \A i \in Due(c) : Outstanding(i)' = Outstanding(i)
        BY <1>1 DEF Due, Open, Outstanding
    <2> QED
        BY <2>1, <2>2, OwedStays DEF OwedInv
<1>2. ASSUME NEW i \in Invoices, NEW amount \in Amounts,
             IssueInvoice(i, amount) \/ RecordPayment(i, amount)
      PROVE  OwedInv'
    <2>1. ASSUME NEW c \in Customers, c # CustomerOf[i]
          PROVE  IsFiniteSet(Due(c))' /\ projected'[c].balance <= Owed(c)'
        <3>1. \A j \in Invoices \ {i} : invoice'[j] = invoice[j]
            BY <1>2 DEF BillingInv, TypeOK, IssueInvoice, RecordPayment
        <3>2. projected'[c] = projected[c]
            BY <1>2, <2>1 DEF BillingInv, TypeOK, IssueInvoice, RecordPayment
        <3>3. Due(c)' = Due(c) /\ \A j \in Due(c) : Outstanding(j)' = Outstanding(j)
            BY <2>1, <3>1 DEF Due, Open, Outstanding
        <3> QED
            BY <3>2, <3>3, OwedStays
    <2> QED
        BY <1>2, <2>1, OwedIssue, OwedPayment DEF OwedInv
<1> QED
    BY <1>1, <1>2 DEF Next, StartSubscription, CancelSubscription, LoadReadModel, vars

\* Whatever invoices overlap and in whatever order they are paid, the projection
\* asks a customer for no more than the open invoices add up to.
THEOREM DebtNeverOverstated == Spec => []NeverOverstated
<1>1. Init => OwedInv
    <2> SUFFICES ASSUME Init, NEW c \in Customers
                 PROVE  IsFiniteSet(Due(c)) /\ projected[c].balance <= Owed(c)
        BY DEF OwedInv
    <2>1. Due(c) = {}
        BY DEF Init, Due, Open, NewInvoice
    <2>2. PICK h : h = [i \in {} |-> 0]
        OBVIOUS
    <2>3. IsFiniteSet({}) /\ Total({}, h) \in Nat
        BY FS_EmptySet, TotalType
    <2>4. Owed(c) = Total({}, h)
        BY <2>1, <2>3, OwedTotal
    <2>5. projected[c].balance = 0
        BY DEF Init, NewSnapshot
    <2> QED
        BY <2>1, <2>3, <2>4, <2>5
<1>2. OwedInv => NeverOverstated
    BY DEF OwedInv, NeverOverstated, Owed, Due
<1> QED
    BY <1>1, <1>2, OwedNext, BillingInvHolds, PTL DEF Spec
=============================================================================
