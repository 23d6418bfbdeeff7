SPECIFICATION Spec
CONSTANTS
    c1 = c1
    c2 = c2
    i1 = i1
    i2 = i2
    i3 = i3
    Customers = {c1, c2}
    Invoices = {i1, i2, i3}
    CustomerOf <- Billed
    Amounts <- Cents
INVARIANTS
    TypeOK
    InvoicesBalance
    ReadModelAgrees
    NeverOverstated
PROPERTIES
    CancelledOnlyIfPaid
