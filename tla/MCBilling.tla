----------------------------- MODULE MCBilling -----------------------------
(***************************************************************************)
(* A small instance of Billing: one customer with two invoices, one with   *)
(* one, and amounts on both sides of zero.                                 *)
(***************************************************************************)
EXTENDS Billing

CONSTANTS c1, c2,      \* customers
          i1, i2, i3   \* invoices

Billed == [i \in Invoices |-> IF i = i3 THEN c2 ELSE c1]
Cents == -1..3
=============================================================================
