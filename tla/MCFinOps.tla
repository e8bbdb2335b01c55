------------------------------- MODULE MCFinOps -------------------------------
(***************************************************************************)
(* Charges for FinOps: two of one key, one with the labels of the folded   *)
(* series, a tie, a credit as large as a sum, a foreign charge with the    *)
(* latest update and a free one without a currency or an organization.     *)
(***************************************************************************)
EXTENDS FinOps

Charge(id, org, project, sku, resource, amount, currency, updated) ==
  [id |-> id, org |-> org, project |-> project, sku |-> sku, resource |-> resource,
   amount |-> amount, currency |-> currency, updated |-> updated]

MCCharges == { Charge(1, 1, 1, 1, 1,  3, "EUR", 1),
               Charge(2, 1, 1, 1, 2,  2, "EUR", 0),
               Charge(3, 1, 0, 9, 1,  5, "EUR", 1),
               Charge(4, 0, 2, 1, 1, -5, "EUR", 2),
               Charge(5, 1, 2, 2, 1,  4, "USD", 3),
               Charge(6, 0, 1, 1, 1,  0, "",    0) }
=============================================================================
