------------------------------- MODULE MCBilling -------------------------------
(***************************************************************************)
(* Reports for Billing: a SKU renamed, the same series twice, a foreign    *)
(* row, a free row without currency, organization or SKU, the row of a     *)
(* project that is not selected, and taxes of one description at two       *)
(* rates, one of them in another currency.                                 *)
(***************************************************************************)
EXTENDS Billing, SequencesExt

Row(org, project, product, sku, amount, currency) ==
  [org |-> org, project |-> project, name |-> "team", product |-> product, sku |-> sku,
   amount |-> amount, currency |-> currency]

Rows == { Row("org", "p1", "old", "sku1",  3, "EUR"),
          Row("org", "p1", "new", "sku1",  2, "EUR"),
          Row("org", "p1", "new", "sku2",  4, "USD"),
          Row("",    "p1", "old", "",      0, ""),
          Row("org", "p2", "old", "sku1", -1, "EUR") }

Tax(amount, currency, rate) ==
  [description |-> "VAT", amount |-> amount, currency |-> currency, rate |-> rate]

MCConsumptionReports ==
  {[rows |-> rows, discount |-> 1, updated |-> Len(rows)] :
     rows \in {s \in SetToAllKPermutations(Rows) : Len(s) <= 2}}

MCTaxReports ==
  {[taxes |-> taxes, updated |-> 1] :
     taxes \in { <<>>, <<Tax(1, "EUR", 20), Tax(2, "EUR", 10)>>,
                 <<Tax(5, "USD", 20), Tax(2, "EUR", 10)>> }}
=============================================================================
