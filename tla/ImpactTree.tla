------------------------------ MODULE ImpactTree ------------------------------
(***************************************************************************)
(* The footprint adapter (internal/scaleway/footprint.go): ImpactData      *)
(* flattens the API's tree of projects, regions, zones and SKUs into rows. *)
(* A node is a record or Nil, its children a sequence; an impact is in     *)
(* whole kilograms and cubic meters.  A nil node has no rows.              *)
(***************************************************************************)
EXTENDS Integers, SequencesExt, FiniteSetsExt

CONSTANT Nil    \* the nil pointer

RegionalZone == ""

(* scaledFloat32(kg, 3): decimal scaling, exact. *)
KgToGrams(kg) == 1000 * kg

(* Faulty: the row of a SKU does not have its zone. *)
AppendSKUsRegional(project, region, zone, skus) ==
  FlattenSeq([i \in DOMAIN skus |->
    IF skus[i] = Nil \/ skus[i].impact = Nil THEN <<>>
    ELSE <<[key |-> <<project, region, RegionalZone, skus[i].category>>,
            carbon |-> KgToGrams(skus[i].impact.kg), water |-> skus[i].impact.m3]>>])

(* The rows of the SKUs of a zone, or of a region itself. *)
AppendSKUs(project, region, zone, skus) ==
  FlattenSeq([i \in DOMAIN skus |->
    IF skus[i] = Nil \/ skus[i].impact = Nil THEN <<>>
    ELSE <<[key |-> <<project, region, zone, skus[i].category>>,
            carbon |-> KgToGrams(skus[i].impact.kg), water |-> skus[i].impact.m3]>>])

ZoneRows(project, region, z) ==
  IF z = Nil THEN <<>> ELSE AppendSKUs(project, region, z.zone, z.skus)

RegionRows(project, r) ==
  IF r = Nil THEN <<>>
  ELSE AppendSKUs(project, r.region, RegionalZone, r.skus)
       \o FlattenSeq([i \in DOMAIN r.zones |-> ZoneRows(project, r.region, r.zones[i])])

ProjectRows(p) ==
  IF p = Nil THEN <<>>
  ELSE FlattenSeq([i \in DOMAIN p.regions |-> RegionRows(p.id, p.regions[i])])

(* Report.Rows *)
Rows(tree) == FlattenSeq([i \in DOMAIN tree |-> ProjectRows(tree[i])])

(* Report.ProjectCarbonGrams: the last total of a project wins. *)
ProjectCarbonGrams(tree) ==
  LET totals == {i \in DOMAIN tree : tree[i] # Nil /\ tree[i].total # Nil}
      last(id) == Max({i \in totals : tree[i].id = id})
  IN  [id \in {tree[i].id : i \in totals} |-> KgToGrams(tree[last(id)].total)]
=============================================================================
