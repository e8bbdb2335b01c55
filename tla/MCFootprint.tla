------------------------------ MODULE MCFootprint ------------------------------
(***************************************************************************)
(* A calendar of months of two or three days, and trees that lack some of  *)
(* their parts.                                                            *)
(***************************************************************************)
EXTENDS Footprint

MCFirstDay == <<-2, 1, 3, 6, 8>>

Sku(category, kg) == [category |-> category, impact |-> [kg |-> kg, m3 |-> 1]]
Project(id, total, regions) == [id |-> id, total |-> total, regions |-> regions]
Region(skus, zones) == [region |-> "fr", skus |-> skus, zones |-> zones]
Zone(zone, skus) == [zone |-> zone, skus |-> skus]

(* One SKU in a region and in each of its zones, one of them twice. *)
Full == Project("p", 10, <<Region(<<Sku("a", 1)>>,
          <<Zone("z1", <<Sku("a", 2)>>), Zone("z2", <<Sku("a", 3), Sku("a", 4)>>)>>)>>)

(* Every kind of node may be nil; the total tells that SKUs are missing. *)
Partial == Project("p", 3, <<Nil, Region(<<Nil, Sku("b", 1)>>,
             <<Nil, Zone("z1", <<[category |-> "a", impact |-> Nil]>>)>>)>>)

MCTrees == { <<>>, <<Nil, Partial>>,
             <<Project("p", Nil, <<>>), Full, Project("q", 0, <<Region(<<>>, <<>>)>>)>> }
=============================================================================
