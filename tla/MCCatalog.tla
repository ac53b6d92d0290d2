----------------------------- MODULE MCCatalog -----------------------------
(* A small instance of Catalog. *)
EXTENDS Catalog, TLC

CONSTANTS p1, p2, i1, i2, f1, f2, r1, r2, r3

Bare(call) == [Reading EXCEPT !.call = call]
Priced(call, prices) == [Bare(call) EXCEPT !.prices = prices, !.repriced = TRUE]
Both(flag) == [i \in Intervals |-> flag]
Only(i, flag) == [j \in {i} |-> flag]

Creations ==
  {[Priced("createPackage", Both("unset")) EXCEPT !.features = {f1}, !.initial = "yes"],
   [Priced("createPackage", Both("yes")) EXCEPT !.features = {f1}]}
Renamings ==   \* updates without prices and features
  {[Bare("updatePackage") EXCEPT !.initial = flag] : flag \in {"yes", "unset"}}
Repricings ==
  {Priced("updatePackage", prices) :
     prices \in {NoPrices, Both("yes")} \cup {Only(i, "unset") : i \in Intervals}}
Refittings ==
  {[Bare("updatePackage") EXCEPT !.features = {f1}]}
Overhauls ==
  {[Priced("updatePackage", Both("yes")) EXCEPT !.features = {f1, f2}, !.initial = "yes"]}
Elections ==
  {[Bare("updatePackageIsInitial") EXCEPT !.initial = flag] : flag \in {"yes", "no"}}
OnePrice ==
  UNION {{Priced("createPackagePrice", Only(i, "yes")),
          Priced("updatePackagePrice", Only(i, "yes")),
          Priced("deletePackagePrice", Only(i, "unset"))} : i \in Intervals}
Rest ==
  {Bare(call) : call \in Restores \cup Deletions}
    \cup {Priced("createPackagePrices", Both("yes"))}

AllAsks ==
  {Reading} \cup Renamings \cup Elections \cup OnePrice \cup Creations
    \cup Repricings \cup Refittings \cup Overhauls \cup Rest
ShortAsks ==
  {Reading} \cup {q \in Renamings : q.initial = "yes"}
    \cup {q \in Elections : q.initial = "yes"}
    \cup {q \in OnePrice : q.call = "updatePackagePrice"}

CatalogSymmetry ==
  Permutations(Requests) \cup Permutations(Intervals)
=============================================================================
