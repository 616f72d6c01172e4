-------------------------------- MODULE MCReads --------------------------------
(***************************************************************************)
(* Instances of Reads for TLC.                                             *)
(***************************************************************************)
EXTENDS ReadsProperties

\* A whole lease whose bills are not stated, and a longer one far away that may
\* be taken for two months or more.
MCTerms ==
  {[price |-> 1, bills |-> Null, distance |-> 2, start |-> 1, end |-> 2, furnished |-> TRUE, minStay |-> Null],
   [price |-> 2, bills |-> 1, distance |-> Null, start |-> 1, end |-> 3, furnished |-> FALSE, minStay |-> 2]}

MCWishes ==
  {[budget |-> 2, maxDistance |-> Null, start |-> 1, end |-> 2, furnished |-> TRUE],
   [budget |-> 1, maxDistance |-> 1, start |-> 1, end |-> 1, furnished |-> FALSE]}

\* Every filter, in an order that goes with it, and two that are refused.
MCFilters ==
  {Everything,
   [Everything EXCEPT !.sort = "priceDesc", !.verifiedOnly = TRUE, !.allInMax = 3],
   [Everything EXCEPT !.sort = "distance", !.distanceMax = 2],
   [Everything EXCEPT !.sort = "allInAsc"],
   [Everything EXCEPT !.sort = "priceAsc", !.furnished = TRUE, !.priceMax = 2],
   [Everything EXCEPT !.sort = "match", !.start = 1, !.end = 2],
   [Everything EXCEPT !.start = 2, !.end = 2, !.priceMin = 1],
   [Everything EXCEPT !.start = 2, !.end = 1],
   [Everything EXCEPT !.priceMin = 2, !.priceMax = 1]}

\* The order an edit of the price or of the bills changes.
MCWalked == {f \in MCFilters : f.sort = "allInAsc"}
================================================================================
