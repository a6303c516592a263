------------------------------ MODULE MCCatalog -----------------------------
(* Instances of Catalog for TLC.  Titles and categories are model values.   *)
EXTENDS Catalog

\* The kinds an instance with vod and series titles only has to visit.
ProbedKindOrder == <<"vod", "series">>
VodOnly == <<"vod">>

=============================================================================
