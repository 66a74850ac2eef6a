--------------------------- MODULE MCMetricGraph ---------------------------
(* MetricGraph on small instances; derived metrics and syncs are interchangeable. *)
EXTENDS MetricGraph, TLC

CatalogSymmetry == Permutations(Derived) \cup Permutations(Syncer)
=============================================================================
