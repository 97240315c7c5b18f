----------------------------- MODULE MCGeneralCron -----------------------------
(* Instances of GeneralCron for TLC. *)
EXTENDS GeneralCron, TLC

CONSTANTS l1

\* By the order of their names: ai_catalog_maintenance,
\* data_quality_remediation_sweep, product_search_projection_repair.
DueEachTick == (0 :> {3}) @@ (1 :> {2, 3})
Floors == <<21, 37, 8>>
================================================================================
