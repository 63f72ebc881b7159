-------------------------- MODULE CompliancePercent --------------------------
(***************************************************************************)
(* The percentage on the card of a compliance framework, as                *)
(* get_compliance_framework_stats.go:72 rounds it: half up.                *)
(***************************************************************************)
EXTENDS Naturals

Percent(passing, total) == (200 * passing + total) \div (2 * total)
=============================================================================
