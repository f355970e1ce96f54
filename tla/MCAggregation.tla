---------------------------- MODULE MCAggregation ----------------------------
(* An instance of Aggregation for TLC: two passes, one of which may be        *)
(* overtaken or die, and facts enough for a request to land in mid-pass.      *)
EXTENDS Aggregation
=============================================================================
