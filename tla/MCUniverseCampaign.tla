-------------------------- MODULE MCUniverseCampaign --------------------------
(* Two campaigns of one universe, the first of which measures the seed; one   *)
(* queue, one command line and one owner who pauses or stops.                 *)
EXTENDS UniverseCampaign
==============================================================================
