-------------------------- MODULE MCIncidentStatus --------------------------
(***************************************************************************)
(* Instances of IncidentStatus for TLC: two handlers in a race, up to      *)
(* MaxRequests requests from the creation of the incident on.              *)
(***************************************************************************)
EXTENDS IncidentStatus, TLC

CONSTANTS h1, h2

Symmetry == Permutations(Handler)
=============================================================================
