-------------------------- MODULE IncidentLifeCycle --------------------------
(***************************************************************************)
(* The life cycle of an incident: IncidentStatus and ALLOWED_TRANSITIONS   *)
(* of services/incident/app/main.py.                                       *)
(***************************************************************************)

\* IncidentStatus.
Status == {"detected", "analyzing", "review_required", "approved", "in_progress", "resolved"}

\* ALLOWED_TRANSITIONS.
AllowedEarly == [s \in Status |-> \* defect: approval is enough for resolution
    CASE s = "detected"        -> {"analyzing"}
      [] s = "analyzing"       -> {"review_required", "approved"}
      [] s = "review_required" -> {"approved"}
      [] s = "approved"        -> {"in_progress", "resolved"}
      [] s = "in_progress"     -> {"resolved"}
      [] s = "resolved"        -> {}]

Allowed == [s \in Status |->
    CASE s = "detected"        -> {"analyzing"}
      [] s = "analyzing"       -> {"review_required", "approved"}
      [] s = "review_required" -> {"approved"}
      [] s = "approved"        -> {"in_progress"}
      [] s = "in_progress"     -> {"resolved"}
      [] s = "resolved"        -> {}]
=============================================================================
