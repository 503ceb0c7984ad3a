--------------------------- MODULE WorkflowStates ---------------------------
(***************************************************************************)
(* The states of a workflow run and the transitions the durable table      *)
(* accepts (backend/app/workflows/service.py, _LEGAL_TRANSITIONS).         *)
(***************************************************************************)

ActiveStates == {"pending", "running", "cancel_requested"}

TerminalStates == {"succeeded", "failed", "timeout", "cancelled", "cancel_failed"}

RunStates == ActiveStates \cup TerminalStates

\* Variant: a run whose cancellation was requested may be started again.
LegalTransitionsResume(s) ==
    CASE s = "pending" -> {"running", "cancel_requested", "cancelled", "failed", "timeout"}
      [] s = "running" -> {"cancel_requested", "succeeded", "failed", "timeout"}
      [] s = "cancel_requested" -> {"running", "cancelled", "succeeded", "failed", "timeout"}
      [] OTHER -> {}

LegalTransitions(s) ==
    CASE s = "pending" ->
            {"running", "cancel_requested", "cancelled", "failed", "timeout"}
      [] s = "running" ->
            {"cancel_requested", "succeeded", "failed", "timeout"}
      [] s = "cancel_requested" ->
            {"cancelled", "cancel_failed", "succeeded", "failed", "timeout"}
      [] OTHER -> {}

=============================================================================
