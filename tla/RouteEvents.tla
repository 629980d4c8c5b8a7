----------------------------- MODULE RouteEvents -----------------------------
(***************************************************************************)
(* The life of one row of the routing decision ledger: which events fit    *)
(* which status, and what status they leave (appendEvent).  The fallback,  *)
(* escalation and exhausted events comment on a row that failed.           *)
(***************************************************************************)
Statuses == {"selected", "dispatched", "completed", "failed", "superseded"}
Kinds == {"launch", "capacity_pause", "failure", "fallback", "escalation",
          "completion", "exhausted"}

eventFits(kind, status) ==
    CASE kind = "launch" -> status \in {"selected", "dispatched"}
      [] kind \in {"failure", "completion", "capacity_pause"} ->
             status = "dispatched"
      [] OTHER -> status \in {"failed", "superseded"}

statusAfter(kind, status) ==
    CASE kind = "launch" -> "dispatched"
      [] kind = "failure" -> "failed"
      [] kind = "completion" -> "completed"
      [] OTHER -> status
=============================================================================
