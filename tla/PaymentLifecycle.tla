-------------------------- MODULE PaymentLifecycle --------------------------
(***************************************************************************)
(* The state machine of a payment order (internal/payment/domain).          *)
(***************************************************************************)

\* "NONE" marks an order that has not been created; the others are the
\* statuses of lifecycle.go.  No code path creates a DRAFT.
PaymentStatus == {"NONE", "DRAFT", "AWAITING_CONFIRMATION", "SCHEDULED",
                  "PROCESSING", "BOOKED", "FAILED", "CANCELLED"}

Terminal == {"BOOKED", "FAILED", "CANCELLED"}

allowedTransitions ==
  [s \in PaymentStatus |->
     CASE s = "DRAFT" -> {"CANCELLED"}
       [] s = "AWAITING_CONFIRMATION" -> {"SCHEDULED", "PROCESSING", "CANCELLED"}
       [] s = "SCHEDULED" -> {"PROCESSING", "CANCELLED"}
       [] s = "PROCESSING" -> {"SCHEDULED", "BOOKED", "FAILED"}
       [] OTHER -> {}]

ValidateTransition(from, to) == to \in allowedTransitions[from]
=============================================================================
