--------------------------- MODULE BookingStatus ---------------------------
(* The statuses of a booking and the moves changeBookingStatus allows.     *)

BookingStatuses == {"DRAFT", "PENDING", "AWAITING_PAYMENT", "PARTIALLY_PAID", "CONFIRMED",
                    "IN_PROGRESS", "COMPLETED", "CANCELLED", "REFUNDED"}

Transitions ==
  [DRAFT            |-> {"PENDING", "AWAITING_PAYMENT", "CANCELLED"},
   PENDING          |-> {"AWAITING_PAYMENT", "PARTIALLY_PAID", "CONFIRMED", "CANCELLED"},
   AWAITING_PAYMENT |-> {"PARTIALLY_PAID", "CONFIRMED", "CANCELLED"},
   PARTIALLY_PAID   |-> {"CONFIRMED", "CANCELLED", "REFUNDED"},
   CONFIRMED        |-> {"IN_PROGRESS", "COMPLETED", "CANCELLED", "REFUNDED"},
   IN_PROGRESS      |-> {"COMPLETED", "CANCELLED"},
   COMPLETED        |-> {"REFUNDED"},
   CANCELLED        |-> {"REFUNDED"},
   REFUNDED         |-> {}]

\* The check of changeBookingStatus: refused unless the table allows the move.
MayMove(from, to) == to \in Transitions[from]

\* applyPaymentTotals advances a booking only from these.
Advanceable == {"PENDING", "AWAITING_PAYMENT", "PARTIALLY_PAID"}
=============================================================================
