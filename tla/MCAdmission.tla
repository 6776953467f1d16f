---- MODULE MCAdmission ----
EXTENDS Admission, VenueErrors
(* The budgets of the two tiers. *)
TwoTiers == [t \in {"Admin", "Read"} |-> IF t = "Admin" THEN 2 ELSE 1]
====
