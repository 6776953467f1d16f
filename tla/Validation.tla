----------------------------- MODULE Validation -----------------------------
(***************************************************************************)
(* Checks made one after the other, as the `?` of the code makes them: the *)
(* answer of a check is the set of its errors, {} when it passes.          *)
(***************************************************************************)
EXTENDS Naturals

(* The first error of several checks made one after the other.             *)
FirstError(checks) ==
  UNION {checks[i] : i \in {i \in DOMAIN checks :
                              \A j \in DOMAIN checks : j < i => checks[j] = {}}}

When(condition, error) == IF condition THEN {error} ELSE {}
=============================================================================
