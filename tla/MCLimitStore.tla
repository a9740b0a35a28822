---------------------------- MODULE MCLimitStore ----------------------------
(***************************************************************************)
(* A finite instance of LimitStore.tla: two users, one of whom also has a  *)
(* row under another spelling.                                             *)
(***************************************************************************)
EXTENDS LimitStore

MCEmails == {"asha", "Asha", "ravi"}
MCLower == [e \in MCEmails |-> IF e = "Asha" THEN "asha" ELSE e]

\* Caps of his own, and a frozen user without the breaker or the confirmation.
MCOperatorRows ==
  {[cap |-> 5, autoFreeze |-> TRUE, requireConfirm |-> FALSE, frozen |-> FALSE],
   [cap |-> 0, autoFreeze |-> FALSE, requireConfirm |-> TRUE, frozen |-> TRUE]}
=============================================================================
