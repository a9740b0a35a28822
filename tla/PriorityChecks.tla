--------------------------- MODULE PriorityChecks ---------------------------
(***************************************************************************)
(* What the check chain promises: a set of prioritised checks, of which    *)
(* the first that objects decides.  CheckChain.tla implements it.          *)
(***************************************************************************)
CONSTANTS Calls, Checks, Objects(_, _), Before(_, _)

VARIABLES registered, facing, verdict, culprit

vars == <<registered, facing, verdict, culprit>>

Init ==
  /\ registered = {}
  /\ facing = [p \in Calls |-> {}]
  /\ verdict = [p \in Calls |-> "none"]
  /\ culprit = [p \in Calls |-> {}]

Register ==
  /\ \E c \in Checks \ registered : registered' = registered \cup {c}
  /\ UNCHANGED <<facing, verdict, culprit>>

\* A call faces the checks registered at one moment.
Start(p) ==
  /\ verdict[p] = "none"
  /\ facing' = [facing EXCEPT ![p] = registered]
  /\ verdict' = [verdict EXCEPT ![p] = "pending"]
  /\ UNCHANGED <<registered, culprit>>

Allow(p) ==
  /\ verdict[p] = "pending"
  /\ \A c \in facing[p] : ~Objects(c, p)
  /\ verdict' = [verdict EXCEPT ![p] = "allowed"]
  /\ UNCHANGED <<registered, facing, culprit>>

Reject(p) ==
  /\ verdict[p] = "pending"
  /\ \E c \in facing[p] :
       /\ Objects(c, p)
       /\ \A d \in facing[p] : Objects(d, p) => d = c \/ Before(c, d)
       /\ culprit' = [culprit EXCEPT ![p] = {c}]
  /\ verdict' = [verdict EXCEPT ![p] = "rejected"]
  /\ UNCHANGED <<registered, facing>>

Next == Register \/ \E p \in Calls : Start(p) \/ Allow(p) \/ Reject(p)

Spec == Init /\ [][Next]_vars
=============================================================================
