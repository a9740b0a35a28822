---------------------------- MODULE MCCheckChain ----------------------------
(***************************************************************************)
(* Finite instances of CheckChain.tla: two built-ins and a host check that *)
(* shares its Order with a plugin, a manifest with a broken row.           *)
(***************************************************************************)
EXTENDS CheckChain

MCCalls == {1, 2}
MCHostChecks == {[name |-> "kill_switch", order |-> 1], [name |-> "rate", order |-> 3],
                 [name |-> "host", order |-> 2]}
MCManifest ==
  <<[name |-> "plugin", order |-> 2, executable |-> "bin"],
    [name |-> "broken", order |-> 2, executable |-> ""],
    [name |-> "early", order |-> 0, executable |-> "bin"]>>

MCOutcome ==
  <<[c \in {"kill_switch", "rate", "host", "plugin", "early", "broken"} |->
       IF c \in {"host", "plugin"} THEN "reject" ELSE "allow"],
    [c \in {"kill_switch", "rate", "host", "plugin", "early", "broken"} |->
       IF c = "early" THEN "panic" ELSE "allow"]>>
=============================================================================
