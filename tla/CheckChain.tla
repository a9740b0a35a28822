----------------------------- MODULE CheckChain -----------------------------
(***************************************************************************)
(* The registered checks and how a call runs through them (guard.go) while *)
(* the host registers checks of its own and DiscoverPlugins works through  *)
(* plugins.json (plugin_discovery.go).  A check keeps its name, its Order  *)
(* and `at', its place in the sequence of registrations.                   *)
(***************************************************************************)
EXTENDS Integers, Sequences, FiniteSets

CONSTANTS
  Calls,               \* order calls, each a goroutine
  Outcome,             \* call -> check name -> "allow", "reject" or "panic"
  HostChecks,          \* checks the host registers: [name, order]
  Manifest             \* rows of plugins.json: [name, order, executable]

ASSUME CheckChainAssumption ==
  /\ IsFiniteSet(Calls) /\ IsFiniteSet(HostChecks)
  /\ \A h \in HostChecks : h.order \in Int
  /\ Manifest \in Seq([name : STRING, order : Int, executable : STRING])

VARIABLES
  checks,              \* g.checks
  registrations,       \* how many RegisterCheck calls there were
  hostLeft,            \* checks the host has still to register
  row, errors,         \* DiscoverPlugins: the next row, the rows that failed
  chain, position,     \* per call: its snapshot and how far it is in it
  verdict,             \* per call: "none", "pending", "allowed" or "rejected"
  culprit              \* per call: the check that rejected it, if any

vars == <<checks, registrations, hostLeft, row, errors, chain, position,
          verdict, culprit>>

Init ==
  /\ checks = <<>> /\ registrations = 0
  /\ hostLeft = HostChecks
  /\ row = 1 /\ errors = {}
  /\ chain = [p \in Calls |-> <<>>]
  /\ position = [p \in Calls |-> 0]
  /\ verdict = [p \in Calls |-> "none"]
  /\ culprit = [p \in Calls |-> {}]

\* How many checks stay in front of a new one: walking back from the end, the
\* first whose Order is not strictly greater stops the walk.
Ahead(order) ==
  CHOOSE k \in 0..Len(checks) :
    /\ \A i \in k + 1..Len(checks) : checks[i].order > order
    /\ k = 0 \/ checks[k].order <= order

insertCheckLockedMutant(name, order) ==
  LET k == Cardinality({i \in DOMAIN checks : checks[i].order < order})
      c == [name |-> name, order |-> order, at |-> registrations + 1]
  IN /\ checks' = SubSeq(checks, 1, k) \o <<c>> \o SubSeq(checks, k + 1, Len(checks))
     /\ registrations' = registrations + 1
insertCheckLockedMutant2(name, order) ==
  LET k == Ahead(order)
      c == [name |-> name, order |-> order, at |-> registrations + 1]
  IN /\ checks' = SubSeq(checks, 1, k) \o <<c>> \o SubSeq(checks, k + 2, Len(checks))
     /\ registrations' = registrations + 1
insertCheckLocked(name, order) ==
  LET k == Ahead(order)
      c == [name |-> name, order |-> order, at |-> registrations + 1]
  IN /\ checks' = SubSeq(checks, 1, k) \o <<c>> \o SubSeq(checks, k + 1, Len(checks))
     /\ registrations' = registrations + 1

RegisterCheck(h) ==
  /\ h \in hostLeft
  /\ hostLeft' = hostLeft \ {h}
  /\ insertCheckLocked(h.name, h.order)
  /\ UNCHANGED <<row, errors, chain, position, verdict, culprit>>

\* SubprocessCheckConfig.Validate.
Valid(entry) == entry.name # "" /\ entry.executable # ""

\* DiscoverPlugins: an invalid row is noted and the next one tried.
DiscoverPluginsMutant ==
  /\ row <= Len(Manifest)
  /\ IF Valid(Manifest[row])
     THEN /\ insertCheckLocked(Manifest[row].name, Manifest[row].order)
          /\ row' = row + 1
          /\ UNCHANGED errors
     ELSE /\ errors' = errors \cup {row}
          /\ row' = Len(Manifest) + 1
          /\ UNCHANGED <<checks, registrations>>
  /\ UNCHANGED <<hostLeft, chain, position, verdict, culprit>>
DiscoverPlugins ==
  /\ row <= Len(Manifest)
  /\ row' = row + 1
  /\ \/ /\ Valid(Manifest[row])
        /\ insertCheckLocked(Manifest[row].name, Manifest[row].order)
        /\ UNCHANGED errors
     \/ /\ ~Valid(Manifest[row])
        /\ errors' = errors \cup {row}
        /\ UNCHANGED <<checks, registrations>>
  /\ UNCHANGED <<hostLeft, chain, position, verdict, culprit>>

snapshotChecks(p) ==
  /\ verdict[p] = "none"
  /\ chain' = [chain EXCEPT ![p] = checks]
  /\ position' = [position EXCEPT ![p] = 1]
  /\ verdict' = [verdict EXCEPT ![p] = "pending"]
  /\ UNCHANGED <<checks, registrations, hostLeft, row, errors, culprit>>

\* safeEvaluate: a check that panics has rejected.
RefusesMutant(c, p) == Outcome[p][c.name] = "reject"
Refuses(c, p) == Outcome[p][c.name] # "allow"

\* The loop of CheckOrderCtx: one check a step, without the lock.
CheckOrderCtxMutant(p) ==
  /\ verdict[p] = "pending"
  /\ LET i == position[p]
         now == IF i <= Len(chain[p]) THEN checks[i] ELSE <<>> IN
     \/ /\ i > Len(chain[p])
        /\ verdict' = [verdict EXCEPT ![p] = "allowed"]
        /\ UNCHANGED <<position, culprit>>
     \/ /\ i <= Len(chain[p]) /\ Refuses(now, p)
        /\ verdict' = [verdict EXCEPT ![p] = "rejected"]
        /\ culprit' = [culprit EXCEPT ![p] = {now}]
        /\ UNCHANGED position
     \/ /\ i <= Len(chain[p]) /\ ~Refuses(now, p)
        /\ position' = [position EXCEPT ![p] = i + 1]
        /\ UNCHANGED <<verdict, culprit>>
  /\ UNCHANGED <<checks, registrations, hostLeft, row, errors, chain>>
CheckOrderCtx(p) ==
  /\ verdict[p] = "pending"
  /\ LET i == position[p] IN
     \/ /\ i > Len(chain[p])
        /\ verdict' = [verdict EXCEPT ![p] = "allowed"]
        /\ UNCHANGED <<position, culprit>>
     \/ /\ i <= Len(chain[p]) /\ Refuses(chain[p][i], p)
        /\ verdict' = [verdict EXCEPT ![p] = "rejected"]
        /\ culprit' = [culprit EXCEPT ![p] = {chain[p][i]}]
        /\ UNCHANGED position
     \/ /\ i <= Len(chain[p]) /\ ~Refuses(chain[p][i], p)
        /\ position' = [position EXCEPT ![p] = i + 1]
        /\ UNCHANGED <<verdict, culprit>>
  /\ UNCHANGED <<checks, registrations, hostLeft, row, errors, chain>>

Rest ==
  /\ hostLeft = {} /\ row > Len(Manifest)
  /\ \A p \in Calls : verdict[p] \notin {"none", "pending"}
  /\ UNCHANGED vars

Next ==
  \/ \E h \in HostChecks : RegisterCheck(h)
  \/ DiscoverPlugins
  \/ \E p \in Calls : snapshotChecks(p) \/ CheckOrderCtx(p)
  \/ Rest

Spec == Init /\ [][Next]_vars

----------------------------------------------------------------------------
Elements(seq) == {seq[i] : i \in DOMAIN seq}
Before(c, d) == c.order < d.order \/ (c.order = d.order /\ c.at < d.at)

\* Every variable stays in its range, and every check was registered once.
TypeOK ==
  /\ registrations = Len(checks) /\ Cardinality(Elements(checks)) = Len(checks)
  /\ {c.at : c \in Elements(checks)} = 1..registrations
  /\ hostLeft \subseteq HostChecks
  /\ row \in 1..Len(Manifest) + 1 /\ errors \subseteq DOMAIN Manifest
  /\ \A p \in Calls : position[p] \in 0..Len(chain[p]) + 1
  /\ verdict \in [Calls -> {"none", "pending", "allowed", "rejected"}]
  /\ \A p \in Calls : /\ culprit[p] \subseteq Elements(chain[p])
                      /\ Cardinality(culprit[p]) = IF verdict[p] = "rejected" THEN 1 ELSE 0

\* The chain is sorted by Order, checks of equal Order in the sequence of their
\* registration, however host and discovery interleave (insertCheckLocked).
ChainStable ==
  \A i, j \in DOMAIN checks : i < j => Before(checks[i], checks[j])

\* When discovery ends every valid row is in the chain and every other row is
\* in the error it returns: one broken plugin blocks no other.
NoPluginLost ==
  row > Len(Manifest) =>
    /\ errors = {i \in DOMAIN Manifest : ~Valid(Manifest[i])}
    /\ \A i \in DOMAIN Manifest \ errors :
         \E c \in Elements(checks) : /\ c.name = Manifest[i].name
                                     /\ c.order = Manifest[i].order

\* The code implements the promise: a call is decided by the first objection, by
\* priority, of the checks registered when it began; a check registered or moved
\* while the call runs through its snapshot is neither missed nor met twice.
AllChecks ==
  [name : {h.name : h \in HostChecks} \cup {Manifest[i].name : i \in DOMAIN Manifest},
   order : {h.order : h \in HostChecks} \cup {Manifest[i].order : i \in DOMAIN Manifest},
   at : 1..Cardinality(HostChecks) + Len(Manifest)]

Promise == INSTANCE PriorityChecks
  WITH Checks <- AllChecks, Objects <- Refuses,
       registered <- Elements(checks), facing <- [p \in Calls |-> Elements(chain[p])]

ImplementsPromise == Promise!Spec

\* A call is allowed only when no check it faced rejects or panics
\* (safeEvaluate fails closed).
FailClosed ==
  \A p \in Calls : verdict[p] = "allowed" =>
    \A c \in Elements(chain[p]) : Outcome[p][c.name] = "allow"
=============================================================================
