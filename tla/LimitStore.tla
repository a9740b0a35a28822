----------------------------- MODULE LimitStore -----------------------------
(***************************************************************************)
(* Per-user limits in memory and in the risk_limits table (limits.go, the  *)
(* freezes of lifecycle.go): an operator edits rows, freezes write through *)
(* with a statement that may fail, the server restarts and loads them, and *)
(* may load them again while it serves.                                    *)
(*                                                                         *)
(* One cap stands for the five that GetEffectiveLimits treats alike: 0     *)
(* inherits the system default.  Rows are keyed by the e-mail as written,  *)
(* memory by its lower case.                                               *)
(***************************************************************************)
EXTENDS Integers, FiniteSets

CONSTANTS
  Emails, Lower,       \* spellings of e-mails, strings.ToLower on them
  OperatorRows,        \* rows an operator may write into the table
  DefaultCap,          \* SystemDefaults
  MaxSaves, MaxEdits, MaxRestarts          \* bounds of a finite instance

Users == {Lower[e] : e \in Emails}
Limits == [cap : Nat, autoFreeze : BOOLEAN, requireConfirm : BOOLEAN, frozen : BOOLEAN]

ASSUME LimitStoreAssumption ==
  /\ IsFiniteSet(Emails) /\ Lower \in [Emails -> Emails]
  /\ \A e \in Emails : Lower[Lower[e]] = Lower[e]
  /\ {"unread", "stale"} \cap Emails = {}
  /\ OperatorRows \subseteq Limits
  /\ DefaultCap \in Nat \ {0}
  /\ MaxSaves \in Nat /\ MaxEdits \in Nat /\ MaxRestarts \in Nat

VARIABLES
  memory,              \* g.limits
  table,               \* the rows of risk_limits
  schema,              \* "missing", "old" (columns to migrate) or "new"
  phase,               \* "down", "loading" (limits not read yet) or "serving"
  complete,            \* a LoadLimits since the start has read every row
  cursor,              \* the result set of a LoadLimits that waits for g.mu
  promise,             \* history: last freeze decision saved, "none" if its save
                       \* failed or its row was edited
  origin,              \* history: the row a user's record is from
  before,              \* history, until the load: policies when the server went down
  saves, edits, restarts                   \* consumed bounds

bounds == <<saves, edits, restarts>>
vars == <<memory, table, schema, phase, complete, cursor, promise, origin, before, bounds>>

NoCursor == [open |-> FALSE, rows |-> <<>>]

Put(map, k, v) == [j \in DOMAIN map \cup {k} |-> IF j = k THEN v ELSE map[j]]

RowsOf(u) == {e \in DOMAIN table : Lower[e] = u}

\* A record made on demand inherits the caps and copies the two switches, which
\* have no value that means "inherit".
getOrCreateLimitsMutant(u) ==
  IF u \in DOMAIN memory THEN memory[u]
  ELSE [cap |-> 0, autoFreeze |-> FALSE, requireConfirm |-> FALSE, frozen |-> FALSE]
getOrCreateLimits(u) ==
  IF u \in DOMAIN memory THEN memory[u]
  ELSE [cap |-> 0, autoFreeze |-> TRUE, requireConfirm |-> TRUE, frozen |-> FALSE]

SystemDefaults == [cap |-> DefaultCap, autoFreeze |-> TRUE, requireConfirm |-> TRUE]

\* What the checks see of a user's policy, the freeze aside.
GetEffectiveLimits(u) ==
  IF u \in DOMAIN memory
  THEN [cap |-> IF memory[u].cap = 0 THEN DefaultCap ELSE memory[u].cap,
        autoFreeze |-> memory[u].autoFreeze,
        requireConfirm |-> memory[u].requireConfirm]
  ELSE SystemDefaults

IsFrozen(u) == u \in DOMAIN memory /\ memory[u].frozen

\* Rows of an older server, as the DEFAULTs of the added columns complete them.
MigratedRows ==
  {[r EXCEPT !.autoFreeze = TRUE, !.requireConfirm = TRUE] : r \in OperatorRows}

Init ==
  /\ memory = <<>>
  /\ \/ schema = "missing" /\ table = <<>>
     \/ schema = "old" /\ \E rows \in SUBSET Emails : table \in [rows -> MigratedRows]
  /\ phase = "down" /\ complete = FALSE
  /\ cursor = NoCursor
  /\ promise = [u \in Users |-> "none"]
  /\ origin = [u \in Users |-> "unread"]
  /\ before = [u \in Users |-> SystemDefaults]
  /\ saves = 0 /\ edits = 0 /\ restarts = 0

\* InitTable: the ALTERs that add the missing columns may fail, unnoticed, on a
\* table just created too (when the CREATE fails the server gets the error and
\* does not come up).
InitTable ==
  /\ phase = "down" /\ phase' = "loading"
  /\ schema' \in {"new"} \cup (IF schema = "new" THEN {} ELSE {"old"})
  /\ UNCHANGED <<memory, table, complete, cursor, promise, origin, before, bounds>>

\* LoadLimits queries before it waits for g.mu.  A table without its columns
\* cannot be queried, and the server comes up without it.
QueryLimits ==
  /\ phase \in {"loading", "serving"} /\ ~cursor.open
  /\ IF schema = "new"
     THEN cursor' = [open |-> TRUE, rows |-> table] /\ UNCHANGED <<phase, before>>
     ELSE /\ phase = "loading" /\ phase' = "serving"
          /\ before' = [u \in Users |-> SystemDefaults]
          /\ UNCHANGED cursor
  /\ UNCHANGED <<memory, table, schema, complete, promise, origin, bounds>>

\* Which record each user gets: some rows are read, up to an error, or all;
\* among rows that differ in spelling only, the last one read stays.
LastRead(rows) ==
  {last \in [{Lower[e] : e \in rows} -> rows] : \A u \in DOMAIN last : Lower[last[u]] = u}

\* Where a record read from row e is from: the row has changed since the query
\* if a save or an edit came in between.
OriginOf(e) == IF cursor.rows[e] = table[e] THEN e ELSE "stale"

\* With g.mu: the rows replace what memory has of their users and of no others.
MergeLimitsMutant ==
  /\ cursor.open /\ cursor' = NoCursor
  /\ \E rows \in SUBSET DOMAIN cursor.rows :
       /\ memory' = [e \in rows |-> cursor.rows[e]]
       /\ complete' = (rows = DOMAIN cursor.rows)
  /\ phase' = "serving"
  /\ UNCHANGED <<table, schema, promise, origin, before, bounds>>
MergeLimits ==
  /\ cursor.open /\ cursor' = NoCursor
  /\ \E rows \in SUBSET DOMAIN cursor.rows : \E last \in LastRead(rows) :
       /\ memory' = [u \in DOMAIN memory \cup DOMAIN last |->
                       IF u \in DOMAIN last THEN cursor.rows[last[u]] ELSE memory[u]]
       /\ origin' = [u \in Users |->
                       IF u \in DOMAIN last THEN OriginOf(last[u]) ELSE origin[u]]
       /\ complete' = (complete \/ rows = DOMAIN cursor.rows)
  /\ phase' = "serving"
  /\ before' = [u \in Users |-> SystemDefaults]
  /\ UNCHANGED <<table, schema, promise, bounds>>

\* persistLimits: the upsert of the whole record succeeds, or its error is
\* logged and forgotten.
persistLimitsMutant(u, l) ==
  /\ schema = "new"
  /\ table' = Put(table, u, IF u \in DOMAIN memory THEN memory[u] ELSE l)
  /\ promise' = [promise EXCEPT ![u] = IF l.frozen THEN "frozen" ELSE "open"]
  /\ origin' = [origin EXCEPT ![u] = u]
persistLimits(u, l) ==
  \/ /\ schema = "new"
     /\ table' = Put(table, u, l)
     /\ promise' = [promise EXCEPT ![u] = IF l.frozen THEN "frozen" ELSE "open"]
     /\ origin' = [origin EXCEPT ![u] = u]
  \/ /\ promise' = [promise EXCEPT ![u] = "none"]
     /\ UNCHANGED <<table, origin>>

Save(u, l) ==
  /\ phase = "serving" /\ saves < MaxSaves
  /\ saves' = saves + 1
  /\ memory' = Put(memory, u, l)
  /\ persistLimits(u, l)
  /\ UNCHANGED <<schema, phase, complete, cursor, before, edits, restarts>>

Freeze(e) ==
  Save(Lower[e], [getOrCreateLimits(Lower[e]) EXCEPT !.frozen = TRUE])

Unfreeze(e) ==
  Save(Lower[e], [getOrCreateLimits(Lower[e]) EXCEPT !.frozen = FALSE])

\* The circuit breaker, when enough rejections are in the window.
checkAutoFreeze(u) ==
  /\ GetEffectiveLimits(u).autoFreeze
  /\ ~IsFrozen(u)
  /\ Save(u, [getOrCreateLimits(u) EXCEPT !.frozen = TRUE])

\* External: the only way to give a user caps of his own.
OperatorEdit(e, row) ==
  /\ schema = "new" /\ edits < MaxEdits
  /\ edits' = edits + 1
  /\ table' = Put(table, e, row)
  /\ promise' = IF e \in Users THEN [promise EXCEPT ![e] = "none"] ELSE promise
  /\ UNCHANGED <<memory, schema, phase, complete, cursor, origin, before, saves, restarts>>

\* A crash or a stop: memory is gone at any moment, also before the load.
Restart ==
  /\ phase # "down" /\ restarts < MaxRestarts
  /\ restarts' = restarts + 1
  /\ before' = IF phase = "serving"
               THEN [u \in Users |-> GetEffectiveLimits(u)] ELSE before
  /\ phase' = "down" /\ memory' = <<>> /\ complete' = FALSE /\ cursor' = NoCursor
  /\ origin' = [u \in Users |-> "unread"]
  /\ UNCHANGED <<table, schema, promise, saves, edits>>

Rest ==
  /\ phase = "serving" /\ saves = MaxSaves /\ restarts = MaxRestarts
  /\ UNCHANGED vars

Next ==
  \/ InitTable \/ QueryLimits \/ MergeLimits \/ Restart \/ Rest
  \/ \E e \in Emails : Freeze(e) \/ Unfreeze(e) \/ \E row \in OperatorRows : OperatorEdit(e, row)
  \/ \E u \in Users : checkAutoFreeze(u)

Spec == Init /\ [][Next]_vars

----------------------------------------------------------------------------
\* Every variable stays in its range; memory is keyed by lower-case e-mails.
TypeOK ==
  /\ DOMAIN memory \subseteq Users /\ \A u \in DOMAIN memory : memory[u] \in Limits
  /\ DOMAIN table \subseteq Emails /\ \A e \in DOMAIN table : table[e] \in Limits
  /\ schema \in {"missing", "old", "new"}
  /\ phase \in {"down", "loading", "serving"}
  /\ complete \in BOOLEAN
  /\ cursor.open \in BOOLEAN /\ DOMAIN cursor.rows \subseteq Emails
  /\ \A e \in DOMAIN cursor.rows : cursor.rows[e] \in Limits
  /\ promise \in [Users -> {"none", "frozen", "open"}]
  /\ origin \in [Users -> Emails \cup {"unread", "stale"}]
  /\ saves \in 0..MaxSaves /\ edits \in 0..MaxEdits /\ restarts \in 0..MaxRestarts

\* The user's record is not the row his decisions are saved to: it is from a row
\* under another spelling, the last one LoadLimits read (limits.go:337) ...
Misspelt(u) == origin[u] \notin {u, "unread", "stale"}
\* ... or no load since the start has reached his rows: every one failed or
\* stopped early (limits.go:308, :319).
NotReached(u) == origin[u] = "unread" /\ ~complete

\* A freeze or an unfreeze that was saved is in force whenever the server runs,
\* through crashes between memory and table, failed later saves of others,
\* repeated and partial loads.  The code loses it in three ways and no other:
\* NotReached, Misspelt, or the record is stale, read before the save and merged
\* after it (limits.go:306).
FreezeDurable ==
  phase = "serving" =>
    \A u \in Users : promise[u] # "none" =>
      \/ IsFrozen(u) <=> promise[u] = "frozen"
      \/ NotReached(u) \/ Misspelt(u) \/ origin[u] = "stale"

\* The user's policy, while the server is down the one it went down with.
InForce(u) == IF phase = "serving" THEN GetEffectiveLimits(u) ELSE before[u]

\* The policy a row means once it is loaded.
Effective(l) ==
  [cap |-> IF l.cap = 0 THEN DefaultCap ELSE l.cap,
   autoFreeze |-> l.autoFreeze, requireConfirm |-> l.requireConfirm]

\* What is in force is what every row of the user says, in the table and in an
\* open result set; without a row it is the defaults.
Steady(u) ==
  /\ \A e \in RowsOf(u) : Effective(table[e]) = InForce(u)
  /\ \A e \in DOMAIN cursor.rows : Lower[e] = u => Effective(cursor.rows[e]) = InForce(u)
  /\ RowsOf(u) = {} => InForce(u) = SystemDefaults

\* The server comes up without having read the user's rows.
ComesUpWithout(u) ==
  /\ phase # "serving" /\ phase' = "serving"
  /\ origin'[u] = "unread" /\ RowsOf(u) # {}

\* The rows of u differ among each other or have changed since the query.
Unsettled(u) ==
  \E e, f \in RowsOf(u) :
    \/ Effective(table[e]) # Effective(table[f])
    \/ e \notin DOMAIN cursor.rows \/ cursor.rows[e] # table[e]

\* Caps and switches that memory and rows agree on stay in force and in the rows
\* through freezes, unfreezes, the breaker, loads and restarts (a record made
\* for a freeze inherits, and a saved 0 still does), until an operator edits a
\* row of the user or a start does not read him: then the defaults are in force
\* (limits.go:308, :319), and his next freeze writes them over his row.  A start
\* that reads all rows brings everyone's in force again; a row that memory does
\* not agree with is lost at the user's next freeze (limits.go:233).
PolicyKept ==
  [][/\ \A u \in Users : Steady(u) =>
          \/ Steady(u)' /\ InForce(u)' = InForce(u)
          \/ ComesUpWithout(u)
          \/ \E e \in Emails, row \in OperatorRows :
               Lower[e] = u /\ OperatorEdit(e, row)
     /\ (phase = "loading" /\ phase' = "serving" /\ complete') =>
          \A u \in Users : Steady(u)' \/ Unsettled(u)]_vars
=============================================================================
