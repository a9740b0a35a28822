--------------------------- MODULE LimitStoreProofs ---------------------------
(***************************************************************************)
(* Freezes and limits across failed writes, repeated loads and restarts,   *)
(* for any users, spellings, operator rows and numbers of writes.          *)
(***************************************************************************)
EXTENDS LimitStore, TLAPS

\* A decision that counts as saved is in the row of its user.
Saved ==
  \A u \in Users : promise[u] # "none" =>
    u \in DOMAIN table /\ (table[u].frozen <=> promise[u] = "frozen")

\* Before it serves, the server has no records and has loaded nothing.
ColdStart ==
  phase # "serving" =>
    ~complete /\ memory = <<>> /\ \A u \in Users : origin[u] = "unread"

\* A result set holds no row the table lacks, and one that waits for the lock
\* has the row of every user whose saved decision is not in memory yet.
CursorView ==
  /\ DOMAIN cursor.rows \subseteq DOMAIN table
  /\ cursor.open =>
       \A u \in Users : promise[u] # "none" /\ origin[u] = "unread" =>
         u \in DOMAIN cursor.rows

IInv == TypeOK /\ Saved /\ ColdStart /\ CursorView /\ FreezeDurable
----------------------------------------------------------------------------
LEMMA UsersFacts ==
  /\ Users \subseteq Emails
  /\ \A e \in Emails : Lower[e] \in Users
  /\ \A u \in Users : Lower[u] = u
  /\ \A e \in Emails : e # "unread" /\ e # "stale"
<1> QED
  BY LimitStoreAssumption DEF Users

LEMMA LimitsFields ==
  ASSUME NEW l \in Limits
  PROVE  l.cap \in Nat /\ l.autoFreeze \in BOOLEAN /\ l.requireConfirm \in BOOLEAN
         /\ l.frozen \in BOOLEAN
<1> QED
  BY DEF Limits

\* The record a freeze or an unfreeze saves: the user's policy, and the flag.
LEMMA SavedRecord ==
  ASSUME TypeOK, NEW u \in Users, NEW b \in BOOLEAN
  PROVE  LET l == [getOrCreateLimits(u) EXCEPT !.frozen = b]
         IN  l \in Limits /\ l.frozen = b /\ Effective(l) = GetEffectiveLimits(u)
<1> DEFINE r == getOrCreateLimits(u)
           l == [r EXCEPT !.frozen = b]
<1>1. r \in Limits
  BY DEF getOrCreateLimits, TypeOK, Limits
<1>2. /\ l \in Limits /\ l.frozen = b /\ l.cap = r.cap
      /\ l.autoFreeze = r.autoFreeze /\ l.requireConfirm = r.requireConfirm
  BY <1>1 DEF Limits
<1>3. Effective(l) = Effective(r)
  BY <1>2 DEF Effective
<1>4. Effective(r) = GetEffectiveLimits(u)
  BY DEF Effective, getOrCreateLimits, GetEffectiveLimits, SystemDefaults
<1> QED
  BY <1>2, <1>3, <1>4

----------------------------------------------------------------------------
\* What a save writes, user by user and row by row.
SaveEffect(u, l) ==
  /\ phase = "serving" /\ phase' = phase /\ saves' \in 0..MaxSaves
  /\ UNCHANGED <<schema, complete, cursor, before, edits, restarts>>
  /\ DOMAIN memory' = DOMAIN memory \cup {u} /\ memory'[u] = l
  /\ \A w \in DOMAIN memory \ {u} : memory'[w] = memory[w]
  /\ promise' \in [Users -> {"none", "frozen", "open"}]
  /\ origin' \in [Users -> Emails \cup {"unread", "stale"}]
  /\ \A w \in Users \ {u} : promise'[w] = promise[w] /\ origin'[w] = origin[w]
  /\ \/ table' = table /\ promise'[u] = "none"
     \/ /\ DOMAIN table' = DOMAIN table \cup {u} /\ table'[u] = l
        /\ \A e \in DOMAIN table \ {u} : table'[e] = table[e]
        /\ origin'[u] = u /\ (l.frozen <=> promise'[u] = "frozen")

LEMMA SaveMoves ==
  ASSUME TypeOK, NEW u \in Users, NEW l \in Limits, Save(u, l)
  PROVE  SaveEffect(u, l)
<1> USE DEF SaveEffect
<1>1. /\ phase = "serving" /\ saves < MaxSaves /\ saves' = saves + 1
      /\ memory' = Put(memory, u, l) /\ persistLimits(u, l)
      /\ UNCHANGED <<schema, phase, complete, cursor, before, edits, restarts>>
  BY DEF Save
<1>2. saves' \in 0..MaxSaves
  BY <1>1, LimitStoreAssumption DEF TypeOK
<1>3. /\ DOMAIN memory' = DOMAIN memory \cup {u} /\ memory'[u] = l
      /\ \A w \in DOMAIN memory \ {u} : memory'[w] = memory[w]
  BY <1>1 DEF Put
<1>4. CASE /\ promise' = [promise EXCEPT ![u] = "none"]
           /\ UNCHANGED <<table, origin>>
  <2>1. /\ promise'[u] = "none" /\ promise' \in [Users -> {"none", "frozen", "open"}]
        /\ \A w \in Users \ {u} : promise'[w] = promise[w]
    BY <1>4 DEF TypeOK
  <2> QED
    BY <1>1, <1>2, <1>3, <1>4, <2>1 DEF TypeOK
<1>5. CASE /\ table' = Put(table, u, l)
           /\ promise' = [promise EXCEPT ![u] = IF l.frozen THEN "frozen" ELSE "open"]
           /\ origin' = [origin EXCEPT ![u] = u]
  <2>1. /\ DOMAIN table' = DOMAIN table \cup {u} /\ table'[u] = l
        /\ \A e \in DOMAIN table \ {u} : table'[e] = table[e]
    BY <1>5 DEF Put
  <2>2. /\ promise' \in [Users -> {"none", "frozen", "open"}]
        /\ l.frozen <=> promise'[u] = "frozen"
        /\ \A w \in Users \ {u} : promise'[w] = promise[w]
    BY <1>5, LimitsFields DEF TypeOK
  <2>3. /\ origin' \in [Users -> Emails \cup {"unread", "stale"}] /\ origin'[u] = u
        /\ \A w \in Users \ {u} : origin'[w] = origin[w]
    BY <1>5, UsersFacts DEF TypeOK
  <2> QED
    BY <1>1, <1>2, <1>3, <2>1, <2>2, <2>3
<1> QED
  BY <1>1, <1>4, <1>5 DEF persistLimits

LEMMA SaveInv ==
  ASSUME IInv, NEW u \in Users, NEW l \in Limits, Save(u, l)
  PROVE  IInv'
<1> USE DEF IInv
<1>0. SaveEffect(u, l)
  BY SaveMoves
<1>1. TypeOK'
  <2>1. /\ DOMAIN memory' \subseteq Users
        /\ \A w \in DOMAIN memory' : memory'[w] \in Limits
    BY <1>0 DEF TypeOK, SaveEffect
  <2>2. /\ DOMAIN table' \subseteq Emails
        /\ \A e \in DOMAIN table' : table'[e] \in Limits
    BY <1>0, UsersFacts DEF TypeOK, SaveEffect
  <2> QED
    BY <1>0, <2>1, <2>2 DEF TypeOK, SaveEffect
<1>2. Saved'
  BY <1>0 DEF Saved, SaveEffect
<1>3. ColdStart'
  BY <1>0 DEF ColdStart, SaveEffect
<1>4. CursorView'
  BY <1>0, UsersFacts DEF CursorView, SaveEffect
<1>5. FreezeDurable'
  <2>1. \A w \in Users \ {u} :
          /\ IsFrozen(w)' = IsFrozen(w)
          /\ Misspelt(w)' = Misspelt(w) /\ NotReached(w)' = NotReached(w)
    BY <1>0 DEF IsFrozen, Misspelt, NotReached, SaveEffect
  <2>2. promise'[u] # "none" => (IsFrozen(u)' <=> promise'[u] = "frozen")
    BY <1>0 DEF IsFrozen, SaveEffect
  <2> QED
    BY <1>0, <2>1, <2>2 DEF FreezeDurable, SaveEffect
<1> QED
  BY <1>1, <1>2, <1>3, <1>4, <1>5

\* Every save of the code is of such a record.
LEMMA SavesOnly ==
  ASSUME TypeOK,
         \/ \E e \in Emails : Freeze(e) \/ Unfreeze(e)
         \/ \E u \in Users : checkAutoFreeze(u)
  PROVE  \E u \in Users, l \in Limits :
           Save(u, l) /\ Effective(l) = GetEffectiveLimits(u)
<1>1. ASSUME NEW e \in Emails, Freeze(e)
      PROVE  \E u \in Users, l \in Limits :
               Save(u, l) /\ Effective(l) = GetEffectiveLimits(u)
  <2>1. Lower[e] \in Users
    BY UsersFacts
  <2> QED
    BY <1>1, <2>1, SavedRecord DEF Freeze
<1>2. ASSUME NEW e \in Emails, Unfreeze(e)
      PROVE  \E u \in Users, l \in Limits :
               Save(u, l) /\ Effective(l) = GetEffectiveLimits(u)
  <2>1. Lower[e] \in Users
    BY UsersFacts
  <2> QED
    BY <1>2, <2>1, SavedRecord DEF Unfreeze
<1>3. ASSUME NEW u \in Users, checkAutoFreeze(u)
      PROVE  \E w \in Users, l \in Limits :
               Save(w, l) /\ Effective(l) = GetEffectiveLimits(w)
  BY <1>3, SavedRecord DEF checkAutoFreeze
<1> QED
  BY <1>1, <1>2, <1>3

----------------------------------------------------------------------------
\* What a merge writes when `last' says which row each user gets.
MergeEffect(last) ==
  /\ cursor.open /\ phase' = "serving"
  /\ cursor'.open = FALSE /\ DOMAIN cursor'.rows = {}
  /\ UNCHANGED <<table, schema, promise, bounds>>
  /\ DOMAIN last \subseteq Users
  /\ \A u \in DOMAIN last : last[u] \in DOMAIN cursor.rows /\ Lower[last[u]] = u
  /\ DOMAIN memory' = DOMAIN memory \cup DOMAIN last
  /\ \A u \in DOMAIN last : memory'[u] = cursor.rows[last[u]]
  /\ \A u \in DOMAIN memory \ DOMAIN last : memory'[u] = memory[u]
  /\ origin' = [u \in Users |->
                  IF u \in DOMAIN last THEN OriginOf(last[u]) ELSE origin[u]]
  /\ complete' \in BOOLEAN
  /\ complete' /\ ~complete => \A e \in DOMAIN cursor.rows : Lower[e] \in DOMAIN last

LEMMA MergeMoves ==
  ASSUME TypeOK, MergeLimits
  PROVE  \E last : MergeEffect(last)
<1> DEFINE Merged(rows, last) ==
      /\ memory' = [u \in DOMAIN memory \cup DOMAIN last |->
                      IF u \in DOMAIN last THEN cursor.rows[last[u]] ELSE memory[u]]
      /\ origin' = [u \in Users |->
                      IF u \in DOMAIN last THEN OriginOf(last[u]) ELSE origin[u]]
      /\ complete' = (complete \/ rows = DOMAIN cursor.rows)
<1>1. PICK rows \in SUBSET DOMAIN cursor.rows :
        \E last \in LastRead(rows) : Merged(rows, last)
  BY DEF MergeLimits
<1>2. PICK last \in LastRead(rows) : Merged(rows, last)
  BY <1>1
<1>3. /\ last \in [{Lower[e] : e \in rows} -> rows]
      /\ \A u \in DOMAIN last : Lower[last[u]] = u
  BY DEF LastRead
<1>4. DOMAIN last = {Lower[e] : e \in rows} /\ \A u \in DOMAIN last : last[u] \in rows
  BY <1>3
<1>5. DOMAIN last \subseteq Users
  BY <1>4, UsersFacts DEF TypeOK
<1>6. /\ DOMAIN memory' = DOMAIN memory \cup DOMAIN last
      /\ \A u \in DOMAIN last : memory'[u] = cursor.rows[last[u]]
      /\ \A u \in DOMAIN memory \ DOMAIN last : memory'[u] = memory[u]
  BY <1>2
<1>7. /\ cursor.open /\ phase' = "serving"
      /\ cursor'.open = FALSE /\ DOMAIN cursor'.rows = {}
      /\ UNCHANGED <<table, schema, promise, bounds>>
  BY DEF MergeLimits, NoCursor
<1>8. /\ complete' \in BOOLEAN
      /\ complete' /\ ~complete => \A e \in DOMAIN cursor.rows : Lower[e] \in DOMAIN last
  BY <1>2, <1>4 DEF TypeOK
<1> QED
  BY <1>2, <1>3, <1>4, <1>5, <1>6, <1>7, <1>8 DEF MergeEffect

LEMMA MergeInv ==
  ASSUME IInv, NEW last, MergeEffect(last)
  PROVE  IInv'
<1> USE DEF IInv
<1>1. \A u \in DOMAIN last : last[u] \in Emails /\ cursor.rows[last[u]] \in Limits
  BY DEF MergeEffect, TypeOK
<1>2. /\ origin' \in [Users -> Emails \cup {"unread", "stale"}]
      /\ \A u \in DOMAIN last : origin'[u] = OriginOf(last[u]) /\ origin'[u] # "unread"
      /\ \A u \in Users \ DOMAIN last : origin'[u] = origin[u]
  BY <1>1, UsersFacts DEF MergeEffect, TypeOK, OriginOf
<1>3. TypeOK'
  <2>1. /\ DOMAIN memory' \subseteq Users
        /\ \A u \in DOMAIN memory' : memory'[u] \in Limits
    BY <1>1 DEF MergeEffect, TypeOK
  <2> QED
    BY <1>2, <2>1 DEF MergeEffect, TypeOK, bounds
<1>4. Saved' /\ ColdStart' /\ CursorView'
  BY DEF Saved, ColdStart, CursorView, MergeEffect
<1>5. ASSUME NEW u \in Users, promise[u] # "none", u \in DOMAIN last
      PROVE  \/ IsFrozen(u)' <=> promise[u] = "frozen"
             \/ Misspelt(u)' \/ origin'[u] = "stale"
  <2>1. CASE last[u] = u /\ cursor.rows[u] = table[u]
    BY <1>5, <2>1 DEF Saved, IsFrozen, MergeEffect
  <2>2. CASE last[u] # u \/ cursor.rows[u] # table[u]
    BY <1>1, <1>2, <1>5, <2>2, UsersFacts DEF OriginOf, Misspelt
  <2> QED
    BY <2>1, <2>2
\* A load that is the first to read every row has the row of a user who is
\* unread and has a saved decision, so that a user it does not give a row to is
\* one it could not reach.
<1>6. ASSUME NEW u \in Users, promise[u] # "none", u \notin DOMAIN last
      PROVE  \/ IsFrozen(u)' <=> promise[u] = "frozen"
             \/ NotReached(u)' \/ Misspelt(u)' \/ origin'[u] = "stale"
  <2>1. origin'[u] = origin[u] /\ IsFrozen(u)' = IsFrozen(u)
    BY <1>2, <1>6 DEF IsFrozen, MergeEffect
  <2>2. origin[u] = "unread" /\ ~complete => ~complete'
    <3>1. origin[u] = "unread" => u \in DOMAIN cursor.rows
      BY <1>6 DEF CursorView, MergeEffect
    <3> QED
      BY <1>6, <3>1, UsersFacts DEF MergeEffect
  <2>3. CASE phase = "serving"
    BY <1>6, <2>1, <2>2, <2>3 DEF FreezeDurable, NotReached, Misspelt
  <2>4. CASE phase # "serving"
    BY <1>6, <2>1, <2>2, <2>4 DEF ColdStart, NotReached
  <2> QED
    BY <2>3, <2>4
<1>7. FreezeDurable'
  BY <1>5, <1>6 DEF FreezeDurable, MergeEffect
<1> QED
  BY <1>3, <1>4, <1>7

----------------------------------------------------------------------------
LEMMA QueryInv ==
  ASSUME IInv, QueryLimits
  PROVE  IInv'
<1> USE DEF IInv
<1>1. UNCHANGED <<memory, table, schema, promise, origin, bounds, complete>>
  BY DEF QueryLimits
<1>2. /\ Saved'
      /\ \A u \in Users : /\ IsFrozen(u)' = IsFrozen(u) /\ Misspelt(u)' = Misspelt(u)
                         /\ NotReached(u)' = NotReached(u)
  BY <1>1 DEF Saved, IsFrozen, Misspelt, NotReached
<1>3. CASE schema = "new"
  <2>1. cursor' = [open |-> TRUE, rows |-> table] /\ UNCHANGED <<phase, before>>
    BY <1>3 DEF QueryLimits
  <2>2. TypeOK'
    BY <1>1, <2>1 DEF TypeOK, bounds
  <2>3. ColdStart' /\ CursorView' /\ FreezeDurable'
    BY <1>1, <1>2, <2>1 DEF ColdStart, CursorView, FreezeDurable, Saved
  <2> QED
    BY <1>2, <2>2, <2>3
<1>4. CASE schema # "new"
  <2>1. phase = "loading" /\ phase' = "serving" /\ UNCHANGED cursor
    BY <1>4 DEF QueryLimits
  <2>2. TypeOK'
    BY <1>1, <2>1 DEF TypeOK, bounds
  <2>3. ColdStart' /\ CursorView'
    BY <1>1, <2>1 DEF ColdStart, CursorView
  <2>4. FreezeDurable'
    BY <1>1, <1>2, <2>1 DEF ColdStart, FreezeDurable, NotReached
  <2> QED
    BY <1>2, <2>2, <2>3, <2>4
<1> QED
  BY <1>3, <1>4

LEMMA EditInv ==
  ASSUME IInv, NEW e \in Emails, NEW row \in OperatorRows, OperatorEdit(e, row)
  PROVE  IInv'
<1> USE DEF IInv
<1>1. /\ row \in Limits /\ edits' \in 0..MaxEdits
      /\ UNCHANGED <<memory, schema, phase, complete, cursor, origin, before, saves, restarts>>
  BY LimitStoreAssumption DEF OperatorEdit, TypeOK
<1>2. /\ DOMAIN table' = DOMAIN table \cup {e} /\ table'[e] = row
      /\ \A f \in DOMAIN table \ {e} : table'[f] = table[f]
  BY DEF OperatorEdit, Put
<1>3. /\ promise' \in [Users -> {"none", "frozen", "open"}]
      /\ e \in Users => promise'[e] = "none"
      /\ \A u \in Users \ {e} : promise'[u] = promise[u]
  BY DEF OperatorEdit, TypeOK
<1>4. TypeOK'
  <2>1. /\ DOMAIN table' \subseteq Emails
        /\ \A f \in DOMAIN table' : table'[f] \in Limits
    BY <1>1, <1>2 DEF TypeOK
  <2> QED
    BY <1>1, <1>3, <2>1 DEF TypeOK
<1>5. Saved' /\ ColdStart' /\ CursorView'
  BY <1>1, <1>2, <1>3 DEF Saved, ColdStart, CursorView
<1>6. FreezeDurable'
  <2>1. \A u \in Users : /\ IsFrozen(u)' = IsFrozen(u) /\ Misspelt(u)' = Misspelt(u)
                         /\ NotReached(u)' = NotReached(u)
    BY <1>1 DEF IsFrozen, Misspelt, NotReached
  <2> QED
    BY <1>1, <1>3, <2>1 DEF FreezeDurable
<1> QED
  BY <1>4, <1>5, <1>6

LEMMA RestartInv ==
  ASSUME IInv, Restart
  PROVE  IInv'
<1> USE DEF IInv
<1>1. /\ phase' = "down" /\ memory' = <<>> /\ complete' = FALSE
      /\ origin' = [u \in Users |-> "unread"] /\ restarts' \in 0..MaxRestarts
      /\ DOMAIN memory' = {} /\ DOMAIN cursor'.rows = {} /\ cursor'.open = FALSE
      /\ UNCHANGED <<table, schema, promise, saves, edits>>
  BY LimitStoreAssumption DEF Restart, TypeOK, NoCursor
<1>2. TypeOK'
  BY <1>1 DEF TypeOK
<1>3. Saved' /\ ColdStart' /\ CursorView' /\ FreezeDurable'
  BY <1>1 DEF Saved, ColdStart, CursorView, FreezeDurable
<1> QED
  BY <1>2, <1>3

LEMMA QuietInv ==
  ASSUME IInv, InitTable \/ UNCHANGED vars
  PROVE  IInv'
<1> USE DEF IInv
<1>1. /\ UNCHANGED <<memory, table, complete, cursor, promise, origin, before,
                     saves, edits, restarts>>
      /\ phase' = phase \/ (phase = "down" /\ phase' = "loading")
      /\ schema' \in {"missing", "old", "new"}
  BY DEF InitTable, vars, bounds, TypeOK
<1>2. TypeOK'
  BY <1>1 DEF TypeOK
<1>3. Saved' /\ ColdStart' /\ CursorView'
  BY <1>1 DEF Saved, ColdStart, CursorView
<1>4. FreezeDurable'
  BY <1>1 DEF FreezeDurable, IsFrozen, Misspelt, NotReached
<1> QED
  BY <1>2, <1>3, <1>4

LEMMA Step ==
  ASSUME IInv, [Next]_vars
  PROVE  IInv'
<1>1. CASE MergeLimits
  BY <1>1, MergeMoves, MergeInv DEF IInv
<1>2. ASSUME NEW e \in Emails, NEW row \in OperatorRows, OperatorEdit(e, row)
      PROVE  IInv'
  BY <1>2, EditInv
<1>3. CASE \/ \E e \in Emails : Freeze(e) \/ Unfreeze(e)
           \/ \E u \in Users : checkAutoFreeze(u)
  BY <1>3, SaveInv, SavesOnly DEF IInv
<1> QED
  BY <1>1, <1>2, <1>3, QueryInv, RestartInv, QuietInv DEF Next, Rest

LEMMA Invariance == Spec => []IInv
<1>1. ASSUME Init PROVE IInv
  <2>1. /\ DOMAIN memory = {} /\ DOMAIN cursor.rows = {} /\ cursor.open = FALSE
        /\ memory = <<>> /\ complete = FALSE /\ phase = "down"
        /\ promise = [u \in Users |-> "none"] /\ origin = [u \in Users |-> "unread"]
    BY <1>1 DEF Init, NoCursor
  <2>2. /\ DOMAIN table \subseteq Emails
        /\ \A e \in DOMAIN table : table[e] \in Limits
    <3>1. CASE table = <<>>
      BY <3>1
    <3>2. ASSUME NEW rows \in SUBSET Emails, table \in [rows -> MigratedRows]
          PROVE  /\ DOMAIN table \subseteq Emails
                 /\ \A e \in DOMAIN table : table[e] \in Limits
      <4>1. MigratedRows \subseteq Limits
        BY LimitStoreAssumption DEF MigratedRows, Limits
      <4> QED
        BY <3>2, <4>1
    <3> QED
      BY <1>1, <3>1, <3>2 DEF Init
  <2>3. /\ schema \in {"missing", "old", "new"} /\ saves \in 0..MaxSaves
        /\ edits \in 0..MaxEdits /\ restarts \in 0..MaxRestarts
    BY <1>1, LimitStoreAssumption DEF Init
  <2>4. TypeOK
    BY <2>1, <2>2, <2>3 DEF TypeOK
  <2>5. Saved /\ ColdStart /\ CursorView /\ FreezeDurable
    BY <2>1 DEF Saved, ColdStart, CursorView, FreezeDurable
  <2> QED
    BY <2>4, <2>5 DEF IInv
<1> QED
  BY <1>1, Step, PTL DEF Spec

\* Everything in memory and in the table stays in its range; memory is keyed by
\* lower-case e-mails (getOrCreateLimits, LoadLimits, persistLimits).
THEOREM TypeCorrect == Spec => []TypeOK
<1>1. IInv => TypeOK
  BY DEF IInv
<1> QED
  BY Invariance, <1>1, PTL

\* A saved freeze or unfreeze (Freeze, Unfreeze, checkAutoFreeze) is in force on
\* every running server, but for the three losses that FreezeDurable names: the
\* start did not reach the user, a row of another spelling replaced his record,
\* or a load read his row before the save and merged it afterwards.
THEOREM FreezeDurableHolds == Spec => []FreezeDurable
<1>1. IInv => FreezeDurable
  BY DEF IInv
<1> QED
  BY Invariance, <1>1, PTL

----------------------------------------------------------------------------
\* What PolicyKept says of a step, for one user.
Edits(u) == \E e \in Emails, row \in OperatorRows : Lower[e] = u /\ OperatorEdit(e, row)
Stays(u) == Steady(u)' /\ InForce(u)' = InForce(u)
Loads == phase = "loading" /\ phase' = "serving" /\ complete'

\* A user whose rows and policy a step leaves alone stays steady.
LEMMA StaysSteady ==
  ASSUME NEW u \in Users, Steady(u), InForce(u)' = InForce(u),
         RowsOf(u)' = {} => RowsOf(u) = {},
         \A e \in RowsOf(u)' : Effective(table'[e]) = InForce(u),
         \A e \in DOMAIN cursor'.rows : Lower[e] = u =>
           Effective(cursor'.rows[e]) = InForce(u)
  PROVE  Stays(u)
<1> QED
  BY DEF Stays, Steady

\* A save leaves every policy as it is, in memory and in the rows that agree with
\* it: the saved record inherits.
LEMMA SavePolicy ==
  ASSUME TypeOK, NEW w \in Users, NEW l \in Limits, Save(w, l),
         Effective(l) = GetEffectiveLimits(w), NEW u \in Users, Steady(u)
  PROVE  Stays(u)
<1>0. SaveEffect(w, l)
  BY SaveMoves
<1>1. GetEffectiveLimits(u)' = GetEffectiveLimits(u)
  <2>1. CASE u # w
    BY <1>0, <2>1 DEF SaveEffect, GetEffectiveLimits
  <2>2. CASE u = w
    <3>1. GetEffectiveLimits(w)' = Effective(l)
      BY <1>0 DEF SaveEffect, GetEffectiveLimits, Effective
    <3> QED
      BY <2>2, <3>1
  <2> QED
    BY <2>1, <2>2
<1>2. InForce(u)' = InForce(u) /\ InForce(w) = Effective(l)
  BY <1>0, <1>1 DEF SaveEffect, InForce
<1>3. /\ RowsOf(u) \subseteq RowsOf(u)'
      /\ \A e \in RowsOf(u)' : \/ e \in RowsOf(u) /\ table'[e] = table[e]
                               \/ u = w /\ table'[e] = l
  BY <1>0, UsersFacts DEF SaveEffect, RowsOf
<1>4. \A e \in RowsOf(u)' : Effective(table'[e]) = InForce(u)
  BY <1>2, <1>3 DEF Steady
<1>5. \A e \in DOMAIN cursor'.rows : Lower[e] = u =>
        Effective(cursor'.rows[e]) = InForce(u)
  BY <1>0 DEF SaveEffect, Steady
<1> QED
  BY <1>2, <1>3, <1>4, <1>5, StaysSteady

LEMMA MergePolicy ==
  ASSUME IInv, NEW last, MergeEffect(last), NEW u \in Users
  PROVE  /\ Steady(u) => Stays(u) \/ ComesUpWithout(u)
         /\ Loads => Steady(u)' \/ Unsettled(u)
<1> USE DEF IInv
<1>1. ASSUME u \in DOMAIN last
      PROVE  /\ InForce(u)' = Effective(cursor.rows[last[u]])
             /\ last[u] \in RowsOf(u)
  BY <1>1 DEF MergeEffect, InForce, GetEffectiveLimits, Effective, CursorView, RowsOf
<1>2. /\ RowsOf(u)' = RowsOf(u) /\ table' = table /\ DOMAIN cursor'.rows = {}
      /\ phase' = "serving"
  BY DEF MergeEffect, RowsOf
<1>3. ASSUME u \notin DOMAIN last
      PROVE  InForce(u)' = GetEffectiveLimits(u) /\ origin'[u] = origin[u]
  BY <1>3 DEF MergeEffect, InForce, GetEffectiveLimits
<1>4. memory = <<>> => GetEffectiveLimits(u) = SystemDefaults
  BY DEF GetEffectiveLimits
<1>5. ASSUME Steady(u), ~ComesUpWithout(u)
      PROVE  Stays(u)
  <2>1. InForce(u)' = InForce(u)
    <3>1. CASE u \in DOMAIN last
      BY <1>1, <1>5, <3>1 DEF Steady, MergeEffect
    <3>2. CASE u \notin DOMAIN last /\ phase = "serving"
      BY <1>3, <3>2 DEF InForce
    <3>3. CASE u \notin DOMAIN last /\ phase # "serving"
      <4>1. RowsOf(u) = {}
        BY <1>2, <1>3, <1>5, <3>3 DEF ColdStart, ComesUpWithout
      <4> QED
        BY <1>3, <1>4, <1>5, <3>3, <4>1 DEF ColdStart, Steady
    <3> QED
      BY <3>1, <3>2, <3>3
  <2> QED
    BY <1>2, <1>5, <2>1, StaysSteady DEF Steady
<1>6. ASSUME Loads, ~Unsettled(u)
      PROVE  Steady(u)'
  <2>1. /\ \A e \in DOMAIN cursor.rows : Lower[e] \in DOMAIN last
        /\ memory = <<>>
    BY <1>6 DEF Loads, ColdStart, MergeEffect
  <2>2. CASE RowsOf(u) = {}
    BY <1>1, <1>2, <1>3, <1>4, <2>1, <2>2 DEF Steady
  <2>3. ASSUME NEW e \in RowsOf(u)
        PROVE  Effective(table[e]) = InForce(u)'
    <3>1. e \in DOMAIN cursor.rows /\ Lower[e] = u
      BY <1>6, <2>3 DEF Unsettled, RowsOf
    <3>2. u \in DOMAIN last /\ last[u] \in RowsOf(u)
      BY <1>1, <2>1, <3>1
    <3>3. /\ cursor.rows[last[u]] = table[last[u]]
          /\ Effective(table[last[u]]) = Effective(table[e])
      BY <1>6, <2>3, <3>2 DEF Unsettled
    <3> QED
      BY <1>1, <3>2, <3>3
  <2> QED
    BY <1>2, <2>2, <2>3 DEF Steady
<1> QED
  BY <1>5, <1>6

LEMMA QueryPolicy ==
  ASSUME IInv, QueryLimits, NEW u \in Users
  PROVE  /\ Steady(u) => Stays(u) \/ ComesUpWithout(u)
         /\ ~Loads
<1> USE DEF IInv
<1>1. /\ UNCHANGED <<memory, table, origin, complete>> /\ RowsOf(u)' = RowsOf(u)
      /\ GetEffectiveLimits(u)' = GetEffectiveLimits(u)
  BY DEF QueryLimits, RowsOf, GetEffectiveLimits
<1>2. CASE schema = "new"
  <2>1. cursor'.rows = table /\ UNCHANGED <<phase, before>>
    BY <1>2 DEF QueryLimits
  <2>2. InForce(u)' = InForce(u) /\ ~Loads
    BY <1>1, <2>1 DEF InForce, Loads
  <2>3. ASSUME Steady(u)
        PROVE  Stays(u)
    BY <1>1, <2>1, <2>2, <2>3, StaysSteady DEF Steady, RowsOf
  <2> QED
    BY <2>2, <2>3
<1>3. CASE schema # "new"
  <2>1. phase = "loading" /\ phase' = "serving" /\ UNCHANGED cursor
    BY <1>3 DEF QueryLimits
  <2>2. ~Loads /\ origin[u] = "unread" /\ InForce(u)' = SystemDefaults
    BY <1>1, <2>1 DEF ColdStart, Loads, InForce, GetEffectiveLimits
  <2>3. ASSUME Steady(u), ~ComesUpWithout(u)
        PROVE  Stays(u)
    <3>1. RowsOf(u) = {}
      BY <1>1, <2>1, <2>2, <2>3 DEF ComesUpWithout
    <3>2. InForce(u)' = InForce(u)
      BY <2>2, <2>3, <3>1 DEF Steady
    <3> QED
      BY <1>1, <2>1, <2>3, <3>2, StaysSteady DEF Steady
  <2> QED
    BY <2>2, <2>3
<1> QED
  BY <1>2, <1>3

LEMMA EditPolicy ==
  ASSUME NEW e \in Emails, NEW row \in OperatorRows, OperatorEdit(e, row),
         NEW u \in Users, u # Lower[e], Steady(u)
  PROVE  Stays(u)
<1>1. UNCHANGED <<memory, phase, cursor, before>>
  BY DEF OperatorEdit
<1>2. /\ DOMAIN table' = DOMAIN table \cup {e}
      /\ \A f \in DOMAIN table \ {e} : table'[f] = table[f]
  BY DEF OperatorEdit, Put
<1>3. RowsOf(u)' = RowsOf(u) /\ \A f \in RowsOf(u) : table'[f] = table[f]
  BY <1>2 DEF RowsOf
<1>4. InForce(u)' = InForce(u)
  BY <1>1 DEF InForce, GetEffectiveLimits
<1> QED
  BY <1>1, <1>3, <1>4, StaysSteady DEF Steady

\* Going down keeps a policy in `before', and nothing else moves it.
LEMMA QuietPolicy ==
  ASSUME IInv, Restart \/ InitTable \/ UNCHANGED vars, NEW u \in Users
  PROVE  (Steady(u) => Stays(u)) /\ ~Loads
<1>1. /\ UNCHANGED table /\ RowsOf(u)' = RowsOf(u)
      /\ UNCHANGED cursor \/ DOMAIN cursor'.rows = {}
  BY DEF Restart, InitTable, vars, RowsOf, NoCursor
<1>2. InForce(u)' = InForce(u) /\ ~Loads
  <2>1. CASE Restart
    BY <2>1 DEF Restart, InForce, Loads
  <2>2. CASE InitTable
    BY <2>2 DEF InitTable, InForce, Loads
  <2>3. CASE UNCHANGED vars
    BY <2>3 DEF vars, InForce, Loads, GetEffectiveLimits
  <2> QED
    BY <2>1, <2>2, <2>3
<1> QED
  BY <1>1, <1>2, StaysSteady DEF Steady

\* Caps and switches on which memory and rows agree outlive freezes, unfreezes,
\* the breaker, loads and restarts (getOrCreateLimits inherits, persistLimits
\* stores 0 as 0) but for an operator's edit and a start that does not read the
\* user; a start that reads all rows makes them agree again.
THEOREM PolicyKeptHolds == Spec => PolicyKept
<1> DEFINE
      Kept == \A u \in Users : Steady(u) => Stays(u) \/ ComesUpWithout(u) \/ Edits(u)
      Loaded == Loads => \A u \in Users : Steady(u)' \/ Unsettled(u)
<1>1. ASSUME IInv, [Next]_vars
      PROVE  Kept /\ Loaded
  <2> USE DEF IInv
  <2>1. CASE MergeLimits
    <3>1. PICK last : MergeEffect(last)
      BY <1>1, <2>1, MergeMoves
    <3> QED
      BY <1>1, <3>1, MergePolicy
  <2>2. CASE \/ \E e \in Emails : Freeze(e) \/ Unfreeze(e)
             \/ \E u \in Users : checkAutoFreeze(u)
    <3>1. PICK w \in Users, l \in Limits :
            Save(w, l) /\ Effective(l) = GetEffectiveLimits(w)
      BY <1>1, <2>2, SavesOnly
    <3>2. ~Loads
      BY <3>1 DEF Save, Loads
    <3> QED
      BY <1>1, <3>1, <3>2, SavePolicy
  <2>3. ASSUME NEW e \in Emails, NEW row \in OperatorRows, OperatorEdit(e, row)
        PROVE  Kept /\ Loaded
    <3>1. ~Loads
      BY <2>3 DEF OperatorEdit, Loads
    <3>2. Edits(Lower[e])
      BY <2>3 DEF Edits
    <3> QED
      BY <1>1, <2>3, <3>1, <3>2, EditPolicy
  <2>4. CASE QueryLimits
    BY <1>1, <2>4, QueryPolicy
  <2>5. CASE Restart \/ InitTable \/ Rest \/ UNCHANGED vars
    BY <1>1, <2>5, QuietPolicy DEF Rest
  <2> QED
    BY <1>1, <2>1, <2>2, <2>3, <2>4, <2>5 DEF Next
<1>2. [Kept /\ Loaded]_vars => 
        [/\ \A u \in Users : Steady(u) =>
              \/ Steady(u)' /\ InForce(u)' = InForce(u)
              \/ ComesUpWithout(u)
              \/ \E e \in Emails, row \in OperatorRows :
                   Lower[e] = u /\ OperatorEdit(e, row)
         /\ (phase = "loading" /\ phase' = "serving" /\ complete') =>
              \A u \in Users : Steady(u)' \/ Unsettled(u)]_vars
  BY DEF Stays, Edits, Loads
<1> QED
  BY <1>1, <1>2, Invariance, PTL DEF Spec, PolicyKept
=============================================================================
