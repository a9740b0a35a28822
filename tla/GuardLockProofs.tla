---------------------------- MODULE GuardLockProofs ----------------------------
(***************************************************************************)
(* The lock of the guard for any number of order goroutines, of            *)
(* administrators and of calls, on hosts with and without the time zone.   *)
(* Answered, a liveness property, is left to TLC.                          *)
(***************************************************************************)
EXTENDS GuardLock, Integers, TLAPS, FiniteSetTheorems

\* How far a call can be, and in which section: administrators only freeze and
\* unfreeze, and nobody else does.
OnPath(p, where, what) ==
  where # "idle" =>
    /\ p \in Admins => what \in {"freeze", "unfreeze"} /\ where \in {"wait", "in", "event"}
    /\ p \in Procs => what \notin {"freeze", "unfreeze"}
Path == \A p \in All : OnPath(p, place[p], section[p])

\* The administrators whose event is decided and not yet dispatched.
Due(what) == {a \in Admins : place[a] = "event" /\ section[a] = what}

IInv == Ranges /\ OneInside /\ Path /\ Balanced

----------------------------------------------------------------------------
\* What Go writes, goroutine by goroutine.
Places == {"idle", "read", "wait", "in", "event", "custom", "broker"}
Moved(p, where, what) ==
  /\ place' \in [All -> Places] /\ section' \in [All -> Sections]
  /\ place'[p] = where /\ section'[p] = what
  /\ \A q \in All \ {p} : place'[q] = place[q] /\ section'[q] = section[q]

LEMMA GoMoves ==
  ASSUME Ranges, NEW p \in All, NEW where \in Places, NEW what \in Sections,
         Go(p, where, what)
  PROVE  Moved(p, where, what)
<1>1. /\ place' = [place EXCEPT ![p] = where]
      /\ section' = [section EXCEPT ![p] = what]
  BY DEF Go
<1>2. place' \in [All -> Places]
  BY <1>1 DEF Ranges, Places
<1>3. section' \in [All -> Sections]
  BY <1>1 DEF Ranges
<1> QED
  BY <1>1, <1>2, <1>3 DEF Ranges, Moved

\* A goroutine that moves along a path leaves the others on theirs.
LEMMA PathMove ==
  ASSUME Ranges, Path, NEW p \in All, NEW where, NEW what, Moved(p, where, what),
         OnPath(p, where, what)
  PROVE  Path'
<1> SUFFICES ASSUME NEW q \in All
             PROVE  OnPath(q, place[q], section[q])'
  BY DEF Path
<1>1. CASE q = p
  BY <1>1 DEF OnPath, Moved
<1>2. CASE q # p
  BY <1>2 DEF Path, OnPath, Moved
<1> QED
  BY <1>1, <1>2

----------------------------------------------------------------------------
\* The events that are due change with an administrator only.
LEMMA DueFinite ==
  ASSUME NEW what
  PROVE  IsFiniteSet(Due(what)) /\ Cardinality(Due(what)) \in Nat
<1>1. Due(what) \subseteq Admins
  BY DEF Due
<1> QED
  BY <1>1, GuardLockAssumption, FS_Subset, FS_CardinalityType

LEMMA DueMove ==
  ASSUME NEW p \in All, NEW where, NEW what, Moved(p, where, what)
  PROVE  /\ p \in Procs => \A w : Due(w)' = Due(w)
         /\ place[p] # "event" /\ where # "event" => \A w : Due(w)' = Due(w)
         /\ p \in Admins /\ place[p] # "event" /\ where = "event" =>
              \A w : Due(w)' = IF w = what THEN Due(w) \cup {p} ELSE Due(w)
         /\ p \in Admins /\ place[p] = "event" /\ where # "event" =>
              \A w : Due(w)' = IF w = section[p] THEN Due(w) \ {p} ELSE Due(w)
<1> USE GuardLockAssumption DEF Moved, Due, All
<1>1. p \in Procs => \A w : Due(w)' = Due(w)
  OBVIOUS
<1>2. place[p] # "event" /\ where # "event" => \A w : Due(w)' = Due(w)
  OBVIOUS
<1>3. p \in Admins /\ place[p] # "event" /\ where = "event" =>
        \A w : Due(w)' = IF w = what THEN Due(w) \cup {p} ELSE Due(w)
  OBVIOUS
<1>4. p \in Admins /\ place[p] = "event" /\ where # "event" =>
        \A w : Due(w)' = IF w = section[p] THEN Due(w) \ {p} ELSE Due(w)
  OBVIOUS
<1> QED
  BY <1>1, <1>2, <1>3, <1>4

\* Balanced in the words of Due.
LEMMA BalancedDue ==
  Balanced <=> (emitted.trip + Cardinality(Due("freeze")))
                 - (emitted.lift + Cardinality(Due("unfreeze")))
                 = IF globalFrozen THEN 1 ELSE 0
<1> QED
  BY DEF Balanced, Due

LEMMA BalancedDueNext ==
  Balanced' <=> (emitted'.trip + Cardinality(Due("freeze"))')
                  - (emitted'.lift + Cardinality(Due("unfreeze"))')
                  = IF globalFrozen' THEN 1 ELSE 0
<1> QED
  BY DEF Balanced, Due

LEMMA BalancedStill ==
  ASSUME Balanced, UNCHANGED freeze, \A w : Due(w)' = Due(w)
  PROVE  Balanced'
<1>1. Due("freeze")' = Due("freeze") /\ Due("unfreeze")' = Due("unfreeze")
  OBVIOUS
<1> QED
  BY <1>1, BalancedDue DEF freeze, Balanced, Due

----------------------------------------------------------------------------
\* One goroutine moves: the place and the section, where it may go, who holds
\* the lock.
LEMMA BeginStep ==
  ASSUME IInv, NEW p \in All, Begin(p)
  PROVE  IInv'
<1> USE DEF IInv
<1>1. PICK where \in {"read", "wait"}, what \in {"daily", "freeze", "unfreeze"} :
        /\ Go(p, where, what)
        /\ \/ p \in Procs /\ where = "read" /\ what = "daily"
           \/ p \in Admins /\ where = "wait" /\ what \in {"freeze", "unfreeze"}
  BY DEF Begin
<1>2. Moved(p, where, what)
  BY <1>1, GoMoves DEF Places, Sections
<1>3. /\ place[p] = "idle" /\ calls' \in 0..MaxCalls
      /\ UNCHANGED <<tzdata, writer, notifying, freeze>>
  BY GuardLockAssumption DEF Begin, Ranges
<1>4. Ranges'
  BY <1>2, <1>3 DEF Ranges, Moved, Places, freeze
<1>5. OneInside'
  BY <1>1, <1>2, <1>3 DEF OneInside, Moved, Unlocked, Ranges
<1>6. OnPath(p, where, what)
  BY <1>1, <1>3, GuardLockAssumption DEF OnPath
<1>7. Path'
  BY <1>2, <1>3, <1>6, PathMove
<1>8. Balanced'
  <2>1. \A w : Due(w)' = Due(w)
    BY <1>1, <1>2, <1>3, DueMove
  <2> QED
    BY <1>3, <2>1, BalancedStill
<1> QED
  BY <1>4, <1>5, <1>7, <1>8

LEMMA ReadStep ==
  ASSUME IInv, NEW p \in All, Read(p)
  PROVE  IInv'
<1> USE DEF IInv
<1>1. PICK where \in {"wait", "idle"} :
        /\ Go(p, where, section[p])
        /\ where = "idle" => section[p] = "daily"
  BY DEF Read
<1>2. section[p] \in Sections /\ where \in Places
  BY DEF Ranges, Places
<1>3. Moved(p, where, section[p])
  BY <1>1, <1>2, GoMoves
<1>4. /\ place[p] = "read"
      /\ UNCHANGED <<tzdata, writer, notifying, freeze, calls>>
  BY DEF Read
<1>5. Ranges'
  BY <1>3, <1>4 DEF Ranges, Moved, Places, freeze
<1>6. OneInside'
  BY <1>1, <1>3, <1>4 DEF OneInside, Moved, Unlocked, Ranges
<1>7. OnPath(p, where, section[p])
  BY <1>1, <1>4 DEF Path, OnPath
<1>8. Path'
  BY <1>3, <1>4, <1>7, PathMove
<1>9. Balanced'
  <2>1. \A w : Due(w)' = Due(w)
    BY <1>1, <1>3, <1>4, DueMove
  <2> QED
    BY <1>4, <2>1, BalancedStill
<1> QED
  BY <1>5, <1>6, <1>8, <1>9

LEMMA LockStep ==
  ASSUME IInv, NEW p \in All, Lock(p)
  PROVE  IInv'
<1> USE DEF IInv
<1>1. /\ place[p] = "wait" /\ writer = "none" /\ writer' = p
      /\ Go(p, "in", section[p])
      /\ UNCHANGED <<tzdata, notifying, freeze, calls>>
  BY DEF Lock, Unlocked
<1>2. section[p] \in Sections
  BY DEF Ranges
<1>3. Moved(p, "in", section[p])
  BY <1>1, <1>2, GoMoves DEF Places
<1>4. Ranges'
  BY <1>1, <1>3 DEF Ranges, Moved, Places, freeze
<1>5. \A q \in All : place[q] # "in"
  BY <1>1, GuardLockAssumption DEF OneInside, All
<1>6. OneInside'
  BY <1>1, <1>3, <1>5 DEF OneInside, Moved
<1>7. OnPath(p, "in", section[p])
  BY <1>1 DEF Path, OnPath
<1>8. Path'
  BY <1>1, <1>3, <1>7, PathMove
<1>9. Balanced'
  <2>1. \A w : Due(w)' = Due(w)
    BY <1>1, <1>3, DueMove
  <2> QED
    BY <1>1, <2>1, BalancedStill
<1> QED
  BY <1>4, <1>6, <1>8, <1>9

\* The panic of maybeResetDay: the goroutine leaves the section with the lock,
\* which no later step gives back.
LEMMA PanicStep ==
  ASSUME IInv, NEW p \in All, Panic(p)
  PROVE  IInv'
<1> USE DEF IInv
<1>1. /\ place[p] = "in" /\ section[p] = "daily" /\ ~tzdata
      /\ Go(p, "wait", "reject")
      /\ UNCHANGED <<tzdata, writer, notifying, freeze, calls>>
  BY DEF Panic
<1>2. Moved(p, "wait", "reject")
  BY <1>1, GoMoves DEF Places, Sections
<1>3. Ranges'
  BY <1>1, <1>2 DEF Ranges, Moved, Places, freeze
<1>4. OneInside'
  BY <1>1, <1>2 DEF OneInside, Moved
<1>5. OnPath(p, "wait", "reject")
  BY <1>1 DEF Path, OnPath
<1>6. Path'
  BY <1>1, <1>2, <1>5, PathMove
<1>7. Balanced'
  <2>1. \A w : Due(w)' = Due(w)
    BY <1>1, <1>2, DueMove
  <2> QED
    BY <1>1, <2>1, BalancedStill
<1> QED
  BY <1>3, <1>4, <1>6, <1>7

\* The flag and the event that tells of it are decided in one section.
LEMMA UnlockStep ==
  ASSUME IInv, NEW p \in All, Unlock(p)
  PROVE  IInv'
<1> USE DEF IInv
<1>1. /\ place[p] = "in" /\ (section[p] = "daily" => tzdata)
      /\ writer' = "none" /\ notifying' \in BOOLEAN
      /\ UNCHANGED <<tzdata, emitted, calls>>
  BY DEF Unlock, Ranges
<1>2. section[p] \in {"daily", "rate", "record", "reject", "breaker", "freeze", "unfreeze"}
  BY DEF Ranges, Sections
<1>3. PICK to \in After(p) : Go(p, to[1], to[2])
  BY DEF Unlock
<1>4. /\ to[1] \in {"idle", "read", "wait", "event", "custom"} /\ to[2] \in Sections
      /\ section[p] \in {"freeze", "unfreeze"} =>
           to[2] = section[p] /\ to[1] \in {"idle", "event"}
      /\ section[p] \notin {"freeze", "unfreeze"} => to[2] \notin {"freeze", "unfreeze"}
      /\ section[p] = "reject" => to[1] \in {"event", "read"} /\ to[2] \in {"reject", "breaker"}
      /\ section[p] = "breaker" => to[1] = "idle"
      /\ section[p] = "freeze" => to[1] = IF globalFrozen THEN "idle" ELSE "event"
      /\ section[p] = "unfreeze" => to[1] = IF globalFrozen THEN "event" ELSE "idle"
  BY <1>2, <1>3 DEF After, Sections
<1>5. Moved(p, to[1], to[2])
  BY <1>3, <1>4, GoMoves DEF Places
<1>6. globalFrozen' = (section[p] = "freeze" \/ (section[p] # "unfreeze" /\ globalFrozen))
  BY <1>2 DEF Unlock, setFlag, Ranges
<1>7. Ranges'
  BY <1>1, <1>5, <1>6 DEF Ranges, Moved, Places
<1>8. OneInside'
  BY <1>1, <1>4, <1>5, GuardLockAssumption DEF OneInside, Moved, Unlocked, All
<1>9. OnPath(p, to[1], to[2])
  BY <1>1, <1>2, <1>4, GuardLockAssumption DEF Path, OnPath, All
<1>10. Path'
  BY <1>1, <1>5, <1>9, PathMove
<1>11. Balanced'
  <2>1. CASE p \in Procs
    <3>1. section[p] \notin {"freeze", "unfreeze"}
      BY <1>1, <2>1 DEF Path, OnPath
    <3>2. globalFrozen' = globalFrozen
      BY <1>6, <3>1 DEF Ranges
    <3>3. \A w : Due(w)' = Due(w)
      BY <1>5, <2>1, DueMove
    <3> QED
      BY <1>1, <3>2, <3>3, BalancedStill DEF freeze
  <2>2. CASE p \in Admins
    <3>1. section[p] \in {"freeze", "unfreeze"}
      BY <1>1, <2>2 DEF Path, OnPath
    <3>2. CASE to[1] = "idle"
      <4>1. globalFrozen' = globalFrozen
        BY <1>4, <1>6, <3>1, <3>2 DEF Ranges
      <4>2. \A w : Due(w)' = Due(w)
        BY <1>1, <1>5, <3>2, DueMove
      <4> QED
        BY <1>1, <4>1, <4>2, BalancedStill DEF freeze
    <3>3. CASE to[1] = "event"
      <4>1. \A w : Due(w)' = IF w = section[p] THEN Due(w) \cup {p} ELSE Due(w)
        BY <1>1, <1>4, <1>5, <2>2, <3>1, <3>3, DueMove
      <4>2. \A w : p \notin Due(w)
        BY <1>1 DEF Due
      <4>4. CASE section[p] = "freeze"
        <5>1. /\ Due("unfreeze")' = Due("unfreeze") /\ Due("freeze")' = Due("freeze") \cup {p}
              /\ globalFrozen = FALSE /\ globalFrozen' = TRUE
          BY <1>4, <1>6, <3>3, <4>1, <4>4 DEF Ranges
        <5>2. Cardinality(Due("freeze"))' = Cardinality(Due("freeze")) + 1
          BY <4>2, <5>1, DueFinite, FS_AddElement
        <5> QED
          BY <1>1, <5>1, <5>2, DueFinite, BalancedDue, BalancedDueNext DEF Ranges
      <4>5. CASE section[p] = "unfreeze"
        <5>1. /\ Due("freeze")' = Due("freeze") /\ Due("unfreeze")' = Due("unfreeze") \cup {p}
              /\ globalFrozen = TRUE /\ globalFrozen' = FALSE
          BY <1>4, <1>6, <3>3, <4>1, <4>5 DEF Ranges
        <5>2. Cardinality(Due("unfreeze"))' = Cardinality(Due("unfreeze")) + 1
          BY <4>2, <5>1, DueFinite, FS_AddElement
        <5> QED
          BY <1>1, <5>1, <5>2, DueFinite, BalancedDue, BalancedDueNext DEF Ranges
      <4> QED
        BY <3>1, <4>4, <4>5
    <3> QED
      BY <1>4, <3>1, <3>2, <3>3
  <2> QED
    BY <2>1, <2>2 DEF All
<1> QED
  BY <1>7, <1>8, <1>10, <1>11

LEMMA DispatchStep ==
  ASSUME IInv, NEW p \in All, Dispatch(p)
  PROVE  IInv'
<1> USE DEF IInv
<1>1. /\ place[p] = "event"
      /\ UNCHANGED <<tzdata, writer, notifying, globalFrozen, calls>>
      /\ emitted' = CASE section[p] = "freeze" -> [emitted EXCEPT !.trip = @ + 1]
                      [] section[p] = "unfreeze" -> [emitted EXCEPT !.lift = @ + 1]
                      [] OTHER -> emitted
  BY DEF Dispatch
<1>2. PICK where \in {"read", "wait", "idle"}, what \in Sections :
        /\ Go(p, where, what)
        /\ \/ section[p] = "daily" /\ where \in {"read", "wait"} /\ what \in {"rate", "reject"}
           \/ section[p] = "reject" /\ where = "read" /\ what = "breaker"
           \/ section[p] \in {"record", "freeze", "unfreeze"} /\ where = "idle"
  BY DEF Dispatch, Sections
<1>3. Moved(p, where, what)
  BY <1>2, GoMoves DEF Places
<1>4. /\ section[p] = "freeze" => emitted' = [emitted EXCEPT !.trip = @ + 1]
      /\ section[p] = "unfreeze" => emitted' = [emitted EXCEPT !.lift = @ + 1]
      /\ section[p] \notin {"freeze", "unfreeze"} => emitted' = emitted
  BY <1>1
<1>5. emitted' \in [trip : Nat, lift : Nat]
  BY <1>4 DEF Ranges
<1>6. Ranges'
  BY <1>1, <1>3, <1>5 DEF Ranges, Moved, Places
<1>7. OneInside'
  BY <1>1, <1>2, <1>3 DEF OneInside, Moved, Unlocked, Ranges
<1>8. OnPath(p, where, what)
  BY <1>1, <1>2, GuardLockAssumption DEF Path, OnPath, All
<1>9. Path'
  BY <1>1, <1>3, <1>8, PathMove
<1>10. Balanced'
  <2>1. CASE p \in Procs
    <3>1. section[p] \notin {"freeze", "unfreeze"}
      BY <1>1, <2>1 DEF Path, OnPath
    <3>2. \A w : Due(w)' = Due(w)
      BY <1>3, <2>1, DueMove
    <3> QED
      BY <1>1, <1>4, <3>1, <3>2, BalancedStill DEF freeze
  <2>2. CASE p \in Admins
    <3>1. section[p] \in {"freeze", "unfreeze"} /\ where = "idle"
      BY <1>1, <1>2, <2>2 DEF Path, OnPath
    <3>2. \A w : Due(w)' = IF w = section[p] THEN Due(w) \ {p} ELSE Due(w)
      BY <1>1, <1>3, <2>2, <3>1, DueMove
    <3>3. p \in Due(section[p])
      BY <1>1, <2>2 DEF Due
    <3>4. CASE section[p] = "freeze"
      <4>1. /\ Due("unfreeze")' = Due("unfreeze") /\ Due("freeze")' = Due("freeze") \ {p}
            /\ p \in Due("freeze")
        BY <3>2, <3>3, <3>4
      <4>2. Cardinality(Due("freeze"))' = Cardinality(Due("freeze")) - 1
        BY <4>1, DueFinite, FS_RemoveElement
      <4>3. emitted'.trip = emitted.trip + 1 /\ emitted'.lift = emitted.lift
        BY <1>4, <3>4 DEF Ranges
      <4> QED
        BY <1>1, <4>1, <4>2, <4>3, DueFinite, BalancedDue, BalancedDueNext DEF Ranges
    <3>5. CASE section[p] = "unfreeze"
      <4>1. /\ Due("freeze")' = Due("freeze") /\ Due("unfreeze")' = Due("unfreeze") \ {p}
            /\ p \in Due("unfreeze")
        BY <3>2, <3>3, <3>5
      <4>2. Cardinality(Due("unfreeze"))' = Cardinality(Due("unfreeze")) - 1
        BY <4>1, DueFinite, FS_RemoveElement
      <4>3. emitted'.lift = emitted.lift + 1 /\ emitted'.trip = emitted.trip
        BY <1>4, <3>5 DEF Ranges
      <4> QED
        BY <1>1, <4>1, <4>2, <4>3, DueFinite, BalancedDue, BalancedDueNext DEF Ranges
    <3> QED
      BY <3>1, <3>4, <3>5
  <2> QED
    BY <2>1, <2>2 DEF All
<1> QED
  BY <1>6, <1>7, <1>9, <1>10

\* A custom check that panics is answered like one that rejects.
LEMMA CustomStep ==
  ASSUME IInv, NEW p \in All, CustomCheck(p)
  PROVE  IInv'
<1> USE DEF IInv
<1>1. PICK where \in {"broker", "wait", "idle"}, what \in {"record", "reject", "rate"} :
        /\ Go(p, where, what)
        /\ \/ where = "broker" /\ what = "record"
           \/ where = "wait" /\ what = "reject"
           \/ where = "idle" /\ what = "rate"
  BY DEF CustomCheck
<1>2. Moved(p, where, what)
  BY <1>1, GoMoves DEF Places, Sections
<1>3. /\ place[p] = "custom"
      /\ UNCHANGED <<tzdata, writer, notifying, freeze, calls>>
  BY DEF CustomCheck
<1>4. Ranges'
  BY <1>2, <1>3 DEF Ranges, Moved, Places, freeze
<1>5. OneInside'
  BY <1>1, <1>2, <1>3 DEF OneInside, Moved, Unlocked, Ranges
<1>6. p \in Procs /\ p \notin Admins
  BY <1>3 DEF Path, OnPath, All
<1>7. OnPath(p, where, what)
  BY <1>1, <1>6 DEF OnPath
<1>8. Path'
  BY <1>2, <1>7, PathMove
<1>9. Balanced'
  <2>1. \A w : Due(w)' = Due(w)
    BY <1>2, <1>6, DueMove
  <2> QED
    BY <1>3, <2>1, BalancedStill
<1> QED
  BY <1>4, <1>5, <1>8, <1>9

LEMMA BrokerStep ==
  ASSUME IInv, NEW p \in All, Broker(p)
  PROVE  IInv'
<1> USE DEF IInv
<1>1. PICK where \in {"wait", "idle"} : Go(p, where, "record")
  BY DEF Broker
<1>2. Moved(p, where, "record")
  BY <1>1, GoMoves DEF Places, Sections
<1>3. /\ place[p] = "broker"
      /\ UNCHANGED <<tzdata, writer, notifying, freeze, calls>>
  BY DEF Broker
<1>4. Ranges'
  BY <1>2, <1>3 DEF Ranges, Moved, Places, freeze
<1>5. OneInside'
  BY <1>1, <1>2, <1>3 DEF OneInside, Moved, Unlocked, Ranges
<1>6. p \in Procs /\ p \notin Admins
  BY <1>3 DEF Path, OnPath, All
<1>7. OnPath(p, where, "record")
  BY <1>1, <1>3, <1>6 DEF Path, OnPath
<1>8. Path'
  BY <1>2, <1>3, <1>7, PathMove
<1>9. Balanced'
  <2>1. \A w : Due(w)' = Due(w)
    BY <1>2, <1>6, DueMove
  <2> QED
    BY <1>3, <2>1, BalancedStill
<1> QED
  BY <1>4, <1>5, <1>8, <1>9

LEMMA StillStep ==
  ASSUME IInv, Notify \/ UNCHANGED vars
  PROVE  IInv'
<1> USE DEF IInv
<1>1. /\ UNCHANGED <<tzdata, writer, place, section, freeze, calls>>
      /\ notifying' \in BOOLEAN
  BY DEF Notify, vars, Ranges
<1>2. Ranges' /\ OneInside'
  BY <1>1 DEF Ranges, OneInside, Unlocked, freeze
<1>3. Path'
  BY <1>1 DEF Path, OnPath
<1>4. Balanced'
  <2>1. \A w : Due(w)' = Due(w)
    BY <1>1 DEF Due
  <2> QED
    BY <1>1, <2>1, BalancedStill
<1> QED
  BY <1>2, <1>3, <1>4

----------------------------------------------------------------------------
LEMMA Invariance == Spec => []IInv
<1>1. Init => IInv
  <2> SUFFICES ASSUME Init PROVE IInv
    OBVIOUS
  <2>1. /\ place = [p \in All |-> "idle"] /\ section = [p \in All |-> "daily"]
        /\ emitted = [trip |-> 0, lift |-> 0]
        /\ writer = "none" /\ globalFrozen = FALSE /\ notifying = FALSE /\ calls = 0
        /\ tzdata \in Hosts
    BY DEF Init
  <2>2. Ranges
    <3>1. /\ place \in [All -> {"idle", "read", "wait", "in", "event", "custom", "broker"}]
          /\ section \in [All -> Sections]
      BY <2>1 DEF Sections
    <3>2. emitted \in [trip : Nat, lift : Nat] /\ calls \in 0..MaxCalls
      BY <2>1, GuardLockAssumption
    <3> QED
      BY <2>1, <3>1, <3>2 DEF Ranges
  <2>3. OneInside /\ Path
    BY <2>1 DEF OneInside, Path, OnPath, Unlocked
  <2>4. Balanced
    <3>1. Due("freeze") = {} /\ Due("unfreeze") = {}
      BY <2>1 DEF Due, All
    <3>2. Cardinality({}) = 0
      BY FS_EmptySet
    <3> QED
      BY <2>1, <3>1, <3>2, BalancedDue
  <2> QED
    BY <2>2, <2>3, <2>4 DEF IInv
<1>2. IInv /\ [Next]_vars => IInv'
  BY BeginStep, ReadStep, LockStep, PanicStep, UnlockStep, DispatchStep, CustomStep,
     BrokerStep, StillStep DEF Next, Step, Rest
<1> QED
  BY <1>1, <1>2, PTL DEF Spec

\* At most one goroutine is inside a section of g.mu, and with the time zone
\* present whoever has the lock is inside.
THEOREM TypeCorrect == Spec => []TypeOK
<1>1. IInv => TypeOK
  BY DEF IInv, TypeOK
<1> QED
  BY Invariance, <1>1, PTL

\* FreezeGlobal and UnfreezeGlobal, for any number of administrators: the trips
\* decided are one more than the lifts exactly while the flag is set.
THEOREM BalancedHolds == Spec => []Balanced
<1>1. IInv => Balanced
  BY DEF IInv
<1> QED
  BY Invariance, <1>1, PTL
=============================================================================
