--------------------------- MODULE CheckChainProofs ---------------------------
(***************************************************************************)
(* The chain of checks for any calls, verdicts, host checks and manifest:  *)
(* sorted and complete, fail-closed, and an implementation of              *)
(* PriorityChecks.tla.                                                     *)
(***************************************************************************)
EXTENDS CheckChain, TLAPS, FiniteSetTheorems, WellFoundedInduction

\* ----- The place of a new check ------------------------------------------
LEMMA Least ==
  ASSUME NEW S \in SUBSET Nat, S # {}
  PROVE  \E n \in S : \A m \in S : n <= m
<1> DEFINE R == StrictSubsetOrdering(Nat)
           F == FiniteSubsetsOf(Nat)
           T == {1..n : n \in S}
<1>1. IsWellFoundedOn(R, F)
  BY FS_StrictSubsetOrderingWellFounded
<1>2. T \subseteq F
  <2> SUFFICES ASSUME NEW n \in S
               PROVE  1..n \in F
    OBVIOUS
  <2>1. IsFiniteSet(1..n)
    BY FS_Interval
  <2>2. 1..n \subseteq Nat
    OBVIOUS
  <2> QED
    BY <2>1, <2>2 DEF FiniteSubsetsOf
<1>3. T # {}
  OBVIOUS
<1>4. \E x \in T : \A y \in T : <<y, x>> \notin R
  <2> HIDE DEF R, F, T
  <2> QED
    BY <1>1, <1>2, <1>3, WFMin
<1>5. PICK n \in S : \A m \in S : <<1..m, 1..n>> \notin R
  BY <1>4
<1>6. ASSUME NEW m \in S, m < n
      PROVE  <<1..m, 1..n>> \in R
  <2>1. 1..m \subseteq 1..n /\ 1..m # 1..n /\ 1..m \subseteq Nat /\ 1..n \subseteq Nat
    <3>1. m \in Nat /\ n \in Nat /\ n \in 1..n /\ n \notin 1..m
      BY <1>6
    <3> QED
      BY <1>6, <3>1
  <2> QED
    BY <2>1 DEF StrictSubsetOrdering
<1>7. \A m \in S : ~(m < n)
  BY <1>5, <1>6
<1> QED
  BY <1>7

LEMMA Greatest ==
  ASSUME NEW n \in Nat, NEW S \in SUBSET (0..n), S # {}
  PROVE  \E k \in S : \A m \in S : m <= k
<1> DEFINE T == {n - k : k \in S}
<1>1. T \in SUBSET Nat /\ T # {}
  OBVIOUS
<1>2. PICK t \in T : \A m \in T : t <= m
  BY <1>1, Least
<1>3. PICK k \in S : t = n - k
  BY <1>2
<1>4. ASSUME NEW m \in S
      PROVE  m <= k
  <2>1. n - m \in T
    OBVIOUS
  <2>2. n - k <= n - m
    BY <1>2, <1>3, <2>1
  <2> QED
    BY <2>2
<1> QED
  BY <1>4

\* What a sequence holds after an insertion.
Inserted(s, k, c) == SubSeq(s, 1, k) \o <<c>> \o SubSeq(s, k + 1, Len(s))

IsInsertion(r, s, k, c) ==
  /\ r \in Seq(AllChecks) /\ Len(r) = Len(s) + 1
  /\ \A i \in 1..k : r[i] = s[i]
  /\ r[k + 1] = c
  /\ \A i \in k + 2..Len(s) + 1 : r[i] = s[i - 1]

LEMMA InsertedAt ==
  ASSUME NEW s \in Seq(AllChecks), NEW k \in 0..Len(s), NEW c \in AllChecks
  PROVE  IsInsertion(Inserted(s, k, c), s, k, c)
<1> DEFINE a == SubSeq(s, 1, k)
           b == SubSeq(s, k + 1, Len(s))
<1>1. a \in Seq(AllChecks) /\ Len(a) = k /\ \A i \in 1..k : a[i] = s[i]
  OBVIOUS
<1>2. b \in Seq(AllChecks) /\ Len(b) = Len(s) - k /\ \A i \in 1..Len(s) - k : b[i] = s[i + k]
  OBVIOUS
<1>3. Inserted(s, k, c) = a \o <<c>> \o b
  BY DEF Inserted
<1> HIDE DEF a, b
<1> DEFINE d == a \o <<c>>
<1>4. d \in Seq(AllChecks) /\ Len(d) = k + 1 /\ (\A i \in 1..k : d[i] = s[i]) /\ d[k + 1] = c
  BY <1>1
<1> HIDE DEF d
<1>5. d \o b \in Seq(AllChecks) /\ Len(d \o b) = Len(s) + 1
  BY <1>2, <1>4
<1>6. \A i \in 1..k + 1 : (d \o b)[i] = d[i]
  BY <1>2, <1>4
<1>7. \A i \in k + 2..Len(s) + 1 : (d \o b)[i] = b[i - (k + 1)]
  BY <1>2, <1>4
<1>8. ASSUME NEW i \in k + 2..Len(s) + 1
      PROVE  (d \o b)[i] = s[i - 1]
  <2>1. i - (k + 1) \in 1..Len(s) - k /\ (i - (k + 1)) + k = i - 1
    OBVIOUS
  <2> QED
    BY <1>2, <1>7, <2>1
<1>9. Inserted(s, k, c) = d \o b
  BY <1>3 DEF d
<1>10. IsInsertion(d \o b, s, k, c)
  <2>1. \A i \in 1..k : i \in 1..k + 1
    OBVIOUS
  <2>2. \A i \in 1..k : (d \o b)[i] = s[i]
    BY <1>4, <1>6, <2>1
  <2>3. (d \o b)[k + 1] = c
    BY <1>4, <1>6
  <2> QED
    BY <1>5, <1>8, <2>2, <2>3 DEF IsInsertion
<1> QED
  BY <1>9, <1>10
\* ----- The inductive invariant -------------------------------------------
Bound == Cardinality(HostChecks) + Len(Manifest)

\* Ranges, and the registrations that host and manifest may still cause.
Ranges ==
  /\ checks \in Seq(AllChecks) /\ registrations = Len(checks)
  /\ hostLeft \subseteq HostChecks
  /\ row \in 1..Len(Manifest) + 1
  /\ registrations + Cardinality(hostLeft) + (Len(Manifest) + 1 - row) <= Bound

CallRanges ==
  /\ chain \in [Calls -> Seq(AllChecks)]
  /\ position \in [Calls -> Nat]
  /\ verdict \in [Calls -> {"none", "pending", "allowed", "rejected"}]
  /\ culprit \in [Calls -> SUBSET AllChecks]
  /\ \A p \in Calls : position[p] <= Len(chain[p]) + 1

\* One check per registration.
Once ==
  /\ IsFiniteSet(Elements(checks)) /\ Cardinality(Elements(checks)) = registrations
  /\ {c.at : c \in Elements(checks)} = 1..registrations

Sorted(s) == \A i, j \in DOMAIN s : i < j => Before(s[i], s[j])

SortedChains == \A p \in Calls : Sorted(chain[p])

\* What discovery has done with the rows it has seen.
Listed ==
  /\ errors = {i \in 1..row - 1 : ~Valid(Manifest[i])}
  /\ \A i \in 1..row - 1 : Valid(Manifest[i]) =>
       \E c \in Elements(checks) : /\ c.name = Manifest[i].name
                                   /\ c.order = Manifest[i].order

\* A call has passed the checks in front of its position, all when allowed.
Passed ==
  \A p \in Calls :
    \A i \in DOMAIN chain[p] :
      \/ verdict[p] = "pending" /\ i < position[p]
      \/ verdict[p] = "allowed"
      => ~Refuses(chain[p][i], p)

Started == \A p \in Calls : verdict[p] = "pending" => position[p] >= 1

Culprits ==
  \A p \in Calls :
    /\ verdict[p] # "rejected" => culprit[p] = {}
    /\ verdict[p] = "rejected" => \E c \in Elements(chain[p]) : culprit[p] = {c}

IInv == /\ Ranges /\ CallRanges /\ Once /\ Sorted(checks) /\ SortedChains
        /\ Listed /\ Passed /\ Started /\ Culprits

\* ----- The operators -----------------------------------------------------
LEMMA ManifestRows ==
  /\ Len(Manifest) \in Nat /\ DOMAIN Manifest = 1..Len(Manifest)
  /\ \A i \in 1..Len(Manifest) : Manifest[i].order \in Int
<1> DEFINE Row == [name : STRING, order : Int, executable : STRING]
<1>1. Manifest \in Seq(Row)
  BY CheckChainAssumption
<1>2. \A r \in Row : r.order \in Int
  OBVIOUS
<1> HIDE DEF Row
<1>3. Len(Manifest) \in Nat /\ DOMAIN Manifest = 1..Len(Manifest)
  BY <1>1
<1>4. \A i \in 1..Len(Manifest) : Manifest[i] \in Row
  BY <1>1
<1> QED
  BY <1>2, <1>3, <1>4

LEMMA BoundNat == Bound \in Nat /\ Cardinality(HostChecks) \in Nat
BY ManifestRows, CheckChainAssumption, FS_CardinalityType DEF Bound

LEMMA CheckTypes ==
  ASSUME NEW c \in AllChecks
  PROVE  c.order \in Int /\ c.at \in 1..Bound
<1>1. c.order \in {h.order : h \in HostChecks} \cup {Manifest[i].order : i \in DOMAIN Manifest}
  BY DEF AllChecks
<1>2. c.at \in 1..Bound
  BY DEF AllChecks, Bound
<1> QED
  BY <1>1, <1>2, ManifestRows, CheckChainAssumption

LEMMA AheadIs ==
  ASSUME checks \in Seq(AllChecks), NEW order \in Int
  PROVE  /\ Ahead(order) \in 0..Len(checks)
         /\ \A i \in Ahead(order) + 1..Len(checks) : checks[i].order > order
         /\ Ahead(order) = 0 \/ checks[Ahead(order)].order <= order
<1> DEFINE S == {k \in 0..Len(checks) : k = 0 \/ checks[k].order <= order}
<1>1. Len(checks) \in Nat /\ S \in SUBSET (0..Len(checks)) /\ 0 \in S
  OBVIOUS
<1>2. PICK k \in S : \A m \in S : m <= k
  BY <1>1, Greatest
<1>3. ASSUME NEW i \in k + 1..Len(checks)
      PROVE  checks[i].order > order
  <2>1. i \in 1..Len(checks) /\ i \notin S /\ i # 0
    BY <1>2
  <2>2. checks[i].order \in Int
    BY <2>1, CheckTypes
  <2> QED
    BY <2>1, <2>2
<1> QED
  BY <1>2, <1>3 DEF Ahead
\* insertCheckLocked puts one new check at its place and moves no other.
Insertion(c) ==
  /\ c \in AllChecks /\ c.at = registrations + 1
  /\ checks' \in Seq(AllChecks) /\ Len(checks') = Len(checks) + 1
  /\ registrations' = registrations + 1
  /\ Elements(checks') = Elements(checks) \cup {c}
  /\ Sorted(checks')

LEMMA ElementsOf ==
  ASSUME NEW s \in Seq(AllChecks), NEW i \in 1..Len(s)
  PROVE  s[i] \in Elements(s) /\ s[i] \in AllChecks
BY DEF Elements

LEMMA InsertedElements ==
  ASSUME NEW s \in Seq(AllChecks), NEW k \in 0..Len(s), NEW c \in AllChecks
  PROVE  Elements(Inserted(s, k, c)) = Elements(s) \cup {c}
<1> DEFINE r == Inserted(s, k, c)
<1>1. /\ r \in Seq(AllChecks) /\ Len(r) = Len(s) + 1 /\ Len(s) \in Nat
      /\ \A i \in 1..k : r[i] = s[i]
      /\ r[k + 1] = c
      /\ \A i \in k + 2..Len(s) + 1 : r[i] = s[i - 1]
  <2>1. IsInsertion(r, s, k, c)
    BY InsertedAt
  <2> QED
    BY <2>1 DEF IsInsertion
<1> HIDE DEF r
<1>2. DOMAIN r = 1..Len(s) + 1 /\ DOMAIN s = 1..Len(s)
  BY <1>1
<1>3. ASSUME NEW i \in 1..Len(s) + 1
      PROVE  r[i] \in Elements(s) \cup {c}
  <2>1. CASE i \in 1..k
    <3>1. i \in 1..Len(s) /\ r[i] = s[i]
      BY <1>1, <2>1
    <3> QED
      BY <3>1, ElementsOf
  <2>2. CASE i = k + 1
    BY <1>1, <2>2
  <2>3. CASE i \in k + 2..Len(s) + 1
    <3>1. i - 1 \in 1..Len(s) /\ r[i] = s[i - 1]
      BY <1>1, <2>3
    <3> QED
      BY <3>1, ElementsOf
  <2> QED
    BY <1>1, <2>1, <2>2, <2>3
<1>4. ASSUME NEW i \in 1..Len(s)
      PROVE  s[i] \in Elements(r)
  <2>1. CASE i <= k
    <3>1. i \in 1..Len(r) /\ r[i] = s[i]
      BY <1>1, <2>1
    <3> QED
      BY <1>1, <3>1, ElementsOf
  <2>2. CASE i > k
    <3>1. i + 1 \in 1..Len(r) /\ i + 1 \in k + 2..Len(s) + 1 /\ (i + 1) - 1 = i
      BY <1>1, <2>2
    <3>2. r[i + 1] = s[i]
      BY <1>1, <3>1
    <3> QED
      BY <1>1, <3>1, <3>2, ElementsOf
  <2> QED
    BY <2>1, <2>2
<1>5. c \in Elements(r)
  <2>1. k + 1 \in 1..Len(r)
    BY <1>1
  <2> QED
    BY <1>1, <2>1, ElementsOf
<1>6. Elements(r) \subseteq Elements(s) \cup {c}
  BY <1>2, <1>3 DEF Elements
<1>7. Elements(s) \subseteq Elements(r)
  BY <1>2, <1>4 DEF Elements
<1> QED
  BY <1>5, <1>6, <1>7 DEF r

LEMMA InsertedSorted ==
  ASSUME NEW s \in Seq(AllChecks), Sorted(s), NEW k \in 0..Len(s), NEW c \in AllChecks,
         \A i \in 1..Len(s) : s[i].at < c.at,
         \A i \in k + 1..Len(s) : s[i].order > c.order,
         k = 0 \/ s[k].order <= c.order
  PROVE  Sorted(Inserted(s, k, c))
<1> DEFINE r == Inserted(s, k, c)
<1>1. /\ r \in Seq(AllChecks) /\ Len(r) = Len(s) + 1 /\ Len(s) \in Nat
      /\ \A i \in 1..k : r[i] = s[i]
      /\ r[k + 1] = c
      /\ \A i \in k + 2..Len(s) + 1 : r[i] = s[i - 1]
  <2>1. IsInsertion(r, s, k, c)
    BY InsertedAt
  <2> QED
    BY <2>1 DEF IsInsertion
<1> HIDE DEF r
<1>2. c.order \in Int /\ \A i \in 1..Len(s) : s[i].order \in Int /\ s[i].at \in Int
  BY CheckTypes, ElementsOf
<1>3. \A i, j \in 1..Len(s) : i < j => Before(s[i], s[j])
  BY DEF Sorted
<1>4. ASSUME NEW i \in 1..k
      PROVE  Before(s[i], c)
  <2>1. i \in 1..Len(s) /\ k \in 1..Len(s) /\ s[k].order <= c.order
    OBVIOUS
  <2>2. s[i].order <= s[k].order
    BY <1>2, <1>3, <2>1 DEF Before
  <2> QED
    BY <1>2, <2>1, <2>2 DEF Before
<1>5. ASSUME NEW j \in k + 1..Len(s)
      PROVE  Before(c, s[j])
  BY DEF Before
<1>6. ASSUME NEW i \in 1..Len(s) + 1, NEW j \in 1..Len(s) + 1, i < j
      PROVE  Before(r[i], r[j])
  <2>1. CASE j \in 1..k
    <3>1. i \in 1..k /\ i \in 1..Len(s) /\ j \in 1..Len(s)
      BY <1>6, <2>1
    <3> QED
      BY <1>1, <1>3, <1>6, <2>1, <3>1
  <2>2. CASE j = k + 1
    <3>1. i \in 1..k
      BY <1>6, <2>2
    <3> QED
      BY <1>1, <1>4, <2>2, <3>1
  <2>3. CASE j \in k + 2..Len(s) + 1
    <3>1. r[j] = s[j - 1] /\ j - 1 \in k + 1..Len(s) /\ j - 1 \in 1..Len(s)
      BY <1>1, <2>3
    <3>2. CASE i \in 1..k
      <4>1. i \in 1..Len(s) /\ i < j - 1
        BY <2>3, <3>2
      <4> QED
        BY <1>1, <1>3, <3>1, <3>2, <4>1
    <3>3. CASE i = k + 1
      BY <1>1, <1>5, <3>1, <3>3
    <3>4. CASE i \in k + 2..Len(s) + 1
      <4>1. r[i] = s[i - 1] /\ i - 1 \in 1..Len(s) /\ i - 1 < j - 1
        BY <1>1, <1>6, <3>4
      <4> QED
        BY <1>3, <3>1, <4>1
    <3> QED
      BY <3>2, <3>3, <3>4
  <2> QED
    BY <2>1, <2>2, <2>3
<1>7. DOMAIN r = 1..Len(s) + 1
  BY <1>1
<1> QED
  BY <1>6, <1>7 DEF Sorted, r

LEMMA InsertMoves ==
  ASSUME Ranges, Once, Sorted(checks), NEW name, NEW order, insertCheckLocked(name, order),
         [name |-> name, order |-> order, at |-> registrations + 1] \in AllChecks
  PROVE  Insertion([name |-> name, order |-> order, at |-> registrations + 1])
<1> DEFINE k == Ahead(order)
           c == [name |-> name, order |-> order, at |-> registrations + 1]
<1>1. c \in AllChecks /\ c.order = order /\ order \in Int /\ c.at = registrations + 1
  BY CheckTypes
<1>2. /\ k \in 0..Len(checks)
      /\ \A i \in k + 1..Len(checks) : checks[i].order > order
      /\ k = 0 \/ checks[k].order <= order
  BY <1>1, AheadIs DEF Ranges
<1>3. checks' = Inserted(checks, k, c) /\ registrations' = registrations + 1
  BY DEF insertCheckLocked, Inserted
<1>4. \A i \in 1..Len(checks) : checks[i].at < c.at
  <2> SUFFICES ASSUME NEW i \in 1..Len(checks)
               PROVE  checks[i].at < c.at
    OBVIOUS
  <2>1. checks[i] \in Elements(checks)
    BY ElementsOf DEF Ranges
  <2>2. checks[i].at \in 1..registrations
    BY <2>1 DEF Once
  <2> QED
    BY <1>1, <2>2 DEF Ranges
<1> HIDE DEF k, c
<1>5. checks' \in Seq(AllChecks) /\ Len(checks') = Len(checks) + 1
  BY <1>1, <1>2, <1>3, InsertedAt DEF Ranges, IsInsertion
<1>6. Elements(checks') = Elements(checks) \cup {c}
  BY <1>1, <1>2, <1>3, InsertedElements DEF Ranges
<1>7. Sorted(checks')
  BY <1>1, <1>2, <1>3, <1>4, InsertedSorted DEF Ranges
<1>8. Insertion(c)
  BY <1>1, <1>3, <1>5, <1>6, <1>7 DEF Insertion
<1> QED
  BY <1>8 DEF c
\* ----- The steps ---------------------------------------------------------
CallParts == CallRanges /\ SortedChains /\ Passed /\ Started /\ Culprits

LEMMA CallsStill ==
  ASSUME CallParts, UNCHANGED <<chain, position, verdict, culprit>>
  PROVE  CallParts'
BY DEF CallParts, CallRanges, SortedChains, Passed, Started, Culprits

LEMMA NewIsNew ==
  ASSUME Ranges, Once, NEW c, Insertion(c)
  PROVE  c \notin Elements(checks)
<1>1. registrations + 1 \notin 1..registrations
  BY DEF Ranges
<1> QED
  BY <1>1 DEF Once, Insertion

LEMMA OnceGrows ==
  ASSUME Ranges, Once, NEW c, Insertion(c)
  PROVE  Once'
<1>1. c \notin Elements(checks)
  BY NewIsNew
<1>2. /\ Elements(checks') = Elements(checks) \cup {c}
      /\ registrations' = registrations + 1 /\ c.at = registrations + 1
      /\ registrations \in Nat
  BY DEF Insertion, Ranges
<1>3. IsFiniteSet(Elements(checks')) /\ Cardinality(Elements(checks')) = registrations + 1
  BY <1>1, <1>2, FS_AddElement DEF Once
<1>4. {d.at : d \in Elements(checks')} = {d.at : d \in Elements(checks)} \cup {c.at}
  BY <1>2
<1>5. {d.at : d \in Elements(checks')} = 1..registrations'
  BY <1>2, <1>4 DEF Once
<1> QED
  BY <1>2, <1>3, <1>5 DEF Once

LEMMA OnceStill ==
  ASSUME Once, UNCHANGED <<checks, registrations>>
  PROVE  Once'
BY DEF Once

\* RegisterCheck of a host check, of a name and an Order that AllChecks has.
LEMMA NewCheckType ==
  ASSUME Ranges, NEW name, NEW order,
         name \in {h.name : h \in HostChecks} \cup {Manifest[i].name : i \in DOMAIN Manifest},
         order \in {h.order : h \in HostChecks} \cup {Manifest[i].order : i \in DOMAIN Manifest},
         registrations + 1 <= Bound
  PROVE  [name |-> name, order |-> order, at |-> registrations + 1] \in AllChecks
<1>1. registrations + 1 \in 1..Bound
  BY BoundNat DEF Ranges
<1> QED
  BY <1>1 DEF AllChecks, Bound

LEMMA RegisterStep ==
  ASSUME IInv, NEW h \in HostChecks, RegisterCheck(h)
  PROVE  IInv' /\ Promise!Register
<1> DEFINE c == [name |-> h.name, order |-> h.order, at |-> registrations + 1]
<1>1. /\ h \in hostLeft /\ hostLeft' = hostLeft \ {h} /\ insertCheckLocked(h.name, h.order)
      /\ UNCHANGED <<row, errors, chain, position, verdict, culprit>>
  BY DEF RegisterCheck
<1>2. /\ IsFiniteSet(hostLeft) /\ Cardinality(hostLeft) \in Nat
      /\ Cardinality(hostLeft') = Cardinality(hostLeft) - 1 /\ Cardinality(hostLeft) >= 1
  <2>1. IsFiniteSet(hostLeft)
    BY FS_Subset, CheckChainAssumption DEF IInv, Ranges
  <2>2. Cardinality(hostLeft') = Cardinality(hostLeft) - 1 /\ IsFiniteSet(hostLeft')
    BY <1>1, <2>1, FS_RemoveElement
  <2>3. Cardinality(hostLeft') \in Nat /\ Cardinality(hostLeft) \in Nat
    BY <2>1, <2>2, FS_CardinalityType
  <2> QED
    BY <2>1, <2>2, <2>3
<1>3. /\ registrations \in Nat /\ row \in 1..Len(Manifest) + 1
      /\ registrations + Cardinality(hostLeft) + (Len(Manifest) + 1 - row) <= Bound
  BY DEF IInv, Ranges
<1>4. registrations + 1 <= Bound
  BY <1>2, <1>3, BoundNat, ManifestRows
<1>5. c \in AllChecks
  BY <1>4, NewCheckType DEF IInv
<1>6. Insertion(c)
  BY <1>1, <1>5, InsertMoves DEF IInv
<1> HIDE DEF c
<1>7. /\ checks' \in Seq(AllChecks) /\ Len(checks') = Len(checks) + 1
      /\ registrations' = registrations + 1 /\ Sorted(checks')
      /\ Elements(checks') = Elements(checks) \cup {c} /\ c \in AllChecks
  BY <1>6 DEF Insertion
<1>8. Ranges'
  <2>1. registrations' + Cardinality(hostLeft') + (Len(Manifest) + 1 - row) <= Bound
    BY <1>2, <1>3, <1>7, BoundNat, ManifestRows
  <2> QED
    BY <1>1, <1>7, <2>1 DEF IInv, Ranges
<1>9. Once'
  BY <1>6, OnceGrows DEF IInv
<1>10. Listed'
  BY <1>1, <1>7 DEF IInv, Listed
<1>11. CallParts'
  BY <1>1, CallsStill DEF IInv, CallParts
<1>12. Promise!Register
  <2>1. c \notin Elements(checks)
    BY <1>6, NewIsNew DEF IInv
  <2> QED
    BY <1>1, <1>7, <2>1 DEF Promise!Register
<1> QED
  BY <1>7, <1>8, <1>9, <1>10, <1>11, <1>12 DEF IInv, CallParts
LEMMA DiscoverStep ==
  ASSUME IInv, DiscoverPlugins
  PROVE  IInv' /\ (Promise!Register \/ UNCHANGED Promise!vars)
<1> DEFINE m == Manifest[row]
           c == [name |-> m.name, order |-> m.order, at |-> registrations + 1]
<1>1. /\ row <= Len(Manifest) /\ row' = row + 1
      /\ UNCHANGED <<hostLeft, chain, position, verdict, culprit>>
      /\ \/ Valid(m) /\ insertCheckLocked(m.name, m.order) /\ errors' = errors
         \/ ~Valid(m) /\ errors' = errors \cup {row} /\ UNCHANGED <<checks, registrations>>
  BY DEF DiscoverPlugins
<1>2. /\ registrations \in Nat /\ row \in 1..Len(Manifest) /\ row \in DOMAIN Manifest
      /\ Cardinality(hostLeft) \in Nat
      /\ registrations + Cardinality(hostLeft) + (Len(Manifest) + 1 - row) <= Bound
  BY <1>1, ManifestRows, FS_Subset, FS_CardinalityType, CheckChainAssumption DEF IInv, Ranges
<1>3. /\ row' \in 1..Len(Manifest) + 1 /\ row' - 1 = row
      /\ 1..row' - 1 = 1..row - 1 \cup {row} /\ row \notin 1..row - 1
  <2>1. row \in Nat /\ row >= 1 /\ Len(Manifest) \in Nat /\ row' = row + 1
    BY <1>1, <1>2, ManifestRows
  <2>2. 1..row = 1..row - 1 \cup {row}
    BY <2>1
  <2>3. row' \in 1..Len(Manifest) + 1 /\ row' - 1 = row /\ row \notin 1..row - 1
    BY <1>1, <2>1
  <2> QED
    BY <2>2, <2>3
<1>4. CallParts'
  BY <1>1, CallsStill DEF IInv, CallParts
<1>5. CASE Valid(m) /\ insertCheckLocked(m.name, m.order) /\ errors' = errors
  <2>1. registrations + 1 <= Bound
    BY <1>1, <1>2, BoundNat, ManifestRows
  <2>2. c \in AllChecks
    BY <1>2, <2>1, NewCheckType DEF IInv
  <2>3. Insertion(c)
    BY <1>5, <2>2, InsertMoves DEF IInv
  <2>4. c.name = m.name /\ c.order = m.order
    OBVIOUS
  <2> HIDE DEF c
  <2>5. /\ checks' \in Seq(AllChecks) /\ Len(checks') = Len(checks) + 1
        /\ registrations' = registrations + 1 /\ Sorted(checks')
        /\ Elements(checks') = Elements(checks) \cup {c} /\ c \in AllChecks
    BY <2>3 DEF Insertion
  <2>6. Ranges'
    <3>1. registrations' + Cardinality(hostLeft') + (Len(Manifest) + 1 - row') <= Bound
      BY <1>1, <1>2, <2>5, BoundNat, ManifestRows
    <3> QED
      BY <1>1, <1>3, <2>5, <3>1 DEF IInv, Ranges
  <2>7. Once'
    BY <2>3, OnceGrows DEF IInv
  <2>8. Listed'
    <3>1. errors' = {i \in 1..row' - 1 : ~Valid(Manifest[i])}
      BY <1>3, <1>5 DEF IInv, Listed
    <3>2. \A i \in 1..row' - 1 : Valid(Manifest[i]) =>
            \E d \in Elements(checks') : d.name = Manifest[i].name /\ d.order = Manifest[i].order
      BY <1>3, <2>4, <2>5 DEF IInv, Listed
    <3> QED
      BY <3>1, <3>2 DEF Listed
  <2>9. Promise!Register
    <3>1. c \notin Elements(checks)
      BY <2>3, NewIsNew DEF IInv
    <3> QED
      BY <1>1, <2>5, <3>1 DEF Promise!Register
  <2> QED
    BY <1>4, <2>5, <2>6, <2>7, <2>8, <2>9 DEF IInv, CallParts
<1>6. CASE ~Valid(m) /\ errors' = errors \cup {row} /\ UNCHANGED <<checks, registrations>>
  <2>1. Ranges'
    <3>1. registrations' + Cardinality(hostLeft') + (Len(Manifest) + 1 - row') <= Bound
      BY <1>1, <1>2, <1>6, BoundNat, ManifestRows
    <3> QED
      BY <1>1, <1>3, <1>6, <3>1 DEF IInv, Ranges
  <2>2. Once' /\ Sorted(checks')
    BY <1>6, OnceStill DEF IInv
  <2>3. Listed'
    <3>1. errors' = {i \in 1..row' - 1 : ~Valid(Manifest[i])}
      BY <1>3, <1>6 DEF IInv, Listed
    <3> QED
      BY <1>3, <1>6, <3>1 DEF IInv, Listed
  <2>4. UNCHANGED Promise!vars
    BY <1>1, <1>6 DEF Promise!vars
  <2> QED
    BY <1>4, <2>1, <2>2, <2>3, <2>4 DEF IInv, CallParts
<1> QED
  BY <1>1, <1>5, <1>6

\* The parts a call leaves alone.
LEMMA ChainStill ==
  ASSUME IInv, UNCHANGED <<checks, registrations, hostLeft, row, errors>>
  PROVE  Ranges' /\ Once' /\ Sorted(checks') /\ Listed'
<1>1. Ranges'
  BY DEF IInv, Ranges
<1>2. Once' /\ Sorted(checks')
  BY OnceStill DEF IInv
<1>3. Listed'
  BY DEF IInv, Listed
<1> QED
  BY <1>1, <1>2, <1>3

LEMMA SnapshotStep ==
  ASSUME IInv, NEW p \in Calls, snapshotChecks(p)
  PROVE  IInv' /\ Promise!Start(p)
<1>1. /\ verdict[p] = "none"
      /\ chain' = [chain EXCEPT ![p] = checks]
      /\ position' = [position EXCEPT ![p] = 1]
      /\ verdict' = [verdict EXCEPT ![p] = "pending"]
      /\ UNCHANGED <<checks, registrations, hostLeft, row, errors, culprit>>
  BY DEF snapshotChecks
<1>2. /\ chain \in [Calls -> Seq(AllChecks)] /\ position \in [Calls -> Nat]
      /\ verdict \in [Calls -> {"none", "pending", "allowed", "rejected"}]
      /\ checks \in Seq(AllChecks) /\ Len(checks) \in Nat
  BY DEF IInv, CallRanges, Ranges
<1>3. /\ chain'[p] = checks /\ position'[p] = 1 /\ verdict'[p] = "pending"
      /\ \A q \in Calls \ {p} : /\ chain'[q] = chain[q] /\ position'[q] = position[q]
                                /\ verdict'[q] = verdict[q]
  BY <1>1, <1>2
<1>4. CallRanges'
  <2>1. /\ chain' \in [Calls -> Seq(AllChecks)] /\ position' \in [Calls -> Nat]
        /\ verdict' \in [Calls -> {"none", "pending", "allowed", "rejected"}]
    BY <1>1, <1>2
  <2>2. position'[p] <= Len(chain'[p]) + 1
    BY <1>2, <1>3
  <2>3. \A q \in Calls \ {p} : position'[q] <= Len(chain'[q]) + 1
    BY <1>3 DEF IInv, CallRanges
  <2> QED
    BY <1>1, <2>1, <2>2, <2>3 DEF IInv, CallRanges
<1>5. SortedChains'
  BY <1>3 DEF IInv, SortedChains
<1>6. Passed'
  <2> SUFFICES ASSUME NEW q \in Calls, NEW i \in DOMAIN chain'[q],
                      \/ verdict'[q] = "pending" /\ i < position'[q]
                      \/ verdict'[q] = "allowed"
               PROVE  ~Refuses(chain'[q][i], q)
    BY DEF Passed
  <2>1. q # p
    BY <1>2, <1>3
  <2> QED
    BY <1>3, <2>1 DEF IInv, Passed
<1>7. Started' /\ Culprits'
  BY <1>1, <1>3 DEF IInv, Started, Culprits
<1>8. Promise!Start(p)
  <2>1. [q \in Calls |-> Elements(chain'[q])]
          = [[q \in Calls |-> Elements(chain[q])] EXCEPT ![p] = Elements(checks)]
    BY <1>3
  <2> QED
    BY <1>1, <2>1 DEF Promise!Start
<1> QED
  BY <1>1, <1>4, <1>5, <1>6, <1>7, <1>8, ChainStill DEF IInv
LEMMA CallStep ==
  ASSUME IInv, NEW p \in Calls, CheckOrderCtx(p)
  PROVE  IInv' /\ (Promise!Allow(p) \/ Promise!Reject(p) \/ UNCHANGED Promise!vars)
<1> DEFINE i == position[p]
           s == chain[p]
<1>1. /\ verdict[p] = "pending"
      /\ UNCHANGED <<checks, registrations, hostLeft, row, errors, chain>>
      /\ \/ /\ i > Len(s) /\ verdict' = [verdict EXCEPT ![p] = "allowed"]
            /\ position' = position /\ culprit' = culprit
         \/ /\ i <= Len(s) /\ Refuses(s[i], p)
            /\ verdict' = [verdict EXCEPT ![p] = "rejected"]
            /\ culprit' = [culprit EXCEPT ![p] = {s[i]}] /\ position' = position
         \/ /\ i <= Len(s) /\ ~Refuses(s[i], p)
            /\ position' = [position EXCEPT ![p] = i + 1]
            /\ verdict' = verdict /\ culprit' = culprit
  BY DEF CheckOrderCtx
<1>2. /\ chain \in [Calls -> Seq(AllChecks)] /\ position \in [Calls -> Nat]
      /\ verdict \in [Calls -> {"none", "pending", "allowed", "rejected"}]
      /\ culprit \in [Calls -> SUBSET AllChecks]
      /\ \A q \in Calls : position[q] <= Len(chain[q]) + 1
  BY DEF IInv, CallRanges
<1>3. /\ s \in Seq(AllChecks) /\ Len(s) \in Nat /\ DOMAIN s = 1..Len(s)
      /\ i \in 1..Len(s) + 1 /\ Sorted(s)
      /\ \A j \in 1..Len(s) : j < i => ~Refuses(s[j], p)
  <2>1. s \in Seq(AllChecks) /\ i \in Nat /\ i <= Len(s) + 1
    BY <1>2
  <2>2. i >= 1
    BY <1>1 DEF IInv, Started
  <2>3. Sorted(s) /\ \A j \in DOMAIN s : j < i => ~Refuses(s[j], p)
    BY <1>1 DEF IInv, SortedChains, Passed
  <2> QED
    BY <2>1, <2>2, <2>3
<1>4. SortedChains'
  BY <1>1 DEF IInv, SortedChains
<1>5. CASE i > Len(s) /\ verdict' = [verdict EXCEPT ![p] = "allowed"]
           /\ position' = position /\ culprit' = culprit
  <2>1. verdict'[p] = "allowed" /\ \A q \in Calls \ {p} : verdict'[q] = verdict[q]
    BY <1>2, <1>5
  <2>2. verdict' \in [Calls -> {"none", "pending", "allowed", "rejected"}]
    BY <1>2, <1>5
  <2>3. CallRanges'
    BY <1>1, <1>2, <1>5, <2>2 DEF CallRanges
  <2>4. \A j \in DOMAIN s : ~Refuses(s[j], p)
    BY <1>3, <1>5
  <2>5. Passed'
    BY <1>1, <1>5, <2>1, <2>4 DEF IInv, Passed
  <2>6. Started' /\ Culprits'
    BY <1>1, <1>5, <2>1 DEF IInv, Started, Culprits
  <2>7. Promise!Allow(p)
    <3>1. \A c \in Elements(s) : ~Refuses(c, p)
      BY <2>4 DEF Elements
    <3> QED
      BY <1>1, <1>5, <3>1 DEF Promise!Allow
  <2> QED
    BY <1>1, <1>4, <2>3, <2>5, <2>6, <2>7, ChainStill DEF IInv
<1>6. CASE i <= Len(s) /\ Refuses(s[i], p)
           /\ verdict' = [verdict EXCEPT ![p] = "rejected"]
           /\ culprit' = [culprit EXCEPT ![p] = {s[i]}] /\ position' = position
  <2>1. /\ verdict'[p] = "rejected" /\ culprit'[p] = {s[i]}
        /\ \A q \in Calls \ {p} : verdict'[q] = verdict[q] /\ culprit'[q] = culprit[q]
    BY <1>2, <1>6
  <2>2. i \in 1..Len(s) /\ s[i] \in Elements(s) /\ s[i] \in AllChecks
    BY <1>3, <1>6, ElementsOf
  <2>3. /\ verdict' \in [Calls -> {"none", "pending", "allowed", "rejected"}]
        /\ culprit' \in [Calls -> SUBSET AllChecks]
    BY <1>2, <1>6, <2>2
  <2>4. CallRanges'
    BY <1>1, <1>2, <1>6, <2>3 DEF CallRanges
  <2>5. Passed'
    BY <1>1, <1>6, <2>1 DEF IInv, Passed
  <2>6. Started' /\ Culprits'
    BY <1>1, <1>6, <2>1, <2>2 DEF IInv, Started, Culprits
  <2>7. Promise!Reject(p)
    <3>1. ASSUME NEW d \in Elements(s), Refuses(d, p)
          PROVE  d = s[i] \/ Before(s[i], d)
      <4>1. PICK j \in DOMAIN s : d = s[j]
        BY DEF Elements
      <4>2. ~(j < i)
        BY <1>3, <3>1, <4>1
      <4>3. j = i \/ i < j
        BY <1>3, <4>2
      <4> QED
        BY <1>3, <2>2, <4>1, <4>3 DEF Sorted
    <3> QED
      BY <1>1, <1>6, <2>2, <3>1 DEF Promise!Reject
  <2> QED
    BY <1>1, <1>4, <2>4, <2>5, <2>6, <2>7, ChainStill DEF IInv
<1>7. CASE i <= Len(s) /\ ~Refuses(s[i], p)
           /\ position' = [position EXCEPT ![p] = i + 1]
           /\ verdict' = verdict /\ culprit' = culprit
  <2>1. position'[p] = i + 1 /\ \A q \in Calls \ {p} : position'[q] = position[q]
    BY <1>2, <1>7
  <2>2. position' \in [Calls -> Nat]
    BY <1>2, <1>3, <1>7
  <2>3. CallRanges'
    <3>1. i + 1 <= Len(s) + 1
      BY <1>3, <1>7
    <3> QED
      BY <1>1, <1>2, <1>7, <2>1, <2>2, <3>1 DEF CallRanges
  <2>4. Passed'
    <3> SUFFICES ASSUME NEW q \in Calls, NEW j \in DOMAIN chain[q],
                        \/ verdict[q] = "pending" /\ j < position'[q]
                        \/ verdict[q] = "allowed"
                 PROVE  ~Refuses(chain[q][j], q)
      BY <1>1, <1>7 DEF Passed
    <3>1. CASE q = p
      <4>1. j \in 1..Len(s) /\ j < i + 1
        BY <1>1, <1>3, <2>1, <3>1
      <4>2. j < i \/ j = i
        BY <1>3, <4>1
      <4> QED
        BY <1>3, <1>7, <3>1, <4>1, <4>2
    <3>2. CASE q # p
      BY <2>1, <3>2 DEF IInv, Passed
    <3> QED
      BY <3>1, <3>2
  <2>5. Started' /\ Culprits'
    <3>1. i + 1 >= 1
      BY <1>3
    <3> QED
      BY <1>1, <1>7, <2>1, <3>1 DEF IInv, Started, Culprits
  <2>6. UNCHANGED Promise!vars
    BY <1>1, <1>7 DEF Promise!vars
  <2> QED
    BY <1>1, <1>4, <2>3, <2>4, <2>5, <2>6, ChainStill DEF IInv
<1> QED
  BY <1>1, <1>5, <1>6, <1>7

LEMMA InitIInv ==
  ASSUME Init
  PROVE  IInv /\ Promise!Init
<1>1. Elements(<<>>) = {}
  BY DEF Elements
<1>2. Ranges
  <2>1. row \in 1..Len(Manifest) + 1 /\ Len(Manifest) + 1 - row = Len(Manifest)
    BY ManifestRows DEF Init
  <2>2. checks \in Seq(AllChecks) /\ Len(checks) = 0 /\ registrations = 0
    BY DEF Init
  <2>3. 0 + Cardinality(hostLeft) + (Len(Manifest) + 1 - row) <= Bound
    BY <2>1, BoundNat, ManifestRows DEF Init, Bound
  <2> QED
    BY <2>1, <2>2, <2>3 DEF Init, Ranges
<1>3. CallRanges
  <2>1. <<>> \in Seq(AllChecks) /\ Len(<<>>) = 0
    OBVIOUS
  <2> QED
    BY <2>1 DEF Init, CallRanges
<1>4. Once
  BY <1>1, FS_EmptySet DEF Init, Once
<1>5. Sorted(checks) /\ SortedChains
  BY DEF Init, Sorted, SortedChains
<1>6. Listed
  BY DEF Init, Listed
<1>7. Passed /\ Started /\ Culprits
  BY DEF Init, Passed, Started, Culprits
<1>8. Promise!Init
  BY <1>1 DEF Init, Promise!Init
<1> QED
  BY <1>2, <1>3, <1>4, <1>5, <1>6, <1>7, <1>8 DEF IInv

\* A step keeps the invariant and is one of the promise's, or none.
LEMMA NextStep ==
  ASSUME IInv, [Next]_vars
  PROVE  IInv' /\ [Promise!Next]_(Promise!vars)
<1>1. CASE UNCHANGED vars
  <2>1. UNCHANGED <<checks, registrations, hostLeft, row, errors>>
        /\ UNCHANGED <<chain, position, verdict, culprit>>
    BY <1>1 DEF vars
  <2>2. IInv'
    BY <2>1, ChainStill, CallsStill DEF IInv, CallParts
  <2>3. UNCHANGED Promise!vars
    BY <2>1 DEF Promise!vars
  <2> QED
    BY <2>2, <2>3
<1>2. ASSUME NEW h \in HostChecks, RegisterCheck(h)
      PROVE  IInv' /\ Promise!Next
  BY <1>2, RegisterStep DEF Promise!Next
<1>3. CASE DiscoverPlugins
  BY <1>3, DiscoverStep DEF Promise!Next
<1>4. ASSUME NEW p \in Calls, snapshotChecks(p)
      PROVE  IInv' /\ Promise!Next
  BY <1>4, SnapshotStep DEF Promise!Next
<1>5. ASSUME NEW p \in Calls, CheckOrderCtx(p)
      PROVE  IInv' /\ [Promise!Next]_(Promise!vars)
  BY <1>5, CallStep DEF Promise!Next
<1>6. CASE Rest
  BY <1>1, <1>6 DEF Rest
<1> QED
  BY <1>1, <1>2, <1>3, <1>4, <1>5, <1>6 DEF Next

THEOREM Invariance == Spec => []IInv
<1>1. IInv /\ [Next]_vars => IInv'
  BY NextStep
<1> QED
  BY <1>1, InitIInv, PTL DEF Spec

\* TypeOK for any calls, host checks and manifest: every registration is one
\* check of the chain, and a rejection has one culprit of the call's snapshot.
THEOREM TypeCorrect == Spec => []TypeOK
<1>1. ASSUME IInv
      PROVE  TypeOK
  <2>1. /\ registrations = Len(checks) /\ hostLeft \subseteq HostChecks
        /\ row \in 1..Len(Manifest) + 1
    BY <1>1 DEF IInv, Ranges
  <2>2. /\ Cardinality(Elements(checks)) = Len(checks)
        /\ {c.at : c \in Elements(checks)} = 1..registrations
    BY <1>1, <2>1 DEF IInv, Once
  <2>3. errors \subseteq DOMAIN Manifest
    BY <1>1, <2>1, ManifestRows DEF IInv, Listed
  <2>4. ASSUME NEW p \in Calls
        PROVE  position[p] \in 0..Len(chain[p]) + 1
    BY <1>1 DEF IInv, CallRanges
  <2>5. verdict \in [Calls -> {"none", "pending", "allowed", "rejected"}]
    BY <1>1 DEF IInv, CallRanges
  <2>6. ASSUME NEW p \in Calls
        PROVE  /\ culprit[p] \subseteq Elements(chain[p])
               /\ Cardinality(culprit[p]) = IF verdict[p] = "rejected" THEN 1 ELSE 0
    <3>1. CASE verdict[p] = "rejected"
      <4>1. PICK c \in Elements(chain[p]) : culprit[p] = {c}
        BY <1>1, <3>1 DEF IInv, Culprits
      <4> QED
        BY <3>1, <4>1, FS_Singleton
    <3>2. CASE verdict[p] # "rejected"
      BY <1>1, <3>2, FS_EmptySet DEF IInv, Culprits
    <3> QED
      BY <3>1, <3>2
  <2> QED
    BY <2>1, <2>2, <2>3, <2>4, <2>5, <2>6 DEF TypeOK
<1> QED
  BY <1>1, Invariance, PTL

\* ChainStable: insertCheckLocked keeps the checks sorted by Order, and equal
\* Orders in the sequence of their registration, for any Orders.
THEOREM ChainStableHolds == Spec => []ChainStable
<1>1. IInv => ChainStable
  BY DEF IInv, Sorted, ChainStable
<1> QED
  BY <1>1, Invariance, PTL

\* NoPluginLost: whatever rows plugins.json has, DiscoverPlugins registers the
\* valid ones and reports the others.
THEOREM NoPluginLostHolds == Spec => []NoPluginLost
<1>1. ASSUME IInv, row > Len(Manifest)
      PROVE  /\ errors = {i \in DOMAIN Manifest : ~Valid(Manifest[i])}
             /\ \A i \in DOMAIN Manifest \ errors :
                  \E c \in Elements(checks) : /\ c.name = Manifest[i].name
                                              /\ c.order = Manifest[i].order
  <2>1. row - 1 = Len(Manifest) /\ DOMAIN Manifest = 1..row - 1
    BY <1>1, ManifestRows DEF IInv, Ranges
  <2> QED
    BY <1>1, <2>1 DEF IInv, Listed
<1>2. IInv => NoPluginLost
  BY <1>1 DEF NoPluginLost
<1> QED
  BY <1>2, Invariance, PTL

\* FailClosed: CheckOrderCtx allows a call only past checks that all allow it,
\* for any outcomes, panics included.
THEOREM FailClosedHolds == Spec => []FailClosed
<1>1. IInv => FailClosed
  BY DEF IInv, Passed, FailClosed, Refuses, Elements
<1> QED
  BY <1>1, Invariance, PTL

\* The chain implements the set of prioritised checks of PriorityChecks.tla.
THEOREM PromiseKept == Spec => ImplementsPromise
<1>1. IInv /\ [Next]_vars => [Promise!Next]_(Promise!vars)
  BY NextStep
<1>2. Init => Promise!Init
  BY InitIInv
<1> QED
  BY <1>1, <1>2, Invariance, PTL DEF Spec, ImplementsPromise, Promise!Spec
=============================================================================
