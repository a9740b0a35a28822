--------------------------- MODULE SubprocessProofs ---------------------------
(***************************************************************************)
(* The subprocess check for any number of goroutines, launches, faults and *)
(* evaluations.  Answered, a liveness property, is left to TLC.            *)
(***************************************************************************)
EXTENDS Subprocess, TLAPS, FiniteSetTheorems

\* The cached client was launched and not killed; nothing is cached while the
\* next one is being launched.
ClientAlive ==
  /\ launcher # "none" => client = 0
  /\ client # 0 => process[client] \in {"up", "crashed", "hung"}

\* Who may still launch: the evaluations between their look at s.closed and
\* the launch.  Once Close is done nobody joins them.
Waiting == {g \in Procs : pc[g] \in {"ensure", "launch"}}
LateBounded ==
  /\ closing # "no" => closed
  /\ closing # "done" => late = 0
  /\ late + Cardinality(Waiting) <= Cardinality(Procs)

\* What an evaluation sees when no other has overlapped it: all others are
\* idle, and the client it was given is still the cached one.
AloneView ==
  \A g \in Procs :
    /\ g \in alone /\ pc[g] # "idle" => \A h \in Procs \ {g} : pc[h] = "idle"
    /\ closing = "no" /\ g \in alone /\ pc[g] \in {"rpc", "discard"} => client = proxy[g]
    /\ pc[g] = "discard" /\ order[g] # "faulty" => process[proxy[g]] \in {"crashed", "killed"}

\* An evaluation that will discard the client at no fault's expense: its own
\* order was to blame, or others have overlapped it.
Doomed(g) ==
  /\ ~(g \in alone /\ order[g] \in {"plain", "blocked"})
  /\ pc[g] = "discard" \/ (pc[g] = "rpc" /\ process[proxy[g]] \in {"crashed", "killed"})

\* A dead client is cached and nobody on the way would discard it: the next
\* evaluation pays, for a fault that nobody has paid for yet.
Owed ==
  /\ client # 0 /\ process[client] = "crashed"
  /\ \A g \in Procs : ~Doomed(g)
Paid == closing = "no" => failedAlone <= faults /\ (Owed => failedAlone < faults)

IInv ==
  /\ TypeOK /\ ClientAlive /\ NoOrphan /\ LateBounded /\ Unjudged
  /\ AloneView /\ Paid

----------------------------------------------------------------------------
\* What the three helpers the actions share write, goroutine by goroutine and
\* process by process.
LEMMA AnswerMoves ==
  ASSUME Ranges, NEW g \in Procs, NEW a, Answer(g, a),
         a \in {"allowed", "rejected", "subprocess_closed",
                "subprocess_unavailable", "subprocess_rpc_error"}
  PROVE  /\ pc' \in [Procs -> {"idle", "ensure", "launch", "handshake", "rpc", "discard"}]
         /\ proxy' \in [Procs -> 0..MaxLaunches]
         /\ answer' \in [Procs -> {"none", "allowed", "rejected", "subprocess_closed",
                                   "subprocess_unavailable", "subprocess_rpc_error"}]
         /\ pc'[g] = "idle" /\ proxy'[g] = 0 /\ answer'[g] = a
         /\ \A h \in Procs \ {g} :
              pc'[h] = pc[h] /\ proxy'[h] = proxy[h] /\ answer'[h] = answer[h]
<1>1. 0 \in 0..MaxLaunches
  BY SubprocessAssumption
<1>2. /\ pc' = [pc EXCEPT ![g] = "idle"]
      /\ proxy' = [proxy EXCEPT ![g] = 0]
      /\ answer' = [answer EXCEPT ![g] = a]
  BY DEF Answer
<1>3. pc' \in [Procs -> {"idle", "ensure", "launch", "handshake", "rpc", "discard"}]
  BY <1>2 DEF Ranges
<1>4. proxy' \in [Procs -> 0..MaxLaunches]
  BY <1>1, <1>2 DEF Ranges
<1>5. answer' \in [Procs -> {"none", "allowed", "rejected", "subprocess_closed",
                             "subprocess_unavailable", "subprocess_rpc_error"}]
  BY <1>2 DEF Ranges
<1> QED
  BY <1>2, <1>3, <1>4, <1>5 DEF Ranges

LEMMA DispatchMoves ==
  ASSUME Ranges, NEW g \in Procs, NEW n \in 0..MaxLaunches, Dispatch(g, n)
  PROVE  /\ pc' \in [Procs -> {"idle", "ensure", "launch", "handshake", "rpc", "discard"}]
         /\ proxy' \in [Procs -> 0..MaxLaunches]
         /\ pc'[g] = "rpc" /\ proxy'[g] = n
         /\ \A h \in Procs \ {g} : pc'[h] = pc[h] /\ proxy'[h] = proxy[h]
         /\ answer' = answer
<1>1. /\ pc' = [pc EXCEPT ![g] = "rpc"]
      /\ proxy' = [proxy EXCEPT ![g] = n]
      /\ answer' = answer
  BY DEF Dispatch
<1>2. pc' \in [Procs -> {"idle", "ensure", "launch", "handshake", "rpc", "discard"}]
  BY <1>1 DEF Ranges
<1>3. proxy' \in [Procs -> 0..MaxLaunches]
  BY <1>1 DEF Ranges
<1> QED
  BY <1>1, <1>2, <1>3 DEF Ranges

LEMMA KillMoves ==
  ASSUME Ranges, KillClient
  PROVE  /\ client' = 0
         /\ process' \in [Launches -> {"unborn", "up", "crashed", "hung", "killed"}]
         /\ \A n \in Launches :
              process'[n] = IF n = client THEN "killed" ELSE process[n]
<1>1. CASE client = 0
  BY <1>1 DEF KillClient, Ranges, Launches
<1>2. CASE client # 0
  <2>1. client \in Launches
    BY <1>2 DEF Ranges, Launches
  <2>2. process' = [process EXCEPT ![client] = "killed"] /\ client' = 0
    BY <1>2 DEF KillClient
  <2> QED
    BY <2>1, <2>2 DEF Ranges
<1> QED
  BY <1>1, <1>2

LEMMA RangesStep ==
  ASSUME Ranges, Held, [Next]_vars
  PROVE  Ranges'
<1> USE SubprocessAssumption
<1>1. ASSUME NEW g \in Procs, Evaluate(g)
      PROVE  Ranges'
  <2>1. /\ order' \in [Procs -> Orders \cup {"none"}] /\ alone' \subseteq Procs
        /\ UNCHANGED <<closed, closing, client, launcher, process>>
    BY <1>1 DEF Evaluate, Arrive, Ranges
  <2>2. CASE closed
    <3>1. Answer(g, "subprocess_closed")
      BY <1>1, <2>2 DEF Evaluate
    <3> QED
      BY <2>1, <3>1, AnswerMoves DEF Ranges, Launches
  <2>3. CASE ~closed
    <3>1. /\ pc' = [pc EXCEPT ![g] = "ensure"]
          /\ answer' = [answer EXCEPT ![g] = "none"]
          /\ proxy' = proxy
      BY <1>1, <2>3 DEF Evaluate
    <3> QED
      BY <2>1, <3>1 DEF Ranges, Launches
  <2> QED
    BY <2>2, <2>3
<1>2. ASSUME NEW g \in Procs, ensureProxy(g)
      PROVE  Ranges'
  <2>1. UNCHANGED <<closed, closing, client, launcher, process, order, alone>>
    BY <1>2 DEF ensureProxy
  <2>2. CASE Dispatch(g, client)
    <3>1. client \in 0..MaxLaunches
      BY DEF Ranges
    <3> QED
      BY <2>1, <2>2, <3>1, DispatchMoves DEF Ranges, Launches
  <2>3. CASE pc' = [pc EXCEPT ![g] = "launch"] /\ UNCHANGED <<proxy, answer>>
    BY <2>1, <2>3 DEF Ranges, Launches
  <2> QED
    BY <1>2, <2>2, <2>3 DEF ensureProxy
<1>3. ASSUME NEW g \in Procs, launchLocked(g)
      PROVE  Ranges'
  <2>1. UNCHANGED <<closed, closing, client, order, alone>>
    BY <1>3 DEF launchLocked
  <2>2. CASE Dispatch(g, client) /\ UNCHANGED <<launcher, process>>
    <3>1. client \in 0..MaxLaunches
      BY DEF Ranges
    <3> QED
      BY <2>1, <2>2, <3>1, DispatchMoves DEF Ranges, Launches
  <2>3. CASE ~(Dispatch(g, client) /\ UNCHANGED <<launcher, process>>)
    <3>1. PICK n \in Launches :
            /\ process' = [process EXCEPT ![n] = "up"]
            /\ proxy' = [proxy EXCEPT ![g] = n]
            /\ launcher' = g
            /\ pc' = [pc EXCEPT ![g] = "handshake"]
            /\ answer' = answer
      BY <1>3, <2>3 DEF launchLocked
    <3>2. /\ process' \in [Launches -> {"unborn", "up", "crashed", "hung", "killed"}]
          /\ proxy' \in [Procs -> 0..MaxLaunches]
          /\ pc' \in [Procs -> {"idle", "ensure", "launch", "handshake", "rpc", "discard"}]
      BY <3>1 DEF Ranges, Launches
    <3> QED
      BY <2>1, <3>1, <3>2 DEF Ranges, Launches
  <2> QED
    BY <2>2, <2>3
<1>4. ASSUME NEW g \in Procs, handshakeDone(g)
      PROVE  Ranges'
  <2>1. UNCHANGED <<closed, closing, order, alone>> /\ launcher' = "none"
    BY <1>4 DEF handshakeDone
  <2>2. CASE client' = proxy[g] /\ Dispatch(g, proxy[g]) /\ UNCHANGED process
    <3>1. proxy[g] \in 0..MaxLaunches
      BY DEF Ranges
    <3> QED
      BY <2>1, <2>2, <3>1, DispatchMoves DEF Ranges, Launches
  <2>3. CASE /\ process' = [process EXCEPT ![proxy[g]] = "killed"]
             /\ Answer(g, "subprocess_unavailable")
             /\ UNCHANGED client
    <3>1. process' \in [Launches -> {"unborn", "up", "crashed", "hung", "killed"}]
      BY <2>3 DEF Ranges
    <3> QED
      BY <2>1, <2>3, <3>1, AnswerMoves DEF Ranges, Launches
  <2> QED
    BY <1>4, <2>2, <2>3 DEF handshakeDone
<1>5. ASSUME NEW g \in Procs, Judge(g)
      PROVE  Ranges'
  <2>1. UNCHANGED <<closed, closing, client, launcher, order, alone>>
    BY <1>5 DEF Judge
  <2>2. CASE Answer(g, "allowed") /\ UNCHANGED process
    BY <2>1, <2>2, AnswerMoves DEF Ranges, Launches
  <2>3. CASE Answer(g, "rejected") /\ UNCHANGED process
    BY <2>1, <2>3, AnswerMoves DEF Ranges, Launches
  <2>4. CASE /\ process' = [process EXCEPT ![proxy[g]] = "crashed"]
             /\ UNCHANGED <<pc, proxy, answer>>
    BY <2>1, <2>4 DEF Ranges, Launches
  <2> QED
    BY <1>5, <2>2, <2>3, <2>4 DEF Judge
<1>6. ASSUME NEW g \in Procs, PluginError(g)
      PROVE  Ranges'
  BY <1>6 DEF PluginError, Ranges, Launches
<1>7. ASSUME NEW g \in Procs, CallError(g)
      PROVE  Ranges'
  BY <1>7 DEF CallError, Ranges, Launches
<1>8. ASSUME NEW g \in Procs, discardClient(g)
      PROVE  Ranges'
  <2>1. /\ UNCHANGED <<closed, closing, launcher, order, alone>>
        /\ KillClient /\ Answer(g, "subprocess_rpc_error")
    BY <1>8 DEF discardClient
  <2>2. client' \in 0..MaxLaunches
    BY <2>1, KillMoves
  <2> QED
    BY <2>1, <2>2, KillMoves, AnswerMoves DEF Ranges, Launches
<1>9. CASE CloseStep
  <2>1. /\ UNCHANGED <<launcher, pc, proxy, order, answer, alone>>
        /\ closed' \in BOOLEAN /\ closing' \in {"no", "kill", "done"}
    BY <1>9 DEF CloseStep, Close, Ranges
  <2>2. CASE KillClient
    <3>1. client' \in 0..MaxLaunches
      BY <2>2, KillMoves
    <3> QED
      BY <2>1, <2>2, <3>1, KillMoves DEF Ranges, Launches
  <2>3. CASE UNCHANGED <<client, process>>
    BY <2>1, <2>3 DEF Ranges, Launches
  <2> QED
    BY <1>9, <2>2, <2>3 DEF CloseStep, Close
<1>10. CASE Fault
  BY <1>10 DEF Fault, Ranges, Launches
<1>11. CASE UNCHANGED vars
  BY <1>11 DEF vars, Ranges, Launches
<1> QED
  BY <1>1, <1>2, <1>3, <1>4, <1>5, <1>6, <1>7, <1>8, <1>9, <1>10, <1>11
     DEF Next, EvaluateStep, Rest

LEMMA CountsStep ==
  ASSUME Counts, [Next]_vars
  PROVE  Counts'
<1> USE DEF Counts
<1>1. ASSUME NEW g \in Procs, Evaluate(g)
      PROVE  Counts'
  BY <1>1 DEF Evaluate, Arrive, history
<1>2. ASSUME NEW g \in Procs, EvaluateStep(g)
      PROVE  Counts'
  BY <1>2 DEF EvaluateStep, ensureProxy, launchLocked, handshakeDone, Judge,
              PluginError, CallError, discardClient, history
<1>3. CASE CloseStep
  BY <1>3 DEF CloseStep, history
<1>4. CASE Fault
  BY <1>4 DEF Fault, history
<1>5. CASE UNCHANGED vars
  BY <1>5 DEF vars, history
<1> QED
  BY <1>1, <1>2, <1>3, <1>4, <1>5 DEF Next, Rest

----------------------------------------------------------------------------
Core == Ranges /\ Held /\ ClientAlive /\ NoOrphan /\ Unjudged /\ AloneView

\* The steps that answer or dispatch with the cached client or change nothing
\* but one goroutine's place.
LEMMA EvaluateCore ==
  ASSUME Core, NEW g \in Procs, Evaluate(g), Ranges'
  PROVE  Core'
<1> USE SubprocessAssumption DEF Core
<1>1. /\ pc[g] = "idle" /\ launcher # g /\ proxy[g] = 0
      /\ UNCHANGED <<closed, closing, client, launcher, process>>
      /\ alone' = IF \A h \in Procs \ {g} : pc[h] = "idle" THEN {g} ELSE {}
      /\ \A h \in Procs \ {g} : order'[h] = order[h]
  BY DEF Evaluate, Arrive, Held, Ranges
<1>2. /\ pc'[g] \in {"idle", "ensure"} /\ proxy'[g] = 0
      /\ answer'[g] \in {"none", "subprocess_closed"}
      /\ \A h \in Procs \ {g} :
           pc'[h] = pc[h] /\ proxy'[h] = proxy[h] /\ answer'[h] = answer[h]
  <2>1. CASE closed
    <3>1. Answer(g, "subprocess_closed")
      BY <2>1 DEF Evaluate
    <3> QED
      BY <3>1, AnswerMoves
  <2>2. CASE ~closed
    BY <1>1, <2>2 DEF Evaluate, Ranges
  <2> QED
    BY <2>1, <2>2
<1>3. Held'
  BY <1>1, <1>2 DEF Held
<1>4. ClientAlive'
  BY <1>1 DEF ClientAlive
<1>5. NoOrphan'
  BY <1>1, <1>2 DEF NoOrphan, Running, Launches, Ranges
<1>6. Unjudged'
  BY <1>1, <1>2 DEF Unjudged
<1>7. AloneView'
  BY <1>1, <1>2 DEF AloneView
<1> QED
  BY <1>3, <1>4, <1>5, <1>6, <1>7

LEMMA ensureProxyCore ==
  ASSUME Core, NEW g \in Procs, ensureProxy(g), Ranges'
  PROVE  Core'
<1> USE SubprocessAssumption DEF Core
<1>1. /\ pc[g] = "ensure" /\ launcher = "none" /\ proxy[g] = 0
      /\ UNCHANGED <<closed, closing, client, launcher, process, order, alone, answer>>
  BY DEF ensureProxy, Unlocked, Held, Dispatch
<1>2. /\ \/ pc'[g] = "rpc" /\ client # 0 /\ proxy'[g] = client
         \/ pc'[g] = "launch" /\ proxy'[g] = 0
      /\ \A h \in Procs \ {g} : pc'[h] = pc[h] /\ proxy'[h] = proxy[h]
  <2>1. CASE client # 0 /\ Dispatch(g, client)
    <3>1. client \in 0..MaxLaunches
      BY DEF Ranges
    <3> QED
      BY <2>1, <3>1, DispatchMoves
  <2>2. CASE pc' = [pc EXCEPT ![g] = "launch"] /\ UNCHANGED proxy
    BY <1>1, <2>2 DEF Ranges
  <2> QED
    BY <2>1, <2>2 DEF ensureProxy
<1>3. Held'
  BY <1>1, <1>2 DEF Held
<1>4. ClientAlive'
  BY <1>1 DEF ClientAlive
<1>5. NoOrphan'
  BY <1>1 DEF NoOrphan, Running
<1>6. Unjudged'
  BY <1>1 DEF Unjudged
<1>7. AloneView'
  BY <1>1, <1>2 DEF AloneView
<1> QED
  BY <1>3, <1>4, <1>5, <1>6, <1>7

\* A launch adds the one process the lock holder is bound to; nothing else runs.
LEMMA launchLockedCore ==
  ASSUME Core, NEW g \in Procs, launchLocked(g), Ranges'
  PROVE  Core'
<1> USE SubprocessAssumption DEF Core
<1>1. /\ pc[g] = "launch" /\ launcher = "none" /\ proxy[g] = 0
      /\ UNCHANGED <<closed, closing, client, order, alone, answer>>
  BY DEF launchLocked, Unlocked, Held, Dispatch
<1>2. CASE client # 0 /\ Dispatch(g, client) /\ UNCHANGED <<launcher, process>>
  <2>1. client \in 0..MaxLaunches
    BY DEF Ranges
  <2>2. /\ pc'[g] = "rpc" /\ proxy'[g] = client
        /\ \A h \in Procs \ {g} : pc'[h] = pc[h] /\ proxy'[h] = proxy[h]
    BY <1>2, <2>1, DispatchMoves
  <2>3. Held'
    BY <1>1, <1>2, <2>2 DEF Held
  <2>4. ClientAlive' /\ NoOrphan' /\ Unjudged'
    BY <1>1, <1>2 DEF ClientAlive, NoOrphan, Running, Unjudged
  <2>5. AloneView'
    BY <1>1, <1>2, <2>2 DEF AloneView
  <2> QED
    BY <2>3, <2>4, <2>5
<1>3. CASE ~(client # 0 /\ Dispatch(g, client) /\ UNCHANGED <<launcher, process>>)
  <2>1. PICK n \in Launches \ Started :
          /\ process' = [process EXCEPT ![n] = "up"]
          /\ proxy' = [proxy EXCEPT ![g] = n]
          /\ launcher' = g
          /\ pc' = [pc EXCEPT ![g] = "handshake"]
          /\ client = 0
    BY <1>3 DEF launchLocked
  <2>2. /\ n # 0 /\ process[n] = "unborn"
        /\ pc'[g] = "handshake" /\ proxy'[g] = n /\ process'[n] = "up"
        /\ \A h \in Procs \ {g} : pc'[h] = pc[h] /\ proxy'[h] = proxy[h]
        /\ \A m \in Launches \ {n} : process'[m] = process[m]
    BY <2>1 DEF Ranges, Started, Launches
  <2>3. Held'
    BY <1>1, <2>1, <2>2 DEF Held
  <2>4. ClientAlive'
    BY <1>1, <2>1 DEF ClientAlive
  <2>5. NoOrphan'
    BY <1>1, <2>1, <2>2 DEF NoOrphan, Running
  <2>6. Unjudged'
    BY <1>1 DEF Unjudged
  <2>7. AloneView'
    <3>1. \A h \in Procs : pc[h] = "discard" => proxy[h] \in Launches
      BY DEF Held, Ranges, Launches
    <3> QED
      BY <1>1, <2>1, <2>2, <3>1 DEF AloneView
  <2> QED
    BY <2>3, <2>4, <2>5, <2>6, <2>7
<1> QED
  BY <1>2, <1>3

LEMMA handshakeDoneCore ==
  ASSUME Core, NEW g \in Procs, handshakeDone(g), Ranges'
  PROVE  Core'
<1> USE SubprocessAssumption DEF Core
<1>1. /\ pc[g] = "handshake" /\ launcher = g /\ client = 0
      /\ proxy[g] \in Launches /\ launcher' = "none"
      /\ UNCHANGED <<closed, closing, order, alone>>
  BY DEF handshakeDone, Held, Ranges, Launches, ClientAlive
<1>2. CASE /\ process[proxy[g]] = "up" /\ client' = proxy[g]
           /\ Dispatch(g, proxy[g]) /\ UNCHANGED process
  <2>1. proxy[g] \in 0..MaxLaunches
    BY DEF Ranges
  <2>2. /\ pc'[g] = "rpc" /\ proxy'[g] = proxy[g] /\ answer' = answer
        /\ \A h \in Procs \ {g} : pc'[h] = pc[h] /\ proxy'[h] = proxy[h]
    BY <1>2, <2>1, DispatchMoves
  <2>3. Held'
    BY <1>1, <2>2 DEF Held
  <2>4. ClientAlive' /\ Unjudged'
    BY <1>1, <1>2, <2>2 DEF ClientAlive, Unjudged
  <2>5. NoOrphan'
    BY <1>1, <1>2 DEF NoOrphan, Running, Launches
  <2>6. AloneView'
    BY <1>1, <1>2, <2>2 DEF AloneView
  <2> QED
    BY <2>3, <2>4, <2>5, <2>6
<1>3. CASE /\ process' = [process EXCEPT ![proxy[g]] = "killed"]
           /\ Answer(g, "subprocess_unavailable")
           /\ UNCHANGED client
  <2>1. /\ pc'[g] = "idle" /\ proxy'[g] = 0 /\ answer'[g] = "subprocess_unavailable"
        /\ \A h \in Procs \ {g} :
             pc'[h] = pc[h] /\ proxy'[h] = proxy[h] /\ answer'[h] = answer[h]
    BY <1>3, AnswerMoves
  <2>2. /\ process'[proxy[g]] = "killed"
        /\ \A m \in Launches \ {proxy[g]} : process'[m] = process[m]
    BY <1>1, <1>3 DEF Ranges
  <2>3. Held'
    BY <1>1, <2>1 DEF Held
  <2>4. ClientAlive' /\ NoOrphan'
    BY <1>1, <1>3, <2>2 DEF ClientAlive, NoOrphan, Running
  <2>5. Unjudged'
    BY <1>1, <2>1 DEF Unjudged
  <2>6. AloneView'
    <3>1. \A h \in Procs : pc[h] = "discard" => proxy[h] \in Launches
      BY DEF Held, Ranges, Launches
    <3> QED
      BY <1>1, <1>3, <2>1, <2>2, <3>1 DEF AloneView
  <2> QED
    BY <2>3, <2>4, <2>5, <2>6
<1> QED
  BY <1>2, <1>3 DEF handshakeDone

LEMMA JudgeCore ==
  ASSUME Core, NEW g \in Procs, Judge(g), Ranges'
  PROVE  Core'
<1> USE SubprocessAssumption DEF Core
<1>1. /\ pc[g] = "rpc" /\ launcher # g /\ proxy[g] \in Launches
      /\ process[proxy[g]] = "up"
      /\ UNCHANGED <<closed, closing, client, launcher, order, alone>>
  BY DEF Judge, Held, Ranges, Launches
<1>2. ASSUME NEW a, Answer(g, a), UNCHANGED process,
             a \in {"allowed", "rejected"},
             a = "allowed" => order[g] = "plain",
             a = "rejected" => order[g] = "blocked"
      PROVE  Core'
  <2>1. /\ pc'[g] = "idle" /\ proxy'[g] = 0 /\ answer'[g] = a
        /\ \A h \in Procs \ {g} :
             pc'[h] = pc[h] /\ proxy'[h] = proxy[h] /\ answer'[h] = answer[h]
    BY <1>2, AnswerMoves
  <2>2. Held'
    BY <1>1, <2>1 DEF Held
  <2>3. ClientAlive'
    BY <1>1, <1>2 DEF ClientAlive
  <2>4. NoOrphan'
    BY <1>1, <1>2, <2>1 DEF NoOrphan, Running, Ranges
  <2>5. Unjudged'
    BY <1>1, <1>2, <2>1 DEF Unjudged
  <2>6. AloneView'
    BY <1>1, <1>2, <2>1 DEF AloneView
  <2> QED
    BY <2>2, <2>3, <2>4, <2>5, <2>6
<1>3. CASE order[g] = "plain" /\ Answer(g, "allowed") /\ UNCHANGED process
  BY <1>2, <1>3
<1>4. CASE order[g] = "blocked" /\ Answer(g, "rejected") /\ UNCHANGED process
  BY <1>2, <1>4
<1>5. CASE /\ process' = [process EXCEPT ![proxy[g]] = "crashed"]
           /\ UNCHANGED <<pc, proxy, answer>>
  <2>1. /\ process'[proxy[g]] = "crashed"
        /\ \A m \in Launches \ {proxy[g]} : process'[m] = process[m]
    BY <1>1, <1>5 DEF Ranges
  <2>2. Held' /\ Unjudged'
    BY <1>1, <1>5 DEF Held, Unjudged
  <2>3. ClientAlive'
    BY <1>1, <2>1 DEF ClientAlive, Ranges, Launches
  <2>4. NoOrphan'
    BY <1>1, <1>5, <2>1 DEF NoOrphan, Running
  <2>5. AloneView'
    <3>1. \A h \in Procs : pc[h] = "discard" => proxy[h] \in Launches
      BY DEF Held, Ranges, Launches
    <3> QED
      BY <1>1, <1>5, <2>1, <3>1 DEF AloneView
  <2> QED
    BY <2>2, <2>3, <2>4, <2>5
<1> QED
  BY <1>3, <1>4, <1>5 DEF Judge

\* The call fails: the plugin's own error on a faulty order, or a dead process.
LEMMA ErrorCore ==
  ASSUME Core, NEW g \in Procs, PluginError(g) \/ CallError(g), Ranges'
  PROVE  Core'
<1> USE SubprocessAssumption DEF Core
<1>1. /\ pc[g] = "rpc" /\ launcher # g
      /\ order[g] = "faulty" \/ process[proxy[g]] \in {"crashed", "killed"}
      /\ pc'[g] = "discard" /\ \A h \in Procs \ {g} : pc'[h] = pc[h]
      /\ UNCHANGED <<closed, closing, client, launcher, process, proxy, order,
                     answer, alone>>
  BY DEF PluginError, CallError, Held, Ranges
<1>2. Held'
  BY <1>1 DEF Held
<1>3. ClientAlive' /\ NoOrphan' /\ Unjudged'
  BY <1>1 DEF ClientAlive, NoOrphan, Running, Unjudged
<1>4. AloneView'
  BY <1>1 DEF AloneView
<1> QED
  BY <1>2, <1>3, <1>4

\* Whoever kills the cached client does so under the lock: nothing else runs.
LEMMA KillCore ==
  ASSUME Core, KillClient, launcher = "none", launcher' = launcher
  PROVE  /\ ClientAlive' /\ NoOrphan'
         /\ \A n \in Launches : process[n] \in {"crashed", "killed"}
                                 => process'[n] \in {"crashed", "killed"}
<1> USE DEF Core
<1>1. /\ client' = 0
      /\ \A n \in Launches : process'[n] = IF n = client THEN "killed" ELSE process[n]
  BY KillMoves
<1>2. ClientAlive'
  BY <1>1 DEF ClientAlive
<1>3. NoOrphan'
  BY <1>1 DEF NoOrphan, Running
<1> QED
  BY <1>1, <1>2, <1>3

LEMMA discardClientCore ==
  ASSUME Core, NEW g \in Procs, discardClient(g), Ranges'
  PROVE  Core'
<1> USE SubprocessAssumption DEF Core
<1>1. /\ pc[g] = "discard" /\ launcher = "none" /\ KillClient
      /\ Answer(g, "subprocess_rpc_error")
      /\ UNCHANGED <<closed, closing, launcher, order, alone>>
  BY DEF discardClient, Unlocked
<1>2. /\ pc'[g] = "idle" /\ proxy'[g] = 0 /\ answer'[g] = "subprocess_rpc_error"
      /\ \A h \in Procs \ {g} :
           pc'[h] = pc[h] /\ proxy'[h] = proxy[h] /\ answer'[h] = answer[h]
  BY <1>1, AnswerMoves
<1>3. /\ ClientAlive' /\ NoOrphan'
      /\ \A n \in Launches : process[n] \in {"crashed", "killed"}
                              => process'[n] \in {"crashed", "killed"}
  BY <1>1, KillCore
<1>4. Held'
  BY <1>1, <1>2 DEF Held
<1>5. Unjudged'
  BY <1>1, <1>2 DEF Unjudged
<1>6. AloneView'
  <2>1. \A h \in Procs : pc[h] = "discard" => proxy[h] \in Launches
    BY DEF Held, Ranges, Launches
  <2> QED
    BY <1>1, <1>2, <1>3, <2>1 DEF AloneView
<1> QED
  BY <1>3, <1>4, <1>5, <1>6

LEMMA CloseCore ==
  ASSUME Core, CloseStep, Ranges'
  PROVE  Core'
<1> USE SubprocessAssumption DEF Core
<1>1. UNCHANGED <<launcher, pc, proxy, order, answer, alone>> /\ closing' # "no"
  BY DEF CloseStep, Close
<1>2. Held' /\ Unjudged'
  BY <1>1 DEF Held, Unjudged
<1>3. /\ ClientAlive' /\ NoOrphan'
      /\ \A n \in Launches : process[n] \in {"crashed", "killed"}
                              => process'[n] \in {"crashed", "killed"}
  <2>1. CASE launcher = "none" /\ KillClient
    BY <1>1, <2>1, KillCore
  <2>2. CASE UNCHANGED <<client, process>>
    BY <1>1, <2>2 DEF ClientAlive, NoOrphan, Running
  <2> QED
    BY <2>1, <2>2 DEF CloseStep, Close, Unlocked
<1>4. AloneView'
  <2>1. \A h \in Procs : pc[h] = "discard" => proxy[h] \in Launches
    BY DEF Held, Ranges, Launches
  <2> QED
    BY <1>1, <1>3, <2>1 DEF AloneView
<1> QED
  BY <1>2, <1>3, <1>4

LEMMA FaultCore ==
  ASSUME Core, Fault, Ranges'
  PROVE  Core'
<1> USE SubprocessAssumption DEF Core
<1>1. PICK n \in Launches, f \in Faults :
        /\ process[n] = "up"
        /\ process' = [process EXCEPT ![n] = IF f = "crash" THEN "crashed" ELSE "hung"]
  BY DEF Fault
<1>2. /\ process'[n] \in {"crashed", "hung"}
      /\ \A m \in Launches \ {n} : process'[m] = process[m]
  BY <1>1 DEF Ranges
<1>3. UNCHANGED <<closed, closing, client, launcher, pc, proxy, order, answer, alone>>
  BY DEF Fault
<1>4. Held' /\ Unjudged'
  BY <1>3 DEF Held, Unjudged
<1>5. ClientAlive'
  BY <1>2, <1>3 DEF ClientAlive, Ranges, Launches
<1>6. NoOrphan'
  BY <1>1, <1>2, <1>3 DEF NoOrphan, Running
<1>7. AloneView'
  <2>1. \A h \in Procs : pc[h] = "discard" => proxy[h] \in Launches
    BY DEF Held, Ranges, Launches
  <2> QED
    BY <1>1, <1>2, <1>3, <2>1 DEF AloneView
<1> QED
  BY <1>4, <1>5, <1>6, <1>7

LEMMA CoreStep ==
  ASSUME Core, [Next]_vars
  PROVE  Core'
<1>1. Ranges'
  BY RangesStep DEF Core
<1>2. ASSUME NEW g \in Procs, EvaluateStep(g)
      PROVE  Core'
  BY <1>1, <1>2, ensureProxyCore, launchLockedCore, handshakeDoneCore, JudgeCore,
     ErrorCore, discardClientCore DEF EvaluateStep
<1>3. CASE UNCHANGED vars
  BY <1>3 DEF vars, Core, Ranges, Held, ClientAlive, NoOrphan, Running, Unjudged,
              AloneView, Launches
<1> QED
  BY <1>1, <1>2, <1>3, EvaluateCore, CloseCore, FaultCore DEF Next, Rest

----------------------------------------------------------------------------
\* Launching takes one goroutine out of Waiting for each launch, and once Close
\* is done no step puts one in.
LEMMA WaitingFinite ==
  /\ IsFiniteSet(Waiting) /\ Cardinality(Waiting) \in Nat
  /\ Cardinality(Waiting) <= Cardinality(Procs) /\ Cardinality(Procs) \in Nat
<1>1. Waiting \subseteq Procs
  BY DEF Waiting
<1> QED
  BY <1>1, SubprocessAssumption, FS_Subset, FS_CardinalityType

LEMMA WaitingStill ==
  ASSUME LateBounded, Counts, Counts', late' = late, closed => closed', closing' = closing,
         closed => Waiting' \subseteq Waiting
  PROVE  LateBounded'
<1>1. CASE closing = "done"
  <2>1. closed /\ Waiting' \subseteq Waiting
    BY <1>1 DEF LateBounded
  <2>2. Cardinality(Waiting') <= Cardinality(Waiting) /\ Cardinality(Waiting') \in Nat
    BY <2>1, WaitingFinite, FS_Subset, FS_CardinalityType
  <2> QED
    BY <1>1, <2>1, <2>2, WaitingFinite DEF LateBounded, Counts
<1>2. CASE closing # "done"
  <2>1. late' = 0
    BY <1>2 DEF LateBounded
  <2>2. Waiting' \subseteq Procs
    BY DEF Waiting
  <2>3. Cardinality(Waiting') <= Cardinality(Procs) /\ Cardinality(Waiting') \in Nat
    BY <2>2, SubprocessAssumption, FS_Subset, FS_CardinalityType
  <2> QED
    BY <1>2, <2>1, <2>3, WaitingFinite DEF LateBounded
<1> QED
  BY <1>1, <1>2

LEMMA LateStep ==
  ASSUME Core, Counts, LateBounded, [Next]_vars
  PROVE  LateBounded'
<1> USE DEF Core
<1>0. Counts' /\ Ranges'
  BY CountsStep, RangesStep
<1>1. ASSUME NEW g \in Procs, Evaluate(g)
      PROVE  LateBounded'
  <2>1. UNCHANGED <<late, closed, closing>>
    BY <1>1 DEF Evaluate, Arrive, history
  <2>2. closed => Waiting' \subseteq Waiting
    BY <1>1 DEF Evaluate, Answer, Waiting, Ranges
  <2> QED
    BY <1>0, <2>1, <2>2, WaitingStill
<1>2. ASSUME NEW g \in Procs, ensureProxy(g)
      PROVE  LateBounded'
  <2>1. UNCHANGED <<late, closed, closing>>
    BY <1>2 DEF ensureProxy, history
  <2>2. Waiting' \subseteq Waiting
    BY <1>2 DEF ensureProxy, Dispatch, Waiting, Ranges
  <2> QED
    BY <1>0, <2>1, <2>2, WaitingStill
<1>3. ASSUME NEW g \in Procs, launchLocked(g)
      PROVE  LateBounded'
  <2>1. UNCHANGED <<closed, closing>> /\ g \in Waiting
    BY <1>3 DEF launchLocked, Waiting
  <2>2. Waiting' \subseteq Waiting \ {g}
    BY <1>3 DEF launchLocked, Dispatch, Waiting, Ranges
  <2>3. /\ late' \in {late, late + 1}
        /\ closing # "done" => late' = late
    BY <1>3 DEF launchLocked, Counts
  <2>4. CASE closing # "done"
    BY <1>0, <2>1, <2>2, <2>3, <2>4, WaitingStill
  <2>5. CASE closing = "done"
    <3>1. /\ Cardinality(Waiting \ {g}) = Cardinality(Waiting) - 1
          /\ IsFiniteSet(Waiting \ {g})
      BY <2>1, WaitingFinite, FS_RemoveElement
    <3>2. /\ Cardinality(Waiting') <= Cardinality(Waiting) - 1
          /\ Cardinality(Waiting') \in Nat
      BY <2>2, <3>1, FS_Subset, FS_CardinalityType
    <3> QED
      BY <1>0, <2>1, <2>3, <2>5, <3>2, WaitingFinite DEF LateBounded, Counts
  <2> QED
    BY <2>4, <2>5
<1>4. ASSUME NEW g \in Procs, handshakeDone(g)
      PROVE  LateBounded'
  <2>1. UNCHANGED <<late, closed, closing>>
    BY <1>4 DEF handshakeDone, history
  <2>2. Waiting' \subseteq Waiting
    BY <1>4 DEF handshakeDone, Dispatch, Answer, Waiting, Ranges
  <2> QED
    BY <1>0, <2>1, <2>2, WaitingStill
<1>5. ASSUME NEW g \in Procs, Judge(g) \/ PluginError(g) \/ CallError(g)
      PROVE  LateBounded'
  <2>1. UNCHANGED <<late, closed, closing>>
    BY <1>5 DEF Judge, PluginError, CallError, history
  <2>2. Waiting' \subseteq Waiting
    BY <1>5 DEF Judge, PluginError, CallError, Answer, Waiting, Ranges
  <2> QED
    BY <1>0, <2>1, <2>2, WaitingStill
<1>6. ASSUME NEW g \in Procs, discardClient(g)
      PROVE  LateBounded'
  <2>1. UNCHANGED <<late, closed, closing>>
    BY <1>6 DEF discardClient
  <2>2. Waiting' \subseteq Waiting
    BY <1>6 DEF discardClient, Answer, Waiting, Ranges
  <2> QED
    BY <1>0, <2>1, <2>2, WaitingStill
<1>7. CASE CloseStep
  <2>1. UNCHANGED <<late, pc>> /\ closed' /\ (closing # "done" => late = 0)
    BY <1>7 DEF CloseStep, Close, history, LateBounded
  <2>2. Waiting' = Waiting
    BY <2>1 DEF Waiting
  <2>3. closing # "done"
    BY <1>7 DEF CloseStep, Close
  <2> QED
    BY <2>1, <2>2, <2>3 DEF LateBounded
<1>8. CASE Fault \/ UNCHANGED vars
  <2>1. UNCHANGED <<late, closed, closing, pc>>
    BY <1>8 DEF Fault, vars, history
  <2>2. Waiting' = Waiting
    BY <2>1 DEF Waiting
  <2> QED
    BY <1>0, <2>1, <2>2, WaitingStill
<1> QED
  BY <1>1, <1>2, <1>3, <1>4, <1>5, <1>6, <1>7, <1>8 DEF Next, EvaluateStep, Rest

----------------------------------------------------------------------------
\* Nothing is owed after a step that makes no dead client: faults cover what
\* they covered before.
LEMMA PaidStill ==
  ASSUME Paid, Counts, closing' = closing, failedAlone' = failedAlone,
         faults' \in Nat, faults' >= faults, Owed' => Owed \/ faults' > faults
  PROVE  Paid'
<1>1. CASE Owed
  BY <1>1 DEF Paid, Counts
<1>2. CASE ~Owed
  BY <1>2 DEF Paid, Counts
<1> QED
  BY <1>1, <1>2

LEMMA PaidStep ==
  ASSUME Core, Counts, Paid, [Next]_vars
  PROVE  Paid'
<1> USE DEF Core
<1>0. Counts' /\ Ranges'
  BY CountsStep, RangesStep
<1>1. ASSUME NEW g \in Procs, Evaluate(g)
      PROVE  Paid'
  <2>1. /\ pc[g] = "idle"
        /\ UNCHANGED <<closing, client, process, faults, failedAlone>>
        /\ alone' = IF \A h \in Procs \ {g} : pc[h] = "idle" THEN {g} ELSE {}
    BY <1>1 DEF Evaluate, Arrive, history
  <2>2. \A h \in Procs \ {g} : pc'[h] = pc[h] /\ proxy'[h] = proxy[h]
    BY <1>1 DEF Evaluate, Answer, Ranges
  <2>3. \A h \in Procs : Doomed(h) => Doomed(h)'
    BY <2>1, <2>2 DEF Doomed
  <2> QED
    BY <1>0, <2>1, <2>3, PaidStill DEF Owed, Counts
<1>2. ASSUME NEW g \in Procs, ensureProxy(g)
      PROVE  Paid'
  <2>1. /\ pc[g] = "ensure"
        /\ UNCHANGED <<closing, client, process, faults, failedAlone, order, alone>>
    BY <1>2 DEF ensureProxy, history
  <2>2. \A h \in Procs \ {g} : pc'[h] = pc[h] /\ proxy'[h] = proxy[h]
    BY <1>2 DEF ensureProxy, Dispatch, Ranges
  <2>3. \A h \in Procs : Doomed(h) => Doomed(h)'
    BY <2>1, <2>2 DEF Doomed
  <2> QED
    BY <1>0, <2>1, <2>3, PaidStill DEF Owed, Counts
<1>3. ASSUME NEW g \in Procs, launchLocked(g)
      PROVE  Paid'
  <2>1. /\ pc[g] = "launch"
        /\ UNCHANGED <<closing, client, faults, failedAlone, order, alone>>
    BY <1>3 DEF launchLocked
  <2>2. CASE client = 0
    BY <1>0, <2>1, <2>2, PaidStill DEF Owed, Counts
  <2>3. CASE client # 0
    <3>1. Dispatch(g, client) /\ UNCHANGED process
      BY <1>3, <2>3 DEF launchLocked
    <3>2. \A h \in Procs \ {g} : pc'[h] = pc[h] /\ proxy'[h] = proxy[h]
      BY <3>1 DEF Dispatch, Ranges
    <3>3. \A h \in Procs : Doomed(h) => Doomed(h)'
      BY <2>1, <3>1, <3>2 DEF Doomed
    <3> QED
      BY <1>0, <2>1, <3>1, <3>3, PaidStill DEF Owed, Counts
  <2> QED
    BY <2>2, <2>3
<1>4. ASSUME NEW g \in Procs, handshakeDone(g)
      PROVE  Paid'
  <2>1. UNCHANGED <<closing, faults, failedAlone>>
    BY <1>4 DEF handshakeDone, history
  <2>2. client = 0
    BY <1>4, SubprocessAssumption DEF handshakeDone, Held, ClientAlive
  <2>3. client' = 0 \/ process'[client'] = "up"
    BY <1>4, <2>2 DEF handshakeDone
  <2> QED
    BY <1>0, <2>1, <2>3, PaidStill DEF Owed, Counts
<1>5. ASSUME NEW g \in Procs, Judge(g)
      PROVE  Paid'
  <2>1. /\ pc[g] = "rpc" /\ process[proxy[g]] = "up" /\ proxy[g] \in Launches
        /\ UNCHANGED <<closing, client, faults, failedAlone, order, alone>>
    BY <1>5 DEF Judge, history, Held, Ranges, Launches
  <2>2. CASE UNCHANGED process
    <3>1. \A h \in Procs \ {g} : pc'[h] = pc[h] /\ proxy'[h] = proxy[h]
      BY <1>5 DEF Judge, Answer, Ranges
    <3>2. \A h \in Procs : Doomed(h) => Doomed(h)'
      BY <2>1, <2>2, <3>1 DEF Doomed
    <3> QED
      BY <1>0, <2>1, <2>2, <3>2, PaidStill DEF Owed, Counts
  <2>3. CASE ~UNCHANGED process
    <3>1. /\ order[g] = "poison" /\ UNCHANGED <<pc, proxy>>
          /\ process' = [process EXCEPT ![proxy[g]] = "crashed"]
      BY <1>5, <2>3 DEF Judge
    <3>2. process'[proxy[g]] = "crashed"
      BY <2>1, <3>1 DEF Ranges
    <3>3. Doomed(g)'
      BY <2>1, <3>1, <3>2 DEF Doomed
    <3> QED
      BY <1>0, <2>1, <3>3, PaidStill DEF Owed, Counts
  <2> QED
    BY <2>2, <2>3
<1>6. ASSUME NEW g \in Procs, PluginError(g)
      PROVE  Paid'
  <2>1. /\ UNCHANGED <<closing, faults, failedAlone, order>>
        /\ order[g] = "faulty" /\ pc'[g] = "discard"
    BY <1>6 DEF PluginError, history, Ranges
  <2>2. Doomed(g)'
    BY <2>1 DEF Doomed
  <2> QED
    BY <1>0, <2>1, <2>2, PaidStill DEF Owed, Counts
<1>7. ASSUME NEW g \in Procs, CallError(g)
      PROVE  Paid'
  <2>1. /\ UNCHANGED <<closing, client, process, faults, failedAlone, order, alone, proxy>>
        /\ pc[g] = "rpc" /\ process[proxy[g]] \in {"crashed", "killed"}
        /\ pc'[g] = "discard" /\ \A h \in Procs \ {g} : pc'[h] = pc[h]
    BY <1>7 DEF CallError, history, Ranges
  <2>2. \A h \in Procs : Doomed(h) => Doomed(h)'
    BY <2>1 DEF Doomed
  <2> QED
    BY <1>0, <2>1, <2>2, PaidStill DEF Owed, Counts
\* The evaluation that pays was alone: the client it discards is dead by a
\* fault, and nobody else was there to discard it.
<1>8. ASSUME NEW g \in Procs, discardClient(g)
      PROVE  Paid'
  <2>1. /\ pc[g] = "discard" /\ UNCHANGED <<closing, faults>> /\ client' = 0
    BY <1>8, KillMoves DEF discardClient
  <2>2. ~Owed'
    BY <2>1 DEF Owed
  <2>3. CASE g \in alone /\ order[g] \in {"plain", "blocked"}
    <3>1. SUFFICES ASSUME closing = "no"
                   PROVE  failedAlone' <= faults
      BY <2>1, <2>2 DEF Paid
    <3>2. /\ client = proxy[g] /\ client # 0
          /\ process[client] \in {"crashed", "killed"}
          /\ \A h \in Procs \ {g} : pc[h] = "idle"
      BY <2>1, <2>3, <3>1 DEF AloneView, Held
    <3>3. process[client] = "crashed"
      BY <3>2 DEF ClientAlive
    <3>4. Owed
      BY <2>3, <3>2, <3>3 DEF Owed, Doomed
    <3>5. failedAlone' = failedAlone + 1
      BY <1>8, <2>3 DEF discardClient
    <3> QED
      BY <3>1, <3>4, <3>5 DEF Paid, Counts
  <2>4. CASE ~(g \in alone /\ order[g] \in {"plain", "blocked"})
    <3>1. failedAlone' = failedAlone
      BY <1>8, <2>4 DEF discardClient, Counts
    <3> QED
      BY <1>0, <2>1, <2>2, <3>1, PaidStill DEF Counts
  <2> QED
    BY <2>3, <2>4
<1>9. CASE CloseStep
  BY <1>9 DEF CloseStep, Close, Paid
<1>10. CASE Fault
  BY <1>0, <1>10, PaidStill DEF Fault, history, Counts
<1>11. CASE UNCHANGED vars
  BY <1>11 DEF vars, history, Paid, Owed, Doomed
<1> QED
  BY <1>1, <1>2, <1>3, <1>4, <1>5, <1>6, <1>7, <1>8, <1>9, <1>10, <1>11
     DEF Next, EvaluateStep, Rest

----------------------------------------------------------------------------
LEMMA Invariance == Spec => []IInv
<1>1. Init => IInv
  <2> SUFFICES ASSUME Init PROVE IInv
    OBVIOUS
  <2>1. Held /\ Counts
    BY SubprocessAssumption DEF Init, Held, Counts
  <2>2. Ranges
    <3>1. /\ client = 0 /\ 0 \in 0..MaxLaunches
          /\ proxy = [g \in Procs |-> 0]
          /\ process = [n \in Launches |-> "unborn"]
      BY SubprocessAssumption DEF Init
    <3> QED
      BY <3>1 DEF Init, Ranges
  <2>3. ClientAlive /\ NoOrphan /\ Unjudged /\ AloneView /\ Paid
    BY DEF Init, ClientAlive, NoOrphan, Running, Unjudged, AloneView, Paid, Owed
  <2>4. LateBounded
    BY WaitingFinite DEF Init, LateBounded
  <2> QED
    BY <2>1, <2>2, <2>3, <2>4 DEF IInv, TypeOK
<1>2. IInv /\ [Next]_vars => IInv'
  BY CoreStep, CountsStep, LateStep, PaidStep DEF IInv, TypeOK, Core
<1> QED
  BY <1>1, <1>2, PTL DEF Spec

\* Every variable stays in its range, the write lock is held across a launch
\* and by nobody else (ensureProxy, launchLocked).
THEOREM TypeCorrect == Spec => []TypeOK
<1> QED
  BY Invariance, PTL DEF IInv

\* However many evaluations race with launches, discards and Close, a running
\* plugin is the cached one or the one being launched.
THEOREM NoOrphanHolds == Spec => []NoOrphan
<1> QED
  BY Invariance, PTL DEF IInv

\* After Close each goroutine that was past the look at s.closed launches at
\* most one process more.
THEOREM FewLateLaunchesHolds == Spec => []FewLateLaunches
<1>1. IInv => FewLateLaunches
  BY WaitingFinite DEF IInv, TypeOK, Counts, LateBounded, FewLateLaunches
<1> QED
  BY Invariance, <1>1, PTL

\* Evaluate answers "allowed" or "rejected" only what the plugin has judged so.
THEOREM UnjudgedHolds == Spec => []Unjudged
<1> QED
  BY Invariance, PTL DEF IInv

\* Until Close, evaluations that overlap no other are refused with an RPC error
\* at most once for each fault of a plugin process.
THEOREM OneCrashOneRefusalHolds == Spec => []OneCrashOneRefusal
<1>1. IInv => OneCrashOneRefusal
  BY DEF IInv, TypeOK, Counts, Paid, OneCrashOneRefusal
<1> QED
  BY Invariance, <1>1, PTL
=============================================================================
