----------------------------- MODULE Subprocess -----------------------------
(***************************************************************************)
(* A risk check that runs in a plugin process (subprocess_check.go, the    *)
(* RPC adapters of checkrpc/types.go, the example plugin): goroutines      *)
(* evaluating orders share one cached client, launch the plugin when there *)
(* is none, discard it after a failed call, and race Close.                *)
(*                                                                         *)
(* Plugin processes are numbered by launch.  s.mu is an RWMutex; the only  *)
(* section that takes time is the launch, so `launcher' is the goroutine   *)
(* that holds the write lock across it and every other section is a step.  *)
(* go-plugin is external: Kill ends the process, a call to a process that  *)
(* has ended returns an error.  An order is what the plugin makes of it.   *)
(***************************************************************************)
EXTENDS Integers, FiniteSets

CONSTANTS
  Procs,               \* goroutines in Evaluate
  Orders,              \* "plain", "blocked", "poison", "faulty"
  Faults,              \* what a plugin process may do: "crash", "hang"
  MaxLaunches, MaxFaults, MaxCalls         \* bounds of a finite instance

ASSUME SubprocessAssumption ==
  /\ IsFiniteSet(Procs) /\ "none" \notin Procs
  /\ Orders \subseteq {"plain", "blocked", "poison", "faulty"}
  /\ Faults \subseteq {"crash", "hang"}
  /\ {MaxLaunches, MaxFaults, MaxCalls} \subseteq Nat

VARIABLES
  closed, closing,     \* s.closed, and where the goroutine in Close stands
  client,              \* s.client and s.proxy: the launch they belong to, or 0
  launcher,            \* the goroutine holding s.mu while it launches, or "none"
  process,             \* per launch: "up", "crashed", "hung" or "killed"
  pc, proxy,           \* per goroutine, and the proxy it got from ensureProxy
  order, answer,       \* the order of its last evaluation and what it returned
  calls, faults,       \* consumed bounds
  alone,               \* history: the evaluation no other has overlapped
  failed, failedAlone, \* history: evaluations answered with subprocess_rpc_error,
                       \* and those of them alone, with an order the plugin can judge
  late                 \* history: processes launched after Close returned

history == <<failed, failedAlone, late>>
vars == <<closed, closing, client, launcher, process, pc, proxy, order, answer,
          calls, faults, alone, history>>

Launches == 1..MaxLaunches
Started  == {n \in Launches : process[n] # "unborn"}
Running  == {n \in Launches : process[n] \in {"up", "hung"}}
Unlocked == launcher = "none"

Init ==
  /\ closed = FALSE /\ closing = "no"
  /\ client = 0 /\ launcher = "none"
  /\ process = [n \in Launches |-> "unborn"]
  /\ pc = [g \in Procs |-> "idle"]
  /\ proxy = [g \in Procs |-> 0]
  /\ order = [g \in Procs |-> "none"]
  /\ answer = [g \in Procs |-> "none"]
  /\ calls = 0 /\ faults = 0 /\ alone = {}
  /\ failed = 0 /\ failedAlone = 0 /\ late = 0

Answer(g, a) ==
  /\ pc' = [pc EXCEPT ![g] = "idle"]
  /\ proxy' = [proxy EXCEPT ![g] = 0]
  /\ answer' = [answer EXCEPT ![g] = a]

\* Dispatched with this proxy: the RPC runs without the lock.
Dispatch(g, n) ==
  /\ pc' = [pc EXCEPT ![g] = "rpc"]
  /\ proxy' = [proxy EXCEPT ![g] = n]
  /\ UNCHANGED answer

\* An order arrives: s.closed is read once, before anything else.
Arrive(g) ==
  /\ pc[g] = "idle" /\ calls < MaxCalls
  /\ calls' = calls + 1
  /\ \E o \in Orders : order' = [order EXCEPT ![g] = o]
  /\ alone' = IF \A h \in Procs \ {g} : pc[h] = "idle" THEN {g} ELSE {}
  /\ UNCHANGED <<closed, closing, client, launcher, process, faults, history>>

EvaluateMutant(g) ==
  /\ Arrive(g)
  /\ pc' = [pc EXCEPT ![g] = "ensure"]
  /\ answer' = [answer EXCEPT ![g] = "none"]
  /\ UNCHANGED proxy
Evaluate(g) ==
  /\ Arrive(g)
  /\ IF closed
     THEN Answer(g, "subprocess_closed")
     ELSE /\ pc' = [pc EXCEPT ![g] = "ensure"]
          /\ answer' = [answer EXCEPT ![g] = "none"]
          /\ UNCHANGED proxy

\* ensureProxy under the reader lock.
ensureProxy(g) ==
  /\ pc[g] = "ensure" /\ Unlocked
  /\ \/ client # 0 /\ Dispatch(g, client)
     \/ client = 0 /\ pc' = [pc EXCEPT ![g] = "launch"] /\ UNCHANGED <<proxy, answer>>
  /\ UNCHANGED <<closed, closing, client, launcher, process, order, calls, faults,
                 alone, history>>

\* The writer lock: look again, then start the executable.
launchLockedMutant(g) ==
  /\ pc[g] = "launch" /\ Unlocked
  /\ \E n \in Launches \ Started :
       /\ \A m \in Launches : m < n => m \in Started
       /\ process' = [process EXCEPT ![n] = "up"]
       /\ proxy' = [proxy EXCEPT ![g] = n]
  /\ launcher' = g
  /\ pc' = [pc EXCEPT ![g] = "handshake"]
  /\ late' = late + (IF closing = "done" THEN 1 ELSE 0)
  /\ UNCHANGED <<closed, closing, client, order, answer, calls, faults, alone,
                 failed, failedAlone>>
launchLocked(g) ==
  /\ pc[g] = "launch" /\ Unlocked
  /\ \/ client # 0 /\ Dispatch(g, client) /\ UNCHANGED <<launcher, process, late>>
     \/ /\ client = 0
        /\ \E n \in Launches \ Started :
             /\ \A m \in Launches : m < n => m \in Started
             /\ process' = [process EXCEPT ![n] = "up"]
             /\ proxy' = [proxy EXCEPT ![g] = n]
        /\ launcher' = g
        /\ pc' = [pc EXCEPT ![g] = "handshake"]
        /\ late' = late + (IF closing = "done" THEN 1 ELSE 0)
        /\ UNCHANGED answer
  /\ UNCHANGED <<closed, closing, client, order, calls, faults, alone, failed, failedAlone>>

\* The handshake and the dispense: the client is cached, or killed.
handshakeDoneMutant(g) ==
  /\ pc[g] = "handshake"
  /\ LET n == proxy[g] IN
     \/ /\ process[n] = "up"
        /\ client' = n /\ launcher' = "none"
        /\ Dispatch(g, n)
        /\ UNCHANGED process
     \/ /\ process' = [process EXCEPT ![n] = "killed"]
        /\ Answer(g, "subprocess_unavailable")
        /\ UNCHANGED <<client, launcher>>
  /\ UNCHANGED <<closed, closing, order, calls, faults, alone, history>>
handshakeDone(g) ==
  /\ pc[g] = "handshake"
  /\ LET n == proxy[g] IN
     \/ /\ process[n] = "up"
        /\ client' = n
        /\ Dispatch(g, n)
        /\ UNCHANGED process
     \/ /\ process' = [process EXCEPT ![n] = "killed"]
        /\ Answer(g, "subprocess_unavailable")
        /\ UNCHANGED client
  /\ launcher' = "none"
  /\ UNCHANGED <<closed, closing, order, calls, faults, alone, history>>

\* The plugin's own Evaluate on this order: the example plugin allows or blocks
\* it by its symbol, or panics, which ends the process.
Judge(g) ==
  /\ pc[g] = "rpc" /\ process[proxy[g]] = "up"
  /\ \/ order[g] = "plain"   /\ Answer(g, "allowed") /\ UNCHANGED process
     \/ order[g] = "blocked" /\ Answer(g, "rejected") /\ UNCHANGED process
     \/ /\ order[g] = "poison"
        /\ process' = [process EXCEPT ![proxy[g]] = "crashed"]
        /\ UNCHANGED <<pc, proxy, answer>>
  /\ UNCHANGED <<closed, closing, client, launcher, order, calls, faults, alone, history>>

\* Impl.Evaluate returns an error: the process lives, but net/rpc hands its
\* error to the host like any other.
PluginError(g) ==
  /\ pc[g] = "rpc" /\ process[proxy[g]] = "up" /\ order[g] = "faulty"
  /\ pc' = [pc EXCEPT ![g] = "discard"]
  /\ UNCHANGED <<closed, closing, client, launcher, process, proxy, order, answer,
                 calls, faults, alone, history>>

\* The process ended before it answered.
CallError(g) ==
  /\ pc[g] = "rpc" /\ process[proxy[g]] \in {"crashed", "killed"}
  /\ pc' = [pc EXCEPT ![g] = "discard"]
  /\ UNCHANGED <<closed, closing, client, launcher, process, proxy, order, answer,
                 calls, faults, alone, history>>

KillClientMutant ==
  /\ process' = IF client # 0 THEN [process EXCEPT ![client] = "killed"] ELSE process
  /\ UNCHANGED client
KillClient ==
  /\ process' = IF client # 0 THEN [process EXCEPT ![client] = "killed"] ELSE process
  /\ client' = 0

\* discardClient kills whatever client is cached now; the evaluation is refused.
discardClientMutant(g) ==
  /\ pc[g] = "discard" /\ Unlocked
  /\ KillClient
  /\ Answer(g, "allowed")
  /\ failed' = failed + 1
  /\ UNCHANGED <<closed, closing, launcher, order, calls, faults, alone, failedAlone, late>>
discardClient(g) ==
  /\ pc[g] = "discard" /\ Unlocked
  /\ KillClient
  /\ Answer(g, "subprocess_rpc_error")
  /\ failed' = failed + 1
  /\ failedAlone' = failedAlone
       + (IF g \in alone /\ order[g] \in {"plain", "blocked"} THEN 1 ELSE 0)
  /\ UNCHANGED <<closed, closing, launcher, order, calls, faults, alone, late>>

Close ==
  \/ /\ closing = "no"
     /\ closed' = TRUE /\ closing' = "kill"
     /\ UNCHANGED <<client, process>>
  \/ /\ closing = "kill" /\ Unlocked
     /\ KillClient
     /\ closing' = "done"
     /\ UNCHANGED closed

CloseStep ==
  Close /\ UNCHANGED <<launcher, pc, proxy, order, answer, calls, faults, alone, history>>

Fault ==
  /\ faults < MaxFaults
  /\ faults' = faults + 1
  /\ \E n \in Launches :
       /\ process[n] = "up"
       /\ \E f \in Faults :
            process' = [process EXCEPT ![n] = IF f = "crash" THEN "crashed" ELSE "hung"]
  /\ UNCHANGED <<closed, closing, client, launcher, pc, proxy, order, answer, calls,
                 alone, history>>

EvaluateStep(g) ==
  \/ ensureProxy(g) \/ launchLocked(g) \/ handshakeDone(g)
  \/ Judge(g) \/ PluginError(g) \/ CallError(g) \/ discardClient(g)

\* Nothing is left to do in the instance: no order comes in, the launches it
\* allows are used up, or the plugin never answers.
Rest ==
  /\ \A g \in Procs : \/ pc[g] = "idle"
                      \/ pc[g] = "launch" /\ Started = Launches
                      \/ pc[g] = "rpc" /\ process[proxy[g]] = "hung"
  /\ UNCHANGED vars

Next == (\E g \in Procs : Evaluate(g) \/ EvaluateStep(g)) \/ CloseStep \/ Fault \/ Rest

\* A goroutine in Evaluate or Close keeps running, a plugin that is up answers,
\* a handshake ends (go-plugin's start timeout); nobody has to send an order,
\* call Close or break a plugin.
Fairness ==
  /\ \A g \in Procs : WF_vars(EvaluateStep(g))
  /\ WF_vars(closing = "kill" /\ CloseStep)

Spec == Init /\ [][Next]_vars /\ Fairness

----------------------------------------------------------------------------
\* Every variable stays in its range, the write lock is held across a launch
\* and by nobody else, and a goroutine past ensureProxy has a proxy.
Ranges ==
  /\ closed \in BOOLEAN /\ closing \in {"no", "kill", "done"}
  /\ client \in 0..MaxLaunches
  /\ launcher \in Procs \cup {"none"}
  /\ process \in [Launches -> {"unborn", "up", "crashed", "hung", "killed"}]
  /\ pc \in [Procs -> {"idle", "ensure", "launch", "handshake", "rpc", "discard"}]
  /\ proxy \in [Procs -> 0..MaxLaunches]
  /\ answer \in [Procs -> {"none", "allowed", "rejected", "subprocess_closed",
                           "subprocess_unavailable", "subprocess_rpc_error"}]
  /\ order \in [Procs -> Orders \cup {"none"}]
  /\ alone \subseteq Procs
Held ==
  \A g \in Procs : /\ launcher = g <=> pc[g] = "handshake"
                   /\ proxy[g] # 0 <=> pc[g] \in {"handshake", "rpc", "discard"}
Counts ==
  calls \in Nat /\ faults \in Nat /\ failed \in Nat /\ failedAlone \in Nat /\ late \in Nat
TypeOK == Ranges /\ Held /\ Counts

\* A running plugin process is the cached client or the one being launched
\* under the lock: racing launches and discards orphan none (ensureProxy's
\* second look, launchLocked's Kill on failure, discardClient, Close).
NoOrphan ==
  \A n \in Running : n = client \/ (launcher # "none" /\ proxy[launcher] = n)

\* Close stops launches but for the evaluations that were past its flag: each
\* of those launches at most one process more.
FewLateLaunches == late <= Cardinality(Procs)

\* Every evaluation is answered, or its own plugin process hangs with nobody to
\* close it, or the instance has no launch left: crashes, failed launches, late
\* discards, Close and other evaluations block nobody.
Answered ==
  \A g \in Procs :
    pc[g] # "idle" ~> \/ pc[g] = "idle"
                      \/ pc[g] = "launch" /\ Started = Launches
                      \/ pc[g] = "rpc" /\ process[proxy[g]] = "hung"

\* No failure lets an order through: an evaluation is answered "allowed" or
\* "rejected" only when the plugin has judged this very order so, whatever
\* crashed, was relaunched or discarded by others meanwhile ("the whole point
\* is the fail-closed guarantee").
Unjudged ==
  \A g \in Procs :
    /\ answer[g] = "allowed"  => order[g] = "plain"
    /\ answer[g] = "rejected" => order[g] = "blocked"

\* Evaluations that overlap no other pay for a crash once: the one that finds
\* the dead process is refused, and its discard makes the next one launch
\* again.  No poisoned or faulty order, and no crowd of evaluations before,
\* leaves a client behind that costs a later one its verdict.
OneCrashOneRefusal ==
  closing = "no" => failedAlone <= faults

\* subprocess_check.go: "the worst case is one evaluation returns a
\* subprocess_unavailable rejection".  Here even one for each goroutine that
\* was in flight is granted to every crash.
CrashContained ==
  closing = "no" => failed <= Cardinality(Procs) * faults

\* subprocess_check.go: "After Close the SubprocessCheck returns fail-closed
\* from every Evaluate call - Close is terminal": with nobody in flight any
\* more, no plugin process is left running.
CloseTerminal ==
  closing = "done" /\ (\A g \in Procs : pc[g] = "idle") => Running = {}
=============================================================================
