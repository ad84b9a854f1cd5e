---------------------------- MODULE Supervision -----------------------------
(***************************************************************************)
(* The producer's process (main.go): one goroutine per server running a    *)
(* BinlogWatcher, the watcherLiveness behind /healthz, and the             *)
(* orchestrator that probes it.  A watcher may end with an error or panic, *)
(* or hang where nothing times out; the others go on.  What a watcher does *)
(* in a turn of its loop is module Watcher.                                *)
(***************************************************************************)
EXTENDS Integers

CONSTANTS
  Watchers,          \* the active rows of binlog_servers
  StaleAfter,        \* watcherStaleAfter, in ticks
  PollTime,          \* the timeout of GetEvent, in ticks
  RestartsUnhealthy, \* the orchestrator replaces a process whose /healthz answers 503
  MaxFaults          \* bound: watchers that fail or hang

\* 2s and 30s in the code.  main.go:60-72: without an active row the process starts the
\* watcher of its seed.
ASSUME SupervisionAssumption ==
  /\ Watchers # {}
  /\ PollTime \in Nat \ {0} /\ StaleAfter \in Nat /\ PollTime <= StaleAfter
  /\ RestartsUnhealthy \in BOOLEAN
  /\ MaxFaults \in Nat

VARIABLES
  process,   \* "down", "up", or "stopped" by the operator
  cancelled, \* ctx: SIGTERM was received
  loop,      \* loop[w]: "start"; "top", "polling", "handling"; "returning", "ended", "hung"
  age,       \* age[w]: now - beats[w], counted up to StaleAfter + 1
  spent,     \* history: ticks since w began to connect, to poll or to handle, as far
  stopped,   \* the map of watcherLiveness
  faults

vars == <<process, cancelled, loop, age, spent, stopped, faults>>

-----------------------------------------------------------------------------
(* watcherLiveness *)

Beat(w) == age' = [age EXCEPT ![w] = 0]

\* Fault to try on Healthy: one watcher at work is enough.
AnyHealthy == \E w \in Watchers : ~stopped[w] /\ age[w] <= StaleAfter

\* check: every watcher beat lately and none has ended.
Healthy == Watchers # {} /\ \A w \in Watchers : ~stopped[w] /\ age[w] <= StaleAfter

Init ==
  /\ process = "down" /\ cancelled = FALSE
  /\ loop = [w \in Watchers |-> "ended"]
  /\ age = [w \in Watchers |-> 0] /\ spent = [w \in Watchers |-> 0]
  /\ stopped = [w \in Watchers |-> FALSE]
  /\ faults = 0

\* Fault to try on Boot: a watcher is registered by its first turn.
BootUnregistered ==
  /\ process = "down" /\ process' = "up" /\ cancelled' = FALSE
  /\ loop' = [w \in Watchers |-> "start"]
  /\ age' = [w \in {} |-> 0] /\ spent' = [w \in Watchers |-> 0]
  /\ stopped' = [w \in Watchers |-> FALSE]
  /\ UNCHANGED faults

\* The orchestrator starts the process; main registers every watcher with a beat.
Boot ==
  /\ process = "down" /\ process' = "up" /\ cancelled' = FALSE
  /\ loop' = [w \in Watchers |-> "start"]
  /\ age' = [w \in Watchers |-> 0] /\ spent' = [w \in Watchers |-> 0]
  /\ stopped' = [w \in Watchers |-> FALSE]
  /\ UNCHANGED faults

States == {"start", "top", "polling", "handling", "returning", "ended", "hung"}

Goes(w, from, to) ==
  /\ process = "up" /\ loop[w] = from
  /\ loop' = [loop EXCEPT ![w] = to]

\* Start finds its position and begins to listen.
Connect(w) ==
  /\ Goes(w, "start", "top")
  /\ UNCHANGED <<process, cancelled, age, spent, stopped, faults>>

Begins(w) ==
  /\ Goes(w, "top", IF cancelled THEN "returning" ELSE "polling")
  /\ spent' = [spent EXCEPT ![w] = 0]
  /\ UNCHANGED <<process, cancelled, stopped, faults>>

\* Fault to try on Turn: a turn does not beat.
TurnWithoutBeat(w) == Begins(w) /\ UNCHANGED age

\* A turn begins with a beat, and ends the loop once ctx is cancelled.
Turn(w) == Begins(w) /\ Beat(w)

\* GetEvent gives up: its 2s are over, or ctx is cancelled, which ends the loop in this
\* turn or at the top of the next.
PollEnds(w) ==
  /\ Goes(w, "polling", "top") \/ (cancelled /\ Goes(w, "polling", "returning"))
  /\ UNCHANGED <<process, cancelled, age, spent, stopped, faults>>

\* GetEvent brings an event.
Receive(w) ==
  /\ ~cancelled /\ Goes(w, "polling", "handling")
  /\ spent' = [spent EXCEPT ![w] = 0]
  /\ UNCHANGED <<process, cancelled, age, stopped, faults>>

\* Its event was handled: HandleEvent returned, with an error or not, or panicked.
Handled(w) ==
  /\ Goes(w, "handling", "top")
  /\ UNCHANGED <<process, cancelled, age, spent, stopped, faults>>

Fault == faults < MaxFaults /\ faults' = faults + 1

\* Start returns an error, its own or that of GetEvent, or the goroutine panics.
Fail(w) ==
  /\ Goes(w, "start", "returning") \/ Goes(w, "polling", "returning")
  /\ Fault
  /\ UNCHANGED <<process, cancelled, age, spent, stopped>>

\* A call without a timeout of its own does not return: the connection to the
\* master, a query of Enrich.
Hang(w) ==
  /\ Goes(w, "start", "hung") \/ Goes(w, "handling", "hung")
  /\ Fault
  /\ UNCHANGED <<process, cancelled, age, spent, stopped>>

\* The deferred live.stop, panic or not.
GoroutineEnds(w) ==
  /\ Goes(w, "returning", "ended")
  /\ stopped' = [stopped EXCEPT ![w] = TRUE]
  /\ UNCHANGED <<process, cancelled, age, spent, faults>>

\* wg.Wait returns: code 1, and restart: unless-stopped, unless SIGTERM came first.
Exit ==
  /\ process = "up" /\ \A w \in Watchers : loop[w] = "ended"
  /\ process' = IF cancelled THEN "stopped" ELSE "down"
  /\ UNCHANGED <<cancelled, loop, age, spent, stopped, faults>>

\* The operator stops the service.
Sigterm ==
  /\ process = "up" /\ ~cancelled /\ cancelled' = TRUE
  /\ UNCHANGED <<process, loop, age, spent, stopped, faults>>

\* stop_grace_period ends.
Kill ==
  /\ process = "up" /\ cancelled /\ process' = "stopped"
  /\ loop' = [w \in Watchers |-> "ended"]
  /\ UNCHANGED <<cancelled, age, spent, stopped, faults>>

\* The orchestrator replaces a process that answers 503.
Replace ==
  /\ RestartsUnhealthy /\ process = "up" /\ ~cancelled /\ ~Healthy
  /\ process' = "down" /\ loop' = [w \in Watchers |-> "ended"]
  /\ UNCHANGED <<cancelled, age, spent, stopped, faults>>

Later(t) == IF t > StaleAfter THEN t ELSE t + 1

\* Time passes.  Only GetEvent has a timeout: an event may be handled, or a connection
\* be tried, for any time.
Tick ==
  /\ process = "up" /\ \A w \in Watchers : loop[w] = "polling" => spent[w] < PollTime
  /\ age' = [w \in Watchers |-> Later(age[w])]
  /\ spent' = [w \in Watchers |-> Later(spent[w])]
  /\ UNCHANGED <<process, cancelled, loop, stopped, faults>>

\* The operator stopped it for good.
Halted == process = "stopped" /\ UNCHANGED vars

Next ==
  \/ Boot \/ Exit \/ Sigterm \/ Kill \/ Replace \/ Tick \/ Halted
  \/ \E w \in Watchers :
       \/ Connect(w) \/ Turn(w) \/ PollEnds(w) \/ Receive(w) \/ Handled(w)
       \/ Fail(w) \/ Hang(w) \/ GoroutineEnds(w)

\* Goroutines that can run do, time passes, docker acts on what it is told; whether a
\* watcher fails or an operator intervenes is left open.
Fairness ==
  /\ WF_vars(Boot) /\ WF_vars(Exit) /\ WF_vars(Kill) /\ WF_vars(Replace)
  /\ WF_vars(Tick)
  /\ \A w \in Watchers :
       WF_vars(Connect(w)) /\ WF_vars(Turn(w)) /\ WF_vars(PollEnds(w))
         /\ WF_vars(Handled(w)) /\ WF_vars(GoroutineEnds(w))

Spec == Init /\ [][Next]_vars

FairSpec == Spec /\ Fairness

-----------------------------------------------------------------------------
(* Properties *)

\* The types of the variables.
TypeOK ==
  /\ process \in {"down", "up", "stopped"} /\ cancelled \in BOOLEAN
  /\ loop \in [Watchers -> States]
  /\ age \in [Watchers -> 0 .. StaleAfter + 1] /\ spent \in [Watchers -> 0 .. StaleAfter + 1]
  /\ stopped \in [Watchers -> BOOLEAN]
  /\ faults \in 0 .. MaxFaults

\* health.go:20-23: 30s leave room for slow events "sem mascarar um travamento real".
\* A process that /healthz reports has a watcher that ended, or one that handles an
\* event or connects for longer than the threshold leaves beside a full GetEvent: never
\* one that only waits on an idle stream.  What it does not report has no watcher that
\* ended or took longer than the threshold over anything.
AlarmIsTrue ==
  process = "up" =>
    /\ ~Healthy => \E w \in Watchers :
         loop[w] = "ended" \/ (loop[w] # "polling" /\ spent[w] + PollTime > StaleAfter)
    /\ Healthy => \A w \in Watchers : loop[w] # "ended" /\ spent[w] <= StaleAfter

Working(w) == loop[w] \in {"start", "top", "polling", "handling"}

\* health.go:83-84: "é o 503 aqui que faz o orquestrador reiniciá-lo".  A watcher that
\* failed or hangs comes back to work, unless the operator stops the service.
WatcherComesBack ==
  \A w \in Watchers :
    (process = "up" /\ loop[w] \in {"returning", "hung"}) ~> (Working(w) \/ cancelled)
=============================================================================
