------------------------- MODULE Supervision_proofs -------------------------
(***************************************************************************)
(* Theorems about Supervision, for any servers, timeout and threshold:     *)
(* what /healthz reports is a watcher that ended or took too long, and     *)
(* what it passes has none.                                                *)
(***************************************************************************)
EXTENDS Supervision, TLAPS

\* The beat of a watcher that has not ended is as old as what it is doing, or older by
\* a GetEvent at most, which has its timeout; stop comes with the end of a goroutine, and
\* Boot forgets all.
Beaten(w) ==
  /\ stopped[w] <=> loop[w] = "ended"
  /\ loop[w] # "ended" => spent[w] <= age[w] /\ age[w] <= spent[w] + PollTime
  /\ loop[w] = "polling" => age[w] = spent[w] /\ spent[w] <= PollTime

\* The inductive invariant.
IInv == TypeOK /\ (process = "up" => \A w \in Watchers : Beaten(w))

-----------------------------------------------------------------------------
(* Each action *)

\* The bounds of the clocks are naturals.
LEMMA Zero ==
  0 \in 0 .. StaleAfter + 1 /\ 0 \in 0 .. MaxFaults
BY SupervisionAssumption

THEOREM InitIInv == Init => IInv
<1> SUFFICES ASSUME Init PROVE IInv
  OBVIOUS
<1>1. TypeOK
  BY Zero DEF Init, TypeOK, States
<1> QED
  BY <1>1 DEF Init, IInv

\* What one step of the goroutine of v does to loop leaves the others alone.
LEMMA GoesOnlyOne ==
  ASSUME TypeOK, NEW v \in Watchers, NEW from,
         NEW to \in States, Goes(v, from, to)
  PROVE  /\ loop' \in [Watchers -> States]
         /\ loop[v] = from /\ loop'[v] = to
         /\ \A w \in Watchers \ {v} : loop'[w] = loop[w]
BY DEF TypeOK, Goes

LEMMA BootIInv == ASSUME IInv, Boot PROVE IInv'
<1>1. TypeOK'
  BY Zero DEF IInv, TypeOK, Boot, States
<1> QED
  BY <1>1, SupervisionAssumption DEF IInv, Boot, Beaten

\* The turn of v begins with its beat, whether or not it goes on.
LEMMA TurnIInv == ASSUME IInv, NEW v \in Watchers, Turn(v) PROVE IInv'
<1> DEFINE to == IF cancelled THEN "returning" ELSE "polling"
<1>1. /\ Goes(v, "top", to) /\ spent' = [spent EXCEPT ![v] = 0]
      /\ age' = [age EXCEPT ![v] = 0] /\ UNCHANGED <<process, cancelled, stopped, faults>>
  BY DEF Turn, Begins, Beat
<1>2. to \in States /\ to \in {"returning", "polling"}
  BY DEF States
<1> HIDE DEF to
<1>3. /\ process = "up" /\ loop' \in [Watchers -> States]
      /\ loop[v] = "top" /\ loop'[v] = to /\ \A w \in Watchers \ {v} : loop'[w] = loop[w]
  BY <1>1, <1>2, GoesOnlyOne DEF IInv, Goes
<1>4. TypeOK'
  BY <1>1, <1>3, Zero DEF IInv, TypeOK
<1>5. ASSUME NEW w \in Watchers PROVE Beaten(w)'
  <2>1. CASE w = v
    <3>1. age'[v] = 0 /\ spent'[v] = 0 /\ stopped'[v] = stopped[v] /\ ~stopped[v]
      BY <1>1, <1>3 DEF IInv, TypeOK, Beaten
    <3> QED
      BY <1>2, <1>3, <2>1, <3>1, SupervisionAssumption DEF Beaten
  <2>2. CASE w # v
    BY <1>1, <1>3, <2>2 DEF IInv, TypeOK, Beaten
  <2> QED
    BY <2>1, <2>2
<1> QED
  BY <1>4, <1>5 DEF IInv

\* An event for v ends its GetEvent, and the time of handling begins.
LEMMA ReceiveIInv == ASSUME IInv, NEW v \in Watchers, Receive(v) PROVE IInv'
<1>1. /\ Goes(v, "polling", "handling") /\ spent' = [spent EXCEPT ![v] = 0]
      /\ UNCHANGED <<process, cancelled, age, stopped, faults>>
  BY DEF Receive
<1>2. /\ process = "up" /\ loop' \in [Watchers -> States] /\ loop[v] = "polling"
      /\ loop'[v] = "handling" /\ \A w \in Watchers \ {v} : loop'[w] = loop[w]
  BY <1>1, GoesOnlyOne DEF IInv, Goes, States
<1>3. TypeOK'
  BY <1>1, <1>2, Zero DEF IInv, TypeOK
<1>4. ASSUME NEW w \in Watchers PROVE Beaten(w)'
  <2>1. CASE w = v
    <3>1. /\ age'[v] = age[v] /\ spent'[v] = 0 /\ stopped'[v] = stopped[v] /\ ~stopped[v]
          /\ age[v] \in Nat /\ age[v] <= PollTime
      BY <1>1, <1>2, SupervisionAssumption DEF IInv, TypeOK, Beaten
    <3> QED
      BY <1>2, <2>1, <3>1, SupervisionAssumption DEF Beaten
  <2>2. CASE w # v
    BY <1>1, <1>2, <2>2 DEF IInv, TypeOK, Beaten
  <2> QED
    BY <2>1, <2>2
<1> QED
  BY <1>3, <1>4 DEF IInv

\* Steps of a goroutine that neither beat nor end it.
LEMMA GoroutineIInv ==
  ASSUME IInv, NEW v \in Watchers, NEW from,
         NEW to \in {"top", "returning", "hung"}, Goes(v, from, to),
         from \in {"start", "polling", "handling"}, faults' \in {faults, faults + 1},
         faults' # faults => faults < MaxFaults,
         UNCHANGED <<process, cancelled, age, spent, stopped>>
  PROVE  IInv'
<1>1. /\ loop' \in [Watchers -> States]
      /\ loop[v] = from /\ loop'[v] = to /\ \A w \in Watchers \ {v} : loop'[w] = loop[w]
  BY GoesOnlyOne DEF IInv, States
<1>2. TypeOK'
  BY <1>1, SupervisionAssumption DEF IInv, TypeOK
<1>3. ASSUME NEW w \in Watchers, process = "up" PROVE Beaten(w)'
  BY <1>1, <1>3 DEF IInv, Beaten
<1> QED
  BY <1>2, <1>3 DEF IInv

\* live.stop comes when the goroutine of v is past its last turn.
LEMMA GoroutineEndsIInv == ASSUME IInv, NEW v \in Watchers, GoroutineEnds(v) PROVE IInv'
<1>1. /\ process = "up" /\ loop' \in [Watchers -> States]
      /\ loop'[v] = "ended" /\ \A w \in Watchers \ {v} : loop'[w] = loop[w]
  BY GoesOnlyOne DEF IInv, GoroutineEnds, Goes, States
<1>2. TypeOK'
  BY <1>1 DEF IInv, TypeOK, GoroutineEnds
<1>3. ASSUME NEW w \in Watchers PROVE Beaten(w)'
  BY <1>1 DEF IInv, TypeOK, Beaten, GoroutineEnds
<1> QED
  BY <1>2, <1>3 DEF IInv

\* Time passes alike for the age of a beat and for what its watcher does; a GetEvent that
\* has reached its timeout lets none pass.
LEMMA TickIInv == ASSUME IInv, Tick PROVE IInv'
<1>1. ASSUME NEW w \in Watchers
      PROVE  /\ age'[w] \in 0 .. StaleAfter + 1 /\ spent'[w] \in 0 .. StaleAfter + 1
             /\ Beaten(w)'
  <2>1. /\ age[w] \in 0 .. StaleAfter + 1 /\ spent[w] \in 0 .. StaleAfter + 1
        /\ age'[w] = Later(age[w]) /\ spent'[w] = Later(spent[w]) /\ process = "up"
        /\ loop' = loop /\ stopped' = stopped
        /\ loop[w] = "polling" => spent[w] < PollTime
    BY DEF IInv, TypeOK, Tick
  <2>2. age'[w] \in 0 .. StaleAfter + 1 /\ spent'[w] \in 0 .. StaleAfter + 1
    BY <2>1, SupervisionAssumption DEF Later
  <2>3. Beaten(w)
    BY <2>1 DEF IInv
  <2>4. Beaten(w)'
    BY <2>1, <2>3, SupervisionAssumption DEF Beaten, Later
  <2> QED
    BY <2>2, <2>4
<1>2. /\ age' \in [Watchers -> 0 .. StaleAfter + 1]
      /\ spent' \in [Watchers -> 0 .. StaleAfter + 1]
  BY <1>1 DEF Tick
<1>3. TypeOK'
  BY <1>2 DEF IInv, TypeOK, Tick
<1> QED
  BY <1>1, <1>3 DEF IInv

\* The process ends, and every goroutine with it, or ctx is cancelled.
LEMMA ProcessIInv ==
  ASSUME IInv, Exit \/ Sigterm \/ Kill \/ Replace \/ UNCHANGED vars
  PROVE  IInv'
<1>1. /\ UNCHANGED <<age, spent, stopped, faults>>
      /\ loop' = loop \/ loop' = [w \in Watchers |-> "ended"]
      /\ process' = "up" => process = "up" /\ loop' = loop
  BY DEF Exit, Sigterm, Kill, Replace, vars
<1>2. TypeOK'
  BY <1>1 DEF IInv, TypeOK, Exit, Sigterm, Kill, Replace, vars, States
<1> QED
  BY <1>1, <1>2 DEF IInv, Beaten

THEOREM StepIInv == IInv /\ [Next]_vars => IInv'
<1> SUFFICES ASSUME IInv, [Next]_vars PROVE IInv'
  OBVIOUS
<1>1. CASE Boot
  BY <1>1, BootIInv
<1>2. CASE Tick
  BY <1>2, TickIInv
<1>3. CASE Exit \/ Sigterm \/ Kill \/ Replace \/ Halted \/ UNCHANGED vars
  BY <1>3, ProcessIInv DEF Halted
<1>4. ASSUME NEW w \in Watchers, Turn(w) PROVE IInv'
  BY <1>4, TurnIInv
<1>5. ASSUME NEW w \in Watchers, Connect(w) \/ PollEnds(w) \/ Handled(w) PROVE IInv'
  BY <1>5, GoroutineIInv DEF Connect, PollEnds, Handled
<1>6. ASSUME NEW w \in Watchers, Receive(w) PROVE IInv'
  BY <1>6, ReceiveIInv
<1>7. ASSUME NEW w \in Watchers, Fail(w) \/ Hang(w) PROVE IInv'
  BY <1>7, GoroutineIInv DEF Fail, Hang, Fault
<1>8. ASSUME NEW w \in Watchers, GoroutineEnds(w) PROVE IInv'
  BY <1>8, GoroutineEndsIInv
<1> QED
  BY <1>1, <1>2, <1>3, <1>4, <1>5, <1>6, <1>7, <1>8 DEF Next

\* The inductive invariant holds throughout.
THEOREM Invariant == Spec => []IInv
<1>1. Init => IInv
  BY InitIInv
<1>2. IInv /\ [Next]_vars => IInv'
  BY StepIInv
<1> QED
  BY <1>1, <1>2, PTL DEF Spec

-----------------------------------------------------------------------------
(* What /healthz promises *)

\* The variables keep their types.
THEOREM TypeCorrect == Spec => []TypeOK
<1>1. IInv => TypeOK
  BY DEF IInv
<1> QED
  BY <1>1, Invariant, PTL

\* /healthz answers 503 only where a watcher has ended, or has been busy with something
\* other than GetEvent for longer than the threshold leaves, and 200 only where none has
\* ended or been busy for longer than the threshold - with no bound on the time an event
\* takes, however the turns fall against the probe.
THEOREM AlarmMeansTrouble == Spec => []AlarmIsTrue
<1>1. IInv => AlarmIsTrue
  <2> SUFFICES ASSUME IInv, process = "up"
               PROVE  /\ ~Healthy => \E w \in Watchers :
                           loop[w] = "ended" \/ (loop[w] # "polling" /\ spent[w] + PollTime > StaleAfter)
                      /\ Healthy => \A w \in Watchers : loop[w] # "ended" /\ spent[w] <= StaleAfter
    BY DEF AlarmIsTrue
  <2>1. ASSUME NEW w \in Watchers
        PROVE  /\ Beaten(w) /\ age[w] \in 0 .. StaleAfter + 1 /\ spent[w] \in 0 .. StaleAfter + 1
    BY DEF IInv, TypeOK
  <2>2. ASSUME NEW w \in Watchers, stopped[w] \/ age[w] > StaleAfter
        PROVE  loop[w] = "ended" \/ (loop[w] # "polling" /\ spent[w] + PollTime > StaleAfter)
    BY <2>1, <2>2, SupervisionAssumption DEF Beaten
  <2>3. ASSUME ~Healthy PROVE \E w \in Watchers : stopped[w] \/ age[w] > StaleAfter
    BY <2>1, <2>3, SupervisionAssumption DEF Healthy
  <2>4. ASSUME Healthy, NEW w \in Watchers PROVE loop[w] # "ended" /\ spent[w] <= StaleAfter
    BY <2>1, <2>4, SupervisionAssumption DEF Healthy, Beaten
  <2> QED
    BY <2>2, <2>3, <2>4
<1> QED
  BY <1>1, Invariant, PTL
=============================================================================
