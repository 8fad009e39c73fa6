---------------------- MODULE ConnectionRecoveryProofs ----------------------
(***************************************************************************)
(* For any interfaces, number of goroutines, cap and number of             *)
(* disruptions: the runs of an interface are serial, none starts without   *)
(* an attempt left, and none of the coordinator's is alive after Stop.     *)
(***************************************************************************)
EXTENDS ConnectionRecovery, TLAPS

RunType == [Ifaces -> [Slots -> {"idle", "queued"} \cup Active]]

\* The two halves of RunsAreSerial, and StopLeavesNothing, of given runs.
Alone(r) ==
    \A i \in Ifaces : \A k, l \in Slots :
        r[i][k] \in Active /\ r[i][l] \in Active => k = l
Funded(r, a) ==
    \A i \in Ifaces : \A k \in Slots :
        r[i][k] \in {"checking", "waiting", "loading"} => a[i] < MaxAttempts
Asked(r) == \A i \in Ifaces, k \in Slots : r[i][k] = "idle" \/ asked[i][k]

\* The inductive invariant: the coordinator is stopped before it is gone.
Discipline ==
    /\ TypeOK
    /\ Alone(run)
    /\ Funded(run, attempts)
    /\ gone => stopped /\ Asked(run)

LEMMA TransitionType ==
    ASSUME NEW s \in ClientStates, NEW t \in ClientStates
    PROVE  Transition(s, t) \in ClientStates
  BY DEF Transition

LEMMA EvaluateType ==
    ASSUME NEW cs, NEW h, NEW r
    PROVE  Evaluate(cs, h, r) \in {"RUNNING", "DEGRADED", "FAILED"}
  BY DEF Evaluate

\* What a trigger does: an idle slot of an armed interface becomes queued,
\* and nothing once the coordinator is stopped.
LEMMA TriggerStep ==
    ASSUME NEW r \in RunType, NEW T
    PROVE  /\ Trigger(r, T) \in RunType
           /\ \A i \in Ifaces : \A k \in Slots :
                \/ Trigger(r, T)[i][k] = r[i][k]
                \/ /\ r[i][k] = "idle" /\ Trigger(r, T)[i][k] = "queued"
                   /\ ~stopped
<1> DEFINE q == Trigger(r, T)
<1>1. ASSUME NEW i \in Ifaces
      PROVE  /\ q[i] \in [Slots -> {"idle", "queued"} \cup Active]
             /\ \A k \in Slots :
                  \/ q[i][k] = r[i][k]
                  \/ r[i][k] = "idle" /\ q[i][k] = "queued" /\ ~stopped
  <2>0. r[i] \in [Slots -> {"idle", "queued"} \cup Active]
    BY DEF RunType
  <2> DEFINE free == \E k \in Slots : r[i][k] = "idle"
             c == CHOOSE k \in Slots : r[i][k] = "idle"
             go == i \in T /\ i \in armed /\ ~stopped /\ ~Recovering(r, i) /\ free
  <2>1. q[i] = IF go THEN [r[i] EXCEPT ![c] = "queued"] ELSE r[i]
    BY DEF Trigger
  <2>2. CASE go
    <3>1. c \in Slots /\ r[i][c] = "idle"
      BY <2>2
    <3> HIDE DEF c
    <3>2. q[i] = [r[i] EXCEPT ![c] = "queued"]
      BY <2>1, <2>2
    <3>3. ~stopped
      BY <2>2
    <3> QED
      BY <2>0, <3>1, <3>2, <3>3
  <2>3. CASE ~go
    BY <2>0, <2>1, <2>3
  <2> QED
    BY <2>2, <2>3
<1>2. q = [i \in Ifaces |-> q[i]]
  BY DEF Trigger
<1> HIDE DEF q
<1>3. q \in RunType
  BY <1>1, <1>2 DEF RunType
<1> QED
  BY <1>1, <1>3 DEF q

\* A trigger disturbs none of the three.
LEMMA TriggerKeeps ==
    ASSUME NEW r \in RunType, NEW T, NEW a
    PROVE  /\ Trigger(r, T) \in RunType
           /\ Alone(r) => Alone(Trigger(r, T))
           /\ Funded(r, a) => Funded(Trigger(r, T), a)
           /\ stopped /\ Asked(r) => Asked(Trigger(r, T))
<1> DEFINE q == Trigger(r, T)
<1>1. /\ q \in RunType
      /\ \A i \in Ifaces : \A k \in Slots :
           \/ q[i][k] = r[i][k]
           \/ r[i][k] = "idle" /\ q[i][k] = "queued" /\ ~stopped
  BY TriggerStep
<1> HIDE DEF q
<1>2. \A i \in Ifaces : \A k \in Slots : q[i][k] \in Active => q[i][k] = r[i][k]
  BY <1>1 DEF Active
<1>3. Alone(r) => Alone(q)
  BY <1>2 DEF Alone
<1>4. Funded(r, a) => Funded(q, a)
  <2>1. \A i \in Ifaces : \A k \in Slots :
           q[i][k] \in {"checking", "waiting", "loading"} => q[i][k] = r[i][k]
    BY <1>1
  <2> QED
    BY <2>1 DEF Funded
<1>5. stopped /\ Asked(r) => Asked(q)
  BY <1>1 DEF Asked
<1> QED
  BY <1>1, <1>3, <1>4, <1>5 DEF q

\* The step of one run, as a step of the table of runs.
LEMMA GotoStep ==
    ASSUME TypeOK, NEW i \in Ifaces, NEW k \in Slots,
           NEW s \in {"idle", "queued"} \cup Active
    PROVE  /\ Goto(i, k, s) \in RunType
           /\ Goto(i, k, s)[i][k] = s
           /\ \A j \in Ifaces : \A l \in Slots :
                j # i \/ l # k => Goto(i, k, s)[j][l] = run[j][l]
  BY DEF TypeOK, Goto, RunType

\* A publishing step whose runs were in order leaves them in order.
LEMMA PublishKeeps ==
    ASSUME NEW cs, NEW r \in RunType, NEW T, NEW a, Publish(cs, r, T)
    PROVE  /\ run' \in RunType
           /\ central' \in {"RUNNING", "DEGRADED", "FAILED"}
           /\ Alone(r) => Alone(run')
           /\ Funded(r, a) => Funded(run', a)
           /\ stopped /\ Asked(r) => Asked(run')
<1> DEFINE L == T \cup Enters(Evaluate(cs, heard, r))
<1>1. run' = Trigger(r, L) /\ central' = Evaluate(cs, heard, r)
  BY DEF Publish
<1> HIDE DEF L
<1> QED
  BY <1>1, TriggerKeeps, EvaluateType

\* A run that is alone and moves on stays alone.
LEMMA MoveKeeps ==
    ASSUME TypeOK, NEW i \in Ifaces, NEW k \in Slots, NEW s \in Active, NEW a,
           Alone(run), run[i][k] \in Active,
           \A j \in Ifaces : \A l \in Slots :
              (j # i \/ l # k) /\ run[j][l] \in {"checking", "waiting", "loading"}
                 => a[j] < MaxAttempts,
           s # "leaving" => a[i] < MaxAttempts
    PROVE  /\ Goto(i, k, s) \in RunType
           /\ Alone(Goto(i, k, s))
           /\ Funded(Goto(i, k, s), a)
           /\ Asked(run) => Asked(Goto(i, k, s))
<1> DEFINE g == Goto(i, k, s)
<1>0. s \in {"idle", "queued"} \cup Active
  OBVIOUS
<1>1. /\ g \in RunType /\ g[i][k] = s
      /\ \A j \in Ifaces : \A l \in Slots : j # i \/ l # k => g[j][l] = run[j][l]
  BY <1>0, GotoStep
<1> HIDE DEF g
<1>2. \A j \in Ifaces : \A l \in Slots : g[j][l] \in Active => run[j][l] \in Active
  BY <1>1
<1>3. Alone(g)
  BY <1>2 DEF Alone
<1>4. Funded(g, a)
  BY <1>1 DEF Funded, Active
<1>5. Asked(run) => Asked(g)
  <2>1. run[i][k] # "idle"
    BY DEF Active
  <2> QED
    BY <1>1, <2>1 DEF Asked
<1> QED
  BY <1>1, <1>3, <1>4, <1>5 DEF g

\* The end of a run with a failure: the attempt it had is used up.
LEMMA FailKeeps ==
    ASSUME Discipline, NEW i \in Ifaces, NEW k \in Slots, NEW cs,
           run[i][k] \in {"checking", "waiting", "loading"},
           Fail(i, k, cs), UNCHANGED <<asked, stopped, gone>>
    PROVE  /\ run' \in RunType
           /\ central' \in {"RUNNING", "DEGRADED", "FAILED"}
           /\ attempts' \in [Ifaces -> 0..MaxAttempts]
           /\ cstate' = cs
           /\ Alone(run)' /\ Funded(run, attempts)'
           /\ gone' => stopped' /\ Asked(run)'
<1>1. attempts[i] < MaxAttempts /\ attempts \in [Ifaces -> 0..MaxAttempts]
  BY DEF Discipline, Funded, TypeOK
<1>2. attempts' = [attempts EXCEPT ![i] = attempts[i] + 1] /\ cstate' = cs
  BY DEF Fail
<1>3. attempts' \in [Ifaces -> 0..MaxAttempts]
  BY <1>1, <1>2, RecoveryAssumption
<1>4. \A j \in Ifaces : \A l \in Slots :
        (j # i \/ l # k) /\ run[j][l] \in {"checking", "waiting", "loading"}
           => attempts'[j] < MaxAttempts
  <2> SUFFICES ASSUME NEW j \in Ifaces, NEW l \in Slots, j # i \/ l # k,
                      run[j][l] \in {"checking", "waiting", "loading"}
               PROVE  attempts'[j] < MaxAttempts
    OBVIOUS
  <2>1. j # i
    BY DEF Discipline, Alone, Active
  <2> QED
    BY <1>1, <1>2, <2>1 DEF Discipline, Funded
<1>5. run[i][k] \in Active /\ "leaving" \in Active /\ TypeOK /\ Alone(run)
  BY DEF Active, Discipline
<1> DEFINE g == Goto(i, k, "leaving")
<1>6. g \in RunType /\ Alone(g) /\ Funded(g, attempts') /\ (Asked(run) => Asked(g))
  BY <1>4, <1>5, MoveKeeps
<1>7. Publish(cs, g, {})
  BY DEF Fail
<1> HIDE DEF g
<1>8. /\ run' \in RunType
      /\ central' \in {"RUNNING", "DEGRADED", "FAILED"}
      /\ Alone(run') /\ Funded(run', attempts')
      /\ stopped /\ Asked(g) => Asked(run')
  BY <1>6, <1>7, PublishKeeps
<1>9. gone => stopped /\ Asked(run)
  BY DEF Discipline
<1>10. Asked(run') => Asked(run)'
  BY DEF Asked
<1>11. Alone(run)' /\ Funded(run, attempts)'
  BY <1>8 DEF Alone, Funded
<1> QED
  BY <1>2, <1>3, <1>6, <1>8, <1>9, <1>10, <1>11

\* A step of a run that publishes and keeps its attempt.
LEMMA AdvanceKeeps ==
    ASSUME Discipline, NEW i \in Ifaces, NEW k \in Slots, NEW s \in Active, NEW cs,
           run[i][k] \in Active,
           Publish(cs, Goto(i, k, s), {}),
           attempts' \in [Ifaces -> 0..MaxAttempts],
           \A j \in Ifaces : j # i => attempts'[j] = attempts[j],
           s # "leaving" => attempts'[i] < MaxAttempts,
           UNCHANGED <<asked, stopped, gone>>
    PROVE  /\ run' \in RunType
           /\ central' \in {"RUNNING", "DEGRADED", "FAILED"}
           /\ Alone(run)' /\ Funded(run, attempts)'
           /\ gone' => stopped' /\ Asked(run)'
<1>1. \A j \in Ifaces : \A l \in Slots :
        (j # i \/ l # k) /\ run[j][l] \in {"checking", "waiting", "loading"}
           => attempts'[j] < MaxAttempts
  <2> SUFFICES ASSUME NEW j \in Ifaces, NEW l \in Slots, j # i \/ l # k,
                      run[j][l] \in {"checking", "waiting", "loading"}
               PROVE  attempts'[j] < MaxAttempts
    OBVIOUS
  <2>1. j # i
    BY DEF Discipline, Alone, Active
  <2> QED
    BY <2>1 DEF Discipline, Funded
<1>2. TypeOK /\ Alone(run)
  BY DEF Discipline
<1> DEFINE g == Goto(i, k, s)
<1>3. g \in RunType /\ Alone(g) /\ Funded(g, attempts') /\ (Asked(run) => Asked(g))
  BY <1>1, <1>2, MoveKeeps
<1> HIDE DEF g
<1>4. Publish(cs, g, {})
  BY DEF g
<1>5. /\ run' \in RunType
      /\ central' \in {"RUNNING", "DEGRADED", "FAILED"}
      /\ Alone(run') /\ Funded(run', attempts')
      /\ stopped /\ Asked(g) => Asked(run')
  BY <1>3, <1>4, PublishKeeps
<1>6. gone => stopped /\ Asked(run)
  BY DEF Discipline
<1>7. (Asked(run') => Asked(run)') /\ Alone(run)' /\ Funded(run, attempts)'
  BY <1>5 DEF Asked, Alone, Funded
<1> QED
  BY <1>3, <1>5, <1>6, <1>7

\* A step that publishes and is no step of a run.
LEMMA OutsideKeeps ==
    ASSUME Discipline, NEW cs, NEW T, Publish(cs, run, T),
           UNCHANGED <<attempts, asked, stopped, gone>>
    PROVE  /\ run' \in RunType
           /\ central' \in {"RUNNING", "DEGRADED", "FAILED"}
           /\ Alone(run)' /\ Funded(run, attempts)'
           /\ gone' => stopped' /\ Asked(run)'
<1>1. run \in RunType /\ Alone(run) /\ Funded(run, attempts)
      /\ (gone => stopped /\ Asked(run))
  BY DEF Discipline, TypeOK, RunType
<1>2. /\ run' \in RunType
      /\ central' \in {"RUNNING", "DEGRADED", "FAILED"}
      /\ Alone(run') /\ Funded(run', attempts)
      /\ stopped /\ Asked(run) => Asked(run')
  BY <1>1, PublishKeeps
<1>3. (Asked(run') => Asked(run)') /\ Alone(run)' /\ Funded(run, attempts)'
  BY <1>2 DEF Asked, Alone, Funded
<1> QED
  BY <1>1, <1>2, <1>3

LEMMA DisciplineInit == Init => Discipline
<1> SUFFICES ASSUME Init PROVE Discipline
  OBVIOUS
<1>1. TypeOK
  <2>1. run \in [Ifaces -> [Slots -> {"idle", "queued"} \cup Active]]
    BY DEF Init
  <2>2. asked \in [Ifaces -> [Slots -> BOOLEAN]]
    BY DEF Init
  <2>3. attempts \in [Ifaces -> 0..MaxAttempts] /\ disruptions \in 0..MaxDisruptions
    BY RecoveryAssumption DEF Init
  <2>4. registered \subseteq Ifaces /\ armed \subseteq Ifaces
    BY DEF Init
  <2>5. errors \in [Ifaces -> 0..2] /\ cstate \in [Ifaces -> ClientStates]
    BY DEF Init, ClientStates
  <2> QED
    BY <2>1, <2>2, <2>3, <2>4, <2>5 DEF Init, TypeOK
<1>2. \A i \in Ifaces : \A k \in Slots : run[i][k] = "idle"
  BY DEF Init
<1>3. Alone(run) /\ Funded(run, attempts)
  BY <1>2 DEF Alone, Funded, Active
<1>4. gone = FALSE
  BY DEF Init
<1> QED
  BY <1>1, <1>3, <1>4 DEF Discipline

LEMMA DisciplineStep == Discipline /\ [Next]_vars => Discipline'
<1> SUFFICES ASSUME Discipline, [Next]_vars PROVE Discipline'
  OBVIOUS
<1> USE RecoveryAssumption
<1>0. TypeOK
  BY DEF Discipline
<1>1. CASE Outage
  <2>1. registered' \subseteq Ifaces /\ disruptions' \in 0..MaxDisruptions
    BY <1>0, <1>1 DEF Outage, Disrupt, TypeOK
  <2> QED
    BY <1>1, <2>1 DEF Outage, Discipline, TypeOK, Alone, Funded, Asked
<1>2. CASE Comeback
  BY <1>2 DEF Comeback, Discipline, TypeOK, Alone, Funded, Asked
<1>3. CASE HealthRead
  <2>1. beat' \in {"none", "RUNNING", "DEGRADED", "FAILED"}
    BY <1>3, EvaluateType DEF HealthRead
  <2> QED
    BY <1>3, <2>1 DEF HealthRead, Discipline, TypeOK, Alone, Funded, Asked
<1>4. CASE HealthSet
  <2> DEFINE L == Enters(beat)
  <2>1. /\ run' = Trigger(run, L) /\ run \in RunType
        /\ central' \in {"RUNNING", "DEGRADED", "FAILED"} /\ beat' = "none"
    BY <1>0, <1>4 DEF HealthSet, TypeOK, RunType
  <2> HIDE DEF L
  <2>2. /\ run' \in RunType
        /\ Alone(run') /\ Funded(run', attempts)
        /\ gone => stopped /\ Asked(run')
    BY <2>1, TriggerKeeps DEF Discipline
  <2> QED
    BY <1>4, <2>1, <2>2 DEF HealthSet, Discipline, TypeOK, RunType, Alone, Funded, Asked
<1>5. CASE Stop
  BY <1>5 DEF Stop, Discipline, TypeOK, Alone, Funded, Asked
<1>6. CASE StopReturns
  BY <1>6 DEF StopReturns, Discipline, TypeOK, Alone, Funded, Asked
<1>7. ASSUME NEW i \in Ifaces, CallbackArrives(i) PROVE Discipline'
  BY <1>7 DEF CallbackArrives, Discipline, TypeOK, Alone, Funded, Asked
<1>8. ASSUME NEW i \in Ifaces, CallbackAges(i) PROVE Discipline'
  BY <1>8 DEF CallbackAges, Discipline, TypeOK, Alone, Funded, Asked
<1>9. ASSUME NEW i \in Ifaces, BringUp(i) PROVE Discipline'
  <2> DEFINE s(ok) == IF ok THEN ToConnected(cstate[i]) ELSE ToDisconnected(cstate[i])
             cs(ok) == [cstate EXCEPT ![i] = s(ok)]
  <2>1. ToConnected(cstate[i]) \in ClientStates /\ ToDisconnected(cstate[i]) \in ClientStates
    <3>1. cstate[i] \in ClientStates
      BY <1>0 DEF TypeOK
    <3>2. {"INITIALIZING", "INITIALIZED", "CONNECTING", "CONNECTED", "FAILED",
           "DISCONNECTED"} \subseteq ClientStates
      BY DEF ClientStates
    <3> QED
      BY <3>1, <3>2, TransitionType DEF ToConnected, ToDisconnected
  <2>2. \A ok \in BOOLEAN : cs(ok) \in [Ifaces -> ClientStates]
    BY <1>0, <2>1 DEF TypeOK
  <2>3. PICK ok \in BOOLEAN :
          /\ cstate' = cs(ok) /\ Publish(cs(ok), run, {})
          /\ disruptions' = disruptions \/ Disrupt
          /\ errors' \in {errors, [errors EXCEPT ![i] = 0]}
          /\ registered' \in {registered, registered \cup {i}}
    BY <1>9 DEF BringUp
  <2> HIDE DEF cs
  <2>4. errors' \in [Ifaces -> 0..2]
    <3>1. errors \in [Ifaces -> 0..2]
      BY <1>0 DEF TypeOK
    <3>2. [errors EXCEPT ![i] = 0] \in [Ifaces -> 0..2]
      BY <3>1
    <3> QED
      BY <2>3, <3>1, <3>2
  <2>5. UNCHANGED <<up, heard, breaker, verdict, attempts, asked, stopped, gone, beat>>
        /\ armed' \subseteq Ifaces
    BY <1>0, <1>9 DEF BringUp, TypeOK
  <2>6. registered' \subseteq Ifaces
    <3>1. registered \subseteq Ifaces
      BY <1>0 DEF TypeOK
    <3> QED
      BY <2>3, <3>1
  <2>7. disruptions' \in 0..MaxDisruptions
    BY <1>0, <2>3 DEF Disrupt, TypeOK
  <2>8. /\ run' \in RunType
        /\ central' \in {"RUNNING", "DEGRADED", "FAILED"}
        /\ Alone(run)' /\ Funded(run, attempts)'
        /\ gone' => stopped' /\ Asked(run)'
    BY <2>3, <2>5, OutsideKeeps
  <2> QED
    BY <1>0, <2>2, <2>3, <2>4, <2>5, <2>6, <2>7, <2>8 DEF Discipline, TypeOK, RunType
<1>10. ASSUME NEW i \in Ifaces, ProbeCall(i) PROVE Discipline'
  <2>1. UNCHANGED <<up, registered, heard, cstate, errors, armed, attempts, asked,
                    stopped, gone, beat, disruptions>>
        /\ breaker' \in [Ifaces -> {"closed", "open", "half"}]
        /\ verdict' \in [Ifaces -> {"none", "alive", "dead"}]
    BY <1>0, <1>10 DEF ProbeCall, TypeOK
  <2>2. UNCHANGED <<run, central>> \/ \E T : Publish(cstate, run, T)
    BY <1>10 DEF ProbeCall
  <2>3. CASE UNCHANGED <<run, central>>
    BY <2>1, <2>3 DEF Discipline, TypeOK, Alone, Funded, Asked
  <2>4. CASE \E T : Publish(cstate, run, T)
    <3>1. /\ run' \in RunType
          /\ central' \in {"RUNNING", "DEGRADED", "FAILED"}
          /\ Alone(run)' /\ Funded(run, attempts)'
          /\ gone' => stopped' /\ Asked(run)'
      BY <2>1, <2>4, OutsideKeeps
    <3> QED
      BY <1>0, <2>1, <3>1 DEF Discipline, TypeOK, RunType
  <2> QED
    BY <2>2, <2>3, <2>4
<1>11. ASSUME NEW p \in Probes, NEW i \in Ifaces, ProbeReport(p, i) PROVE Discipline'
  <2> DEFINE alive == verdict[i] = "alive"
             cs == [cstate EXCEPT ![i] = StateAfterProbe(i, alive)]
  <2>1. cs \in [Ifaces -> ClientStates]
    BY <1>0, TransitionType DEF TypeOK, StateAfterProbe, ClientStates
  <2>2. cstate' = cs /\ (UNCHANGED <<run, central>> \/ \E T : Publish(cs, run, T))
    BY <1>11 DEF ProbeReport
  <2>3. UNCHANGED <<up, registered, heard, breaker, armed, attempts, asked, stopped,
                    gone, beat, disruptions>>
        /\ errors' \in [Ifaces -> 0..2]
        /\ verdict' \in [Ifaces -> {"none", "alive", "dead"}]
    <3>1. errors' = [errors EXCEPT ![i] = Recorded(i, alive)]
      BY <1>11 DEF ProbeReport
    <3>2. Recorded(i, alive) \in 0..2
      BY <1>0 DEF Recorded, TypeOK
    <3>3. errors' \in [Ifaces -> 0..2]
      BY <1>0, <3>1, <3>2 DEF TypeOK
    <3> QED
      BY <1>0, <1>11, <3>3 DEF ProbeReport, TypeOK
  <2> HIDE DEF cs
  <2>4. CASE UNCHANGED <<run, central>>
    BY <2>1, <2>2, <2>3, <2>4 DEF Discipline, TypeOK, Alone, Funded, Asked
  <2>5. CASE \E T : Publish(cs, run, T)
    <3>1. /\ run' \in RunType
          /\ central' \in {"RUNNING", "DEGRADED", "FAILED"}
          /\ Alone(run)' /\ Funded(run, attempts)'
          /\ gone' => stopped' /\ Asked(run)'
      BY <2>3, <2>5, OutsideKeeps
    <3> QED
      BY <1>0, <2>1, <2>2, <2>3, <3>1 DEF Discipline, TypeOK, RunType
  <2> QED
    BY <2>2, <2>4, <2>5
<1>12. ASSUME NEW i \in Ifaces, NEW k \in Slots, Enter(i, k) PROVE Discipline'
  <2> DEFINE s == IF attempts[i] >= MaxAttempts THEN "leaving" ELSE "checking"
             g == Goto(i, k, s)
  <2>1. s \in {"idle", "queued"} \cup Active /\ s \in Active
        /\ (s # "leaving" => s = "checking" /\ attempts[i] < MaxAttempts)
    BY <1>0 DEF Active, TypeOK
  <2>2. Publish(cstate, g, {}) /\ ~Recovering(run, i) /\ run[i][k] = "queued"
    BY <1>12 DEF Enter
  <2>3. UNCHANGED <<up, registered, heard, cstate, errors, breaker, verdict, armed,
                    attempts, asked, stopped, gone, beat, disruptions>>
    BY <1>12 DEF Enter
  <2> HIDE DEF s
  <2>4. /\ g \in RunType /\ g[i][k] = s
        /\ \A j \in Ifaces : \A l \in Slots : j # i \/ l # k => g[j][l] = run[j][l]
    BY <1>0, <2>1, GotoStep
  <2> HIDE DEF g
  <2>5. \A l \in Slots : l # k => g[i][l] \notin Active
    BY <2>2, <2>4 DEF Recovering
  <2>6. Alone(g)
    BY <2>4, <2>5 DEF Discipline, Alone
  <2>7. Funded(g, attempts)
    BY <2>1, <2>4 DEF Discipline, Funded
  <2>8. Asked(run) => Asked(g)
    BY <2>2, <2>4 DEF Asked
  <2>9. /\ run' \in RunType
        /\ central' \in {"RUNNING", "DEGRADED", "FAILED"}
        /\ Alone(run') /\ Funded(run', attempts)
        /\ stopped /\ Asked(g) => Asked(run')
    BY <2>2, <2>4, <2>6, <2>7, PublishKeeps
  <2> QED
    BY <1>0, <2>3, <2>8, <2>9 DEF Discipline, TypeOK, RunType, Alone, Funded, Asked
<1>13. ASSUME NEW i \in Ifaces, NEW k \in Slots, Check(i, k) PROVE Discipline'
  <2> DEFINE s == Reconnectable(cstate[i])
             cs == [cstate EXCEPT ![i] = Transition(s, "RECONNECTING")]
             fs == [cstate EXCEPT ![i] = s]
  <2>1. UNCHANGED <<up, registered, heard, errors, breaker, verdict, armed, asked,
                    stopped, gone, beat, disruptions>>
        /\ run[i][k] = "checking"
    BY <1>13 DEF Check
  <2>2. cs \in [Ifaces -> ClientStates] /\ fs \in [Ifaces -> ClientStates]
    <3>1. s \in ClientStates /\ "RECONNECTING" \in ClientStates
      BY <1>0 DEF TypeOK, Reconnectable, ClientStates
    <3> QED
      BY <1>0, <3>1, TransitionType DEF TypeOK
  <2>3. \/ Fail(i, k, cstate) \/ Fail(i, k, fs)
        \/ cstate' = cs /\ Publish(cs, Goto(i, k, "waiting"), {}) /\ UNCHANGED attempts
    BY <1>13 DEF Check
  <2> HIDE DEF cs, fs
  <2>4. ASSUME NEW x \in [Ifaces -> ClientStates], Fail(i, k, x) PROVE Discipline'
    <3>1. /\ run' \in RunType
          /\ central' \in {"RUNNING", "DEGRADED", "FAILED"}
          /\ attempts' \in [Ifaces -> 0..MaxAttempts] /\ cstate' = x
          /\ Alone(run)' /\ Funded(run, attempts)'
          /\ gone' => stopped' /\ Asked(run)'
      BY <2>1, <2>4, FailKeeps
    <3> QED
      BY <1>0, <2>1, <3>1 DEF Discipline, TypeOK, RunType
  <2>5. CASE cstate' = cs /\ Publish(cs, Goto(i, k, "waiting"), {}) /\ UNCHANGED attempts
    <3>1. attempts' \in [Ifaces -> 0..MaxAttempts] /\ attempts'[i] < MaxAttempts
          /\ (\A j \in Ifaces : j # i => attempts'[j] = attempts[j])
      BY <2>1, <2>5 DEF Discipline, TypeOK, Funded
    <3>2. run[i][k] \in Active /\ "waiting" \in Active
      BY <2>1 DEF Active
    <3>3. /\ run' \in RunType
          /\ central' \in {"RUNNING", "DEGRADED", "FAILED"}
          /\ Alone(run)' /\ Funded(run, attempts)'
          /\ gone' => stopped' /\ Asked(run)'
      BY <2>1, <2>5, <3>1, <3>2, AdvanceKeeps
    <3> QED
      BY <1>0, <2>1, <2>2, <2>5, <3>1, <3>3 DEF Discipline, TypeOK, RunType
  <2>6. cstate \in [Ifaces -> ClientStates]
    BY <1>0 DEF TypeOK
  <2> QED
    BY <2>2, <2>3, <2>4, <2>5, <2>6
<1>14. ASSUME NEW i \in Ifaces, NEW k \in Slots, Reinit(i, k) PROVE Discipline'
  <2> DEFINE s == Transition(Transition(cstate[i], "CONNECTING"), "CONNECTED")
             cs == [cstate EXCEPT ![i] = s]
  <2>1. UNCHANGED <<up, heard, verdict, armed, asked, stopped, gone, beat>>
        /\ run[i][k] = "waiting"
    BY <1>14 DEF Reinit
  <2>2. /\ registered' \subseteq Ifaces
        /\ errors' \in [Ifaces -> 0..2]
        /\ breaker' \in [Ifaces -> {"closed", "open", "half"}]
        /\ disruptions' \in 0..MaxDisruptions
    <3>1. registered' \in {registered, registered \ {i}, registered \cup {i}}
      BY <1>14 DEF Reinit
    <3>2. errors' \in {errors, [errors EXCEPT ![i] = 0]}
      BY <1>14 DEF Reinit
    <3>3. breaker' \in {breaker, [breaker EXCEPT ![i] = "closed"]}
      BY <1>14 DEF Reinit
    <3>4. disruptions' = disruptions \/ Disrupt
      BY <1>14 DEF Reinit
    <3>5. disruptions' \in 0..MaxDisruptions
      BY <1>0, <3>4 DEF Disrupt, TypeOK
    <3>6. registered' \subseteq Ifaces
      <4>1. registered \subseteq Ifaces
        BY <1>0 DEF TypeOK
      <4> QED
        BY <3>1, <4>1
    <3>7. errors' \in [Ifaces -> 0..2]
      <4>1. errors \in [Ifaces -> 0..2]
        BY <1>0 DEF TypeOK
      <4>2. [errors EXCEPT ![i] = 0] \in [Ifaces -> 0..2]
        BY <4>1
      <4> QED
        BY <3>2, <4>1, <4>2
    <3>8. breaker' \in [Ifaces -> {"closed", "open", "half"}]
      <4>1. breaker \in [Ifaces -> {"closed", "open", "half"}]
        BY <1>0 DEF TypeOK
      <4>2. [breaker EXCEPT ![i] = "closed"] \in [Ifaces -> {"closed", "open", "half"}]
        BY <4>1
      <4> QED
        BY <3>3, <4>1, <4>2
    <3> QED
      BY <3>5, <3>6, <3>7, <3>8
  <2>3. /\ cs \in [Ifaces -> ClientStates]
        /\ cstate \in [Ifaces -> ClientStates]
        /\ Disconnected(i) \in [Ifaces -> ClientStates]
    <3>1. cstate[i] \in ClientStates /\ {"CONNECTING", "CONNECTED", "DISCONNECTED"} \subseteq ClientStates
      BY <1>0 DEF TypeOK, ClientStates
    <3>2. s \in ClientStates
      BY <3>1, TransitionType
    <3> HIDE DEF s
    <3> QED
      BY <1>0, <3>1, <3>2 DEF TypeOK, Disconnected
  <2>4. \/ Fail(i, k, cstate) \/ Fail(i, k, Disconnected(i))
        \/ cstate' = cs /\ Publish(cs, Goto(i, k, "loading"), {}) /\ UNCHANGED attempts
    BY <1>14 DEF Reinit
  <2> HIDE DEF cs
  <2>5. ASSUME NEW x \in [Ifaces -> ClientStates], Fail(i, k, x) PROVE Discipline'
    <3>1. /\ run' \in RunType
          /\ central' \in {"RUNNING", "DEGRADED", "FAILED"}
          /\ attempts' \in [Ifaces -> 0..MaxAttempts] /\ cstate' = x
          /\ Alone(run)' /\ Funded(run, attempts)'
          /\ gone' => stopped' /\ Asked(run)'
      BY <2>1, <2>5, FailKeeps
    <3> QED
      BY <1>0, <2>1, <2>2, <3>1 DEF Discipline, TypeOK, RunType
  <2>6. CASE cstate' = cs /\ Publish(cs, Goto(i, k, "loading"), {}) /\ UNCHANGED attempts
    <3>1. attempts' \in [Ifaces -> 0..MaxAttempts] /\ attempts'[i] < MaxAttempts
          /\ (\A j \in Ifaces : j # i => attempts'[j] = attempts[j])
      BY <2>1, <2>6 DEF Discipline, TypeOK, Funded
    <3>2. run[i][k] \in Active /\ "loading" \in Active
      BY <2>1 DEF Active
    <3>3. /\ run' \in RunType
          /\ central' \in {"RUNNING", "DEGRADED", "FAILED"}
          /\ Alone(run)' /\ Funded(run, attempts)'
          /\ gone' => stopped' /\ Asked(run)'
      BY <2>1, <2>6, <3>1, <3>2, AdvanceKeeps
    <3> QED
      BY <1>0, <2>1, <2>2, <2>3, <2>6, <3>1, <3>3 DEF Discipline, TypeOK, RunType
  <2> QED
    BY <2>3, <2>4, <2>5, <2>6
<1>15. ASSUME NEW i \in Ifaces, NEW k \in Slots, Load(i, k) PROVE Discipline'
  <2>1. UNCHANGED <<up, registered, heard, errors, breaker, verdict, armed, asked,
                    stopped, gone, beat, disruptions>>
        /\ run[i][k] = "loading"
    BY <1>15 DEF Load
  <2>2. \/ Fail(i, k, cstate)
        \/ /\ attempts' = [attempts EXCEPT ![i] = 0]
           /\ Publish(cstate, Goto(i, k, "leaving"), {})
           /\ UNCHANGED cstate
    BY <1>15 DEF Load
  <2>3. CASE Fail(i, k, cstate)
    <3>1. /\ run' \in RunType
          /\ central' \in {"RUNNING", "DEGRADED", "FAILED"}
          /\ attempts' \in [Ifaces -> 0..MaxAttempts] /\ cstate' = cstate
          /\ Alone(run)' /\ Funded(run, attempts)'
          /\ gone' => stopped' /\ Asked(run)'
      BY <2>1, <2>3, FailKeeps
    <3> QED
      BY <1>0, <2>1, <3>1 DEF Discipline, TypeOK, RunType
  <2>4. CASE /\ attempts' = [attempts EXCEPT ![i] = 0]
             /\ Publish(cstate, Goto(i, k, "leaving"), {})
             /\ UNCHANGED cstate
    <3>1. attempts' \in [Ifaces -> 0..MaxAttempts] /\ attempts'[i] < MaxAttempts
          /\ (\A j \in Ifaces : j # i => attempts'[j] = attempts[j])
      BY <1>0, <2>4 DEF TypeOK
    <3>2. run[i][k] \in Active /\ "leaving" \in Active
      BY <2>1 DEF Active
    <3>3. /\ run' \in RunType
          /\ central' \in {"RUNNING", "DEGRADED", "FAILED"}
          /\ Alone(run)' /\ Funded(run, attempts)'
          /\ gone' => stopped' /\ Asked(run)'
      BY <2>1, <2>4, <3>1, <3>2, AdvanceKeeps
    <3> QED
      BY <1>0, <2>1, <2>4, <3>1, <3>3 DEF Discipline, TypeOK, RunType
  <2> QED
    BY <2>2, <2>3, <2>4
<1>16. ASSUME NEW i \in Ifaces, NEW k \in Slots, Leave(i, k) PROVE Discipline'
  BY <1>16 DEF Leave, Goto, Discipline, TypeOK, Alone, Funded, Asked, Active
<1>17. ASSUME NEW i \in Ifaces, NEW k \in Slots, AskReconnect(i, k) PROVE Discipline'
  BY <1>17 DEF AskReconnect, Disrupt, Goto, Discipline, TypeOK, Alone, Funded, Asked, Active
<1>18. ASSUME NEW i \in Ifaces, Heartbeat(i) PROVE Discipline'
  <2>1. /\ run' = Trigger(run, {i}) /\ run \in RunType
        /\ attempts' = [attempts EXCEPT ![i] = MaxAttempts - 1]
        /\ attempts' \in [Ifaces -> 0..MaxAttempts]
        /\ UNCHANGED <<up, registered, heard, cstate, errors, breaker, verdict, armed,
                       asked, stopped, gone, central, beat, disruptions>>
    BY <1>0, <1>18 DEF Heartbeat, TypeOK, RunType
  <2>2. Funded(run, attempts')
    BY <1>0, <2>1 DEF Discipline, Funded, TypeOK
  <2>3. /\ run' \in RunType
        /\ Alone(run') /\ Funded(run', attempts')
        /\ gone => stopped /\ Asked(run')
    BY <2>1, <2>2, TriggerKeeps DEF Discipline
  <2> QED
    BY <1>0, <2>1, <2>3 DEF Discipline, TypeOK, RunType, Alone, Funded, Asked
<1>19. CASE UNCHANGED vars
  BY <1>19 DEF vars, Discipline, TypeOK, Alone, Funded, Asked
<1> QED
  BY <1>1, <1>2, <1>3, <1>4, <1>5, <1>6, <1>7, <1>8, <1>9, <1>10, <1>11, <1>12, <1>13,
     <1>14, <1>15, <1>16, <1>17, <1>18, <1>19 DEF Next, Health, Probe, Step

\* The inductive invariant of the coordinator: the types, one funded run per interface,
\* and the order of Stop (triggerRecovery, Stop).
THEOREM DisciplineHolds == Spec => []Discipline
  BY DisciplineInit, DisciplineStep, PTL DEF Spec

\* Every variable keeps its type; in particular no interface is ever charged
\* more than MaxAttempts failed runs (bumpAttempt).
THEOREM RecoveryTypeCorrect == Spec => []TypeOK
<1>1. Discipline => TypeOK
  BY DEF Discipline
<1> QED
  BY <1>1, DisciplineHolds, PTL

\* However many goroutines are triggered and however they are woken, one of
\* them at a time works on an interface and has an attempt left (runInternal).
THEOREM SerialRecovery == Spec => []RunsAreSerial
<1>1. Discipline => RunsAreSerial
  BY DEF Discipline, Alone, Funded, RunsAreSerial
<1> QED
  BY <1>1, DisciplineHolds, PTL

\* When Stop has returned no goroutine of the coordinator is left, and none
\* is started afterwards (Stop, triggerRecovery).
THEOREM NothingAfterStop == Spec => []StopLeavesNothing
<1>1. Discipline => StopLeavesNothing
  BY DEF Discipline, Asked, StopLeavesNothing
<1> QED
  BY <1>1, DisciplineHolds, PTL

=============================================================================
