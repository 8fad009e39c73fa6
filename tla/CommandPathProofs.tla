-------------------------- MODULE CommandPathProofs --------------------------
(***************************************************************************)
(* Proofs about CommandPath for every set of commands, keys and pools and  *)
(* every value of the thresholds and bounds:                               *)
(*                                                                         *)
(*   - the throttle inside the stack is the throttle alone, so that what   *)
(*     CommandThrottleProofs shows of the one holds in the other;          *)
(*   - a success that a caller sees is one the wire reported;              *)
(*   - the probe slot of the circuit always has an owner, and the circuit  *)
(*     opens only on evidence of the wire;                                 *)
(*   - callers of one key share one execution, which serves them all.      *)
(***************************************************************************)
EXTENDS CommandPath, CommandThrottleProofs

RunStages == {"none", "gate", "acquire", "backoff", "record", "unslot", "purge",
              "settle", "over"}

\* A goroutine is inside the throttle only while its execution is in an attempt,
\* and an execution exists only once its caller has passed Coalescer.Do.
Routed ==
    /\ stage \in [Calls -> Stages] /\ ctxDone \in [Calls -> BOOLEAN]
    /\ run \in [Calls -> RunStages]
    /\ caller \in [Calls -> {"idle", "entered", "waiting", "done"}]
    /\ \A c \in Calls : stage[c] # "idle" => run[c] = "acquire"
    /\ \A c \in Calls : caller[c] \in {"idle", "entered"} => run[c] = "none"

\* A step of one goroutine inside the throttle takes nobody else in or out.
LEMMA OthersStay ==
    ASSUME stage \in [Calls -> Stages], NEW c \in Calls,
           Acquire(c) \/ AcquireStep(c) \/ Release(c)
    PROVE  /\ stage' \in [Calls -> Stages]
           /\ \A d \in Calls \ {c} : stage'[d] = "idle" <=> stage[d] = "idle"
<1>1. ASSUME NEW s \in Stages, Goto(c, s)
      PROVE  /\ stage' \in [Calls -> Stages]
             /\ \A d \in Calls \ {c} : stage'[d] = stage[d]
  BY <1>1 DEF Goto
<1>2. {"idle", "pacing", "sleeping", "paced", "queued", "dozing", "admitted", "cleared",
       "held", "ready"} \subseteq Stages
  BY DEF Stages
<1>3. ASSUME GiveBack(c), stage[c] # "queued"
      PROVE  /\ stage' \in [Calls -> Stages]
             /\ \A d \in Calls \ {c} : stage'[d] = "idle" <=> stage[d] = "idle"
  <2>1. CASE Goto(c, "idle")
    BY <1>1, <1>2, <2>1
  <2>2. CASE \E w \in Waiters : stage' = [stage EXCEPT ![c] = "idle", ![w] = "ready"]
    BY <1>2, <1>3, <2>2 DEF Waiters
  <2> QED
    BY <1>3, <2>1, <2>2 DEF GiveBack
<1>4. CASE Acquire(c)
  BY <1>1, <1>2, <1>4 DEF Acquire
<1>5. CASE WaitForDelay(c) \/ Sleep(c)
  BY <1>1, <1>2, <1>5 DEF WaitForDelay, Sleep, Return
<1>6. CASE Enter(c)
  BY <1>1, <1>2, <1>6 DEF Enter, Return
<1>7. CASE Recheck(c)
  BY <1>1, <1>2, <1>3, <1>7 DEF Recheck
<1>8. CASE Doze(c)
  BY <1>1, <1>2, <1>3, <1>8 DEF Doze
<1>9. CASE Proceed(c) \/ ClosedOut(c)
  BY <1>1, <1>2, <1>9 DEF Proceed, ClosedOut, Return
<1>10. CASE CancelWaiter(c)
  BY <1>1, <1>2, <1>3, <1>10 DEF CancelWaiter, Return
<1>11. CASE Release(c)
  BY <1>3, <1>11 DEF Release
<1> QED
  BY <1>4, <1>5, <1>6, <1>7, <1>8, <1>9, <1>10, <1>11 DEF AcquireStep

----------------------------------------------------------------------------
(* The throttle inside the stack *)

\* The context of an execution that is not inside the throttle may begin anew,
\* every other one can only end.
LEMMA ContextStep ==
    ASSUME Routed, NEW e, NEW b \in BOOLEAN, SetCtx(e, b),
           b \/ (e \in Calls => stage[e] = "idle")
    PROVE  ThrottleNext /\ stage' = stage /\ ctxDone' \in [Calls -> BOOLEAN]
<1>1. ctxDone' \in [Calls -> BOOLEAN]
  BY DEF SetCtx, Routed
<1>2. ASSUME NEW c \in Calls, stage[c] # "idle", ctxDone[c] PROVE ctxDone'[c]
  BY <1>2 DEF SetCtx, Routed
<1> QED
  BY <1>1, <1>2 DEF SetCtx, ThrottleNext, Contexts

LEMMA RoutedStep ==
    ASSUME Routed, [Next]_vars
    PROVE  Routed' /\ [ThrottleNext]_throttleVars
<1> USE DEF throttleVars
<1>0. {"gate", "acquire", "backoff", "record", "unslot", "purge", "settle", "over"}
        \subseteq RunStages
  BY DEF RunStages
<1>1. CASE UNCHANGED vars
  BY <1>1 DEF vars, callVars, runVars, Routed
<1>2. ASSUME NEW c \in Calls, Call(c) PROVE Routed' /\ [ThrottleNext]_throttleVars
  BY <1>2 DEF Call, Answer, Routed, runVars
<1>3. ASSUME NEW c \in Calls, Do(c) PROVE Routed' /\ [ThrottleNext]_throttleVars
  <2>1. caller[c] = "entered" /\ caller' = [caller EXCEPT ![c] = "waiting"]
    BY <1>3 DEF Do
  <2>2. run[c] = "none" /\ stage[c] = "idle"
    BY <2>1 DEF Routed
  <2>3. CASE UNCHANGED <<throttleVars, run>>
    BY <2>1, <2>3 DEF Routed
  <2>4. CASE Move(c, "gate") /\ \E b \in BOOLEAN : SetCtx(c, b)
    <3>1. ThrottleNext /\ stage' = stage /\ ctxDone' \in [Calls -> BOOLEAN]
      BY <2>2, <2>4, ContextStep
    <3> QED
      BY <1>0, <2>1, <2>2, <2>4, <3>1 DEF Routed, Move
  <2>5. (callerGone[c] /\ (Key[c] = NoKey \/ c \in Deadlines)) \in BOOLEAN
    OBVIOUS
  <2> QED
    BY <1>3, <2>3, <2>4, <2>5 DEF Do
<1>4. ASSUME NEW c \in Calls, Await(c) \/ CallerGone(c)
      PROVE  Routed' /\ [ThrottleNext]_throttleVars
  <2>1. run' = run
    BY <1>4 DEF Await, CallerGone, runVars
  <2>2. caller' = caller \/ caller' = [caller EXCEPT ![c] = "done"]
    BY <1>4 DEF Await, CallerGone, Answer
  <2>3. UNCHANGED throttleVars \/ \E e \in {c, joined[c]} : SetCtx(e, TRUE)
    BY <1>4 DEF Await, CallerGone, Leave
  <2>4. /\ [ThrottleNext]_throttleVars
        /\ stage' = stage /\ ctxDone' \in [Calls -> BOOLEAN]
    BY <2>3, ContextStep DEF Routed
  <2> QED
    BY <2>1, <2>2, <2>4 DEF Routed
<1>5. ASSUME NEW e \in Calls, Gate(e) \/ Backoff(e) \/ Acquiring(e) \/ WireReturn(e)
      PROVE  Routed' /\ [ThrottleNext]_throttleVars
  <2>1. caller' = caller /\ run[e] \in {"gate", "backoff", "acquire"}
    BY <1>5 DEF Gate, Backoff, Acquiring, WireReturn, callVars
  <2>2. CASE UNCHANGED throttleVars /\ \E r \in RunStages : Move(e, r) /\ r # "none" /\ run[e] # "acquire"
    BY <2>1, <2>2 DEF Routed, Move
  <2>3. CASE /\ Acquire(e) \/ AcquireStep(e) \/ Release(e)
             /\ \E r \in RunStages \ {"none"} :
                  run' = [run EXCEPT ![e] = r] /\ (stage'[e] # "idle" => r = "acquire")
    <3>1. ThrottleNext /\ ctxDone' = ctxDone
      BY <2>3 DEF ThrottleNext, Acquire, AcquireStep, Release, WaitForDelay, Sleep, Enter,
                  Recheck, Doze, Proceed, ClosedOut, CancelWaiter
    <3>2. stage' \in [Calls -> Stages]
          /\ \A d \in Calls \ {e} : stage'[d] = "idle" <=> stage[d] = "idle"
      BY <2>3, OthersStay DEF Routed
    <3> QED
      BY <2>1, <2>3, <3>1, <3>2 DEF Routed
  <2>4. CASE Gate(e)
    <3>1. CASE Attempt(e)
      BY <1>0, <2>3, <3>1 DEF Attempt, Move
    <3>2. CASE Move(e, "purge") /\ UNCHANGED throttleVars
      BY <1>0, <2>2, <2>4, <3>2 DEF Gate
    <3> QED
      BY <2>4, <3>1, <3>2 DEF Gate
  <2>5. CASE Backoff(e)
    <3>1. CASE Attempt(e)
      BY <1>0, <2>3, <3>1 DEF Attempt, Move
    <3>2. CASE EndLoop(e) /\ UNCHANGED throttleVars
      BY <1>0, <2>2, <2>5, <3>2 DEF EndLoop, Backoff
    <3> QED
      BY <2>5, <3>1, <3>2 DEF Backoff
  <2>6. ASSUME NEW r, NEW b, AfterFailure(e, r, b)
        PROVE  \E s \in RunStages \ {"none"} : run' = [run EXCEPT ![e] = s]
    BY <1>0, <2>6 DEF AfterFailure, EndLoop, Move
  <2>7. CASE Acquiring(e)
    <3>1. CASE stage'[e] = "idle"
      BY <2>3, <2>6, <2>7, <3>1 DEF Acquiring
    <3>2. CASE stage'[e] # "idle"
      <4>1. run' = run /\ run[e] = "acquire" /\ AcquireStep(e)
        BY <2>7, <3>2 DEF Acquiring
      <4>2. run' = [run EXCEPT ![e] = "acquire"]
        BY <4>1 DEF Routed
      <4> QED
        BY <1>0, <2>3, <4>1, <4>2
    <3> QED
      BY <3>1, <3>2
  <2>8. CASE WireReturn(e)
    <3>1. stage'[e] = "idle" /\ Release(e)
      <4>1. Release(e) /\ stage[e] = "held" /\ GiveBack(e)
        BY <2>8 DEF WireReturn, Release
      <4>2. CASE Goto(e, "idle")
        BY <4>1, <4>2 DEF Goto, Routed
      <4>3. CASE \E w \in Waiters : stage' = [stage EXCEPT ![e] = "idle", ![w] = "ready"]
        BY <4>1, <4>3 DEF Waiters, Routed
      <4> QED
        BY <4>1, <4>2, <4>3 DEF GiveBack
    <3>2. \E s \in RunStages \ {"none"} : run' = [run EXCEPT ![e] = s]
      <4>1. EndLoop(e) \/ \E r \in {"failed", "spared"}, b \in BOOLEAN : AfterFailure(e, r, b)
        BY <2>8 DEF WireReturn
      <4> QED
        BY <1>0, <2>6, <4>1 DEF EndLoop, Move
    <3> QED
      BY <2>3, <3>1, <3>2
  <2> QED
    BY <1>5, <2>4, <2>5, <2>7, <2>8
<1>6. ASSUME NEW e \in Calls, RecordOutcome(e) \/ Unslot(e) \/ Purge(e) \/ Settle(e)
      PROVE  Routed' /\ [ThrottleNext]_throttleVars
  <2>1. UNCHANGED throttleVars /\ run[e] \in {"record", "unslot", "purge", "settle"}
    BY <1>6 DEF RecordOutcome, Unslot, Purge, Settle
  <2>2. \E r \in {"unslot", "purge", "settle", "over"} : run' = [run EXCEPT ![e] = r]
    BY <1>6 DEF RecordOutcome, Unslot, Purge, Settle, Over, Move
  <2>3. caller' = caller \/ caller' = [caller EXCEPT ![e] = "done"]
    BY <1>6 DEF RecordOutcome, Unslot, Purge, Settle, Answer, callVars
  <2> QED
    BY <1>0, <2>1, <2>2, <2>3 DEF Routed
<1>7. CASE Cool \/ Reset \/ ResetSlot \/ CloseFlag \/ Terminated
  BY <1>7 DEF Cool, Reset, ResetSlot, CloseFlag, Terminated, vars, callVars, runVars, Routed
<1>8. CASE PaceElapses
  <2>1. ThrottleNext
    BY <1>8 DEF PaceElapses, ThrottleNext
  <2> QED
    BY <1>8, <2>1 DEF PaceElapses, Rest, callVars, runVars, Routed
<1>9. CASE Clear \/ \E e \in Calls : ClearSettle(e) \/ ClearCancel(e)
  <2>1. UNCHANGED <<run, caller>>
    BY <1>9 DEF Clear, ClearSettle, ClearCancel, callVars, runVars
  <2>2. CASE Clear \/ \E e \in Calls : ClearSettle(e)
    BY <2>1, <2>2 DEF Clear, ClearSettle, throttleVars, Routed
  <2>3. ASSUME NEW e \in Calls, ClearCancel(e) PROVE Routed' /\ [ThrottleNext]_throttleVars
    <3>1. ThrottleNext /\ stage' = stage /\ ctxDone' \in [Calls -> BOOLEAN]
      BY <2>3 DEF ClearCancel, SetCtx, ThrottleNext, Contexts, Routed
    <3> QED
      BY <2>1, <3>1 DEF Routed
  <2> QED
    BY <1>9, <2>2, <2>3
<1>10. CASE CloseThrottles
  <2>1. ThrottleNext /\ UNCHANGED <<ctxDone, run, caller>>
    BY <1>10 DEF CloseThrottles, ThrottleNext, ThrottleClose, callVars, runVars
  <2>2. stage' = [c \in Calls |-> IF stage[c] = "queued" THEN "closedOut" ELSE stage[c]]
    BY <1>10 DEF CloseThrottles, ThrottleClose
  <2>3. stage' \in [Calls -> Stages] /\ \A c \in Calls : stage'[c] = "idle" => stage[c] = "idle"
    BY <2>2 DEF Routed, Stages
  <2>4. \A c \in Calls : stage'[c] # "idle" => stage[c] # "idle"
    BY <2>2
  <2> QED
    BY <2>1, <2>3, <2>4 DEF Routed
<1> QED
  BY <1>1, <1>2, <1>3, <1>4, <1>5, <1>6, <1>7, <1>8, <1>9, <1>10 DEF Next, Step

LEMMA RoutedHolds == Spec => []Routed
<1>1. Init => Routed
  BY DEF Init, ThrottleInit, Routed, RunStages, Stages
<1>2. Routed /\ [Next]_vars => Routed'
  BY RoutedStep
<1> QED
  BY <1>1, <1>2, PTL DEF Spec

\* The throttle inside the stack does what the throttle alone does, whatever the
\* coalescer, the circuit, the retries and Close do around it
\* (InterfaceClient.Call, callWithThrottle).
THEOREM PathUsesThrottle == Spec => ThrottleInPath
<1>1. Init => ThrottleInit
  BY DEF Init
<1>2. Routed /\ [Next]_vars => [ThrottleNext]_throttleVars
  BY RoutedStep
<1> QED
  BY <1>1, <1>2, RoutedHolds, PTL DEF Spec, ThrottleInPath, ThrottleSpec

\* So the permits are counted right, none lies idle and the limit holds for the
\* commands of the stack too (CommandThrottle.Acquire, Release, Close).
THEOREM PathKeepsPermits == Spec => [](PermitsConserved /\ NoIdlePermit /\ Bounded /\ NobodyParked)
  BY PathUsesThrottle, PermitAccounting, NoPermitIdle, CapacityBound, CloseDrains, PTL
     DEF ThrottleInPath

\* And what the CCU sees of the stack is a plain pool of permits.
THEOREM PathIsPool == Spec => PoolInPath
  BY PathUsesThrottle, ThrottleIsPool, PTL DEF ThrottleInPath, PoolInPath

----------------------------------------------------------------------------
(* Where a success comes from *)

Started == RunStages \ {"none"}
Reported == {"record", "unslot", "purge", "settle"}

\* A success travels from the wire to the outcome of the execution, from there
\* to the settlement and on to the callers; once it is settled the execution is
\* over and the wire says nothing more about it.
Traced ==
    /\ joined \in [Calls -> Calls \cup {None}]
    /\ calls \in [Keys -> Calls \cup {None}]
    /\ answer \in [Calls -> Results] /\ settled \in [Calls -> Results]
    /\ outcome \in [Calls -> {"none", "ok", "failed", "spared", "rejected"}]
    /\ wire \in [Calls -> {"none", "ok", "failed"}]
    /\ \A c \in Calls : run[c] # "none" => joined[c] = c
    /\ \A c \in Calls : caller[c] = "waiting" => joined[c] \in Calls
    /\ \A e \in Calls : outcome[e] = "ok" => wire[e] = "ok" /\ run[e] \in Reported
    /\ \A e \in Calls : settled[e] = "ok" => wire[e] = "ok" /\ run[e] = "over"
    /\ \A c \in Calls : answer[c] = "ok" =>
          /\ caller[c] = "done" /\ joined[c] \in Calls
          /\ wire[joined[c]] = "ok" /\ run[joined[c]] = "over"

\* Nothing a success depends on changes.
LEMMA TracedStutter ==
    ASSUME Traced, UNCHANGED <<joined, calls, answer, settled, outcome, wire, run, caller>>
    PROVE  Traced'
BY DEF Traced

\* An execution on its way moves on with an outcome that is no success.
LEMMA TracedMove ==
    ASSUME Routed, Traced, NEW e \in Calls, run[e] \in Started \ {"over"},
           NEW r \in Started, run' = [run EXCEPT ![e] = r],
           NEW o \in {"none", "failed", "spared", "rejected"},
           outcome' = [outcome EXCEPT ![e] = o],
           NEW v \in {"none", "ok", "failed"}, wire' = [wire EXCEPT ![e] = v],
           UNCHANGED <<joined, calls, answer, settled, caller>>
    PROVE  Traced'
<1>1. settled[e] # "ok" /\ \A c \in Calls : answer[c] = "ok" => joined[c] # e
  BY DEF Traced, Started
<1>2. run[e] # "none" /\ r # "none"
  BY DEF Started
<1> QED
  BY <1>1, <1>2 DEF Traced, Routed

LEMMA TracedStep ==
    ASSUME Routed, Traced, [Next]_vars
    PROVE  Traced'
<1> USE DEF Results
<1>0. /\ {"gate", "acquire", "backoff", "record", "unslot", "purge", "settle", "over"} = Started
      /\ run \in [Calls -> RunStages]
  BY DEF RunStages, Started, Routed
<1>1. CASE UNCHANGED vars
  BY <1>1, TracedStutter DEF vars, callVars, runVars, coalesceVars
<1>2. ASSUME NEW c \in Calls, Call(c) PROVE Traced'
  BY <1>2 DEF Call, Answer, Traced, Routed, runVars, coalesceVars
<1>3. ASSUME NEW c \in Calls, Do(c) PROVE Traced'
  <2>1. /\ caller[c] = "entered" /\ caller' = [caller EXCEPT ![c] = "waiting"]
        /\ UNCHANGED <<answer, settled, outcome, wire>>
    BY <1>3 DEF Do
  <2>2. run[c] = "none" /\ answer[c] # "ok"
    BY <2>1 DEF Routed, Traced
  <2>3. \/ /\ \E e \in Calls : joined' = [joined EXCEPT ![c] = e]
           /\ UNCHANGED <<run, calls>>
        \/ /\ joined' = [joined EXCEPT ![c] = c]
           /\ run' = [run EXCEPT ![c] = "gate"]
           /\ calls' \in [Keys -> Calls \cup {None}]
    <3>1. Key[c] # NoKey => Key[c] \in Keys
      BY PathAssumption
    <3>2. Key[c] # NoKey /\ calls[Key[c]] # None => calls[Key[c]] \in Calls
      BY <3>1 DEF Traced
    <3> QED
      BY <1>3, <3>1, <3>2 DEF Do, Move, Traced
  <2>4. CASE UNCHANGED <<run, calls>> /\ \E e \in Calls : joined' = [joined EXCEPT ![c] = e]
    BY <1>0, <2>1, <2>2, <2>4 DEF Traced, Routed
  <2>5. CASE /\ joined' = [joined EXCEPT ![c] = c]
             /\ run' = [run EXCEPT ![c] = "gate"]
             /\ calls' \in [Keys -> Calls \cup {None}]
    BY <1>0, <2>1, <2>2, <2>5 DEF Traced, Routed, Reported
  <2> QED
    BY <2>3, <2>4, <2>5
<1>4. ASSUME NEW c \in Calls, Await(c) PROVE Traced'
  <2>1. /\ caller[c] = "waiting" /\ caller' = [caller EXCEPT ![c] = "done"]
        /\ UNCHANGED <<joined, calls, settled, outcome, wire, run>>
        /\ answer' \in {[answer EXCEPT ![c] = settled[joined[c]]], [answer EXCEPT ![c] = "error"]}
    BY <1>4 DEF Await, Answer, runVars
  <2>2. joined[c] \in Calls /\ settled[joined[c]] \in Results
    BY <2>1 DEF Traced
  <2> QED
    BY <2>1, <2>2 DEF Traced, Routed
<1>5. ASSUME NEW c \in Calls, CallerGone(c) PROVE Traced'
  BY <1>5, TracedStutter DEF CallerGone, runVars, coalesceVars
<1>6. ASSUME NEW e \in Calls, Gate(e) PROVE Traced'
  <2>1. run[e] = "gate" /\ UNCHANGED <<joined, calls, answer, settled, wire, caller>>
    BY <1>6 DEF Gate, callVars, coalesceVars
  <2>2. /\ \E r \in {"acquire", "purge"} : run' = [run EXCEPT ![e] = r]
        /\ outcome' \in {outcome, [outcome EXCEPT ![e] = "rejected"]}
    BY <1>6 DEF Gate, Attempt, Move
  <2>3. outcome[e] # "ok"
    BY <2>1 DEF Traced, Reported
  <2>4. /\ outcome = [outcome EXCEPT ![e] = outcome[e]]
        /\ outcome[e] \in {"none", "failed", "spared", "rejected"}
        /\ wire' = [wire EXCEPT ![e] = wire[e]] /\ wire[e] \in {"none", "ok", "failed"}
    BY <2>1, <2>3 DEF Traced
  <2>5. run[e] \in Started \ {"over"} /\ {"acquire", "purge"} \subseteq Started
    BY <1>0, <2>1
  <2> QED
    BY <2>1, <2>2, <2>4, <2>5, TracedMove
<1>7. ASSUME NEW e \in Calls, Backoff(e) PROVE Traced'
  <2>1. run[e] = "backoff" /\ UNCHANGED <<joined, calls, answer, settled, outcome, wire, caller>>
    BY <1>7 DEF Backoff, callVars, coalesceVars
  <2>2. \E r \in {"acquire", "record"} : run' = [run EXCEPT ![e] = r]
    BY <1>7 DEF Backoff, Attempt, EndLoop, Move
  <2>3. outcome[e] # "ok"
    BY <2>1 DEF Traced, Reported
  <2>4. /\ outcome' = [outcome EXCEPT ![e] = outcome[e]]
        /\ outcome[e] \in {"none", "failed", "spared", "rejected"}
        /\ wire' = [wire EXCEPT ![e] = wire[e]] /\ wire[e] \in {"none", "ok", "failed"}
    BY <2>1, <2>3 DEF Traced
  <2>5. run[e] \in Started \ {"over"} /\ {"acquire", "record"} \subseteq Started
    BY <1>0, <2>1
  <2> QED
    BY <2>1, <2>2, <2>4, <2>5, TracedMove
<1>8. ASSUME NEW e \in Calls, NEW o \in {"failed", "spared"}, NEW b, AfterFailure(e, o, b)
      PROVE  /\ \E r \in {"record", "backoff"} : run' = [run EXCEPT ![e] = r]
             /\ outcome' = [outcome EXCEPT ![e] = o]
  BY <1>8 DEF AfterFailure, EndLoop, Move
<1>9. ASSUME NEW e \in Calls, Acquiring(e) PROVE Traced'
  <2>1. run[e] = "acquire" /\ UNCHANGED <<joined, calls, answer, settled, wire, caller>>
    BY <1>9 DEF Acquiring, callVars, coalesceVars
  <2>2. CASE UNCHANGED <<run, outcome>>
    BY <2>1, <2>2, TracedStutter
  <2>3. CASE AfterFailure(e, "spared", TRUE)
    <3>1. /\ \E r \in {"record", "backoff"} : run' = [run EXCEPT ![e] = r]
          /\ outcome' = [outcome EXCEPT ![e] = "spared"]
      BY <1>8, <2>3
    <3>2. wire' = [wire EXCEPT ![e] = wire[e]] /\ wire[e] \in {"none", "ok", "failed"}
      BY <2>1 DEF Traced
    <3>3. run[e] \in Started \ {"over"} /\ {"record", "backoff"} \subseteq Started
      BY <1>0, <2>1
    <3> QED
      BY <2>1, <3>1, <3>2, <3>3, TracedMove
  <2> QED
    BY <1>9, <2>2, <2>3 DEF Acquiring
<1>10. ASSUME NEW e \in Calls, WireReturn(e) PROVE Traced'
  <2>1. run[e] = "acquire" /\ UNCHANGED <<joined, calls, answer, settled, caller>>
    BY <1>10 DEF WireReturn, callVars, coalesceVars
  <2>2. run[e] \in Started \ {"over"} /\ {"record", "backoff"} \subseteq Started
    BY <1>0, <2>1
  <2>3. CASE /\ outcome' = [outcome EXCEPT ![e] = "ok"] /\ EndLoop(e)
             /\ wire' = [wire EXCEPT ![e] = "ok"]
    <3>1. settled[e] # "ok" /\ \A c \in Calls : answer[c] = "ok" => joined[c] # e
      BY <2>1 DEF Traced
    <3>2. run' = [run EXCEPT ![e] = "record"]
      BY <2>3 DEF EndLoop, Move
    <3> QED
      BY <1>0, <2>1, <2>3, <3>1, <3>2 DEF Traced, Routed, Reported
  <2>4. CASE /\ \E o \in {"failed", "spared"}, b \in BOOLEAN : AfterFailure(e, o, b)
             /\ \E v \in {"none", "ok", "failed"} : wire' = [wire EXCEPT ![e] = v]
    <3>1. PICK o \in {"failed", "spared"} :
            /\ \E r \in {"record", "backoff"} : run' = [run EXCEPT ![e] = r]
            /\ outcome' = [outcome EXCEPT ![e] = o]
      BY <1>8, <2>4
    <3> QED
      BY <2>1, <2>2, <2>4, <3>1, TracedMove
  <2>5. wire' = wire => wire' = [wire EXCEPT ![e] = wire[e]] /\ wire[e] \in {"none", "ok", "failed"}
    BY DEF Traced
  <2> QED
    BY <1>10, <2>3, <2>4, <2>5 DEF WireReturn
<1>11. ASSUME NEW e \in Calls, RecordOutcome(e) \/ Unslot(e) PROVE Traced'
  <2>1. /\ run[e] \in {"record", "unslot"}
        /\ UNCHANGED <<joined, calls, answer, settled, outcome, wire, caller>>
        /\ \E r \in {"unslot", "purge"} : run' = [run EXCEPT ![e] = r]
    BY <1>11 DEF RecordOutcome, Unslot, Move, callVars, coalesceVars
  <2> QED
    BY <1>0, <2>1 DEF Traced, Routed, Reported
<1>12. ASSUME NEW e \in Calls, Purge(e) PROVE Traced'
  <2>1. run[e] = "purge" /\ UNCHANGED <<joined, settled, wire>>
    BY <1>12 DEF Purge
  <2>2. CASE /\ calls' \in [Keys -> Calls \cup {None}]
             /\ run' = [run EXCEPT ![e] = "settle"]
             /\ UNCHANGED <<caller, answer, outcome>>
    BY <1>0, <2>1, <2>2 DEF Traced, Routed, Reported
  <2>3. CASE /\ Answer(e, Result(e)) /\ Over(e) /\ UNCHANGED calls
    <3>1. /\ joined[e] = e /\ (Result(e) = "ok" => wire[e] = "ok") /\ Result(e) \in Results
      BY <2>1 DEF Traced, Result
    <3>2. /\ run' = [run EXCEPT ![e] = "over"] /\ outcome' = [outcome EXCEPT ![e] = "none"]
          /\ caller' = [caller EXCEPT ![e] = "done"]
          /\ answer' = [answer EXCEPT ![e] = Result(e)]
      BY <2>3 DEF Answer, Over, Move
    <3> HIDE DEF Results
    <3> QED
      BY <1>0, <2>1, <2>3, <3>1, <3>2 DEF Traced, Routed, Reported
  <2>4. calls \in [Keys -> Calls \cup {None}]
    BY DEF Traced
  <2> QED
    BY <1>12, <2>2, <2>3, <2>4 DEF Purge, Move
<1>13. ASSUME NEW e \in Calls, Settle(e) PROVE Traced'
  <2>1. /\ run[e] = "settle" /\ UNCHANGED <<joined, calls, answer, wire, caller>>
        /\ run' = [run EXCEPT ![e] = "over"] /\ outcome' = [outcome EXCEPT ![e] = "none"]
        /\ settled' = [settled EXCEPT ![e] = IF @ = "none" THEN Result(e) ELSE @]
    BY <1>13 DEF Settle, Over, Move, callVars
  <2>2. (Result(e) = "ok" => wire[e] = "ok") /\ Result(e) \in Results
    BY DEF Traced, Result
  <2> HIDE DEF Results
  <2> QED
    BY <1>0, <2>1, <2>2 DEF Traced, Routed, Reported
<1>14. CASE Cool \/ Reset \/ ResetSlot \/ CloseFlag \/ Terminated \/ PaceElapses \/ CloseThrottles
  BY <1>14, TracedStutter DEF Cool, Reset, ResetSlot, CloseFlag, Terminated, PaceElapses,
     CloseThrottles, vars, callVars, runVars, coalesceVars
<1>15. ASSUME Clear \/ \E e \in Calls : ClearSettle(e) \/ ClearCancel(e) PROVE Traced'
  <2>1. UNCHANGED <<joined, answer, outcome, wire, run, caller>>
    BY <1>15 DEF Clear, ClearSettle, ClearCancel, callVars, runVars
  <2>2. calls' \in [Keys -> Calls \cup {None}] /\ settled' \in [Calls -> Results]
        /\ \A e \in Calls : settled'[e] = "ok" => settled[e] = "ok"
    <3>1. CASE Clear
      BY <3>1 DEF Clear, Traced
    <3>2. ASSUME NEW e \in Calls, ClearSettle(e) \/ ClearCancel(e)
          PROVE  /\ calls' = calls
                 /\ settled' = settled
                    \/ settled' = [settled EXCEPT ![e] = IF @ = "none" THEN "error" ELSE @]
      BY <3>2 DEF ClearSettle, ClearCancel
    <3> QED
      BY <1>15, <3>1, <3>2 DEF Traced
  <2> QED
    BY <2>1, <2>2 DEF Traced
<1> QED
  BY <1>1, <1>2, <1>3, <1>4, <1>5, <1>6, <1>7, <1>9, <1>10, <1>11, <1>12, <1>13, <1>14, <1>15
     DEF Next, Step

\* Whatever leaves, is cancelled, shed, retried or cleared on the way: when Call
\* returns success, the execution the caller joined had its answer from the wire
\* (Coalescer.settle, Coalescer.Clear, Retrier.Do).
THEOREM SuccessIsReal == Spec => []NoInventedSuccess
<1>1. Init => Traced
  BY DEF Init, Traced, Results
<1>2. Routed /\ Traced /\ [Next]_vars => Traced'
  BY TracedStep
<1>3. Traced => NoInventedSuccess
  BY DEF Traced, NoInventedSuccess
<1> QED
  BY <1>1, <1>2, <1>3, RoutedHolds, PTL DEF Spec

----------------------------------------------------------------------------
(* The probe slot *)

Probing == {"acquire", "backoff", "record", "unslot"}

\* An execution owns the slot from its admission until its deferred Store(0).
Slotted ==
    /\ probe \in [Calls -> BOOLEAN] /\ slot \in BOOLEAN
    /\ \A e \in Calls : probe[e] => run[e] \in Probing
    /\ SlotHasOwner

LEMMA SlottedStep ==
    ASSUME Routed, Slotted, [Next]_vars
    PROVE  Slotted'
<1> USE DEF Probing
<1>0. run \in [Calls -> RunStages]
  BY DEF Routed
<1>1. ASSUME UNCHANGED <<run, probe>>, slot' = slot \/ slot' = FALSE PROVE Slotted'
  <2>1. CASE slot' = slot
    BY <1>1, <2>1 DEF Slotted, SlotHasOwner
  <2>2. CASE slot' = FALSE
    BY <1>1, <2>2 DEF Slotted, SlotHasOwner
  <2> QED
    BY <1>1, <2>1, <2>2
\* An execution moves on and keeps what it has of the slot.
<1>2. ASSUME NEW e \in Calls, NEW r, run' = [run EXCEPT ![e] = r],
             UNCHANGED <<probe, slot>>, probe[e] => r \in Probing
      PROVE  Slotted'
  <2>1. ASSUME NEW d \in Calls, probe[d] PROVE run'[d] \in Probing
    BY <1>0, <1>2, <2>1 DEF Slotted
  <2> QED
    BY <1>2, <2>1 DEF Slotted, SlotHasOwner
<1>3. CASE UNCHANGED vars
  BY <1>1, <1>3 DEF vars, runVars, circuitVars
<1>4. ASSUME NEW c \in Calls, Call(c) \/ CallerGone(c) \/ Await(c) PROVE Slotted'
  BY <1>1, <1>4 DEF Call, CallerGone, Await, runVars, circuitVars
<1>5. ASSUME NEW c \in Calls, Do(c) PROVE Slotted'
  <2>1. /\ UNCHANGED <<probe, slot>> /\ caller[c] = "entered"
        /\ run' = run \/ run' = [run EXCEPT ![c] = "gate"]
    BY <1>5 DEF Do, Move, circuitVars
  <2>2. ~probe[c]
    BY <2>1 DEF Routed, Slotted
  <2> QED
    BY <1>1, <1>2, <2>1, <2>2
<1>6. ASSUME NEW e \in Calls, Gate(e) PROVE Slotted'
  <2>1. run[e] = "gate" /\ ~probe[e]
    BY <1>6 DEF Gate, Slotted
  <2>2. CASE run' = [run EXCEPT ![e] = "purge"] /\ UNCHANGED <<probe, slot>>
    BY <1>2, <2>1, <2>2
  <2>3. CASE \E free \in BOOLEAN : /\ run' = [run EXCEPT ![e] = "acquire"]
                                   /\ probe' = [probe EXCEPT ![e] = free]
                                   /\ slot' = (slot \/ free)
    BY <1>0, <2>1, <2>3 DEF Slotted, SlotHasOwner
  <2>4. \A free : (Refreshed # "closed" /\ ~slot /\ free) \in BOOLEAN
    OBVIOUS
  <2> QED
    BY <1>6, <2>2, <2>3, <2>4 DEF Gate, Attempt, Move
<1>7. ASSUME NEW e \in Calls, Acquiring(e) \/ WireReturn(e) \/ Backoff(e) PROVE Slotted'
  <2>1. /\ UNCHANGED <<probe, slot>>
        /\ run' = run \/ \E r \in {"acquire", "record", "backoff"} : run' = [run EXCEPT ![e] = r]
    BY <1>7 DEF Acquiring, WireReturn, Backoff, AfterFailure, EndLoop, Attempt, Move, circuitVars
  <2> QED
    BY <1>1, <1>2, <2>1
<1>8. ASSUME NEW e \in Calls, RecordOutcome(e) PROVE Slotted'
  BY <1>2, <1>8 DEF RecordOutcome, Move
<1>9. ASSUME NEW e \in Calls, Unslot(e) PROVE Slotted'
  BY <1>0, <1>9 DEF Unslot, Move, Slotted, SlotHasOwner
<1>10. ASSUME NEW e \in Calls, Purge(e) \/ Settle(e) PROVE Slotted'
  <2>1. /\ UNCHANGED <<probe, slot>> /\ run[e] \in {"purge", "settle"}
        /\ \E r \in {"settle", "over"} : run' = [run EXCEPT ![e] = r]
    BY <1>10 DEF Purge, Settle, Over, Move, circuitVars
  <2>2. ~probe[e]
    BY <2>1 DEF Slotted
  <2> QED
    BY <1>2, <2>1, <2>2
<1>11. CASE Cool \/ Reset \/ ResetSlot \/ CloseFlag \/ Clear \/ CloseThrottles \/ PaceElapses
            \/ Terminated \/ (\E e \in Calls : ClearSettle(e) \/ ClearCancel(e))
  BY <1>1, <1>11 DEF Cool, Reset, ResetSlot, CloseFlag, Clear, ClearSettle, ClearCancel,
     CloseThrottles, PaceElapses, Terminated, vars, runVars, circuitVars
<1> QED
  BY <1>3, <1>4, <1>5, <1>6, <1>7, <1>8, <1>9, <1>10, <1>11 DEF Next, Step

\* The probe slot is never left taken by nobody, whatever the probe ends with
\* and whenever a reconnect resets the circuit: the circuit can always close by
\* itself again (CircuitBreaker.DoWithPriority, Reset).
THEOREM SlotIsOwned == Spec => []SlotHasOwner
<1>1. ASSUME Init PROVE Slotted
  <2>1. slot = FALSE /\ probe \in [Calls -> BOOLEAN] /\ \A e \in Calls : ~probe[e]
    BY <1>1 DEF Init
  <2> QED
    BY <2>1 DEF Slotted, SlotHasOwner
<1>2. Routed /\ Slotted /\ [Next]_vars => Slotted'
  BY SlottedStep
<1>3. Slotted => SlotHasOwner
  BY DEF Slotted
<1> QED
  BY <1>1, <1>2, <1>3, RoutedHolds, PTL DEF Spec

----------------------------------------------------------------------------
(* What opens the circuit *)

Recorded == {"unslot", "purge", "settle", "over"}
Evidence == {e \in Calls : wire[e] = "failed" /\ run[e] \in Recorded}

\* The consecutive errors and the state of the circuit rest on executions that
\* were recorded.  The verdict of the wire on a recorded execution is final; the
\* one on an execution that is still retried is not, so that the set OpensOnEvidence
\* speaks of may shrink and is not inductive by itself.
Evident ==
    /\ wire \in [Calls -> {"none", "ok", "failed"}]
    /\ outcome \in [Calls -> {"none", "ok", "failed", "spared", "rejected"}]
    /\ consecutiveErr \in Nat /\ consecutiveErr <= Cardinality(Evidence)
    /\ circuit # "closed" => FailureThreshold <= Cardinality(Evidence)
    /\ \A e \in Calls : outcome[e] = "failed" => wire[e] = "failed"

LEMMA EvidenceFinite == IsFiniteSet(Evidence) /\ Cardinality(Evidence) \in Nat
<1>1. Evidence \in SUBSET Calls
  BY DEF Evidence
<1> QED
  BY <1>1, ThrottleAssumption, FS_Subset, FS_CardinalityType

\* More evidence, and a circuit that asks for no more than before.
LEMMA EvidentGrows ==
    ASSUME Evident, Evidence \subseteq Evidence',
           wire' \in [Calls -> {"none", "ok", "failed"}],
           outcome' \in [Calls -> {"none", "ok", "failed", "spared", "rejected"}],
           \A e \in Calls : outcome'[e] = "failed" => wire'[e] = "failed",
           consecutiveErr' \in {0, consecutiveErr},
           circuit' # "closed" => circuit # "closed"
    PROVE  Evident'
<1>1. IsFiniteSet(Evidence') /\ Cardinality(Evidence') \in Nat
  <2>1. Evidence' \in SUBSET Calls
    BY DEF Evidence
  <2> QED
    BY <2>1, ThrottleAssumption, FS_Subset, FS_CardinalityType
<1>2. Cardinality(Evidence) <= Cardinality(Evidence')
  BY <1>1, FS_Subset
<1>3. FailureThreshold \in Nat /\ Cardinality(Evidence) \in Nat
  BY PathAssumption, EvidenceFinite
<1> HIDE DEF Evidence
<1> QED
  BY <1>1, <1>2, <1>3 DEF Evident

\* An execution that is not recorded yet moves on.
LEMMA EvidentMove ==
    ASSUME Routed, Evident, NEW e \in Calls, run[e] \notin Recorded,
           NEW r, run' = [run EXCEPT ![e] = r],
           NEW o \in {"none", "ok", "failed", "spared", "rejected"},
           outcome' = [outcome EXCEPT ![e] = o],
           NEW v \in {"none", "ok", "failed"}, wire' = [wire EXCEPT ![e] = v],
           o = "failed" => v = "failed",
           consecutiveErr' \in {0, consecutiveErr},
           circuit' # "closed" => circuit # "closed"
    PROVE  Evident'
<1>1. Evidence \subseteq Evidence'
  BY DEF Evidence, Evident, Routed
<1> QED
  BY <1>1, EvidentGrows DEF Evident

LEMMA EvidentStep ==
    ASSUME Routed, Evident, [Next]_vars
    PROVE  Evident'
<1>0. /\ run \in [Calls -> RunStages]
      /\ wire \in [Calls -> {"none", "ok", "failed"}]
      /\ outcome \in [Calls -> {"none", "ok", "failed", "spared", "rejected"}]
  BY DEF Routed, Evident
<1>1. ASSUME UNCHANGED <<run, wire, outcome>>, consecutiveErr' \in {0, consecutiveErr},
             circuit' # "closed" => circuit # "closed"
      PROVE  Evident'
  BY <1>1, EvidentGrows DEF Evidence, Evident
<1>2. CASE UNCHANGED vars
  BY <1>1, <1>2 DEF vars, runVars, circuitVars
<1>3. ASSUME NEW c \in Calls, Call(c) \/ CallerGone(c) \/ Await(c) PROVE Evident'
  BY <1>1, <1>3 DEF Call, CallerGone, Await, runVars, circuitVars
<1>4. CASE Cool \/ Reset \/ ResetSlot \/ CloseFlag \/ Clear \/ CloseThrottles \/ PaceElapses
           \/ Terminated \/ (\E e \in Calls : ClearSettle(e) \/ ClearCancel(e))
  BY <1>1, <1>4 DEF Cool, Reset, ResetSlot, CloseFlag, Clear, ClearSettle, ClearCancel,
     CloseThrottles, PaceElapses, Terminated, vars, runVars, circuitVars
<1>5. ASSUME NEW c \in Calls, Do(c) PROVE Evident'
  <2>1. /\ UNCHANGED <<wire, outcome, circuit, consecutiveErr>> /\ caller[c] = "entered"
        /\ run' = run \/ run' = [run EXCEPT ![c] = "gate"]
    BY <1>5 DEF Do, Move, circuitVars
  <2>2. run[c] \notin Recorded
    BY <2>1 DEF Routed, Recorded
  <2>3. Evidence \subseteq Evidence'
    BY <1>0, <2>1, <2>2 DEF Evidence
  <2> QED
    BY <2>1, <2>3, EvidentGrows DEF Evident
<1>6. ASSUME NEW e \in Calls, Gate(e) PROVE Evident'
  <2>1. /\ run[e] = "gate" /\ UNCHANGED <<wire, consecutiveErr>>
        /\ \E r \in {"acquire", "purge"} : run' = [run EXCEPT ![e] = r]
        /\ outcome' = outcome \/ outcome' = [outcome EXCEPT ![e] = "rejected"]
        /\ circuit' = Refreshed
    BY <1>6 DEF Gate, Attempt, Move
  <2>2. circuit' # "closed" => circuit # "closed"
    BY <2>1 DEF Refreshed
  <2>3. Evidence \subseteq Evidence'
    BY <1>0, <2>1 DEF Evidence, Recorded
  <2>4. \A d \in Calls : outcome'[d] = "failed" => wire'[d] = "failed"
    BY <1>0, <2>1 DEF Evident
  <2> QED
    BY <1>0, <2>1, <2>2, <2>3, <2>4, EvidentGrows
<1>7. ASSUME NEW e \in Calls, Backoff(e) PROVE Evident'
  <2>1. /\ run[e] = "backoff" /\ UNCHANGED <<wire, outcome, circuit, consecutiveErr>>
        /\ \E r \in {"acquire", "record"} : run' = [run EXCEPT ![e] = r]
    BY <1>7 DEF Backoff, Attempt, EndLoop, Move, circuitVars
  <2>2. Evidence \subseteq Evidence'
    BY <1>0, <2>1 DEF Evidence, Recorded
  <2> QED
    BY <2>1, <2>2, EvidentGrows DEF Evident
<1>8. ASSUME NEW e \in Calls, Acquiring(e) PROVE Evident'
  <2>1. run[e] = "acquire" /\ UNCHANGED <<wire, circuit, consecutiveErr>>
    BY <1>8 DEF Acquiring, circuitVars
  <2>2. CASE UNCHANGED <<run, outcome>>
    BY <1>1, <2>1, <2>2
  <2>3. CASE AfterFailure(e, "spared", TRUE)
    <3>1. /\ \E r \in {"record", "backoff"} : run' = [run EXCEPT ![e] = r]
          /\ outcome' = [outcome EXCEPT ![e] = "spared"]
      BY <2>3 DEF AfterFailure, EndLoop, Move
    <3>2. wire' = [wire EXCEPT ![e] = wire[e]] /\ wire[e] \in {"none", "ok", "failed"}
      BY <1>0, <2>1
    <3> QED
      BY <2>1, <3>1, <3>2, EvidentMove DEF Recorded
  <2> QED
    BY <1>8, <2>2, <2>3 DEF Acquiring
<1>9. ASSUME NEW e \in Calls, WireReturn(e) PROVE Evident'
  <2>1. run[e] = "acquire" /\ UNCHANGED <<circuit, consecutiveErr>>
    BY <1>9 DEF WireReturn, circuitVars
  <2>2. ASSUME NEW o, NEW b, AfterFailure(e, o, b)
        PROVE  /\ \E r \in {"record", "backoff"} : run' = [run EXCEPT ![e] = r]
               /\ outcome' = [outcome EXCEPT ![e] = o]
    BY <2>2 DEF AfterFailure, EndLoop, Move
  <2>3. wire' = wire => wire' = [wire EXCEPT ![e] = wire[e]] /\ wire[e] \in {"none", "ok", "failed"}
    BY <1>0
  <2>4. CASE /\ outcome' = [outcome EXCEPT ![e] = "ok"] /\ EndLoop(e)
             /\ wire' = [wire EXCEPT ![e] = "ok"]
    BY <2>1, <2>4, EvidentMove DEF EndLoop, Move, Recorded
  <2>5. CASE /\ \E b \in BOOLEAN : AfterFailure(e, "failed", b)
             /\ wire' = [wire EXCEPT ![e] = "failed"]
    BY <2>1, <2>2, <2>5, EvidentMove DEF Recorded
  <2>6. CASE /\ \E b \in BOOLEAN : AfterFailure(e, "spared", b)
             /\ \E v \in {"none", "ok", "failed"} : wire' = [wire EXCEPT ![e] = v]
    BY <2>1, <2>2, <2>6, EvidentMove DEF Recorded
  <2> QED
    BY <1>9, <2>3, <2>4, <2>5, <2>6 DEF WireReturn
<1>10. ASSUME NEW e \in Calls, RecordOutcome(e) PROVE Evident'
  <2>1. /\ run[e] = "record" /\ UNCHANGED <<wire, outcome>>
        /\ \E r \in {"unslot", "purge"} : run' = [run EXCEPT ![e] = r]
    BY <1>10 DEF RecordOutcome, Move
  <2>2. Evidence \subseteq Evidence'
    BY <1>0, <2>1 DEF Evidence, Recorded
  <2>3. CASE consecutiveErr' \in {0, consecutiveErr} /\ (circuit' # "closed" => circuit # "closed")
    BY <2>1, <2>2, <2>3, EvidentGrows DEF Evident
  \* a failure is recorded: its execution is new among the evidence
  <2>4. CASE /\ outcome[e] = "failed" /\ consecutiveErr' = consecutiveErr + 1
             /\ circuit' # "closed" =>
                  circuit # "closed" \/ consecutiveErr + 1 >= FailureThreshold
    <3>1. Evidence' = Evidence \cup {e} /\ e \notin Evidence
      BY <1>0, <2>1, <2>4 DEF Evidence, Recorded, Evident
    <3>2. Cardinality(Evidence') = Cardinality(Evidence) + 1
      BY <3>1, EvidenceFinite, FS_AddElement
    <3>3. Cardinality(Evidence) \in Nat /\ FailureThreshold \in Nat
      BY EvidenceFinite, PathAssumption
    <3> HIDE DEF Evidence
    <3> QED
      BY <2>1, <2>4, <3>2, <3>3 DEF Evident
  <2> QED
    BY <1>10, <2>3, <2>4 DEF RecordOutcome, IsWireFailure
<1>11. ASSUME NEW e \in Calls, Unslot(e) \/ Purge(e) \/ Settle(e) PROVE Evident'
  <2>1. /\ run[e] \in {"unslot", "purge", "settle"}
        /\ UNCHANGED <<wire, circuit, consecutiveErr>>
        /\ \E r \in {"purge", "settle", "over"} : run' = [run EXCEPT ![e] = r]
        /\ outcome' = outcome \/ outcome' = [outcome EXCEPT ![e] = "none"]
    BY <1>11 DEF Unslot, Purge, Settle, Over, Move, circuitVars
  <2>2. Evidence \subseteq Evidence'
    BY <1>0, <2>1 DEF Evidence, Recorded
  <2>3. \A d \in Calls : outcome'[d] = "failed" => wire'[d] = "failed"
    BY <1>0, <2>1 DEF Evident
  <2> QED
    BY <1>0, <2>1, <2>2, <2>3, EvidentGrows
<1> QED
  BY <1>2, <1>3, <1>4, <1>5, <1>6, <1>7, <1>8, <1>9, <1>10, <1>11 DEF Next, Step

\* The circuit leaves CLOSED only after FailureThreshold executions that the wire
\* failed: no mixture of shed commands, callers that went away, retries that
\* succeed in the end and its own rejections opens it (CircuitBreaker.record,
\* IsWireFailure).
THEOREM BreakerNeedsEvidence == Spec => []OpensOnEvidence
<1>1. Init => Evident
  BY EvidenceFinite DEF Init, Evident
<1>2. Routed /\ Evident /\ [Next]_vars => Evident'
  BY EvidentStep
<1>3. Evident => OpensOnEvidence
  <2> DEFINE F == {e \in Calls : wire[e] = "failed"}
  <2>1. IsFiniteSet(F) /\ Evidence \in SUBSET F
    BY ThrottleAssumption, FS_Subset DEF Evidence
  <2>2. Cardinality(Evidence) <= Cardinality(F) /\ Cardinality(F) \in Nat
    BY <2>1, FS_Subset, FS_CardinalityType
  <2>3. Cardinality(Evidence) \in Nat /\ FailureThreshold \in Nat
    BY EvidenceFinite, PathAssumption
  <2> HIDE DEF Evidence
  <2> QED
    BY <2>2, <2>3 DEF Evident, OpensOnEvidence
<1> QED
  BY <1>1, <1>2, <1>3, RoutedHolds, PTL DEF Spec

----------------------------------------------------------------------------
(* Callers that share an execution *)

Keyed(e) == Key[e] # NoKey
Party(e) == {c \in Calls : caller[c] = "waiting" /\ joined[c] = e}

\* The counter of an execution is the number of callers that wait for it.
Counted == \A e \in Calls : Keyed(e) => active[e] = Cardinality(Party(e))

\* A caller waits for an execution of its own command; one that cannot be shared
\* is its own and ends together with the call.
Attended ==
    \A c \in Calls : caller[c] = "waiting" =>
        /\ run[joined[c]] # "none" /\ Key[joined[c]] = Key[c]
        /\ Keyed(c) \/ (joined[c] = c /\ run[c] # "over")

\* A shared execution is not over before it has told its result.
Concluded ==
    \A e \in Calls : /\ run[e] = "settle" => Keyed(e)
                     /\ Keyed(e) /\ run[e] = "over" => settled[e] # "none"

\* The map names executions of the key, and every one of them that somebody
\* waits for and that may still speak to the device, unless Clear took it out and
\* has yet to settle it.
Mapped ==
    /\ \A k \in Keys : calls[k] # None => Key[calls[k]] = k /\ run[calls[k]] # "none"
    /\ \A e \in Calls :
         /\ Keyed(e) /\ active[e] > 0
         /\ settled[e] = "none" /\ run[e] # "settle" /\ abandoned[e] # "settle"
         => calls[Key[e]] = e

\* Clear settles a call before it cancels it, and has done both to every call when
\* Close goes on to the throttles.
Abandoning ==
    /\ abandoned \in [Calls -> {"no", "settle", "cancel"}]
    /\ \A e \in Calls : abandoned[e] # "no" => closing = "clearing"
    /\ \A e \in Calls : abandoned[e] = "cancel" => settled[e] # "none"

\* The context of an execution somebody waits for ended only with its deadline,
\* or together with a result.
Unbroken ==
    \A e \in Calls : Keyed(e) /\ active[e] > 0 /\ ctxDone[e] =>
        settled[e] # "none" \/ (callerGone[e] /\ e \in Deadlines)

Shared ==
    /\ active \in [Calls -> Nat] /\ callerGone \in [Calls -> BOOLEAN]
    /\ Counted /\ Attended /\ Concluded /\ Mapped /\ Abandoning /\ Unbroken

LEMMA PartyFinite ==
    ASSUME NEW e
    PROVE  IsFiniteSet(Party(e)) /\ Cardinality(Party(e)) \in Nat
<1>1. Party(e) \in SUBSET Calls
  BY DEF Party
<1> QED
  BY <1>1, ThrottleAssumption, FS_Subset, FS_CardinalityType

LEMMA KeyType == \A e \in Calls : Keyed(e) => Key[e] \in Keys
BY PathAssumption DEF Keyed

LEMMA SharedStutter ==
    ASSUME Shared, \A e \in Calls : abandoned[e] # "no" => closing' = "clearing",
           UNCHANGED <<caller, callerGone, joined, run, active, settled, calls, abandoned, ctxDone>>
    PROVE  Shared'
BY DEF Shared, Counted, Attended, Concluded, Mapped, Abandoning, Unbroken, Party

\* An execution on its way to its end moves on, and nothing else changes.
LEMMA SharedMove ==
    ASSUME Routed, Traced, Shared, NEW e \in Calls,
           run[e] \in {"gate", "acquire", "backoff", "record", "unslot"},
           NEW r \in {"acquire", "backoff", "record", "unslot", "purge"},
           run' = [run EXCEPT ![e] = r],
           UNCHANGED <<caller, callerGone, joined, active, settled, calls, abandoned, closing, ctxDone>>
    PROVE  Shared'
<1>1. /\ run \in [Calls -> RunStages]
      /\ \A c \in Calls : caller[c] = "waiting" => joined[c] \in Calls
      /\ calls \in [Keys -> Calls \cup {None}]
  BY DEF Routed, Traced
<1>2. /\ run'[e] = r /\ r \notin {"none", "settle", "over"}
      /\ \A d \in Calls \ {e} : run'[d] = run[d]
  BY <1>1
<1>3. Counted' /\ Unbroken'
  BY DEF Shared, Counted, Unbroken, Party
<1>4. Attended' /\ Concluded'
  BY <1>1, <1>2 DEF Shared, Attended, Concluded
<1>5. Mapped' /\ Abandoning'
  BY <1>1, <1>2 DEF Shared, Mapped, Abandoning
<1> QED
  BY <1>3, <1>4, <1>5 DEF Shared

LEMMA SharedDo ==
    ASSUME Routed, Traced, Shared, NEW c \in Calls, Do(c)
    PROVE  Shared'
<1> DEFINE k == Key[c]
           Joinable == k # NoKey /\ calls[k] # None /\ active[calls[k]] > 0
<1>1. /\ caller \in [Calls -> {"idle", "entered", "waiting", "done"}]
      /\ run \in [Calls -> RunStages] /\ ctxDone \in [Calls -> BOOLEAN]
      /\ joined \in [Calls -> Calls \cup {None}] /\ calls \in [Keys -> Calls \cup {None}]
      /\ \A d \in Calls : caller[d] = "waiting" => joined[d] \in Calls
      /\ active \in [Calls -> Nat]
  BY DEF Routed, Traced, Shared
<1>2. /\ caller[c] = "entered" /\ caller' = [caller EXCEPT ![c] = "waiting"]
      /\ UNCHANGED <<callerGone, settled, abandoned, closing>> /\ run[c] = "none"
  BY DEF Do, Routed
<1>0. Abandoning'
  BY <1>2 DEF Shared, Abandoning
<1>3. \A d \in Calls : caller[d] = "waiting" => d # c /\ joined[d] # c
  BY <1>2 DEF Shared, Attended
<1>4. CASE Joinable
  <2>0. PICK e0 \in Calls : e0 = calls[k]
    BY <1>1, <1>4, KeyType DEF Keyed
  <2>1. /\ k \in Keys /\ Key[e0] = k /\ Keyed(e0) /\ Keyed(c)
        /\ run[e0] # "none" /\ active[e0] > 0
    BY <1>1, <1>4, <2>0, KeyType, PathAssumption DEF Shared, Mapped, Keyed
  <2>2. /\ joined' = [joined EXCEPT ![c] = e0]
        /\ active' = [active EXCEPT ![e0] = @ + 1]
        /\ UNCHANGED <<run, calls, ctxDone>>
    BY <1>4, <2>0 DEF Do, throttleVars
  <2> HIDE DEF k, Joinable
  <2>3. Party(e0)' = Party(e0) \cup {c} /\ c \notin Party(e0)
    BY <1>1, <1>2, <1>3, <2>2, PathAssumption DEF Party
  <2>4. \A e \in Calls \ {e0} : Party(e)' = Party(e)
    BY <1>1, <1>2, <1>3, <2>2 DEF Party
  <2>5. Cardinality(Party(e0)') = Cardinality(Party(e0)) + 1
    BY <2>3, PartyFinite, FS_AddElement
  <2>6. active' \in [Calls -> Nat] /\ active'[e0] = active[e0] + 1
        /\ \A e \in Calls \ {e0} : active'[e] = active[e]
    BY <1>1, <2>1, <2>2
  <2>7. Counted'
    <3> SUFFICES ASSUME NEW e \in Calls, Keyed(e) PROVE active'[e] = Cardinality(Party(e)')
      BY DEF Counted, Keyed
    <3> HIDE DEF Party
    <3> QED
      BY <2>4, <2>5, <2>6 DEF Shared, Counted
  <2>8. Attended'
    BY <1>1, <1>2, <1>3, <2>1, <2>2 DEF Shared, Attended, Keyed, k
  <2>9. Concluded'
    BY <1>2, <2>2 DEF Shared, Concluded, Keyed
  <2>10. Mapped'
    BY <1>2, <2>1, <2>2, <2>6 DEF Shared, Mapped, Keyed
  <2>11. Unbroken'
    BY <1>2, <2>1, <2>2, <2>6 DEF Shared, Unbroken, Keyed
  <2> QED
    BY <1>0, <1>2, <2>6, <2>7, <2>8, <2>9, <2>10, <2>11 DEF Shared
<1>5. CASE ~Joinable
  <2>1. /\ joined' = [joined EXCEPT ![c] = c] /\ run' = [run EXCEPT ![c] = "gate"]
        /\ active' = IF k = NoKey THEN active ELSE [active EXCEPT ![c] = 1]
        /\ calls' = IF k = NoKey THEN calls ELSE [calls EXCEPT ![k] = c]
        /\ ctxDone' = [ctxDone EXCEPT ![c] = callerGone[c] /\ (k = NoKey \/ c \in Deadlines)]
    BY <1>5 DEF Do, Move, SetCtx
  <2>2. \A e \in Calls \ {c} : Party(e)' = Party(e)
    BY <1>1, <1>2, <1>3, <2>1 DEF Party
  <2>3. Party(c)' = {c}
    BY <1>1, <1>2, <1>3, <2>1 DEF Party
  <2>4. /\ active' \in [Calls -> Nat] /\ (Keyed(c) => active'[c] = 1)
        /\ \A e \in Calls \ {c} : active'[e] = active[e]
    BY <1>1, <2>1 DEF Keyed
  <2>5. /\ run' \in [Calls -> RunStages] /\ run'[c] = "gate"
        /\ \A e \in Calls \ {c} : run'[e] = run[e] /\ ctxDone'[e] = ctxDone[e]
    BY <1>1, <2>1 DEF RunStages
  <2>6. Counted'
    <3> SUFFICES ASSUME NEW e \in Calls, Keyed(e) PROVE active'[e] = Cardinality(Party(e)')
      BY DEF Counted, Keyed
    <3>1. CASE e = c
      BY <2>3, <2>4, <3>1, FS_Singleton
    <3>2. CASE e # c
      BY <2>2, <2>4, <3>2 DEF Shared, Counted
    <3> QED
      BY <3>1, <3>2
  <2>7. Attended'
    BY <1>1, <1>2, <1>3, <2>1, <2>5 DEF Shared, Attended, Keyed
  <2>8. Concluded'
    BY <1>2, <2>5 DEF Shared, Concluded, Keyed
  <2>9. Keyed(c) => k \in Keys /\ calls'[k] = c /\ \A q \in Keys \ {k} : calls'[q] = calls[q]
    BY <1>1, <2>1, KeyType DEF Keyed
  <2>10. ~Keyed(c) => calls' = calls
    BY <2>1 DEF Keyed
  <2>11. Mapped'
    <3>1. ASSUME NEW q \in Keys, calls'[q] # None PROVE Key[calls'[q]] = q /\ run'[calls'[q]] # "none"
      <4>1. CASE Keyed(c) /\ q = k
        BY <2>5, <2>9, <4>1
      <4>2. CASE ~(Keyed(c) /\ q = k)
        BY <1>1, <2>5, <2>9, <2>10, <3>1, <4>2 DEF Shared, Mapped
      <4> QED
        BY <4>1, <4>2
    <3>2. ASSUME NEW e \in Calls, Keyed(e), active'[e] > 0, settled[e] = "none", run'[e] # "settle",
                 abandoned[e] # "settle"
          PROVE  calls'[Key[e]] = e
      <4>1. CASE e = c
        BY <2>9, <3>2, <4>1
      <4>2. CASE e # c
        <5>1. calls[Key[e]] = e /\ active[e] > 0 /\ Key[e] \in Keys
          BY <2>4, <2>5, <3>2, <4>2, KeyType DEF Shared, Mapped
        <5>2. ~(Keyed(c) /\ Key[e] = k)
          BY <1>5, <5>1, PathAssumption DEF Keyed
        <5> QED
          BY <2>9, <2>10, <5>1, <5>2
      <4> QED
        BY <4>1, <4>2
    <3> QED
      BY <1>2, <3>1, <3>2 DEF Mapped, Keyed
  <2>12. Unbroken'
    <3>1. Keyed(c) /\ ctxDone'[c] => callerGone[c] /\ c \in Deadlines
      BY <1>1, <2>1 DEF Keyed
    <3> QED
      BY <1>2, <2>4, <2>5, <3>1 DEF Shared, Unbroken, Keyed
  <2> QED
    BY <1>0, <1>2, <2>4, <2>6, <2>7, <2>8, <2>11, <2>12 DEF Shared
<1> QED
  BY <1>4, <1>5

LEMMA SharedAwait ==
    ASSUME Routed, Traced, Shared, NEW c \in Calls, Await(c)
    PROVE  Shared'
<1>0. PICK e0 \in Calls : e0 = joined[c]
  BY DEF Await, Traced
<1>1. /\ caller \in [Calls -> {"idle", "entered", "waiting", "done"}]
      /\ ctxDone \in [Calls -> BOOLEAN] /\ active \in [Calls -> Nat]
  BY DEF Routed, Shared
<1>2. /\ caller[c] = "waiting" /\ Keyed(c) /\ caller' = [caller EXCEPT ![c] = "done"]
      /\ UNCHANGED <<callerGone, joined, run, settled, calls, abandoned, closing>>
      /\ active' = [active EXCEPT ![e0] = @ - 1]
      /\ \/ ctxDone' = ctxDone
         \/ active[e0] = 1 /\ ctxDone' = [ctxDone EXCEPT ![e0] = TRUE]
  BY <1>0 DEF Await, Answer, Leave, SetCtx, runVars, throttleVars, Keyed
<1>3. Keyed(e0) /\ c \in Party(e0)
  BY <1>0, <1>2 DEF Shared, Attended, Keyed, Party
<1>4. Party(e0)' = Party(e0) \ {c} /\ \A e \in Calls \ {e0} : Party(e)' = Party(e)
  BY <1>0, <1>1, <1>2 DEF Party
<1>5. Cardinality(Party(e0)') = Cardinality(Party(e0)) - 1
  BY <1>3, <1>4, PartyFinite, FS_RemoveElement
<1>6. active[e0] > 0
  <2>1. Cardinality(Party(e0)) # 0
    BY <1>3, PartyFinite, FS_EmptySet
  <2> QED
    BY <1>1, <1>3, <2>1 DEF Shared, Counted
<1>7. /\ active' \in [Calls -> Nat] /\ active'[e0] = active[e0] - 1
      /\ \A e \in Calls \ {e0} : active'[e] = active[e]
  BY <1>1, <1>2, <1>3, <1>6
<1>8. Counted'
  <2> SUFFICES ASSUME NEW e \in Calls, Keyed(e) PROVE active'[e] = Cardinality(Party(e)')
    BY DEF Counted, Keyed
  <2> HIDE DEF Party
  <2> QED
    BY <1>4, <1>5, <1>7 DEF Shared, Counted
<1>9. Attended' /\ Concluded'
  BY <1>1, <1>2 DEF Shared, Attended, Concluded, Keyed
<1>10. Mapped' /\ Abandoning'
  BY <1>2, <1>3, <1>6, <1>7 DEF Shared, Mapped, Abandoning, Keyed
<1>11. Unbroken'
  <2> SUFFICES ASSUME NEW e \in Calls, Keyed(e), active'[e] > 0, ctxDone'[e]
               PROVE  settled[e] # "none" \/ (callerGone[e] /\ e \in Deadlines)
    BY <1>2 DEF Unbroken, Keyed
  <2>1. active[e] > 0 /\ ctxDone[e]
    BY <1>1, <1>2, <1>3, <1>6, <1>7
  <2> QED
    BY <2>1 DEF Shared, Unbroken
<1> QED
  BY <1>2, <1>7, <1>8, <1>9, <1>10, <1>11 DEF Shared

LEMMA SharedStep ==
    ASSUME Routed, Traced, Shared, [Next]_vars
    PROVE  Shared'
<1>0. /\ caller \in [Calls -> {"idle", "entered", "waiting", "done"}]
      /\ run \in [Calls -> RunStages] /\ ctxDone \in [Calls -> BOOLEAN]
      /\ joined \in [Calls -> Calls \cup {None}] /\ calls \in [Keys -> Calls \cup {None}]
      /\ callerGone \in [Calls -> BOOLEAN] /\ settled \in [Calls -> Results]
      /\ \A c \in Calls : caller[c] = "waiting" => joined[c] \in Calls
  BY DEF Routed, Traced, Shared
<1>1. CASE UNCHANGED vars
  BY <1>1, SharedStutter DEF vars, callVars, runVars, coalesceVars, throttleVars, Shared, Abandoning
<1>2. CASE Cool \/ Reset \/ ResetSlot \/ CloseFlag \/ Terminated \/ PaceElapses \/ CloseThrottles
  <2>1. \A e \in Calls : abandoned[e] # "no" => closing' = "clearing"
    BY <1>2 DEF Cool, Reset, ResetSlot, CloseFlag, Terminated, PaceElapses, CloseThrottles,
       Cleared, vars, Shared, Abandoning
  <2> QED
    BY <1>2, <2>1, SharedStutter DEF Cool, Reset, ResetSlot, CloseFlag, Terminated, PaceElapses,
       Rest, CloseThrottles, ThrottleClose, vars, callVars, runVars, coalesceVars, throttleVars
<1>3. ASSUME NEW c \in Calls, Call(c) PROVE Shared'
  <2>1. /\ UNCHANGED <<callerGone, joined, run, active, settled, calls, abandoned, closing, ctxDone>>
        /\ caller[c] = "idle"
        /\ \E s \in {"entered", "done"} : caller' = [caller EXCEPT ![c] = s]
    BY <1>3 DEF Call, Answer, runVars, coalesceVars, throttleVars
  <2>2. \A d \in Calls : caller'[d] = "waiting" <=> caller[d] = "waiting"
    BY <1>0, <2>1
  <2>3. \A e \in Calls : Party(e)' = Party(e)
    BY <2>1, <2>2 DEF Party
  <2>4. Counted'
    BY <2>1, <2>3 DEF Shared, Counted, Keyed
  <2>5. Attended' /\ Concluded' /\ Mapped' /\ Abandoning' /\ Unbroken'
    BY <2>1, <2>2 DEF Shared, Attended, Concluded, Mapped, Abandoning, Unbroken, Keyed
  <2> QED
    BY <2>1, <2>4, <2>5 DEF Shared
<1>4. ASSUME NEW c \in Calls, CallerGone(c) PROVE Shared'
  <2>1. /\ UNCHANGED <<caller, joined, run, active, settled, calls, abandoned, closing>>
        /\ callerGone' = [callerGone EXCEPT ![c] = TRUE]
        /\ \/ ctxDone' = ctxDone
           \/ (~Keyed(c) \/ c \in Deadlines) /\ ctxDone' = [ctxDone EXCEPT ![c] = TRUE]
    BY <1>4 DEF CallerGone, SetCtx, runVars, coalesceVars, throttleVars, Keyed
  <2>2. Counted' /\ Attended' /\ Concluded' /\ Mapped' /\ Abandoning'
    BY <2>1 DEF Shared, Counted, Attended, Concluded, Mapped, Abandoning, Keyed, Party
  <2>3. Unbroken'
    <3> SUFFICES ASSUME NEW e \in Calls, Keyed(e), active[e] > 0, ctxDone'[e]
                 PROVE  settled[e] # "none" \/ (callerGone'[e] /\ e \in Deadlines)
      BY <2>1 DEF Unbroken, Keyed
    <3>1. CASE e = c /\ c \in Deadlines
      BY <1>0, <2>1, <3>1
    <3>2. CASE ctxDone[e]
      BY <1>0, <2>1, <3>2 DEF Shared, Unbroken
    <3> QED
      BY <1>0, <2>1, <3>1, <3>2
  <2>4. active' \in [Calls -> Nat] /\ callerGone' \in [Calls -> BOOLEAN]
    BY <2>1 DEF Shared
  <2> QED
    BY <2>2, <2>3, <2>4 DEF Shared
<1>5. ASSUME NEW e \in Calls,
             Gate(e) \/ RecordOutcome(e) \/ Unslot(e) \/ Acquiring(e) \/ WireReturn(e) \/ Backoff(e)
      PROVE  Shared'
  <2>1. UNCHANGED <<caller, callerGone, joined, active, settled, calls, abandoned, closing>>
    BY <1>5 DEF Gate, RecordOutcome, Unslot, Acquiring, WireReturn, Backoff, callVars, coalesceVars
  <2>2. ctxDone' = ctxDone
    <3>1. ASSUME Acquire(e) \/ AcquireStep(e) \/ Release(e) PROVE ctxDone' = ctxDone
      BY <3>1 DEF Acquire, AcquireStep, Release, WaitForDelay, Sleep, Enter, Recheck, Doze,
                  Proceed, ClosedOut, CancelWaiter
    <3> QED
      BY <1>5, <3>1 DEF Gate, RecordOutcome, Unslot, Acquiring, WireReturn, Backoff, Attempt,
                        throttleVars
  <2>3. run' = run \/ /\ run[e] \in {"gate", "acquire", "backoff", "record", "unslot"}
                      /\ \E r \in {"acquire", "backoff", "record", "unslot", "purge"} :
                           run' = [run EXCEPT ![e] = r]
    BY <1>5 DEF Gate, RecordOutcome, Unslot, Acquiring, WireReturn, Backoff, Attempt,
                AfterFailure, EndLoop, Move
  <2>4. CASE run' = run
    BY <2>1, <2>2, <2>4, SharedStutter DEF Shared, Abandoning
  <2> QED
    BY <2>1, <2>2, <2>3, <2>4, SharedMove
<1>6. ASSUME NEW e \in Calls, Purge(e), ~Keyed(e) PROVE Shared'
  <2>1. /\ UNCHANGED <<callerGone, joined, active, settled, calls, abandoned, closing, ctxDone>>
        /\ caller' = [caller EXCEPT ![e] = "done"] /\ run' = [run EXCEPT ![e] = "over"]
        /\ joined[e] = e
    BY <1>6 DEF Purge, Answer, Over, Move, throttleVars, Keyed, Traced
  <2>2. /\ run'[e] = "over" /\ \A d \in Calls \ {e} : run'[d] = run[d] /\ caller'[d] = caller[d]
        /\ caller'[e] = "done"
    BY <1>0, <2>1
  <2>3. \A f \in Calls : Keyed(f) => Party(f)' = Party(f)
    BY <1>6, <2>1, <2>2 DEF Party, Keyed
  <2>4. Counted'
    BY <2>1, <2>3 DEF Shared, Counted, Keyed
  <2>5. Attended' /\ Concluded'
    BY <1>0, <1>6, <2>1, <2>2 DEF Shared, Attended, Concluded, Keyed
  <2>6. Mapped' /\ Abandoning' /\ Unbroken'
    BY <1>0, <1>6, <2>1, <2>2 DEF Shared, Mapped, Abandoning, Unbroken, Keyed
  <2> QED
    BY <2>1, <2>4, <2>5, <2>6 DEF Shared
<1>7. ASSUME NEW e \in Calls, Purge(e), Keyed(e) PROVE Shared'
  <2>1. /\ UNCHANGED <<caller, callerGone, joined, active, settled, abandoned, closing, ctxDone>>
        /\ run' = [run EXCEPT ![e] = "settle"]
        /\ calls' = [k \in Keys |-> IF k = Key[e] /\ calls[k] = e THEN None ELSE calls[k]]
    BY <1>7 DEF Purge, Move, throttleVars, Keyed
  <2>2. run'[e] = "settle" /\ \A d \in Calls \ {e} : run'[d] = run[d]
    BY <1>0, <2>1
  <2>3. Counted' /\ Abandoning' /\ Unbroken'
    BY <2>1 DEF Shared, Counted, Abandoning, Unbroken, Keyed, Party
  <2>4. Attended' /\ Concluded'
    BY <1>0, <1>7, <2>1, <2>2 DEF Shared, Attended, Concluded, Keyed
  <2>5. Mapped'
    <3>1. ASSUME NEW k \in Keys, calls'[k] # None PROVE Key[calls'[k]] = k /\ run'[calls'[k]] # "none"
      BY <1>0, <2>1, <2>2, <3>1 DEF Shared, Mapped
    <3>2. ASSUME NEW f \in Calls, Keyed(f), active[f] > 0, settled[f] = "none", run'[f] # "settle",
                 abandoned[f] # "settle"
          PROVE  calls'[Key[f]] = f
      BY <2>1, <2>2, <3>2, KeyType DEF Shared, Mapped
    <3> QED
      BY <2>1, <3>1, <3>2 DEF Mapped, Keyed
  <2> QED
    BY <2>1, <2>3, <2>4, <2>5 DEF Shared
<1>8. ASSUME NEW e \in Calls, Settle(e) PROVE Shared'
  <2>1. /\ UNCHANGED <<caller, callerGone, joined, active, calls, abandoned, closing, ctxDone>>
        /\ run[e] = "settle" /\ run' = [run EXCEPT ![e] = "over"]
        /\ settled' = [settled EXCEPT ![e] = IF @ = "none" THEN Result(e) ELSE @]
    BY <1>8 DEF Settle, Over, Move, callVars, throttleVars
  <2>2. /\ run'[e] = "over" /\ settled'[e] # "none" /\ Keyed(e)
        /\ \A d \in Calls \ {e} : run'[d] = run[d] /\ settled'[d] = settled[d]
    BY <1>0, <2>1 DEF Result, Shared, Concluded
  <2>3. Counted'
    BY <2>1 DEF Shared, Counted, Keyed, Party
  <2>4. Attended' /\ Concluded'
    BY <1>0, <2>1, <2>2 DEF Shared, Attended, Concluded, Keyed
  <2>5. Mapped' /\ Abandoning' /\ Unbroken'
    BY <1>0, <2>1, <2>2 DEF Shared, Mapped, Abandoning, Unbroken, Keyed
  <2> QED
    BY <2>1, <2>3, <2>4, <2>5 DEF Shared
<1>9. CASE Clear
  <2>1. /\ UNCHANGED <<caller, callerGone, joined, run, active, settled, ctxDone>>
        /\ calls' = [k \in Keys |-> None] /\ closing' = "clearing"
        /\ abandoned' = [e \in Calls |-> IF \E k \in Keys : calls[k] = e THEN "settle" ELSE "no"]
    BY <1>9 DEF Clear, callVars, runVars, throttleVars
  <2>2. Counted' /\ Attended' /\ Concluded' /\ Abandoning' /\ Unbroken'
    BY <2>1 DEF Shared, Counted, Attended, Concluded, Abandoning, Unbroken, Keyed, Party
  <2>3. Mapped'
    <3>1. ASSUME NEW e \in Calls, Keyed(e), active[e] > 0, settled[e] = "none", run[e] # "settle",
                 abandoned'[e] # "settle"
          PROVE  FALSE
      <4>1. \A k \in Keys : calls[k] # e
        BY <2>1, <3>1
      <4>2. abandoned[e] = "no"
        BY <1>9 DEF Clear, Shared, Abandoning
      <4> QED
        BY <3>1, <4>1, <4>2, KeyType DEF Shared, Mapped
    <3> QED
      BY <2>1, <3>1 DEF Mapped, Keyed
  <2> QED
    BY <2>1, <2>2, <2>3 DEF Shared
<1>10. ASSUME NEW e \in Calls, ClearSettle(e) PROVE Shared'
  <2>1. /\ UNCHANGED <<caller, callerGone, joined, run, active, calls, closing, ctxDone>>
        /\ abandoned[e] = "settle" /\ abandoned' = [abandoned EXCEPT ![e] = "cancel"]
        /\ settled' = [settled EXCEPT ![e] = IF @ = "none" THEN "error" ELSE @]
    BY <1>10 DEF ClearSettle, callVars, runVars, throttleVars
  <2>2. /\ settled'[e] # "none"
        /\ \A f \in Calls : f # e => settled'[f] = settled[f] /\ abandoned'[f] = abandoned[f]
        /\ abandoned' \in [Calls -> {"no", "settle", "cancel"}]
    BY <1>0, <2>1 DEF Shared, Abandoning
  <2>3. Counted'
    BY <2>1 DEF Shared, Counted, Keyed, Party
  <2>4. Attended' /\ Concluded' /\ Unbroken'
    BY <2>1, <2>2 DEF Shared, Attended, Concluded, Unbroken, Keyed
  <2>5. Mapped' /\ Abandoning'
    BY <2>1, <2>2 DEF Shared, Mapped, Abandoning, Keyed
  <2> QED
    BY <2>1, <2>3, <2>4, <2>5 DEF Shared
<1>11. ASSUME NEW e \in Calls, ClearCancel(e) PROVE Shared'
  <2>1. /\ UNCHANGED <<caller, callerGone, joined, run, active, settled, calls, closing>>
        /\ abandoned[e] = "cancel" /\ abandoned' = [abandoned EXCEPT ![e] = "no"]
        /\ ctxDone' = [ctxDone EXCEPT ![e] = TRUE] /\ settled[e] # "none"
    BY <1>11 DEF ClearCancel, SetCtx, callVars, runVars, Shared, Abandoning
  <2>2. Counted'
    BY <2>1 DEF Shared, Counted, Keyed, Party
  <2>3. Attended' /\ Concluded'
    BY <2>1 DEF Shared, Attended, Concluded, Keyed
  <2>4. Mapped' /\ Abandoning'
    BY <2>1 DEF Shared, Mapped, Abandoning, Keyed
  <2>5. Unbroken'
    BY <1>0, <2>1 DEF Shared, Unbroken, Keyed
  <2> QED
    BY <2>1, <2>2, <2>3, <2>4, <2>5 DEF Shared
<1> QED
  BY <1>1, <1>2, <1>3, <1>4, <1>5, <1>6, <1>7, <1>8, <1>9, <1>10, <1>11, SharedDo, SharedAwait
     DEF Next, Step

LEMMA SharedHolds == Spec => [](Routed /\ Traced /\ Shared)
<1>1. Init => Traced
  BY DEF Init, Traced, Results
<1>2. ASSUME Init PROVE Shared
  <2>1. \A e : Party(e) = {}
    BY <1>2 DEF Init, Party
  <2>2. Counted
    BY <1>2, <2>1, FS_EmptySet DEF Init, Counted
  <2> QED
    BY <1>2, <2>2 DEF Init, ThrottleInit, Shared, Attended, Concluded, Mapped, Abandoning, Unbroken
<1>3. Routed /\ Traced /\ [Next]_vars => Traced'
  BY TracedStep
<1>4. Routed /\ Traced /\ Shared /\ [Next]_vars => Shared'
  BY SharedStep
<1> QED
  BY <1>1, <1>2, <1>3, <1>4, RoutedHolds, PTL DEF Spec

\* Of the executions for one key at most one has a participant and may still
\* speak to the device, whoever joined, left or was cancelled in which order
\* (Coalescer.Do, leave, run), except next to a call that the Clear of Close has
\* taken out of the map and not settled yet.
THEOREM KeyRunsOnce == Spec => []OneExecutionPerKey
<1>1. Shared => OneExecutionPerKey
  BY DEF Shared, Mapped, Abandoning, OneExecutionPerKey, Keyed
<1> QED
  BY <1>1, SharedHolds, PTL

\* A caller never waits for an execution that is over without a result, and
\* nobody else's departure cancels the execution it waits for (Coalescer.await,
\* leave, run, Clear).
THEOREM WaitersServed == Spec => []WaitersAreServed
<1>1. ASSUME Traced, Shared PROVE WaitersAreServed
  <2> SUFFICES ASSUME NEW c \in Calls, caller[c] = "waiting"
               PROVE  LET e == joined[c]
                      IN  /\ settled[e] # "none" \/ run[e] \notin {"none", "over"}
                          /\ Key[c] # NoKey /\ ctxDone[e] =>
                               settled[e] # "none" \/ (callerGone[e] /\ e \in Deadlines)
    BY DEF WaitersAreServed
  <2>1. PICK e \in Calls : e = joined[c]
    BY <1>1 DEF Traced
  <2>2. run[e] # "none" /\ Key[e] = Key[c] /\ (Keyed(c) \/ (e = c /\ run[c] # "over"))
    BY <1>1, <2>1 DEF Shared, Attended
  <2>3. settled[e] # "none" \/ run[e] \notin {"none", "over"}
    BY <1>1, <2>2 DEF Shared, Concluded, Keyed
  <2>4. ASSUME Keyed(c), ctxDone[e] PROVE settled[e] # "none" \/ (callerGone[e] /\ e \in Deadlines)
    <3>1. c \in Party(e) /\ Keyed(e)
      BY <2>1, <2>2, <2>4 DEF Party, Keyed
    <3>2. Cardinality(Party(e)) # 0
      BY <3>1, PartyFinite, FS_EmptySet
    <3>3. active[e] = Cardinality(Party(e)) /\ active[e] \in Nat
      BY <1>1, <3>1 DEF Shared, Counted
    <3>4. active[e] > 0
      BY <3>2, <3>3
    <3> QED
      BY <1>1, <2>4, <3>1, <3>4 DEF Shared, Unbroken
  <2> QED
    BY <2>1, <2>3, <2>4 DEF Keyed
<1> QED
  BY <1>1, SharedHolds, PTL
=============================================================================
