----------------------------- MODULE CommandPath -----------------------------
(***************************************************************************)
(* A command on its way to the CCU: InterfaceClient.Call and CallOrdered   *)
(* (src/internal/client/interface_client.go) with the layers they compose  *)
(*                                                                         *)
(*   Coalescer.Do -> CircuitBreaker.DoWithPriority -> Retrier.Do           *)
(*     -> per attempt: CommandThrottle.Acquire, the wire call, Release     *)
(*                                                                         *)
(* and what happens to them from outside: a caller's context ends, the     *)
(* client is closed, a reconnect resets the circuit.                       *)
(*                                                                         *)
(* A member of Calls is one call of Call.  It has two parts that may run   *)
(* apart: the caller, and the execution it started (a goroutine of its own *)
(* when the command is coalesced, which outlives a caller that leaves).    *)
(* An execution is named after the call that started it.  The throttle is  *)
(* the pool of the command's class.  Of an error the layers tell apart      *)
(* whether it is retried and whether it is evidence against the wire:      *)
(*                                                                         *)
(*   failed     a network error, a fault worth a retry, a refused login    *)
(*   spared     a permanent fault of the CCU, the error of the execution's *)
(*              own context, an error of the throttle                      *)
(*   rejected   the circuit shed the call                                  *)
(*                                                                         *)
(* RecoveryWaiter is not configured by the wiring, and DoForKey has no     *)
(* caller outside InterfaceClient.SetValue, which nothing calls; so        *)
(* CancelInterface, which Close calls, finds no chain to cancel.  The      *)
(* operations that bypass the circuit (init, ping, login) are not calls of *)
(* this model: they use the control pool, which is never near its limit.   *)
(***************************************************************************)
EXTENDS CommandThrottle

CONSTANTS
    Keys,               \* coalescing keys
    NoKey,              \* the empty key: not coalesced
    Key,                \* Key[c]: coalesceKeyFor of the command
    Deadlines,          \* calls whose context carries a deadline
    None,
    FailureThreshold,   \* CircuitConfig
    HalfOpenSuccess,
    MaxAttempts,        \* RetryConfig
    MaxDisruptions      \* bound: contexts that end, reconnects, Close

ASSUME PathAssumption ==
    /\ NoKey \notin Keys
    /\ Key \in [Calls -> Keys \cup {NoKey}]
    /\ Deadlines \subseteq Calls
    /\ None \notin Calls
    /\ FailureThreshold \in Nat \ {0}
    /\ HalfOpenSuccess \in Nat \ {0}
    /\ MaxAttempts \in Nat \ {0}
    /\ MaxDisruptions \in Nat

VARIABLES
    caller,         \* caller[c]: "idle", "entered", "waiting", "done"
    callerGone,     \* the caller's own context is done
    joined,         \* joined[c]: the execution c waits for
    answer,         \* answer[c]: what Call returned
    run,            \* run[e]: where execution e is
    tries,          \* tries[e]: attempt of the retry loop
    outcome,        \* outcome[e]: the last error, or "ok"
    probe,          \* probe[e]: e took the probe slot and will free it
    active,         \* coalescedCall.active
    settled,        \* coalescedCall.settled and its result
    calls,          \* Coalescer.calls: the execution joined under a key
    abandoned,      \* abandoned[e]: what Clear, past its lock, has yet to do to e
    circuit, consecutiveErr, halfOpenOK,
    slot,           \* halfOpenInFlight
    cooled,         \* ResetTimeout has elapsed since openedAt
    resetting,      \* a Reset stands between its lock and its Store(0)
    resets,
    closing,        \* how far InterfaceClient.Close has come
    wire            \* history: wire[e], the last verdict of the wire on e

callVars == <<caller, callerGone, joined, answer>>
runVars == <<run, tries, outcome, probe>>
coalesceVars == <<active, settled, calls, abandoned>>
circuitVars == <<circuit, consecutiveErr, halfOpenOK, slot, cooled>>
resetVars == <<resetting, resets>>
vars == <<throttleVars, callVars, runVars, coalesceVars, circuitVars, resetVars,
          closing, wire>>

Results == {"none", "ok", "error"}

TypeOK ==
    /\ ThrottleTypeOK
    /\ caller \in [Calls -> {"idle", "entered", "waiting", "done"}]
    /\ callerGone \in [Calls -> BOOLEAN]
    /\ joined \in [Calls -> Calls \cup {None}]
    /\ answer \in [Calls -> Results]
    /\ run \in [Calls -> {"none", "gate", "acquire", "backoff", "record",
                          "unslot", "purge", "settle", "over"}]
    /\ tries \in [Calls -> 0..MaxAttempts]
    /\ outcome \in [Calls -> {"none", "ok", "failed", "spared", "rejected"}]
    /\ probe \in [Calls -> BOOLEAN]
    /\ active \in [Calls -> 0..Cardinality(Calls)]
    /\ settled \in [Calls -> Results]
    /\ calls \in [Keys -> Calls \cup {None}]
    /\ abandoned \in [Calls -> {"no", "settle", "cancel"}]
    /\ circuit \in {"closed", "open", "halfOpen"}
    /\ consecutiveErr \in Nat
    /\ halfOpenOK \in 0..HalfOpenSuccess
    /\ slot \in BOOLEAN /\ cooled \in BOOLEAN
    /\ resetting \in BOOLEAN /\ resets \in 0..MaxDisruptions
    /\ closing \in {"open", "flagged", "clearing", "closed"}
    /\ wire \in [Calls -> {"none", "ok", "failed"}]

Init ==
    /\ ThrottleInit
    /\ caller = [c \in Calls |-> "idle"]
    /\ callerGone = [c \in Calls |-> FALSE]
    /\ joined = [c \in Calls |-> None]
    /\ answer = [c \in Calls |-> "none"]
    /\ run = [c \in Calls |-> "none"]
    /\ tries = [c \in Calls |-> 0]
    /\ outcome = [c \in Calls |-> "none"]
    /\ probe = [c \in Calls |-> FALSE]
    /\ active = [c \in Calls |-> 0]
    /\ settled = [c \in Calls |-> "none"]
    /\ calls = [k \in Keys |-> None]
    /\ abandoned = [c \in Calls |-> "no"]
    /\ circuit = "closed" /\ consecutiveErr = 0 /\ halfOpenOK = 0
    /\ slot = FALSE /\ cooled = FALSE
    /\ resetting = FALSE /\ resets = 0
    /\ closing = "open"
    /\ wire = [c \in Calls |-> "none"]

Disruptable ==
    LET leavers == {c \in Calls : callerGone[c]}
        closes == IF closing = "open" THEN 0 ELSE 1
    IN  Cardinality(leavers) + resets + closes < MaxDisruptions

\* The context of one execution ends, or begins.
SetCtx(e, done) ==
    /\ ctxDone' = [ctxDone EXCEPT ![e] = done]
    /\ UNCHANGED <<stage, inFlight, ahead, shut, rested>>

Move(e, s) == run' = [run EXCEPT ![e] = s]
Answer(c, r) == /\ caller' = [caller EXCEPT ![c] = "done"]
                /\ answer' = [answer EXCEPT ![c] = r]
Result(e) == IF outcome[e] = "ok" THEN "ok" ELSE "error"

----------------------------------------------------------------------------
(* InterfaceClient.Call and Coalescer.Do *)

\* The test of closed at the top of Call, under the client's lock.
Call(c) ==
    /\ caller[c] = "idle"
    /\ \/ closing = "open" /\ caller' = [caller EXCEPT ![c] = "entered"] /\ UNCHANGED answer
       \/ closing # "open" /\ Answer(c, "error")
    /\ UNCHANGED <<throttleVars, callerGone, joined, runVars, coalesceVars, circuitVars,
                   resetVars, closing, wire>>

\* Mutant of Do: an execution is joined only before its first attempt.
DoUnlessStarted(c) ==
    LET k == Key[c]
        Joinable == k # NoKey /\ calls[k] # None /\ run[calls[k]] = "gate"
    IN  /\ caller[c] = "entered"
        /\ caller' = [caller EXCEPT ![c] = "waiting"]
        /\ joined' = [joined EXCEPT ![c] = IF Joinable THEN calls[k] ELSE c]
        /\ active' = IF k = NoKey THEN active ELSE [active EXCEPT ![joined'[c]] = @ + 1]
        /\ IF Joinable THEN UNCHANGED <<throttleVars, run, calls>>
           ELSE /\ Move(c, "gate")
                /\ calls' = IF k = NoKey THEN calls ELSE [calls EXCEPT ![k] = c]
                /\ SetCtx(c, callerGone[c] /\ (k = NoKey \/ c \in Deadlines))
    /\ UNCHANGED <<callerGone, answer, tries, outcome, probe, settled, abandoned, circuitVars,
                   resetVars, closing, wire>>

\* Start the execution, or join the one in the map while somebody waits for it.
Do(c) ==
    LET k == Key[c]
        Joinable == k # NoKey /\ calls[k] # None /\ active[calls[k]] > 0
    IN  /\ caller[c] = "entered"
        /\ caller' = [caller EXCEPT ![c] = "waiting"]
        /\ \/ /\ Joinable
              /\ joined' = [joined EXCEPT ![c] = calls[k]]
              /\ active' = [active EXCEPT ![calls[k]] = @ + 1]
              /\ UNCHANGED <<throttleVars, run, calls>>
           \/ /\ ~Joinable
              /\ joined' = [joined EXCEPT ![c] = c]
              /\ active' = IF k = NoKey THEN active ELSE [active EXCEPT ![c] = 1]
              /\ Move(c, "gate")
              /\ calls' = IF k = NoKey THEN calls ELSE [calls EXCEPT ![k] = c]
              \* WithoutCancel keeps the deadline and drops the cancellation
              /\ SetCtx(c, callerGone[c] /\ (k = NoKey \/ c \in Deadlines))
    /\ UNCHANGED <<callerGone, answer, tries, outcome, probe, settled, abandoned, circuitVars,
                   resetVars, closing, wire>>

\* Mutant of Leave: whoever leaves cancels the shared context.
LeaveCancelling(c) ==
    LET e == joined[c]
    IN  /\ active' = [active EXCEPT ![e] = @ - 1]
        /\ IF run[e] # "over" THEN SetCtx(e, TRUE) ELSE UNCHANGED throttleVars

\* leave: the last participant cancels the shared context.
Leave(c) ==
    LET e == joined[c]
    IN  /\ active' = [active EXCEPT ![e] = @ - 1]
        /\ IF active[e] = 1 /\ run[e] # "over" THEN SetCtx(e, TRUE) ELSE UNCHANGED throttleVars

\* await of a coalesced caller: the result, or the end of its own context.
Await(c) ==
    /\ caller[c] = "waiting" /\ Key[c] # NoKey
    /\ \/ settled[joined[c]] # "none" /\ Answer(c, settled[joined[c]])
       \/ callerGone[c] /\ Answer(c, "error")
    /\ Leave(c)
    /\ UNCHANGED <<callerGone, joined, runVars, settled, calls, abandoned, circuitVars,
                   resetVars, closing, wire>>

\* The caller's context is cancelled, or its deadline passes.  An execution
\* runs under it when it is not coalesced, and shares its deadline when it is.
CallerGone(c) ==
    /\ Disruptable /\ caller[c] \in {"entered", "waiting"} /\ ~callerGone[c]
    /\ callerGone' = [callerGone EXCEPT ![c] = TRUE]
    /\ IF joined[c] = c /\ (Key[c] = NoKey \/ c \in Deadlines)
       THEN SetCtx(c, TRUE) ELSE UNCHANGED throttleVars
    /\ UNCHANGED <<caller, joined, answer, runVars, coalesceVars, circuitVars, resetVars,
                   closing, wire>>

\* The start of an attempt of the retry loop: Acquire of the throttle.
Attempt(e) ==
    /\ Acquire(e)
    /\ Move(e, "acquire")
    /\ tries' = [tries EXCEPT ![e] = @ + 1]

----------------------------------------------------------------------------
(* CircuitBreaker *)

\* refreshLocked: OPEN turns into HALF_OPEN when somebody looks after the
\* timeout.
Refreshed == IF circuit = "open" /\ cooled THEN "halfOpen" ELSE circuit

\* An open circuit sheds the call, except for one critical probe; a half open
\* one lets one probe through.
Gate(e) ==
    /\ run[e] = "gate"
    /\ LET s == Refreshed
           free == s # "closed" /\ ~slot /\ (s = "halfOpen" \/ Critical(e))
       IN  \/ /\ s = "closed" \/ free
              /\ circuit' = s
              /\ slot' = (slot \/ free)
              /\ probe' = [probe EXCEPT ![e] = free]
              /\ Attempt(e)
              /\ UNCHANGED outcome
           \/ /\ s # "closed" /\ ~free
              /\ circuit' = s
              /\ outcome' = [outcome EXCEPT ![e] = "rejected"]
              /\ Move(e, "purge")
              /\ UNCHANGED <<throttleVars, slot, probe, tries>>
    /\ UNCHANGED <<callVars, coalesceVars, consecutiveErr, halfOpenOK, cooled,
                   resetVars, closing, wire>>

\* Mutant of IsWireFailure: every error counts against the wire.
IsAnyFailure(e) == outcome[e] \in {"failed", "spared"}

\* IsWireFailure of the error an execution ends with.
IsWireFailure(e) == outcome[e] = "failed"

\* record: success and failure act on the state the circuit has now, not on
\* the one it had when the call was admitted.
RecordOutcome(e) ==
    /\ run[e] = "record"
    /\ \/ /\ outcome[e] = "ok"
          /\ consecutiveErr' = 0
          /\ LET closes == circuit = "halfOpen" /\ halfOpenOK + 1 >= HalfOpenSuccess
             IN  /\ circuit' = IF closes THEN "closed" ELSE circuit
                 /\ halfOpenOK' = CASE closes -> 0
                                    [] circuit = "halfOpen" /\ ~closes -> halfOpenOK + 1
                                    [] OTHER -> halfOpenOK
          /\ UNCHANGED cooled
       \/ /\ outcome[e] # "ok" /\ IsWireFailure(e)
          /\ halfOpenOK' = 0
          /\ consecutiveErr' = consecutiveErr + 1
          /\ LET opens == \/ circuit = "halfOpen"
                          \/ circuit = "closed" /\ consecutiveErr + 1 >= FailureThreshold
             IN  /\ circuit' = IF opens THEN "open" ELSE circuit
                 /\ cooled' = (cooled /\ ~opens)
       \/ /\ outcome[e] # "ok" /\ ~IsWireFailure(e)
          /\ UNCHANGED <<circuit, consecutiveErr, halfOpenOK, cooled>>
    /\ Move(e, IF probe[e] THEN "unslot" ELSE "purge")
    /\ UNCHANGED <<throttleVars, callVars, tries, outcome, probe, coalesceVars, slot,
                   resetVars, closing, wire>>

\* Mutant of Unslot: the slot is freed only by a probe that succeeded.
UnslotOnSuccess(e) ==
    /\ run[e] = "unslot"
    /\ slot' = (slot /\ outcome[e] # "ok")
    /\ probe' = [probe EXCEPT ![e] = FALSE]
    /\ Move(e, "purge")
    /\ UNCHANGED <<throttleVars, callVars, tries, outcome, coalesceVars, circuit,
                   consecutiveErr, halfOpenOK, cooled, resetVars, closing, wire>>

\* The deferred Store(0) of a probe.
Unslot(e) ==
    /\ run[e] = "unslot"
    /\ slot' = FALSE
    /\ probe' = [probe EXCEPT ![e] = FALSE]
    /\ Move(e, "purge")
    /\ UNCHANGED <<throttleVars, callVars, tries, outcome, coalesceVars, circuit,
                   consecutiveErr, halfOpenOK, cooled, resetVars, closing, wire>>

\* ResetTimeout elapses.
Cool ==
    /\ circuit = "open" /\ ~cooled
    /\ cooled' = TRUE
    /\ UNCHANGED <<throttleVars, callVars, runVars, coalesceVars, circuit, consecutiveErr,
                   halfOpenOK, slot, resetVars, closing, wire>>

\* Reset after a successful reconnect: the state under the lock, the probe slot
\* after it.
Reset ==
    /\ Disruptable /\ ~resetting
    /\ circuit' = "closed" /\ consecutiveErr' = 0 /\ halfOpenOK' = 0 /\ cooled' = FALSE
    /\ resetting' = TRUE /\ resets' = resets + 1
    /\ UNCHANGED <<throttleVars, callVars, runVars, coalesceVars, slot, closing, wire>>

ResetSlot ==
    /\ resetting
    /\ resetting' = FALSE
    /\ slot' = FALSE
    /\ UNCHANGED <<throttleVars, callVars, runVars, coalesceVars, circuit, consecutiveErr,
                   halfOpenOK, cooled, resets, closing, wire>>

----------------------------------------------------------------------------
(* Retrier.Do and the attempt it repeats *)

\* The loop is left: its counter ends with it.
EndLoop(e) == /\ Move(e, "record")
              /\ tries' = [tries EXCEPT ![e] = 0]

\* The retry loop after a failed attempt: give up, or sleep and try again.
AfterFailure(e, r, retryable) ==
    /\ outcome' = [outcome EXCEPT ![e] = r]
    /\ IF ctxDone[e] \/ ~retryable \/ tries[e] = MaxAttempts
       THEN EndLoop(e)
       ELSE Move(e, "backoff") /\ UNCHANGED tries

\* A step inside Acquire; when it refuses the permit its error is the
\* attempt's error, which isNonRetryable does not know.
Acquiring(e) ==
    /\ run[e] = "acquire"
    /\ AcquireStep(e)
    /\ IF stage'[e] = "idle" THEN AfterFailure(e, "spared", TRUE)
                             ELSE UNCHANGED <<run, tries, outcome>>
    /\ UNCHANGED <<callVars, probe, coalesceVars, circuitVars, resetVars, closing, wire>>

\* The wire call returns and the deferred Release runs.
WireReturn(e) ==
    /\ run[e] = "acquire"
    /\ Release(e)
    /\ \/ /\ outcome' = [outcome EXCEPT ![e] = "ok"]
          /\ EndLoop(e)
          /\ wire' = [wire EXCEPT ![e] = "ok"]
       \/ /\ \E retryable \in BOOLEAN : AfterFailure(e, "failed", retryable)
          /\ wire' = [wire EXCEPT ![e] = "failed"]
       \/ /\ AfterFailure(e, "spared", FALSE)
          /\ wire' = [wire EXCEPT ![e] = "none"]
       \/ /\ ctxDone[e] /\ AfterFailure(e, "spared", TRUE)
          /\ UNCHANGED wire
    /\ UNCHANGED <<callVars, probe, coalesceVars, circuitVars, resetVars, closing>>

\* The backoff ends; a context that ends during it ends the loop with the
\* error of the last attempt.
Backoff(e) ==
    /\ run[e] = "backoff"
    /\ \/ Attempt(e)
       \/ ctxDone[e] /\ EndLoop(e) /\ UNCHANGED throttleVars
    /\ UNCHANGED <<callVars, outcome, probe, coalesceVars, circuitVars, resetVars,
                   closing, wire>>

----------------------------------------------------------------------------
(* The end of an execution *)

Over(e) == Move(e, "over") /\ outcome' = [outcome EXCEPT ![e] = "none"]

\* Coalescer.run drops the map entry while it is still its own; without a key
\* the result goes straight to the caller.
Purge(e) ==
    /\ run[e] = "purge"
    /\ \/ /\ Key[e] = NoKey
          /\ Answer(e, Result(e))
          /\ Over(e)
          /\ UNCHANGED calls
       \/ /\ Key[e] # NoKey
          /\ calls' = [k \in Keys |-> IF k = Key[e] /\ calls[k] = e THEN None ELSE calls[k]]
          /\ Move(e, "settle")
          /\ UNCHANGED <<caller, answer, outcome>>
    /\ UNCHANGED <<throttleVars, callerGone, joined, tries, probe, active, settled,
                   abandoned, circuitVars, resetVars, closing, wire>>

\* Mutant of Settle: the result is published only when followers have joined, as
\* if the caller that started the execution did not wait for it as they do.
SettleForFollowers(e) ==
    /\ run[e] = "settle"
    /\ settled' = [settled EXCEPT ![e] = IF @ = "none" /\ active[e] > 1 THEN Result(e) ELSE @]
    /\ Over(e)
    /\ UNCHANGED <<throttleVars, callVars, tries, probe, active, calls, abandoned, circuitVars,
                   resetVars, closing, wire>>

\* settle: the first settlement wins.
Settle(e) ==
    /\ run[e] = "settle"
    /\ settled' = [settled EXCEPT ![e] = IF @ = "none" THEN Result(e) ELSE @]
    /\ Over(e)
    /\ UNCHANGED <<throttleVars, callVars, tries, probe, active, calls, abandoned, circuitVars,
                   resetVars, closing, wire>>

----------------------------------------------------------------------------
(* InterfaceClient.Close: the flag, Coalescer.Clear, closeThrottles *)

CloseFlag ==
    /\ Disruptable /\ closing = "open"
    /\ closing' = "flagged"
    /\ UNCHANGED <<throttleVars, callVars, runVars, coalesceVars, circuitVars, resetVars, wire>>

\* Clear empties the map under the coalescer's lock ...
Clear ==
    /\ closing = "flagged"
    /\ closing' = "clearing"
    /\ calls' = [k \in Keys |-> None]
    /\ abandoned' = [e \in Calls |-> IF \E k \in Keys : calls[k] = e THEN "settle" ELSE "no"]
    /\ UNCHANGED <<throttleVars, callVars, runVars, active, settled, circuitVars, resetVars,
                   wire>>

\* Mutant of ClearSettle: the abandoned call is settled without an error.
ClearSettleWithoutError(e) ==
    /\ abandoned[e] = "settle" /\ \A f \in Calls : abandoned[f] # "cancel"
    /\ settled' = [settled EXCEPT ![e] = IF @ = "none" THEN "ok" ELSE @]
    /\ abandoned' = [abandoned EXCEPT ![e] = "cancel"]
    /\ UNCHANGED <<throttleVars, callVars, runVars, active, calls, circuitVars, resetVars,
                   closing, wire>>

\* ... and, past it, goes through what it took out: a call is settled under its
\* own lock and then cancelled, before the next one.
ClearSettle(e) ==
    /\ abandoned[e] = "settle" /\ \A f \in Calls : abandoned[f] # "cancel"
    /\ settled' = [settled EXCEPT ![e] = IF @ = "none" THEN "error" ELSE @]
    /\ abandoned' = [abandoned EXCEPT ![e] = "cancel"]
    /\ UNCHANGED <<throttleVars, callVars, runVars, active, calls, circuitVars, resetVars,
                   closing, wire>>

ClearCancel(e) ==
    /\ abandoned[e] = "cancel"
    /\ SetCtx(e, TRUE)
    /\ abandoned' = [abandoned EXCEPT ![e] = "no"]
    /\ UNCHANGED <<callVars, runVars, active, settled, calls, circuitVars, resetVars,
                   closing, wire>>

Cleared == closing = "clearing" /\ \A e \in Calls : abandoned[e] = "no"

\* Mutant of CloseThrottles: the flag is set, the heap is not drained.
CloseThrottlesUndrained ==
    /\ Cleared
    /\ closing' = "closed"
    /\ shut' = TRUE
    /\ UNCHANGED <<stage, ctxDone, inFlight, ahead, rested, callVars, runVars, coalesceVars,
                   circuitVars, resetVars, wire>>

CloseThrottles ==
    /\ Cleared
    /\ closing' = "closed"
    /\ ThrottleClose
    /\ UNCHANGED <<callVars, runVars, coalesceVars, circuitVars, resetVars, wire>>

----------------------------------------------------------------------------

PaceElapses ==
    /\ Rest
    /\ UNCHANGED <<callVars, runVars, coalesceVars, circuitVars, resetVars, closing, wire>>

\* Steps of goroutines already on their way, and the timers they wait for.
Step(c) == \/ Do(c) \/ Await(c) \/ Gate(c) \/ RecordOutcome(c) \/ Unslot(c)
           \/ Acquiring(c) \/ WireReturn(c) \/ Backoff(c) \/ Purge(c) \/ Settle(c)

Terminated == (\A c \in Calls : caller[c] = "done") /\ UNCHANGED vars

Next ==
    \/ \E c \in Calls : Call(c) \/ CallerGone(c) \/ Step(c)
    \/ PaceElapses \/ Cool
    \/ Reset \/ ResetSlot
    \/ CloseFlag \/ Clear \/ CloseThrottles
    \/ \E e \in Calls : ClearSettle(e) \/ ClearCancel(e)
    \/ Terminated

Spec == Init /\ [][Next]_vars

\* Goroutines run, a delay elapses, and the transport returns (it carries a
\* deadline of its own); no goroutine is promised its turn while another can
\* proceed.  Nothing makes a caller call or go away, a circuit cool, a reconnect
\* succeed or the client close.
Progress == PaceElapses \/ \E c \in Calls : Step(c)

FairSpec == Spec /\ WF_vars(Progress)

----------------------------------------------------------------------------
(* Properties *)

\* Coalescer.Do: of the executions for one key at most one has a participant
\* and no result yet, whoever left or was cancelled: one command with one value
\* goes to the device once per group of concurrent callers.  The exception is the
\* Clear of Close, which takes the entries out of the map before it settles them:
\* a caller that passed the test of closed before can start a second execution
\* next to one that Clear has yet to settle.  The excuse ends with that settlement.
OneExecutionPerKey ==
    \A e, f \in Calls :
        /\ e # f /\ Key[e] = Key[f] /\ Key[e] # NoKey
        /\ active[e] > 0 /\ active[f] > 0
        => \/ settled[e] # "none" \/ settled[f] # "none"
           \/ run[e] = "settle" \/ run[f] = "settle"
           \/ closing = "clearing" /\ (abandoned[e] = "settle" \/ abandoned[f] = "settle")

\* A caller never waits for an execution that nobody drives any more, and the
\* context of an execution somebody waits for is not cancelled behind their
\* back: it ends only with the deadline the execution started under, or when
\* the client clears it.
WaitersAreServed ==
    \A c \in Calls :
        caller[c] = "waiting" =>
            LET e == joined[c]
            IN  /\ settled[e] # "none" \/ run[e] \notin {"none", "over"}
                /\ Key[c] # NoKey /\ ctxDone[e] =>
                     settled[e] # "none" \/ (callerGone[e] /\ e \in Deadlines)

\* A success reported to a caller is a success the wire reported to the
\* execution it joined; nothing else, a cleared or abandoned call included, is
\* turned into one.
NoInventedSuccess ==
    \A c \in Calls : answer[c] = "ok" => wire[joined[c]] = "ok"

\* The breaker reacts to the wire only: it leaves CLOSED after FailureThreshold
\* calls that the wire really failed.  Callers that went away, commands the
\* throttle shed and its own rejections are no evidence.
OpensOnEvidence ==
    circuit # "closed" => Cardinality({e \in Calls : wire[e] = "failed"}) >= FailureThreshold

\* The probe slot is never left taken by nobody: with it every later probe
\* would be refused and the circuit could not close by itself again.
SlotHasOwner == slot => \E e \in Calls : probe[e]

\* The throttle inside the stack behaves as the throttle alone does.
ThrottleInPath == ThrottleSpec

\* Everything the pool promises holds inside the stack.
PoolInPath == Pool!PoolSpec

\* Every call comes back: a coalesced follower whose leader left, a waiter of a
\* throttle that is closed under it, a chain that backs off while the client
\* closes.
EveryCallReturns ==
    \A c \in Calls : caller[c] = "entered" ~> caller[c] = "done"

----------------------------------------------------------------------------
(* Statements of the repository that the code does not keep *)

\* "only one probe is allowed at a time" (circuit.go, Do).
SingleProbe == Cardinality({e \in Calls : probe[e]}) <= 1

\* "InterCommandDelay is the minimum gap between consecutive non-critical
\* Acquire completions" (throttle.go, ThrottleConfig).
MinimumGap ==
    [][\A c \in Calls : stage[c] # "held" /\ stage'[c] = "held" /\ ~Critical(c) /\ Paced
         => rested]_vars

\* Close "cancels all in-flight retry chains" (interface_client.go, Close):
\* none of them makes another attempt once Close has returned.
ChainsCancelled ==
    [][closing = "closed" => \A e \in Calls : run[e] = "backoff" => run'[e] # "acquire"]_vars
=============================================================================
