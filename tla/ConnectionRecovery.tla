------------------------- MODULE ConnectionRecovery -------------------------
(***************************************************************************)
(* How the interfaces of one central come back after the CCU was away:     *)
(* the state machine of an interface client (client/state_machine.go), the *)
(* two connection probes (central/adapter/ccu_wiring.go, central/jobs.go), *)
(* the recovery coordinator (central/coordinators/connection_recovery.go)  *)
(* with its goroutines, and the evaluation of the central state            *)
(* (central/central.go) that listens to all of them.                       *)
(*                                                                         *)
(* A run of the recovery pipeline of interface i lives in a slot <<i, k>>: *)
(*                                                                         *)
(*    idle -> queued -> checking -> waiting -> loading -> leaving -> idle  *)
(*                         +-----------+----------+---------^              *)
(*                                                                         *)
(* "queued" is the loop on c.active at the head of runInternal, "checking" *)
(* the stages up to the reconnect (they wait, or fail while the CCU does   *)
(* not answer), "waiting" the back-off in Reconnect, "leaving" the         *)
(* deferred delete of the registration.  An event is dispatched by the     *)
(* goroutine that publishes it: the evaluation of the central state and    *)
(* the triggers belong to the step that publishes.  The wiring gives the   *)
(* coordinator neither a state machine nor a resetter of breakers, so its  *)
(* transitionTo and resetCircuitBreakers do nothing.  The probes take      *)
(* turns on an interface.                                                  *)
(***************************************************************************)
EXTENDS Integers, FiniteSets

CONSTANTS
    Ifaces,        \* the interfaces of the central
    PingPong,      \* those whose backend answers a ping with a PONG event
    Slots,         \* bound: runs of one interface alive at the same time
    MaxAttempts,   \* DefaultMaxRecoveryAttempts
    MaxDisruptions \* bound: outages, refused inits and reconnect requests

ASSUME RecoveryAssumption ==
    /\ PingPong \subseteq Ifaces
    /\ Ifaces # {} /\ Slots # {}
    /\ MaxAttempts \in Nat \ {0}
    /\ MaxDisruptions \in Nat

VARIABLES
    up,         \* the CCU answers
    registered, \* the interfaces the CCU holds a callback registration for
    heard,      \* heard[i]: age of the last callback event of i
    cstate,     \* cstate[i]: state of the client
    errors,     \* errors[i]: connectivityErrors, saturated above the threshold
    breaker,    \* breaker[i]: the client's circuit breaker
    verdict,    \* verdict[i]: what a probe of i has found and not yet reported
    armed,      \* interfaces the bring-up has handed over
    attempts,   \* attempts[i]: consecutive failed runs
    run,        \* run[i][k]: progress of the run in slot k of i
    asked,      \* asked[i][k]: the run serves a reconnect request
    stopped,    \* Stop has been called: lanes closed, runCtx cancelled
    gone,       \* Stop has returned
    central,    \* state of the central
    beat,       \* state the health heartbeat has computed and not yet set
    disruptions \* disruptions so far

vars == <<up, registered, heard, cstate, errors, breaker, verdict, armed,
          attempts, run, asked, stopped, gone, central, beat, disruptions>>

\* The ticker of wireInterface and the job central.check_connection.
Probes == {"ticker", "job"}

ClientStates == {"CREATED", "INITIALIZING", "INITIALIZED", "CONNECTING",
    "CONNECTED", "DISCONNECTED", "RECONNECTING", "STOPPING", "STOPPED", "FAILED"}

Active == {"checking", "waiting", "loading", "leaving"}

TypeOK ==
    /\ up \in BOOLEAN
    /\ registered \subseteq Ifaces
    /\ heard \in [Ifaces -> {"never", "fresh", "stale"}]
    /\ cstate \in [Ifaces -> ClientStates]
    /\ errors \in [Ifaces -> 0..2]
    /\ breaker \in [Ifaces -> {"closed", "open", "half"}]
    /\ verdict \in [Ifaces -> {"none", "alive", "dead"}]
    /\ armed \subseteq Ifaces
    /\ attempts \in [Ifaces -> 0..MaxAttempts]
    /\ run \in [Ifaces -> [Slots -> {"idle", "queued"} \cup Active]]
    /\ asked \in [Ifaces -> [Slots -> BOOLEAN]]
    /\ stopped \in BOOLEAN
    /\ gone \in BOOLEAN
    /\ central \in {"RUNNING", "DEGRADED", "FAILED"}
    /\ beat \in {"none", "RUNNING", "DEGRADED", "FAILED"}
    /\ disruptions \in 0..MaxDisruptions

Init ==
    /\ up = TRUE
    /\ registered = {}
    /\ heard = [i \in Ifaces |-> "never"]
    /\ cstate = [i \in Ifaces |-> "CREATED"]
    /\ errors = [i \in Ifaces |-> 0]
    /\ breaker = [i \in Ifaces |-> "closed"]
    /\ verdict = [i \in Ifaces |-> "none"]
    /\ armed = {}
    /\ attempts = [i \in Ifaces |-> 0]
    /\ run = [i \in Ifaces |-> [k \in Slots |-> "idle"]]
    /\ asked = [i \in Ifaces |-> [k \in Slots |-> FALSE]]
    /\ stopped = FALSE
    /\ gone = FALSE
    /\ central = "RUNNING"
    /\ beat = "none"
    /\ disruptions = 0

----------------------------------------------------------------------------
(* ClientStateMachine *)

ValidTransitions ==
    [CREATED      |-> {"INITIALIZING", "STOPPING"},
     INITIALIZING |-> {"INITIALIZED", "FAILED", "STOPPING"},
     INITIALIZED  |-> {"CONNECTING", "DISCONNECTED", "STOPPING"},
     CONNECTING   |-> {"CONNECTED", "FAILED", "STOPPING"},
     CONNECTED    |-> {"DISCONNECTED", "RECONNECTING", "STOPPING"},
     DISCONNECTED |-> {"RECONNECTING", "CONNECTING", "STOPPING", "DISCONNECTED"},
     RECONNECTING |-> {"CONNECTING", "CONNECTED", "DISCONNECTED", "FAILED", "STOPPING"},
     STOPPING     |-> {"STOPPED"},
     STOPPED      |-> {},
     FAILED       |-> {"INITIALIZING", "CONNECTING", "RECONNECTING", "DISCONNECTED",
                       "STOPPING"}]

\* A refused transition leaves the machine where it is.
Transition(from, to) == IF to \in ValidTransitions[from] THEN to ELSE from

\* TransitionPath: a step the table refuses is skipped.
ToConnected(s) ==
    Transition(Transition(Transition(Transition(s, "INITIALIZING"),
        "INITIALIZED"), "CONNECTING"), "CONNECTED")
ToDisconnected(s) ==
    Transition(Transition(Transition(s, "INITIALIZING"), "FAILED"), "DISCONNECTED")

CanReconnect(s) == s \in {"DISCONNECTED", "FAILED"}

IsCallbackAlive(i, s, h) ==
    \/ i \notin PingPong
    \/ s \notin {"FAILED", "RECONNECTING"} /\ h # "stale"

----------------------------------------------------------------------------
(* Evaluation of the central state and the trigger lanes *)

Recovering(r, i) == \E k \in Slots : r[i][k] \in Active

\* The state EvaluateCentralState finds for clients cs, callbacks h and runs r.
Evaluate(cs, h, r) ==
    LET connected == {i \in Ifaces : cs[i] = "CONNECTED"} IN
    IF connected = {} THEN "FAILED"
    ELSE IF /\ connected = Ifaces
            /\ \A i \in Ifaces : IsCallbackAlive(i, cs[i], h[i])
            /\ \A i \in Ifaces : ~Recovering(r, i)
         THEN "RUNNING" ELSE "DEGRADED"

\* Mutant of Trigger: the lanes are not closed by Stop.
TriggerAfterStop(r, T) ==
    [i \in Ifaces |->
        IF i \in T /\ i \in armed /\ ~Recovering(r, i) /\ \E k \in Slots : r[i][k] = "idle"
        THEN [r[i] EXCEPT ![CHOOSE k \in Slots : r[i][k] = "idle"] = "queued"]
        ELSE r[i]]

\* triggerRecovery for the interfaces in T.  A goroutine that finds no slot
\* would wait behind the two that are there and is left out.
Trigger(r, T) ==
    [i \in Ifaces |->
        IF /\ i \in T /\ i \in armed /\ ~stopped
           /\ ~Recovering(r, i)
           /\ \E k \in Slots : r[i][k] = "idle"
        THEN [r[i] EXCEPT ![CHOOSE k \in Slots : r[i][k] = "idle"] = "queued"]
        ELSE r[i]]

\* The central takes state c; its entry into FAILED triggers every interface.
Enters(c) == IF c = "FAILED" /\ central # "FAILED" THEN Ifaces ELSE {}

\* An event about a client, a breaker or a run is published when the clients
\* are in cs and the runs in r; its own lane triggers T.
Publish(cs, r, T) ==
    LET c == Evaluate(cs, heard, r) IN
    /\ central' = c
    /\ run' = Trigger(r, T \cup Enters(c))

----------------------------------------------------------------------------
(* The CCU and the callback channel *)

Disrupt ==
    /\ disruptions < MaxDisruptions
    /\ disruptions' = disruptions + 1

\* A CCU that reboots forgets its registrations; a lost network does not.
Outage ==
    /\ up /\ ~stopped /\ Disrupt
    /\ up' = FALSE
    /\ registered' \in {registered, {}}
    /\ UNCHANGED <<heard, cstate, errors, breaker, verdict, armed, attempts, run,
                   asked, stopped, gone, central, beat>>

Comeback ==
    /\ ~up /\ ~stopped
    /\ up' = TRUE
    /\ UNCHANGED <<registered, heard, cstate, errors, breaker, verdict, armed,
                   attempts, run, asked, stopped, gone, central, beat, disruptions>>

\* NotifyCallback: an event, at the latest the PONG of the keep-alive.
CallbackArrives(i) ==
    /\ up /\ ~stopped /\ i \in registered /\ heard[i] # "fresh"
    /\ heard' = [heard EXCEPT ![i] = "fresh"]
    /\ UNCHANGED <<up, registered, cstate, errors, breaker, verdict, armed, attempts,
                   run, asked, stopped, gone, central, beat, disruptions>>

\* callbackFreshness has passed without an event.
CallbackAges(i) ==
    /\ ~(up /\ i \in registered) /\ ~stopped /\ heard[i] = "fresh"
    /\ heard' = [heard EXCEPT ![i] = "stale"]
    /\ UNCHANGED <<up, registered, cstate, errors, breaker, verdict, armed, attempts,
                   run, asked, stopped, gone, central, beat, disruptions>>

----------------------------------------------------------------------------
(* Bring-up of an interface, and its hand-over to the coordinator *)

\* A CCU that answers may refuse the init; a failed bring-up is handed over too.
BringUp(i) ==
    /\ i \notin armed /\ ~stopped
    /\ \E ok \in BOOLEAN :
         /\ ok => up
         /\ IF up /\ ~ok THEN Disrupt ELSE UNCHANGED disruptions
         /\ LET s == IF ok THEN ToConnected(cstate[i]) ELSE ToDisconnected(cstate[i])
                cs == [cstate EXCEPT ![i] = s]
            IN /\ cstate' = cs
               /\ errors' = IF s = "CONNECTED" THEN [errors EXCEPT ![i] = 0] ELSE errors
               /\ Publish(cs, run, {})
         /\ registered' = IF ok THEN registered \cup {i} ELSE registered
    /\ armed' = armed \cup {i}
    /\ UNCHANGED <<up, heard, breaker, verdict, attempts, asked, stopped, gone, beat>>

----------------------------------------------------------------------------
(* The connection probes *)

\* CheckConnectionAvailability: the call through the breaker.  An open breaker
\* sheds it until its reset timeout has passed.
ProbeCall(i) ==
    /\ verdict[i] = "none" /\ ~stopped
    /\ \E b \in {breaker[i]} \cup (IF breaker[i] = "open" THEN {"half"} ELSE {}) :
         LET reached == b # "open"
             after == IF ~reached THEN {"open"}
                      ELSE IF up
                           THEN IF b = "half" THEN {"half", "closed"} ELSE {b}
                           ELSE IF b = "half" THEN {"open"} ELSE {b, "open"}
         IN \E b2 \in after :
              /\ breaker' = [breaker EXCEPT ![i] = b2]
              /\ verdict' = [verdict EXCEPT ![i] =
                                IF reached /\ up THEN "alive" ELSE "dead"]
              /\ IF b2 = breaker[i]
                 THEN UNCHANGED <<run, central>>
                 ELSE Publish(cstate, run,
                        IF b2 = "open" \/ (b = "half" /\ b2 = "closed") THEN {i} ELSE {})
    /\ UNCHANGED <<up, registered, heard, cstate, errors, armed, attempts, asked,
                   stopped, gone, beat, disruptions>>

\* What RecordConnectivityProbe makes of the verdict.
Recorded(i, alive) ==
    IF alive THEN 0 ELSE IF errors[i] < 2 THEN errors[i] + 1 ELSE 2
StateAfterProbe(i, alive) ==
    IF ~alive /\ errors[i] >= 1 /\ cstate[i] = "CONNECTED"
    THEN Transition(cstate[i], "DISCONNECTED") ELSE cstate[i]

\* Mutant of Lost: a failed call is the only signal.
LostOnFailureOnly(p, i, alive, s) == ~alive

\* Does the probe announce that the connection of i is lost?
Lost(p, i, alive, s) ==
    \/ ~alive
    \/ p = "ticker" /\ s \in {"DISCONNECTED", "FAILED"}
    \/ p = "job" /\ s # "CONNECTED"
    \/ ~IsCallbackAlive(i, s, heard[i])

\* The rest of the tick: RecordConnectivityProbe and ConnectionLostEvent.
ProbeReport(p, i) ==
    /\ verdict[i] # "none" /\ ~stopped
    /\ LET alive == verdict[i] = "alive"
           s == StateAfterProbe(i, alive)
           cs == [cstate EXCEPT ![i] = s]
           lost == Lost(p, i, alive, s)
       IN /\ cstate' = cs
          /\ errors' = [errors EXCEPT ![i] = Recorded(i, alive)]
          /\ IF lost \/ s # cstate[i]
             THEN Publish(cs, run, IF lost THEN {i} ELSE {})
             ELSE UNCHANGED <<run, central>>
    /\ verdict' = [verdict EXCEPT ![i] = "none"]
    /\ UNCHANGED <<up, registered, heard, breaker, armed, attempts, asked, stopped,
                   gone, beat, disruptions>>

----------------------------------------------------------------------------
(* The recovery coordinator *)

Goto(i, k, s) == [run EXCEPT ![i][k] = s]

\* The context of the run is done: runCtx after Stop, and the one of the
\* request whenever its sender went away.
Cancelled(i, k) == asked[i][k] \/ stopped

\* Mutant of Enter: the registration of another run is overwritten.
EnterUnserialised(i, k) ==
    /\ run[i][k] = "queued"
    /\ Publish(cstate, Goto(i, k, IF attempts[i] >= MaxAttempts THEN "leaving"
                                                               ELSE "checking"), {})
    /\ UNCHANGED <<up, registered, heard, cstate, errors, breaker, verdict, armed,
                   attempts, asked, stopped, gone, beat, disruptions>>

\* The run registers itself once no other is registered and the attempts are
\* not used up.
Enter(i, k) ==
    /\ run[i][k] = "queued"
    /\ ~Recovering(run, i)
    /\ Publish(cstate, Goto(i, k, IF attempts[i] >= MaxAttempts THEN "leaving"
                                                               ELSE "checking"), {})
    /\ UNCHANGED <<up, registered, heard, cstate, errors, breaker, verdict, armed,
                   attempts, asked, stopped, gone, beat, disruptions>>

\* bumpAttempt, recordOutcome and RecoveryFailedEvent.
Fail(i, k, cs) ==
    /\ attempts' = [attempts EXCEPT ![i] = @ + 1]
    /\ cstate' = cs
    /\ Publish(cs, Goto(i, k, "leaving"), {})

\* The state Reconnect starts from.
Reconnectable(s) ==
    IF s \in {"INITIALIZED", "CONNECTING", "CONNECTED", "RECONNECTING"}
    THEN "DISCONNECTED" ELSE s

\* The stages up to the reconnect, and Reconnect up to its back-off.
Check(i, k) ==
    /\ run[i][k] = "checking"
    /\ \/ (~up \/ Cancelled(i, k)) /\ Fail(i, k, cstate)
       \/ /\ up
          /\ LET s == Reconnectable(cstate[i]) IN
             IF CanReconnect(s)
             THEN LET cs == [cstate EXCEPT ![i] = Transition(s, "RECONNECTING")] IN
                  /\ cstate' = cs
                  /\ Publish(cs, Goto(i, k, "waiting"), {})
                  /\ UNCHANGED attempts
             ELSE Fail(i, k, [cstate EXCEPT ![i] = s])
    /\ UNCHANGED <<up, registered, heard, errors, breaker, verdict, armed, asked,
                   stopped, gone, beat, disruptions>>

Disconnected(i) == [cstate EXCEPT ![i] = "DISCONNECTED"]

\* The rest of Reconnect.  A context that ends during the back-off leaves the
\* client RECONNECTING; a CCU that is not ready and a failed init force it to
\* DISCONNECTED, the latter after the deinit.  The back-off takes seconds: an
\* evaluation that was under way is over.
Reinit(i, k) ==
    /\ run[i][k] = "waiting" /\ beat = "none"
    /\ \/ /\ Cancelled(i, k)
          /\ Fail(i, k, cstate)
          /\ UNCHANGED <<registered, errors, breaker, disruptions>>
       \/ /\ ~up \/ Cancelled(i, k)
          /\ Fail(i, k, Disconnected(i))
          /\ UNCHANGED <<registered, errors, breaker, disruptions>>
       \/ /\ up /\ Disrupt
          /\ Fail(i, k, Disconnected(i))
          /\ registered' = registered \ {i}
          /\ UNCHANGED <<errors, breaker>>
       \/ /\ up
          /\ LET s == Transition(Transition(cstate[i], "CONNECTING"), "CONNECTED")
                 cs == [cstate EXCEPT ![i] = s]
             IN /\ cstate' = cs
                /\ errors' = IF s = "CONNECTED" THEN [errors EXCEPT ![i] = 0] ELSE errors
                /\ Publish(cs, Goto(i, k, "loading"), {})
          /\ registered' = registered \cup {i}
          /\ breaker' = [breaker EXCEPT ![i] = "closed"]
          /\ UNCHANGED <<attempts, disruptions>>
    /\ UNCHANGED <<up, heard, verdict, armed, asked, stopped, gone, beat>>

\* The data stage fails on nothing but the end of its context.
Load(i, k) ==
    /\ run[i][k] = "loading"
    /\ \/ Cancelled(i, k) /\ Fail(i, k, cstate)
       \/ /\ ~stopped \/ asked[i][k]
          /\ attempts' = [attempts EXCEPT ![i] = 0]
          /\ Publish(cstate, Goto(i, k, "leaving"), {})
          /\ UNCHANGED cstate
    /\ UNCHANGED <<up, registered, heard, errors, breaker, verdict, armed, asked,
                   stopped, gone, beat, disruptions>>

\* Mutant of Leave: the registration of a run cancelled by Stop is kept.
LeaveUnlessCancelled(i, k) ==
    /\ run[i][k] = "leaving" /\ ~stopped
    /\ run' = Goto(i, k, "idle")
    /\ asked' = [asked EXCEPT ![i][k] = FALSE]
    /\ UNCHANGED <<up, registered, heard, cstate, errors, breaker, verdict, armed,
                   attempts, stopped, gone, central, beat, disruptions>>

\* The deferred delete: nothing is published, nothing is evaluated.
Leave(i, k) ==
    /\ run[i][k] = "leaving"
    /\ run' = Goto(i, k, "idle")
    /\ asked' = [asked EXCEPT ![i][k] = FALSE]
    /\ UNCHANGED <<up, registered, heard, cstate, errors, breaker, verdict, armed,
                   attempts, stopped, gone, central, beat, disruptions>>

Step(i, k) == Enter(i, k) \/ Check(i, k) \/ Reinit(i, k) \/ Load(i, k) \/ Leave(i, k)

\* POST /interfaces/{id}/reconnect: neither armed nor stopped is consulted.
AskReconnect(i, k) ==
    /\ run[i][k] = "idle" /\ Disrupt
    /\ run' = Goto(i, k, "queued")
    /\ asked' = [asked EXCEPT ![i][k] = TRUE]
    /\ UNCHANGED <<up, registered, heard, cstate, errors, breaker, verdict, armed,
                   attempts, stopped, gone, central, beat>>

\* fireHeartbeatIfExhausted and its lane: one more attempt.
Heartbeat(i) ==
    /\ ~stopped /\ attempts[i] >= MaxAttempts
    /\ attempts' = [attempts EXCEPT ![i] = MaxAttempts - 1]
    /\ run' = Trigger(run, {i})
    /\ UNCHANGED <<up, registered, heard, cstate, errors, breaker, verdict, armed,
                   asked, stopped, gone, central, beat, disruptions>>

\* Mutant of HealthRead: the job only demotes and leaves the way back to RUNNING
\* to the events.
HealthReadDownwards ==
    /\ beat = "none" /\ ~stopped
    /\ LET c == Evaluate(cstate, heard, run) IN c # central /\ c # "RUNNING" /\ beat' = c
    /\ UNCHANGED <<up, registered, heard, cstate, errors, breaker, verdict, armed,
                   attempts, run, asked, stopped, gone, central, disruptions>>

\* central.health_heartbeat: EvaluateCentralState on the scheduler's goroutine,
\* which shares no lock with the runs.
HealthRead ==
    /\ beat = "none" /\ ~stopped
    /\ LET c == Evaluate(cstate, heard, run) IN c # central /\ beat' = c
    /\ UNCHANGED <<up, registered, heard, cstate, errors, breaker, verdict, armed,
                   attempts, run, asked, stopped, gone, central, disruptions>>

HealthSet ==
    /\ beat # "none"
    /\ central' = beat
    /\ run' = Trigger(run, Enters(beat))
    /\ beat' = "none"
    /\ UNCHANGED <<up, registered, heard, cstate, errors, breaker, verdict, armed,
                   attempts, asked, stopped, gone, disruptions>>

\* Stop: close the lanes, cancel the runs, then wait for their goroutines.
Stop ==
    /\ ~stopped /\ stopped' = TRUE
    /\ UNCHANGED <<up, registered, heard, cstate, errors, breaker, verdict, armed,
                   attempts, run, asked, gone, central, beat, disruptions>>

StopReturns ==
    /\ stopped /\ ~gone
    /\ \A i \in Ifaces, k \in Slots : run[i][k] = "idle" \/ asked[i][k]
    /\ gone' = TRUE
    /\ UNCHANGED <<up, registered, heard, cstate, errors, breaker, verdict, armed,
                   attempts, run, asked, stopped, central, beat, disruptions>>

----------------------------------------------------------------------------
Health == HealthRead \/ HealthSet
Probe(i) == ProbeCall(i) \/ \E p \in Probes : ProbeReport(p, i)

Next ==
    \/ Outage \/ Comeback \/ Health \/ Stop \/ StopReturns
    \/ \E i \in Ifaces :
         \/ CallbackArrives(i) \/ CallbackAges(i) \/ BringUp(i) \/ Heartbeat(i)
         \/ Probe(i)
         \/ \E k \in Slots : Step(i, k) \/ AskReconnect(i, k)

Spec == Init /\ [][Next]_vars

\* Goroutines run, tickers tick, a CCU that answers and knows us sends PONGs.
\* Nothing makes the CCU come back, an operator ask or the daemon stop.
Fairness ==
    /\ WF_vars(Health) /\ WF_vars(StopReturns)
    /\ \A i \in Ifaces :
         /\ WF_vars(CallbackArrives(i) \/ CallbackAges(i) \/ BringUp(i))
         /\ WF_vars(Heartbeat(i))
         /\ WF_vars(Probe(i))
         /\ WF_vars(\E k \in Slots : Step(i, k))

FairSpec == Spec /\ Fairness

----------------------------------------------------------------------------
(* Properties *)

\* Two runs of the pipeline never work on one interface at the same time, and
\* a run that starts finds an attempt left (runInternal, the loop on c.active).
RunsAreSerial ==
    \A i \in Ifaces :
        /\ \A k, l \in Slots :
             run[i][k] \in Active /\ run[i][l] \in Active => k = l
        /\ \A k \in Slots : run[i][k] \in {"checking", "waiting", "loading"}
             => attempts[i] < MaxAttempts

\* Once Stop has returned no goroutine of the coordinator is left; only the
\* run of a reconnect request may still be (Stop, recoveryWG).
StopLeavesNothing ==
    gone => \A i \in Ifaces, k \in Slots : run[i][k] = "idle" \/ asked[i][k]

\* Silence on the callback channel of i is held against it.
Noticeable(i) == i \in PingPong /\ heard[i] # "never"

\* Each interface the CCU serves again is connected for good, and where silence
\* can be noticed the CCU pushes its events again, whatever went wrong before
\* (the three signals of the probes, the heartbeat out of exhaustion).
InterfacesComeBack ==
    <>[](up /\ ~stopped) =>
        \A i \in Ifaces :
            <>[](cstate[i] = "CONNECTED" /\ (Noticeable(i) => i \in registered))

\* A central whose CCU is back ends up RUNNING: a run is still registered when
\* it reports its success, so that evaluation cannot say so
\* (EvaluateCentralState, central.health_heartbeat).
CentralSettles ==
    <>[](up /\ ~stopped) => <>[](central = "RUNNING")

\* Stop returns: no goroutine it waits for is held up for ever, not even behind
\* the run of a reconnect request (Stop, <-existing in runInternal).
ShutdownEnds == stopped ~> gone

\* "RUNNING is suppressed while any interface is actively recovering [...] so
\* an in-flight recovery never reads as all-healthy" (central/central.go).
NeverHealthyInRecovery ==
    central = "RUNNING" =>
        \A i \in Ifaces, k \in Slots : run[i][k] \notin {"checking", "waiting", "loading"}
=============================================================================
