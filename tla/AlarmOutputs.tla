---------------------------- MODULE AlarmOutputs ----------------------------
(***************************************************************************)
(* The siren driver of the alarm system (src/internal/alarm/outputs): the  *)
(* goroutine that holds the engine lock and fires or stops a zone's        *)
(* outputs, one that works beside it (the reconciliation pass, a test fire *)
(* of the management API), the watchdog callbacks, which hold no lock but  *)
(* the manager's own, and the shutdown of the service.                     *)
(*                                                                         *)
(* An activation (struct activation) is a member of Activations.  Its one  *)
(* thread of control goes                                                  *)
(*                                                                         *)
(*   armed -> due -> stop -> waiting -> verify -> due ...                  *)
(*                                                                         *)
(* where "armed" and "waiting" are pending timers, which cancel reaches,   *)
(* and the others a callback on its way, which it does not.  active[o] is  *)
(* the record the map of the manager holds.                                *)
(*                                                                         *)
(* Device writes are synchronous; one may be applied and answered with an  *)
(* error, be refused, or be accepted and lost on the radio.  A read-back   *)
(* sees the state of the device, or nothing (unreachable).  An acoustic    *)
(* activation is for the one incident its zone has, which the first cycle  *)
(* or adoption opens; when its row cannot be created it runs with the id 0 *)
(* ("rowless") and has no ledger.  Chirps, notifications and the sysvar    *)
(* mirror hold no demand, watchdog or budget and are left out, and so are  *)
(* the per-mode and outdoor filters, which are part of which rows a zone   *)
(* has.                                                                    *)
(***************************************************************************)
EXTENDS Integers, FiniteSets

CONSTANTS
    Outputs,        \* the rows there may be, numbers: the order of their IDs
    Scenarios,      \* bounds: which rows are enrolled, and how often FireCycle,
                    \* the side operations and faults may happen
    Zone,           \* Zone[o]
    Channel,        \* Channel[o]: the device channel, rows may share one
    Class,          \* Class[o]
    Duration,       \* Duration[o]: acousticDuration, in units of noise
    Budget,         \* MaxAcousticPerIncident
    Window,         \* verification rounds in StopVerifyWindow
    Activations,    \* bound: activation records alive at once, numbers
    Prompt,         \* does the write that starts a sounder return within
                    \* stopVerifyInterval?
    None

Acoustic == {"siren", "switched", "smoke"}
SirenClasses == {"siren", "optical"}
Classes == Acoustic \cup {"optical", "light"}

Zones == {Zone[o] : o \in Outputs}

ASSUME OutputsAssumption ==
    /\ Outputs \subseteq Nat /\ IsFiniteSet(Outputs)
    /\ Scenarios \subseteq [rows : SUBSET Outputs, fires : Nat, sides : Nat, faults : Nat]
    /\ Class \in [Outputs -> Classes]
    /\ Duration \in [Outputs -> Nat \ {0}]
    /\ Budget \in Nat /\ Window \in Nat
    /\ Activations \subseteq Nat /\ IsFiniteSet(Activations)
    /\ None \notin Outputs \cup Activations \cup Zones
    /\ Prompt \in BOOLEAN

Channels == {Channel[o] : o \in Outputs}
Processes == {"engine", "side"}

VARIABLES
    on,         \* on[ch]: "off", "bounded" (ends by itself), "latched"
    rows,       \* the rows enrolled
    gone,       \* the rows the operator has deleted
    active,     \* active[o]: the current activation record, or None
    act,        \* act[a]: row, phase and verification rounds of an activation
    demands,    \* rows that hold a claim on their channel
    failed,     \* rows with an outstanding failure
    incident,   \* incident[z]: "none" so far, one with a "row", or "rowless" (id 0)
    ledger,     \* ledger[z]: noise accounted on the incident of z
    sounded,    \* sounded[z]: noise FireCycle commanded for it
    blind,      \* zones a cycle was fired for without a fresh ledger read
    alarms,     \* zones in alarm: fired or adopted, StopAll still to come
    op,         \* op[p]: what process p is doing
    life,       \* "up", "stopping", "quiet" (watchdogs dropped), "down"
    dying,      \* the rows Shutdown still has to stop
    budget      \* what is left of the scenario's bounds

noiseVars == <<incident, ledger, sounded, blind>>
vars == <<on, rows, gone, active, act, demands, failed, noiseVars, alarms, op, life, dying,
          budget>>

Pending == {"armed", "waiting"}
Phases == {"free", "due", "stop", "verify"} \cup Pending
Incidents == {"row", "rowless"}
Free == [out |-> None, phase |-> "free", rounds |-> 0]
Idle == [kind |-> "idle", zone |-> None, todo |-> {}, rows |-> {}, pc |-> "next",
         left |-> 0, noise |-> 0, own |-> None]

TypeOK ==
    /\ on \in [Channels -> {"off", "bounded", "latched"}]
    /\ rows \subseteq Outputs /\ gone \subseteq Outputs
    /\ active \in [Outputs -> Activations \cup {None}]
    /\ act \in [Activations -> [out : Outputs \cup {None}, phase : Phases, rounds : 0 .. Window]]
    /\ demands \subseteq Outputs
    /\ failed \subseteq Outputs
    /\ incident \in [Zones -> {"none"} \cup Incidents]
    /\ ledger \in [Zones -> Nat]
    /\ sounded \in [Zones -> Nat]
    /\ blind \subseteq Zones
    /\ alarms \subseteq Zones
    /\ op \in [Processes -> [kind : {"idle", "fire", "stop", "unowned", "adopt", "test"},
                             zone : Zones \cup {None}, todo : SUBSET Outputs,
                             rows : SUBSET Outputs,
                             pc : {"next", "write", "arm", "replace", "await"},
                             left : 0 .. Budget, noise : Nat,
                             own : Activations \cup {None}]]
    /\ life \in {"up", "stopping", "quiet", "down"}
    /\ dying \subseteq Outputs
    /\ budget \in [fires : Nat, sides : Nat, faults : Nat]

Init ==
    /\ on = [ch \in Channels |-> "off"]
    /\ \E s \in Scenarios :
         rows = s.rows /\ budget = [fires |-> s.fires, sides |-> s.sides, faults |-> s.faults]
    /\ gone = {}
    /\ active = [o \in Outputs |-> None]
    /\ act = [a \in Activations |-> Free]
    /\ demands = {}
    /\ failed = {}
    /\ incident = [z \in Zones |-> "none"]
    /\ ledger = [z \in Zones |-> 0]
    /\ sounded = [z \in Zones |-> 0]
    /\ blind = {}
    /\ alarms = {}
    /\ op = [p \in Processes |-> Idle]
    /\ life = "up"
    /\ dying = {}

----------------------------------------------------------------------------
(* Helpers *)

Least(S) == CHOOSE o \in S : \A x \in S : o <= x
RowsOf(z) == {o \in rows : Zone[o] = z}

\* One fault of the environment, within the bound.
Fault == /\ budget.faults > 0
         /\ budget' = [budget EXCEPT !.faults = @ - 1]

\* What becomes of a device write: is it applied, does it return an error?
Write(applied, err) == \/ applied /\ ~err /\ UNCHANGED budget
                       \/ ~(applied /\ ~err) /\ Fault

\* f with the timer of the current activation of o cancelled.
Cancelled(f, o) ==
    [a \in Activations |-> IF a = active[o] /\ f[a].phase \in Pending THEN Free ELSE f[a]]

\* A new current activation of o in the given phase.
Replace(o, a, phase) ==
    /\ a \in Activations /\ act[a].phase = "free"
    /\ \A b \in Activations : act[b].phase = "free" => a <= b
    /\ active' = [active EXCEPT ![o] = a]
    /\ act' = [Cancelled(act, o) EXCEPT ![a] = [out |-> o, phase |-> phase, rounds |-> 0]]

ArmStopWatchdog(o) == \E a \in Activations : Replace(o, a, "armed")

CancelWatchdog(o) ==
    /\ act' = Cancelled(act, o)
    /\ active' = [active EXCEPT ![o] = None]

\* clearActivation, and the end of the activation's thread.
ClearActivation(a) ==
    /\ act' = [act EXCEPT ![a] = Free]
    /\ active' = [o \in Outputs |-> IF active[o] = a THEN None ELSE active[o]]

\* openIncident: z has its incident already, or gets one, which stays without a
\* row when Create fails.
OpenIncident(z, i) ==
    /\ incident[z] \in {"none", i}
    /\ incident' = [incident EXCEPT ![z] = i]

CreateFails(z, i) == incident[z] = "none" /\ i = "rowless"

----------------------------------------------------------------------------
(* Arbitration of shared channels *)

\* releaseDemandForeignRemains: does another zone demand the channel of o?
ForeignRemains(o) ==
    \E r \in demands \ {o} : Channel[r] = Channel[o] /\ Zone[r] # Zone[o]

----------------------------------------------------------------------------
(* FireCycle, under the engine lock *)

DegradedClass == {"optical", "light"}
PreAlarmClass == {"light"}

ClassEligible(c, opts) ==
    /\ opts.degraded => c \in DegradedClass
    /\ opts.preAlarm => c \in PreAlarmClass
    /\ opts.silent => c \notin Acoustic
    /\ c = "smoke" => opts.smoke

\* Mutant of AcousticBudget: each cycle has the whole budget.
AcousticBudgetPerCycle(acc) == Budget

\* acousticBudget: what the incident may still sound, by a fresh read of the
\* ledger; when that fails, or the incident has no row to read, by the caller's
\* snapshot, which the engine never charges.
AcousticBudget(acc) == IF acc >= Budget THEN 0 ELSE Budget - acc

FireCycle(z) ==
    /\ life # "down" /\ op["engine"] = Idle /\ budget.fires > 0
    /\ \E opts \in [degraded : BOOLEAN, preAlarm : BOOLEAN, silent : BOOLEAN, smoke : BOOLEAN],
          i \in Incidents, blinded \in BOOLEAN :
         /\ OpenIncident(z, i)
         /\ blinded => i = "row" /\ ledger[z] > 0
         /\ IF blinded \/ CreateFails(z, i)
            THEN /\ budget.faults > 0
                 /\ budget' = [budget EXCEPT !.fires = @ - 1, !.faults = @ - 1]
            ELSE budget' = [budget EXCEPT !.fires = @ - 1]
         /\ blind' = IF blinded THEN blind \cup {z} ELSE blind
         /\ op' = [op EXCEPT !["engine"] =
                      [Idle EXCEPT !.kind = "fire", !.zone = z,
                                   !.todo = {o \in RowsOf(z) : ClassEligible(Class[o], opts)},
                                   !.left = AcousticBudget(IF blinded \/ i = "rowless" THEN 0
                                                           ELSE ledger[z])]]
    /\ alarms' = alarms \cup {z}
    /\ UNCHANGED <<on, rows, gone, active, act, demands, failed, ledger, sounded, life, dying>>

\* The rows one write covers: both halves of a siren channel, else the row.
Covered(e) ==
    LET o == Least(e.todo)
    IN  IF Class[o] \in SirenClasses
        THEN {r \in e.todo : Class[r] \in SirenClasses /\ Channel[r] = Channel[o]}
        ELSE {o}

\* reserveAcoustic: what the group may sound out of what is left.
Reserve(group, left) ==
    LET tones == {r \in group : Class[r] \in Acoustic}
    IN  IF tones = {} THEN 0
        ELSE IF Duration[Least(tones)] > left THEN left ELSE Duration[Least(tones)]

\* The next output.  The ledger is charged before the device is told, if the
\* incident has a row; a spent budget silences the tone, not the flash.  For a
\* smoke sounder the demand and the watchdog come first as well.
FireReserve ==
    LET e == op["engine"]
        group == Covered(e)
        o == Least(e.todo)
        noise == Reserve(group, e.left)
        past == [e EXCEPT !.todo = @ \ group]
    IN  /\ e.kind = "fire" /\ e.pc = "next" /\ e.todo # {}
        /\ \/ \* the device is unknown, or the ledger cannot be written
              /\ Fault
              /\ failed' = failed \cup group
              /\ op' = [op EXCEPT !["engine"] = past]
              /\ UNCHANGED <<active, act, demands, ledger>>
           \/ \* the budget is spent and nothing else is to be activated
              /\ noise = 0 /\ \A r \in group : Class[r] \in Acoustic
              /\ op' = [op EXCEPT !["engine"] = past]
              /\ UNCHANGED <<active, act, demands, failed, ledger, budget>>
           \/ /\ noise > 0 \/ \E r \in group : Class[r] \notin Acoustic
              /\ ledger' = IF incident[e.zone] = "rowless" THEN ledger
                           ELSE [ledger EXCEPT ![e.zone] = @ + noise]
              /\ op' = [op EXCEPT !["engine"] = [past EXCEPT !.rows = group, !.pc = "write",
                                                   !.noise = noise, !.left = @ - noise]]
              /\ IF Class[o] = "smoke"
                 THEN demands' = demands \cup {o} /\ ArmStopWatchdog(o)
                 ELSE UNCHANGED <<active, act, demands>>
              /\ UNCHANGED <<failed, budget>>
        /\ UNCHANGED <<on, rows, gone, incident, sounded, blind, alarms, life, dying>>

\* The activation write.  A failed one takes back what was taken for it.
FireWrite ==
    LET e == op["engine"]
        o == Least(e.rows)
        done == [e EXCEPT !.rows = {}, !.pc = "next", !.noise = 0]
    IN  /\ e.kind = "fire" /\ e.pc = "write"
        /\ sounded' = [sounded EXCEPT ![e.zone] = @ + e.noise]
        /\ \E applied, err \in BOOLEAN :
             /\ Write(applied, err)
             /\ on' = IF applied
                      THEN [on EXCEPT ![Channel[o]] =
                              IF Class[o] \in {"smoke", "light"} THEN "latched" ELSE "bounded"]
                      ELSE on
             /\ \/ /\ err /\ failed' = failed \cup e.rows
                   /\ op' = [op EXCEPT !["engine"] = done]
                   /\ IF Class[o] = "smoke"
                      THEN demands' = demands \ {o} /\ CancelWatchdog(o)
                      ELSE UNCHANGED <<active, act, demands>>
                \/ /\ ~err
                   /\ op' = [op EXCEPT !["engine"] =
                               IF Class[o] = "smoke" THEN done
                               ELSE [e EXCEPT !.pc = "arm", !.noise = 0]]
                   /\ UNCHANGED <<active, act, demands, failed>>
        /\ UNCHANGED <<rows, gone, incident, ledger, blind, alarms, life, dying>>

\* noteDemand and the watchdog of each row the write covered; a light is left
\* on until StopAll.
FireArm ==
    LET e == op["engine"]
        o == Least(e.rows)
        more == e.rows \ {o}
    IN  /\ e.kind = "fire" /\ e.pc = "arm"
        /\ demands' = demands \cup {o}
        /\ IF Class[o] = "light" THEN UNCHANGED <<active, act>> ELSE ArmStopWatchdog(o)
        /\ op' = [op EXCEPT !["engine"] =
                    IF more = {} THEN [e EXCEPT !.rows = {}, !.pc = "next"]
                    ELSE [e EXCEPT !.rows = more]]
        /\ UNCHANGED <<on, rows, gone, failed, noiseVars, alarms, life, dying, budget>>

----------------------------------------------------------------------------
(* StopAll under the engine lock, StopUnowned and the others beside it *)

StopAll(z) ==
    /\ life # "down" /\ op["engine"] = Idle /\ z \in alarms
    /\ alarms' = alarms \ {z}
    /\ op' = [op EXCEPT !["engine"] = [Idle EXCEPT !.kind = "stop", !.zone = z, !.todo = RowsOf(z)]]
    /\ UNCHANGED <<on, rows, gone, active, act, demands, failed, noiseVars, life, dying, budget>>

Side(e) ==
    /\ life = "up" /\ op["side"] = Idle /\ budget.sides > 0
    /\ op' = [op EXCEPT !["side"] = e]
    /\ UNCHANGED <<on, rows, gone, active, act, demands, failed, ledger, sounded, blind,
                   life, dying>>

SideOnly == budget' = [budget EXCEPT !.sides = @ - 1] /\ UNCHANGED <<incident, alarms>>

\* isSounding: the live state of the row's device.
IsSounding(o) == Class[o] # "light" /\ on[Channel[o]] # "off"

\* The reconciliation pass finds a zone that is not in alarm with an output that
\* sounds.  It asks the engine about the zone, under the engine lock, and goes
\* to work without it: a zone that is off is silenced, another one adopted.  The
\* watchdogs of an adoption are left out when its incident has no row.
StopUnowned(z) ==
    /\ op["engine"] = Idle /\ z \notin alarms /\ SideOnly
    /\ \E o \in RowsOf(z) : IsSounding(o)
    /\ Side([Idle EXCEPT !.kind = "unowned", !.zone = z, !.todo = RowsOf(z)])

AdoptBounded(z) ==
    LET heard == {o \in RowsOf(z) : IsSounding(o)}
    IN  /\ op["engine"] = Idle /\ z \notin alarms /\ alarms' = alarms \cup {z}
        /\ heard # {}
        /\ \E i \in Incidents :
             /\ OpenIncident(z, i)
             /\ IF CreateFails(z, i)
                THEN /\ budget.faults > 0
                     /\ budget' = [budget EXCEPT !.sides = @ - 1, !.faults = @ - 1]
                ELSE budget' = [budget EXCEPT !.sides = @ - 1]
             /\ Side([Idle EXCEPT !.kind = "adopt", !.zone = z,
                                  !.todo = IF i = "row" THEN heard ELSE {}])

TestFire(o) ==
    /\ o \in rows /\ Class[o] # "smoke" /\ SideOnly
    /\ Side([Idle EXCEPT !.kind = "test", !.zone = Zone[o], !.todo = {o}, !.pc = "write"])

\* Mutant of Unclaim: the claims of other zones are not consulted.
UnclaimBlindly(p) ==
    LET e == op[p]
        o == Least(e.todo)
    IN  /\ e.kind \in {"stop", "unowned"} /\ e.pc = "next" /\ e.todo # {}
        /\ demands' = demands \ {o}
        /\ op' = [op EXCEPT ![p].pc = "replace"]
        /\ UNCHANGED <<active, act>>
        /\ UNCHANGED <<on, rows, gone, failed, noiseVars, alarms, life, dying, budget>>

\* stopAndVerify, first half: the own demand is released; when another zone
\* holds one the write is skipped.  StopUnowned passes by what is silent.
Unclaim(p) ==
    LET e == op[p]
        o == Least(e.todo)
    IN  /\ e.kind \in {"stop", "unowned"} /\ e.pc = "next" /\ e.todo # {}
        /\ \/ /\ e.kind = "unowned" /\ ~IsSounding(o)
              /\ op' = [op EXCEPT ![p].todo = @ \ {o}]
              /\ UNCHANGED <<active, act, demands>>
           \/ /\ e.kind = "stop" \/ IsSounding(o)
              /\ demands' = demands \ {o}
              /\ IF ForeignRemains(o)
                 THEN CancelWatchdog(o) /\ op' = [op EXCEPT ![p].todo = @ \ {o}]
                 ELSE op' = [op EXCEPT ![p].pc = "replace"] /\ UNCHANGED <<active, act>>
        /\ UNCHANGED <<on, rows, gone, failed, noiseVars, alarms, life, dying, budget>>

\* second half: the stop pass becomes the current activation.
TakeOver(p) ==
    LET o == Least(op[p].todo)
    IN  /\ op[p].pc = "replace"
        /\ \E a \in Activations : /\ Replace(o, a, "stop")
                                  /\ op' = [op EXCEPT ![p].pc = "await", ![p].own = a]
        /\ UNCHANGED <<on, rows, gone, demands, failed, noiseVars, alarms, life, dying, budget>>

Finish(p) ==
    /\ op[p].kind # "idle" /\ op[p].pc = "next" /\ op[p].todo = {}
    /\ op' = [op EXCEPT ![p] = Idle]
    /\ UNCHANGED <<on, rows, gone, active, act, demands, failed, noiseVars, alarms, life, dying, budget>>

\* AdoptBounded: how long the row has sounded is unknown, so its whole duration
\* is accounted, if the incident has a ledger; one that fails does not keep the
\* watchdog from being armed.
Adopt ==
    LET o == Least(op["side"].todo)
        charges == Class[o] \in Acoustic /\ incident[Zone[o]] # "rowless"
    IN  /\ op["side"].kind = "adopt" /\ op["side"].todo # {}
        /\ ArmStopWatchdog(o)
        /\ \/ /\ ledger' = [ledger EXCEPT ![Zone[o]] =
                                IF charges THEN @ + Duration[o] ELSE @]
              /\ UNCHANGED <<failed, budget>>
           \/ /\ charges /\ Fault
              /\ failed' = failed \cup {o} /\ UNCHANGED ledger
        /\ op' = [op EXCEPT !["side"].todo = @ \ {o}]
        /\ UNCHANGED <<on, rows, gone, demands, incident, sounded, blind, alarms, life, dying>>

\* TestFire: a short activation that the device bounds, without demand or
\* budget; its watchdog replaces the one of an alarm that is sounding.
TestWrite ==
    LET o == Least(op["side"].todo)
    IN  /\ op["side"].kind = "test" /\ op["side"].pc = "write"
        /\ \E applied, err \in BOOLEAN :
             /\ Write(applied, err)
             /\ on' = IF applied THEN [on EXCEPT ![Channel[o]] = "bounded"] ELSE on
             /\ failed' = IF err THEN failed \cup {o} ELSE failed
             /\ op' = [op EXCEPT !["side"] = IF err THEN Idle ELSE [@ EXCEPT !.pc = "arm"]]
        /\ UNCHANGED <<rows, gone, active, act, demands, noiseVars, alarms, life, dying>>

TestArm ==
    /\ op["side"].kind = "test" /\ op["side"].pc = "arm"
    /\ ArmStopWatchdog(Least(op["side"].todo))
    /\ op' = [op EXCEPT !["side"] = Idle]
    /\ UNCHANGED <<on, rows, gone, demands, failed, noiseVars, alarms, life, dying, budget>>

----------------------------------------------------------------------------
(* The watchdog callbacks *)

\* A timer that a quick write beats: the sounder's own watchdog, and a
\* verification of its channel, while the engine is still writing it.
Overtakes(a) ==
    \E o \in op["engine"].rows :
        /\ Class[o] = "smoke"
        /\ act[a].out = o \/ (act[a].phase = "waiting" /\ Channel[act[a].out] = Channel[o])

\* A pending timer fires: from here on cancel comes too late.
TimerFires(a) ==
    /\ life # "down"
    /\ act[a].phase \in Pending
    /\ Prompt => ~Overtakes(a)
    /\ act' = [act EXCEPT ![a].phase = IF @ = "armed" THEN "due" ELSE "verify"]
    /\ UNCHANGED <<on, rows, gone, active, demands, failed, noiseVars, alarms, op, life, dying, budget>>

\* runStop: nothing tells whether the activation is still the current one.
RunStop(a) ==
    LET o == act[a].out
    IN  /\ life # "down"
        /\ act[a].phase = "due"
        /\ demands' = demands \ {o}
        /\ IF ForeignRemains(o) THEN ClearActivation(a)
           ELSE act' = [act EXCEPT ![a].phase = "stop"] /\ UNCHANGED active
        /\ UNCHANGED <<on, rows, gone, failed, noiseVars, alarms, op, life, dying, budget>>

\* Mutant of StopWrite: a write that returns no error counts as done and is not
\* verified.
StopWriteTrusting(a) ==
    LET o == act[a].out
    IN  /\ life # "down"
        /\ act[a].phase = "stop"
        /\ \E applied, err \in BOOLEAN :
             /\ Write(applied, err)
             /\ on' = IF applied THEN [on EXCEPT ![Channel[o]] = "off"] ELSE on
             /\ failed' = IF err THEN failed \cup {o} ELSE failed
        /\ ClearActivation(a)
        /\ op' = [p \in Processes |->
                    IF op[p].own = a
                    THEN [op[p] EXCEPT !.pc = "next", !.own = None, !.todo = @ \ {Least(@)}]
                    ELSE op[p]]
        /\ UNCHANGED <<rows, gone, demands, noiseVars, alarms, life, dying>>

\* The stop write of runStop and of stopAndVerify.  The verification is
\* scheduled while the activation is the current one (a replacement after that
\* cancels it, so the two sections are one step); a stopAndVerify that waited
\* for the write goes on to its next row.
StopWrite(a) ==
    LET o == act[a].out
    IN  /\ life # "down"
        /\ act[a].phase = "stop"
        /\ \E applied, err \in BOOLEAN :
             /\ Write(applied, err)
             /\ on' = IF applied THEN [on EXCEPT ![Channel[o]] = "off"] ELSE on
             /\ failed' = IF err THEN failed \cup {o} ELSE failed
        /\ act' = IF active[o] = a THEN [act EXCEPT ![a].phase = "waiting"]
                                   ELSE [act EXCEPT ![a] = Free]
        /\ op' = [p \in Processes |->
                    IF op[p].own = a
                    THEN [op[p] EXCEPT !.pc = "next", !.own = None, !.todo = @ \ {Least(@)}]
                    ELSE op[p]]
        /\ UNCHANGED <<rows, gone, active, demands, noiseVars, alarms, life, dying>>

\* verifyStop: silent, given up, or one more stop pass.
VerifyStop(a) ==
    LET o == act[a].out
    IN  /\ life # "down"
        /\ act[a].phase = "verify"
        /\ \/ \* observed inactive
              /\ on[Channel[o]] = "off"
              /\ ClearActivation(a)
              /\ failed' = failed \ {o}
           \/ \* active or unobserved, and the window has closed
              /\ act[a].rounds = Window
              /\ ClearActivation(a)
              /\ failed' = failed \cup {o}
           \/ /\ act[a].rounds < Window
              /\ act' = [act EXCEPT ![a].phase = "due", ![a].rounds = @ + 1]
              /\ UNCHANGED <<active, failed>>
        /\ UNCHANGED <<on, rows, gone, demands, noiseVars, alarms, op, life, dying, budget>>

----------------------------------------------------------------------------
(* The device, the operator's configuration, the end of the service *)

\* A bounded activation runs out by itself.
DeviceEnds(ch) ==
    /\ on[ch] = "bounded"
    /\ on' = [on EXCEPT ![ch] = "off"]
    /\ UNCHANGED <<rows, gone, active, act, demands, failed, noiseVars, alarms, op, life, dying, budget>>

\* Reload after a row was deleted: pruneDemands and pruneFailed.
Reload(o) ==
    /\ life = "up" /\ o \in rows /\ budget.sides > 0
    /\ budget' = [budget EXCEPT !.sides = @ - 1]
    /\ rows' = rows \ {o} /\ gone' = gone \cup {o}
    /\ demands' = demands \cap rows'
    /\ failed' = failed \cap rows'
    /\ UNCHANGED <<on, active, act, noiseVars, alarms, op, life, dying>>

\* Shutdown: unboundedActivations are collected ...
Shutdown ==
    /\ life = "up" /\ budget.sides > 0
    /\ budget' = [budget EXCEPT !.sides = @ - 1]
    /\ life' = "stopping"
    /\ dying' = {o \in rows : /\ Class[o] \in {"smoke", "light"}
                              /\ o \in demands \/ active[o] # None}
    /\ UNCHANGED <<on, rows, gone, active, act, demands, failed, noiseVars, alarms, op>>

\* ... each gets one stop write, no verification ...
ShutdownStop ==
    LET o == Least(dying)
    IN  /\ life = "stopping" /\ dying # {}
        /\ \E applied, err \in BOOLEAN :
             /\ Write(applied, err)
             /\ on' = IF applied THEN [on EXCEPT ![Channel[o]] = "off"] ELSE on
        /\ dying' = dying \ {o}
        /\ UNCHANGED <<rows, gone, active, act, demands, failed, noiseVars, alarms, op, life>>

\* ... and StopWatchdogs drops every timer, record and demand.
StopWatchdogs ==
    /\ life = "stopping" /\ dying = {}
    /\ life' = "quiet"
    /\ act' = [a \in Activations |->
                 IF act[a].phase \in Pending /\ active[act[a].out] = a THEN Free ELSE act[a]]
    /\ active' = [o \in Outputs |-> None]
    /\ demands' = {}
    /\ UNCHANGED <<on, rows, gone, failed, noiseVars, alarms, op, dying, budget>>

\* The engine is stopped after the outputs, under its own lock.
EngineStop ==
    /\ life = "quiet" /\ op["engine"] = Idle
    /\ life' = "down"
    /\ UNCHANGED <<on, rows, gone, active, act, demands, failed, noiseVars, alarms, op, dying, budget>>

----------------------------------------------------------------------------

Callback(a) == \/ TimerFires(a) \/ RunStop(a) \/ StopWrite(a) \/ VerifyStop(a)

Work(p) == Unclaim(p) \/ TakeOver(p) \/ Finish(p)

EngineWork == FireReserve \/ FireWrite \/ FireArm \/ Work("engine")
SideWork == life # "down" /\ (Adopt \/ TestWrite \/ TestArm \/ Work("side"))

\* Nothing is under way: the driver rests.
Rest ==
    /\ life = "down" \/ \A a \in Activations : act[a] = Free
    /\ life = "down" \/ (alarms = {} /\ \A p \in Processes : op[p] = Idle)
    /\ UNCHANGED vars

Next ==
    \/ \E z \in Zones : FireCycle(z) \/ StopAll(z) \/ StopUnowned(z) \/ AdoptBounded(z)
    \/ \E o \in Outputs : TestFire(o) \/ Reload(o)
    \/ EngineWork \/ SideWork
    \/ \E a \in Activations : Callback(a)
    \/ \E ch \in Channels : DeviceEnds(ch)
    \/ Shutdown \/ ShutdownStop \/ StopWatchdogs \/ EngineStop
    \/ Rest

Spec == Init /\ [][Next]_vars

\* Timers fire, goroutines run, and the engine ends every alarm with StopAll
\* (IncidentsClose of AlarmHistory).  No thread is promised its turn while
\* another can proceed.
Progress ==
    \/ \E a \in Activations : Callback(a)
    \/ EngineWork \/ SideWork
    \/ \E z \in Zones : StopAll(z)

FairSpec == Spec /\ WF_vars(Progress)

----------------------------------------------------------------------------
(* Properties *)

\* Somebody will stop row o, or its failure is on record.
Chain(o) == \E a \in Activations : act[a].out = o
Firing(o) == op["engine"].kind = "fire" /\ o \in op["engine"].rows
Stopping(o) == \E p \in Processes : op[p].kind \in {"stop", "unowned"} /\ o \in op[p].todo
Answered(o) == Chain(o) \/ Firing(o) \/ Stopping(o) \/ o \in failed

SounderChannel(ch) == \E o \in Outputs : Channel[o] = ch /\ Class[o] = "smoke"

\* A sounder has no duration of its own and latches: while the driver is up, a
\* latched channel has a stop under way or to come, a failure on record, or an
\* enrolled row whose zone is in alarm, so that its StopAll is still to come,
\* whatever mixture of cycles, expiring watchdogs, shared-channel deferrals and
\* failing writes led there.  (A row deleted under the alarm is the operator's
\* doing.  A claim on the channel is no such promise: the callback of an activation
\* that was replaced releases the claim of the cycle that replaced it.)
SounderGuarded ==
    life = "up" =>
        \A ch \in Channels :
            on[ch] = "latched" /\ SounderChannel(ch) =>
                \E o \in Outputs :
                    /\ Channel[o] = ch
                    /\ Answered(o) \/ o \in gone \/ (o \in rows /\ Zone[o] \in alarms)

\* StopAll, which holds the engine lock as every fire does, writes no OFF to a
\* channel that another zone claims at that moment.
StopAllSparesOthers ==
    [][\A a \in Activations :
         LET o == act[a].out
         IN  op["engine"].own = a /\ act[a].phase = "stop" /\ act'[a].phase # "stop"
               => ~ForeignRemains(o)]_vars

\* The noise a zone's cycles commanded for an incident that has a row never
\* exceeds what the ledger says of it, whatever writes to devices and ledger
\* failed on the way, nor the budget of the incident as long as every cycle could
\* read the ledger.  Nothing of the kind holds for an incident whose row could
\* not be created: acousticBudget and reserveAcoustic pass the ledger by for the
\* id 0, so that each of its cycles has the whole budget and none is charged.
LedgerCovers ==
    \A z \in {x \in Zones : incident[x] # "rowless"} :
        /\ sounded[z] <= ledger[z]
        /\ z \notin blind => sounded[z] <= Budget

\* Noise ends: a latched sounder is silent again, or its failure is on record.
NoiseEnds ==
    \A ch \in {c \in Channels : SounderChannel(c)} :
        on[ch] = "latched" ~>
            \/ on[ch] # "latched" \/ life # "up"
            \/ \E o \in Outputs : Channel[o] = ch /\ o \in failed \cup gone

----------------------------------------------------------------------------
(* Statements of the repository that the code does not keep *)

\* "silencing one zone must never kill another zone's active alarm on a shared
\* siren" (arbitration.go).
OthersKeepSounding ==
    [][\A a \in Activations :
         LET o == act[a].out
         IN  act[a].phase = "stop" /\ act'[a].phase # "stop" => ~ForeignRemains(o)]_vars

\* "writes the stop command of every activation the device does not bound
\* itself, then drops the watchdogs" (watchdog.go, Shutdown).
SilentAfterShutdown ==
    life = "quiet" /\ failed = {} => \A ch \in Channels : on[ch] # "latched"
=============================================================================
