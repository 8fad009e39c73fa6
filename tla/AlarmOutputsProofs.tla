------------------------- MODULE AlarmOutputsProofs -------------------------
(***************************************************************************)
(* The acoustic ledger covers what is sounded for an incident that has a   *)
(* row, and somebody will stop what sounds: for any rows, zones, shared    *)
(* channels, classes, durations and budget, and whatever fails.            *)
(***************************************************************************)
EXTENDS AlarmOutputs, WellFoundedInduction, TLAPS

\* The least row of a set is one of its members.
LEMMA LeastIn ==
    ASSUME NEW S, S \subseteq Outputs, S # {}
    PROVE  Least(S) \in S
<1>1. \E x \in S : \A y \in S : ~(<<y, x>> \in OpToRel(<, Nat))
  <2>1. S \subseteq Nat BY OutputsAssumption
  <2> QED BY <2>1, NatLessThanWellFounded, WFMin
<1>2. PICK x \in S : \A y \in S : ~(<<y, x>> \in OpToRel(<, Nat)) BY <1>1
<1>3. \A y \in S : x <= y
  <2> SUFFICES ASSUME NEW y \in S PROVE x <= y OBVIOUS
  <2>1. x \in Nat /\ y \in Nat BY OutputsAssumption
  <2>2. ~(y < x) BY <1>2, <2>1 DEF OpToRel
  <2> QED BY <2>1, <2>2
<1> QED BY <1>3 DEF Least

OpKinds == {"idle", "fire", "stop", "unowned", "adopt", "test"}
OpType == [kind : OpKinds, zone : Zones \cup {None}, todo : SUBSET Outputs,
           rows : SUBSET Outputs, pc : {"next", "write", "arm", "replace", "await"},
           left : 0 .. Budget, noise : Nat, own : Activations \cup {None}]

NoiseTyped ==
    /\ op \in [Processes -> OpType]
    /\ rows \subseteq Outputs
    /\ incident \in [Zones -> {"none"} \cup Incidents]
    /\ ledger \in [Zones -> Nat]
    /\ sounded \in [Zones -> Nat]
    /\ blind \subseteq Zones

\* What the cycle under way has charged for zone z and not sounded yet, and what
\* it may still charge.
Charged(z) == IF op["engine"].zone = z THEN op["engine"].noise ELSE 0
Left(z) == IF op["engine"].zone = z THEN op["engine"].left ELSE 0

\* The inductive invariant: LedgerCovers says nothing of the charge that is on
\* its way to the device, nor of the allowance read at the start of the cycle.
\* An incident without a row has no account.
LedgerInv ==
    /\ NoiseTyped
    /\ \A z \in Zones : incident[z] # "rowless" =>
         /\ sounded[z] + Charged(z) <= ledger[z]
         /\ z \notin blind => sounded[z] + Charged(z) + Left(z) <= Budget

----------------------------------------------------------------------------

LEMMA AddTyped ==
    ASSUME NEW f \in [Zones -> Nat], NEW k, NEW n \in Nat
    PROVE  [f EXCEPT ![k] = @ + n] \in [Zones -> Nat]
<1> DEFINE g == [f EXCEPT ![k] = @ + n]
<1>1. \A x \in Zones : g[x] = IF x = k THEN f[x] + n ELSE f[x] OBVIOUS
<1>2. \A x \in Zones : f[x] + n \in Nat /\ f[x] \in Nat OBVIOUS
<1>3. \A x \in Zones : g[x] \in Nat BY <1>1, <1>2
<1>4. DOMAIN g = Zones /\ g = [x \in Zones |-> g[x]] OBVIOUS
<1> HIDE DEF g
<1>5. g \in [Zones -> Nat] BY <1>3, <1>4
<1> QED BY <1>5 DEF g

LEMMA IdleTyped == Idle \in OpType /\ None \notin Zones
BY OutputsAssumption DEF Idle, OpType, OpKinds

\* A step that at most adds to the ledger and takes from what is charged or left.
LEMMA Keeps ==
    ASSUME LedgerInv, NoiseTyped',
           UNCHANGED <<sounded, blind>>,
           \A z \in Zones : /\ incident'[z] # "rowless" => incident[z] # "rowless"
                            /\ ledger[z] <= ledger'[z]
                            /\ Charged(z)' <= Charged(z) /\ Left(z)' <= Left(z)
    PROVE  LedgerInv'
<1> SUFFICES ASSUME NEW z \in Zones, incident'[z] # "rowless"
             PROVE  /\ (sounded[z] + Charged(z))' <= ledger'[z]
                    /\ z \notin blind' => (sounded[z] + Charged(z) + Left(z))' <= Budget
  BY DEF LedgerInv
<1>1. /\ Charged(z) \in Nat /\ Left(z) \in Nat
  BY DEF LedgerInv, NoiseTyped, OpType, Charged, Left, Processes
<1>2. /\ Charged(z)' \in Nat /\ Left(z)' \in Nat
  BY DEF NoiseTyped, OpType, Charged, Left, Processes
<1>3. sounded[z] \in Nat /\ ledger[z] \in Nat /\ ledger'[z] \in Nat /\ Budget \in Nat
  BY OutputsAssumption DEF LedgerInv, NoiseTyped
<1>4. /\ sounded[z] + Charged(z) <= ledger[z]
      /\ z \notin blind => sounded[z] + Charged(z) + Left(z) <= Budget
  BY DEF LedgerInv
<1> QED BY <1>1, <1>2, <1>3, <1>4

\* The same for a step that does not touch the account at all.
LEMMA KeepsAll ==
    ASSUME LedgerInv, op' \in [Processes -> OpType], rows' \subseteq Outputs,
           UNCHANGED noiseVars,
           \A z \in Zones : Charged(z)' <= Charged(z) /\ Left(z)' <= Left(z)
    PROVE  LedgerInv'
<1>1. NoiseTyped' BY DEF LedgerInv, NoiseTyped, noiseVars
<1>2. UNCHANGED <<incident, ledger, sounded, blind>> BY DEF noiseVars
<1>3. \A z \in Zones : /\ incident'[z] # "rowless" => incident[z] # "rowless"
                       /\ ledger[z] <= ledger'[z]
  BY <1>2 DEF LedgerInv, NoiseTyped
<1> QED BY <1>1, <1>2, <1>3, Keeps

LEMMA Bystanders ==
    ASSUME LedgerInv, op' \in [Processes -> OpType], rows' \subseteq Outputs,
           UNCHANGED noiseVars, op'["engine"] = op["engine"]
    PROVE  LedgerInv'
<1>1. \A z \in Zones : Charged(z)' <= Charged(z) /\ Left(z)' <= Left(z)
  BY OutputsAssumption DEF LedgerInv, NoiseTyped, OpType, Charged, Left, Processes
<1> QED BY <1>1, KeepsAll

----------------------------------------------------------------------------
(* One lemma per action that moves op, the rows or the account *)

\* openIncident: an incident that lost its row never gets one.
LEMMA OpenKeeps ==
    ASSUME LedgerInv, NEW z \in Zones, NEW i \in Incidents, OpenIncident(z, i)
    PROVE  /\ incident' \in [Zones -> {"none"} \cup Incidents] /\ incident'[z] = i
           /\ \A x \in Zones : incident'[x] # "rowless" => incident[x] # "rowless"
BY DEF LedgerInv, NoiseTyped, OpenIncident, Incidents

LEMMA SideLedger ==
    ASSUME LedgerInv, NEW e \in OpType, Side(e),
           incident' \in [Zones -> {"none"} \cup Incidents],
           \A x \in Zones : incident'[x] # "rowless" => incident[x] # "rowless"
    PROVE  LedgerInv'
<1>1. /\ op' \in [Processes -> OpType] /\ op'["engine"] = op["engine"] /\ rows' \subseteq Outputs
      /\ UNCHANGED <<ledger, sounded, blind>>
  BY DEF LedgerInv, NoiseTyped, Side, Processes
<1>2. NoiseTyped' BY <1>1 DEF LedgerInv, NoiseTyped
<1>3. \A z \in Zones : /\ ledger[z] <= ledger'[z]
                       /\ Charged(z)' <= Charged(z) /\ Left(z)' <= Left(z)
  BY <1>1, OutputsAssumption DEF LedgerInv, NoiseTyped, OpType, Charged, Left, Processes
<1> QED BY <1>1, <1>2, <1>3, Keeps

LEMMA StopUnownedLedger ==
    ASSUME LedgerInv, NEW z \in Zones, StopUnowned(z) PROVE LedgerInv'
<1> DEFINE e == [Idle EXCEPT !.kind = "unowned", !.zone = z, !.todo = RowsOf(z)]
<1>1. e \in OpType
  BY IdleTyped DEF LedgerInv, NoiseTyped, OpType, OpKinds, RowsOf, Idle
<1> HIDE DEF e
<1>2. /\ incident' \in [Zones -> {"none"} \cup Incidents]
      /\ \A x \in Zones : incident'[x] # "rowless" => incident[x] # "rowless"
  BY DEF StopUnowned, SideOnly, LedgerInv, NoiseTyped
<1> QED BY <1>1, <1>2, SideLedger DEF StopUnowned, e

LEMMA AdoptBoundedLedger ==
    ASSUME LedgerInv, NEW z \in Zones, AdoptBounded(z) PROVE LedgerInv'
<1> DEFINE heard == {o \in RowsOf(z) : IsSounding(o)}
<1>1. PICK i \in Incidents :
        /\ OpenIncident(z, i)
        /\ Side([Idle EXCEPT !.kind = "adopt", !.zone = z,
                             !.todo = IF i = "row" THEN heard ELSE {}])
  BY DEF AdoptBounded
<1>2. heard \subseteq Outputs BY DEF LedgerInv, NoiseTyped, RowsOf
<1> HIDE DEF heard
<1> DEFINE e == [Idle EXCEPT !.kind = "adopt", !.zone = z,
                             !.todo = IF i = "row" THEN heard ELSE {}]
<1>3. e \in OpType BY <1>2, IdleTyped DEF OpType, OpKinds, Idle
<1>4. Side(e) BY <1>1
<1> HIDE DEF e
<1> QED BY <1>1, <1>3, <1>4, OpenKeeps, SideLedger

LEMMA TestFireLedger ==
    ASSUME LedgerInv, NEW o \in Outputs, TestFire(o) PROVE LedgerInv'
<1> DEFINE e == [Idle EXCEPT !.kind = "test", !.zone = Zone[o], !.todo = {o}, !.pc = "write"]
<1>1. e \in OpType
  BY IdleTyped DEF OpType, OpKinds, Idle, Zones
<1> HIDE DEF e
<1>2. /\ incident' \in [Zones -> {"none"} \cup Incidents]
      /\ \A x \in Zones : incident'[x] # "rowless" => incident[x] # "rowless"
  BY DEF TestFire, SideOnly, LedgerInv, NoiseTyped
<1> QED BY <1>1, <1>2, SideLedger DEF TestFire, e

LEMMA StopAllLedger ==
    ASSUME LedgerInv, NEW z \in Zones, StopAll(z) PROVE LedgerInv'
<1> DEFINE e == [Idle EXCEPT !.kind = "stop", !.zone = z, !.todo = RowsOf(z)]
<1>1. e \in OpType /\ e.left = 0 /\ e.noise = 0
  BY IdleTyped DEF LedgerInv, NoiseTyped, OpType, OpKinds, RowsOf, Idle
<1>2. op["engine"] = Idle /\ op' = [op EXCEPT !["engine"] = e] /\ UNCHANGED <<rows, noiseVars>>
  BY DEF StopAll
<1> HIDE DEF e
<1>3. op' \in [Processes -> OpType] /\ op'["engine"] = e
  BY <1>1, <1>2 DEF LedgerInv, NoiseTyped, Processes
<1>4. \A x \in Zones : Charged(x) = 0 /\ Left(x) = 0 /\ Charged(x)' = 0 /\ Left(x)' = 0
  BY <1>1, <1>2, <1>3 DEF Charged, Left, Idle
<1> QED BY <1>2, <1>3, <1>4, KeepsAll DEF LedgerInv, NoiseTyped

LEMMA FinishLedger ==
    ASSUME LedgerInv, NEW p \in Processes, Finish(p) PROVE LedgerInv'
<1>1. op' \in [Processes -> OpType] /\ UNCHANGED <<rows, noiseVars>>
  BY IdleTyped DEF LedgerInv, NoiseTyped, Finish
<1>2. op'["engine"] = op["engine"] \/ op'["engine"] = Idle
  BY DEF LedgerInv, NoiseTyped, Finish, Processes
<1>3. \A x \in Zones : Charged(x)' <= Charged(x) /\ Left(x)' <= Left(x)
  BY <1>2, OutputsAssumption DEF LedgerInv, NoiseTyped, OpType, Charged, Left, Idle, Processes
<1> QED BY <1>1, <1>3, KeepsAll DEF LedgerInv, NoiseTyped

\* Steps of a process inside its operation: the zone, the charge and the
\* allowance stay.
LEMMA InsideOp ==
    ASSUME LedgerInv, op' \in [Processes -> OpType], UNCHANGED <<rows, noiseVars>>,
           op'["engine"].zone = op["engine"].zone,
           op'["engine"].noise = op["engine"].noise,
           op'["engine"].left = op["engine"].left
    PROVE  LedgerInv'
<1>1. \A x \in Zones : Charged(x)' <= Charged(x) /\ Left(x)' <= Left(x)
  BY OutputsAssumption DEF LedgerInv, NoiseTyped, OpType, Charged, Left, Processes
<1> QED BY <1>1, KeepsAll DEF LedgerInv, NoiseTyped

LEMMA UnclaimLedger ==
    ASSUME LedgerInv, NEW p \in Processes, Unclaim(p) PROVE LedgerInv'
<1>1. /\ op' \in [Processes -> OpType] /\ UNCHANGED <<rows, noiseVars>>
      /\ op'["engine"].zone = op["engine"].zone
      /\ op'["engine"].noise = op["engine"].noise
      /\ op'["engine"].left = op["engine"].left
  BY DEF LedgerInv, NoiseTyped, Unclaim, OpType, Processes
<1> QED BY <1>1, InsideOp

LEMMA TakeOverLedger ==
    ASSUME LedgerInv, NEW p \in Processes, TakeOver(p) PROVE LedgerInv'
<1>1. PICK a \in Activations : op' = [op EXCEPT ![p].pc = "await", ![p].own = a]
  BY DEF TakeOver
<1>2. /\ op' \in [Processes -> OpType] /\ UNCHANGED <<rows, noiseVars>>
      /\ op'["engine"].zone = op["engine"].zone
      /\ op'["engine"].noise = op["engine"].noise
      /\ op'["engine"].left = op["engine"].left
  BY <1>1 DEF LedgerInv, NoiseTyped, TakeOver, OpType, Processes
<1> QED BY <1>2, InsideOp

LEMMA StopWriteLedger ==
    ASSUME LedgerInv, NEW a \in Activations, StopWrite(a) PROVE LedgerInv'
<1> DEFINE next(p) == [op[p] EXCEPT !.pc = "next", !.own = None, !.todo = @ \ {Least(@)}]
<1>1. /\ op' = [p \in Processes |-> IF op[p].own = a THEN next(p) ELSE op[p]]
      /\ UNCHANGED <<rows, noiseVars>>
  BY DEF StopWrite
<1>2. \A p \in Processes : /\ next(p) \in OpType
                           /\ next(p).zone = op[p].zone
                           /\ next(p).noise = op[p].noise
                           /\ next(p).left = op[p].left
  BY DEF LedgerInv, NoiseTyped, OpType
<1> HIDE DEF next
<1>3. /\ op' \in [Processes -> OpType]
      /\ op'["engine"].zone = op["engine"].zone
      /\ op'["engine"].noise = op["engine"].noise
      /\ op'["engine"].left = op["engine"].left
  BY <1>1, <1>2 DEF LedgerInv, NoiseTyped, Processes
<1> QED BY <1>1, <1>3, InsideOp

LEMMA FireArmLedger ==
    ASSUME LedgerInv, FireArm PROVE LedgerInv'
<1>1. /\ op' \in [Processes -> OpType] /\ UNCHANGED <<rows, noiseVars>>
      /\ op'["engine"].zone = op["engine"].zone
      /\ op'["engine"].noise = op["engine"].noise
      /\ op'["engine"].left = op["engine"].left
  BY DEF LedgerInv, NoiseTyped, FireArm, OpType, Processes
<1> QED BY <1>1, InsideOp

\* The allowance of a cycle is what the ledger leaves of the budget.
LEMMA FireCycleLedger ==
    ASSUME LedgerInv, NEW z \in Zones, FireCycle(z) PROVE LedgerInv'
<1> USE OutputsAssumption
<1>1. PICK opts \in [degraded : BOOLEAN, preAlarm : BOOLEAN, silent : BOOLEAN, smoke : BOOLEAN],
           i \in Incidents, blinded \in BOOLEAN :
        /\ OpenIncident(z, i)
        /\ blind' = IF blinded THEN blind \cup {z} ELSE blind
        /\ op' = [op EXCEPT !["engine"] =
                    [Idle EXCEPT !.kind = "fire", !.zone = z,
                                 !.todo = {o \in RowsOf(z) : ClassEligible(Class[o], opts)},
                                 !.left = AcousticBudget(IF blinded \/ i = "rowless" THEN 0
                                                         ELSE ledger[z])]]
  BY DEF FireCycle
<1> DEFINE todo == {o \in RowsOf(z) : ClassEligible(Class[o], opts)}
           left == AcousticBudget(IF blinded \/ i = "rowless" THEN 0 ELSE ledger[z])
           e == [Idle EXCEPT !.kind = "fire", !.zone = z, !.todo = todo, !.left = left]
<1>2. UNCHANGED <<rows, ledger, sounded>> /\ op["engine"] = Idle BY DEF FireCycle
<1>3. /\ left \in 0 .. Budget
      /\ ~blinded /\ i # "rowless" => left = 0 \/ left + ledger[z] = Budget
      /\ ledger[z] \in Nat /\ sounded[z] \in Nat
  BY DEF AcousticBudget, LedgerInv, NoiseTyped
<1>4. todo \subseteq Outputs BY DEF LedgerInv, NoiseTyped, RowsOf
<1>5. op' = [op EXCEPT !["engine"] = e] BY <1>1
<1> HIDE DEF todo, left
<1>6. e \in OpType /\ e.zone = z /\ e.noise = 0 /\ e.left = left
  BY <1>3, <1>4, IdleTyped DEF OpType, OpKinds, Idle
<1> HIDE DEF e
<1>7. op' \in [Processes -> OpType] /\ op'["engine"] = e
  BY <1>5, <1>6 DEF LedgerInv, NoiseTyped, Processes
<1>8. /\ incident' \in [Zones -> {"none"} \cup Incidents] /\ incident'[z] = i
      /\ \A x \in Zones : incident'[x] # "rowless" => incident[x] # "rowless"
  BY <1>1, OpenKeeps
<1>9. NoiseTyped' BY <1>1, <1>2, <1>7, <1>8 DEF LedgerInv, NoiseTyped
<1>10. ASSUME NEW x \in Zones, incident'[x] # "rowless"
       PROVE  /\ (sounded[x] + Charged(x))' <= ledger'[x]
              /\ x \notin blind' => (sounded[x] + Charged(x) + Left(x))' <= Budget
  <2>1. Charged(x) = 0 /\ Left(x) = 0 BY <1>2, IdleTyped DEF Charged, Left, Idle
  <2>2. Charged(x)' = 0 /\ Left(x)' = IF x = z THEN left ELSE 0
    BY <1>6, <1>7 DEF Charged, Left
  <2>3. sounded[x] \in Nat /\ ledger[x] \in Nat BY DEF LedgerInv, NoiseTyped
  <2>4. sounded[x] <= ledger[x] /\ (x \notin blind => sounded[x] <= Budget)
    BY <1>8, <1>10, <2>1, <2>3 DEF LedgerInv
  <2>5. x \notin blind' => x \notin blind /\ (x = z => ~blinded) BY <1>1
  <2>6. x = z => i # "rowless" BY <1>8, <1>10
  <2> QED BY <1>2, <1>3, <2>2, <2>3, <2>4, <2>5, <2>6
<1> QED BY <1>9, <1>10 DEF LedgerInv

LEMMA ReserveBound ==
    ASSUME NEW group \in SUBSET Outputs, NEW left \in Nat
    PROVE  Reserve(group, left) \in Nat /\ Reserve(group, left) <= left
<1> DEFINE tones == {r \in group : Class[r] \in Acoustic}
<1>1. CASE tones = {} BY <1>1 DEF Reserve
<1>2. CASE tones # {}
  <2>1. Least(tones) \in Outputs BY <1>2, LeastIn
  <2>2. Duration[Least(tones)] \in Nat BY <2>1, OutputsAssumption
  <2> QED BY <1>2, <2>2 DEF Reserve
<1> QED BY <1>1, <1>2

LEMMA FireReserveLedger ==
    ASSUME LedgerInv, FireReserve PROVE LedgerInv'
<1> DEFINE e == op["engine"]
           group == Covered(e)
           noise == Reserve(group, e.left)
           past == [e EXCEPT !.todo = @ \ group]
           go == [past EXCEPT !.rows = group, !.pc = "write", !.noise = noise, !.left = @ - noise]
<1>1. e \in OpType BY DEF LedgerInv, NoiseTyped, Processes
<1>2. UNCHANGED <<rows, incident, sounded, blind>> /\ e.pc = "next" BY DEF FireReserve
<1>3. CASE op' = [op EXCEPT !["engine"] = past] /\ UNCHANGED ledger
  <2>1. past \in OpType /\ past.zone = e.zone /\ past.noise = e.noise /\ past.left = e.left
    BY <1>1 DEF OpType
  <2> HIDE DEF past
  <2>2. op' \in [Processes -> OpType] /\ op'["engine"] = past
    BY <1>3, <2>1 DEF LedgerInv, NoiseTyped, Processes
  <2> QED BY <1>2, <1>3, <2>1, <2>2, InsideOp DEF noiseVars
<1>4. CASE /\ op' = [op EXCEPT !["engine"] = go]
           /\ ledger' = IF incident[e.zone] = "rowless" THEN ledger
                        ELSE [ledger EXCEPT ![e.zone] = @ + noise]
  <2>1. group \subseteq Outputs
    <3>1. e.todo \subseteq Outputs /\ e.todo # {} BY <1>1 DEF FireReserve, OpType
    <3>2. Least(e.todo) \in Outputs BY <3>1, LeastIn
    <3> QED BY <3>1, <3>2 DEF Covered
  <2>2. e.left \in Nat /\ Budget \in Nat /\ e.left <= Budget /\ e.noise \in Nat
    BY <1>1, OutputsAssumption DEF OpType
  <2>3. noise \in Nat /\ noise <= e.left BY <2>1, <2>2, ReserveBound
  <2> HIDE DEF group, noise
  <2>4. go \in OpType /\ go.zone = e.zone /\ go.noise = noise /\ go.left = e.left - noise
    <3> HIDE DEF e
    <3>1. e.left - noise \in 0 .. Budget BY <2>2, <2>3
    <3>2. past \in OpType /\ past.zone = e.zone /\ past.left = e.left BY <1>1 DEF OpType
    <3> HIDE DEF past
    <3> QED BY <2>1, <2>3, <3>1, <3>2 DEF OpType
  <2> HIDE DEF go
  <2>5. op' \in [Processes -> OpType] /\ op'["engine"] = go
    BY <1>4, <2>4 DEF LedgerInv, NoiseTyped, Processes
  <2>6. NoiseTyped'
    <3>1. ledger' \in [Zones -> Nat]
      BY <1>4, <2>3, AddTyped DEF LedgerInv, NoiseTyped
    <3> QED BY <1>2, <2>5, <3>1 DEF LedgerInv, NoiseTyped
  <2>7. ASSUME NEW x \in Zones, incident'[x] # "rowless"
        PROVE  /\ (sounded[x] + Charged(x))' <= ledger'[x]
               /\ x \notin blind' => (sounded[x] + Charged(x) + Left(x))' <= Budget
    <3>1. sounded[x] \in Nat /\ ledger[x] \in Nat BY DEF LedgerInv, NoiseTyped
    <3>2. /\ sounded[x] + Charged(x) <= ledger[x]
          /\ x \notin blind => sounded[x] + Charged(x) + Left(x) <= Budget
      BY <1>2, <2>7 DEF LedgerInv
    <3>3. ledger'[x] = IF x = e.zone THEN ledger[x] + noise ELSE ledger[x]
      BY <1>2, <1>4, <2>7 DEF LedgerInv, NoiseTyped
    <3>4. CASE x = e.zone
      <4>1. Charged(x) = e.noise /\ Left(x) = e.left BY <3>4 DEF Charged, Left
      <4>2. Charged(x)' = noise /\ Left(x)' = e.left - noise
        BY <2>4, <2>5, <3>4 DEF Charged, Left
      <4> HIDE DEF e
      <4> QED BY <1>2, <2>2, <2>3, <3>1, <3>2, <3>3, <3>4, <4>1, <4>2
    <3>5. CASE x # e.zone
      <4>1. Charged(x) = 0 /\ Left(x) = 0 /\ Charged(x)' = 0 /\ Left(x)' = 0
        BY <2>4, <2>5, <3>5 DEF Charged, Left
      <4> QED BY <1>2, <3>1, <3>2, <3>3, <3>5, <4>1
    <3> QED BY <3>4, <3>5
  <2> QED BY <2>6, <2>7 DEF LedgerInv
<1> QED BY <1>3, <1>4 DEF FireReserve

LEMMA FireWriteLedger ==
    ASSUME LedgerInv, FireWrite PROVE LedgerInv'
<1> DEFINE e == op["engine"]
           done == [e EXCEPT !.rows = {}, !.pc = "next", !.noise = 0]
           arm == [e EXCEPT !.pc = "arm", !.noise = 0]
<1>1. e \in OpType BY DEF LedgerInv, NoiseTyped, Processes
<1>2. /\ UNCHANGED <<rows, incident, ledger, blind>>
      /\ sounded' = [sounded EXCEPT ![e.zone] = @ + e.noise]
  BY DEF FireWrite
<1>3. \/ op' = [op EXCEPT !["engine"] = done]
      \/ op' = [op EXCEPT !["engine"] = arm]
  BY DEF FireWrite
<1>4. /\ done \in OpType /\ done.zone = e.zone /\ done.noise = 0 /\ done.left = e.left
      /\ arm \in OpType /\ arm.zone = e.zone /\ arm.noise = 0 /\ arm.left = e.left
  BY <1>1 DEF OpType
<1> HIDE DEF done, arm
<1>5. /\ op' \in [Processes -> OpType]
      /\ op'["engine"].zone = e.zone /\ op'["engine"].noise = 0 /\ op'["engine"].left = e.left
  BY <1>3, <1>4 DEF LedgerInv, NoiseTyped, Processes
<1>6. e.noise \in Nat /\ e.left \in Nat BY <1>1, OutputsAssumption DEF OpType
<1>7. NoiseTyped'
  <2>1. sounded' \in [Zones -> Nat]
    BY <1>2, <1>6, AddTyped DEF LedgerInv, NoiseTyped
  <2> QED BY <1>2, <1>5, <2>1 DEF LedgerInv, NoiseTyped
<1>8. ASSUME NEW x \in Zones, incident'[x] # "rowless"
      PROVE  /\ (sounded[x] + Charged(x))' <= ledger'[x]
             /\ x \notin blind' => (sounded[x] + Charged(x) + Left(x))' <= Budget
  <2>1. sounded[x] \in Nat /\ ledger[x] \in Nat BY DEF LedgerInv, NoiseTyped
  <2>2. /\ sounded[x] + Charged(x) <= ledger[x]
        /\ x \notin blind => sounded[x] + Charged(x) + Left(x) <= Budget
    BY <1>2, <1>8 DEF LedgerInv
  <2>3. sounded'[x] = IF x = e.zone THEN sounded[x] + e.noise ELSE sounded[x]
    BY <1>2 DEF LedgerInv, NoiseTyped
  <2>4. Charged(x) = (IF x = e.zone THEN e.noise ELSE 0) /\ Charged(x)' = 0
        /\ Left(x)' = Left(x)
    BY <1>5 DEF Charged, Left
  <2>5. Left(x) \in Nat BY <1>6 DEF Left
  <2> HIDE DEF e
  <2> QED BY <1>2, <1>6, <2>1, <2>2, <2>3, <2>4, <2>5
<1> QED BY <1>7, <1>8 DEF LedgerInv

\* An adoption only adds to the ledger.
LEMMA AdoptLedger ==
    ASSUME LedgerInv, Adopt PROVE LedgerInv'
<1> DEFINE o == Least(op["side"].todo)
<1>1. o \in Outputs
  <2>1. op["side"].todo \subseteq Outputs /\ op["side"].todo # {}
    BY DEF Adopt, LedgerInv, NoiseTyped, OpType, Processes
  <2> QED BY <2>1, LeastIn
<1>2. Duration[o] \in Nat BY <1>1, OutputsAssumption
<1> HIDE DEF o
<1>3. /\ op' = [op EXCEPT !["side"].todo = @ \ {o}]
      /\ UNCHANGED <<rows, incident, sounded, blind>>
      /\ ledger' = ledger \/ ledger' = [ledger EXCEPT ![Zone[o]] = @ + Duration[o]]
                          \/ ledger' = [ledger EXCEPT ![Zone[o]] = @]
  BY DEF Adopt, o
<1>4. op' \in [Processes -> OpType] /\ op'["engine"] = op["engine"]
  BY <1>3 DEF LedgerInv, NoiseTyped, OpType, Processes
<1>5. /\ NoiseTyped'
      /\ \A z \in Zones : /\ incident'[z] # "rowless" => incident[z] # "rowless"
                          /\ ledger[z] <= ledger'[z]
  BY <1>2, <1>3, <1>4 DEF LedgerInv, NoiseTyped
<1>6. \A z \in Zones : Charged(z)' <= Charged(z) /\ Left(z)' <= Left(z)
  BY <1>4, OutputsAssumption DEF LedgerInv, NoiseTyped, OpType, Charged, Left, Processes
<1> QED BY <1>3, <1>5, <1>6, Keeps

----------------------------------------------------------------------------

LEMMA LedgerInit == Init => LedgerInv
<1> SUFFICES ASSUME Init PROVE LedgerInv OBVIOUS
<1>1. NoiseTyped
  BY IdleTyped, OutputsAssumption DEF Init, NoiseTyped
<1>2. \A z \in Zones : Charged(z) = 0 /\ Left(z) = 0 /\ sounded[z] = 0 /\ ledger[z] = 0
  BY IdleTyped DEF Init, Charged, Left, Idle, Processes
<1> QED BY <1>1, <1>2, OutputsAssumption DEF LedgerInv

LEMMA LedgerStep == LedgerInv /\ [Next]_vars => LedgerInv'
<1> SUFFICES ASSUME LedgerInv, [Next]_vars PROVE LedgerInv' OBVIOUS
<1>1. ASSUME UNCHANGED <<op, noiseVars>>, rows' \subseteq Outputs PROVE LedgerInv'
  BY <1>1, Bystanders DEF LedgerInv, NoiseTyped
<1>2. rows \subseteq Outputs BY DEF LedgerInv, NoiseTyped
<1>3. CASE \E z \in Zones : FireCycle(z) \/ StopAll(z) \/ StopUnowned(z) \/ AdoptBounded(z)
  BY <1>3, FireCycleLedger, StopAllLedger, StopUnownedLedger, AdoptBoundedLedger
<1>4. CASE \E o \in Outputs : TestFire(o) BY <1>4, TestFireLedger
<1>5. CASE \E o \in Outputs : Reload(o) BY <1>1, <1>2, <1>5 DEF Reload
<1>6. CASE EngineWork
  <2>1. "engine" \in Processes BY DEF Processes
  <2> QED BY <1>6, <2>1, FireReserveLedger, FireWriteLedger, FireArmLedger, UnclaimLedger,
             TakeOverLedger, FinishLedger DEF EngineWork, Work
<1>7. CASE SideWork
  <2>1. "side" \in Processes BY DEF Processes
  <2>2. ASSUME TestWrite \/ TestArm PROVE LedgerInv'
    <3>1. op' \in [Processes -> OpType] /\ op'["engine"] = op["engine"]
          /\ UNCHANGED <<rows, noiseVars>>
      BY <2>2, IdleTyped DEF TestWrite, TestArm, LedgerInv, NoiseTyped, OpType, Processes
    <3> QED BY <1>2, <3>1, Bystanders
  <2> QED BY <1>7, <2>1, <2>2, AdoptLedger, UnclaimLedger, TakeOverLedger, FinishLedger
          DEF SideWork, Work
<1>8. CASE \E a \in Activations : Callback(a)
  <2> SUFFICES ASSUME NEW a \in Activations, Callback(a) PROVE LedgerInv' BY <1>8
  <2>1. CASE TimerFires(a) BY <1>1, <1>2, <2>1 DEF TimerFires
  <2>2. CASE RunStop(a) BY <1>1, <1>2, <2>2 DEF RunStop
  <2>3. CASE StopWrite(a) BY <2>3, StopWriteLedger
  <2>4. CASE VerifyStop(a) BY <1>1, <1>2, <2>4 DEF VerifyStop
  <2> QED BY <2>1, <2>2, <2>3, <2>4 DEF Callback
<1>9. CASE \E ch \in Channels : DeviceEnds(ch) BY <1>1, <1>2, <1>9 DEF DeviceEnds
<1>10. CASE Shutdown BY <1>1, <1>2, <1>10 DEF Shutdown
<1>11. CASE ShutdownStop BY <1>1, <1>2, <1>11 DEF ShutdownStop
<1>12. CASE StopWatchdogs BY <1>1, <1>2, <1>12 DEF StopWatchdogs
<1>13. CASE EngineStop BY <1>1, <1>2, <1>13 DEF EngineStop
<1>14. CASE Rest \/ UNCHANGED vars BY <1>1, <1>2, <1>14 DEF Rest, vars
<1> QED BY <1>3, <1>4, <1>5, <1>6, <1>7, <1>8, <1>9, <1>10, <1>11, <1>12, <1>13, <1>14
        DEF Next

LEMMA LedgerInvariant == Spec => []LedgerInv
BY LedgerInit, LedgerStep, PTL DEF Spec

\* reserveAcoustic and acousticBudget: for an incident that has a row the ledger
\* is charged before the device is told and the allowance is what it leaves of the
\* budget, so the noise that was commanded never exceeds the account, and the
\* budget only when a cycle could not read the ledger.  The incident with the id 0,
\* whose row could not be created, is outside the theorem: it has no account.
THEOREM LedgerIsCovering == Spec => []LedgerCovers
<1>1. LedgerInv => LedgerCovers
  <2> SUFFICES ASSUME LedgerInv, NEW z \in Zones, incident[z] # "rowless"
               PROVE  sounded[z] <= ledger[z] /\ (z \notin blind => sounded[z] <= Budget)
    BY DEF LedgerCovers
  <2>1. Charged(z) \in Nat /\ Left(z) \in Nat /\ sounded[z] \in Nat /\ ledger[z] \in Nat
    BY OutputsAssumption DEF LedgerInv, NoiseTyped, OpType, Charged, Left, Processes
  <2> QED BY <2>1, OutputsAssumption DEF LedgerInv
<1> QED BY <1>1, LedgerInvariant, PTL

----------------------------------------------------------------------------
(* Who stops a sounder *)

ActType == [out : Outputs \cup {None}, phase : Phases, rounds : 0 .. Window]

\* The records f and the map g of current activations, over the rows K: a
\* record in use is for a row, and the current record of a row is for that row.
Records(f, g, K) ==
    /\ f \in [Activations -> ActType]
    /\ g \in [Outputs -> Activations \cup {None}]
    /\ \A a \in Activations : f[a].phase = "free" \/ f[a].out \in K
    /\ \A o \in Outputs : g[o] # None => f[g[o]].out = o /\ f[g[o]].phase # "free"

\* What process p may be doing (e), given the records f, the rows K there are or
\* were and the zones Z in alarm: a stop pass that waits for its write is the
\* record it took over with, a cycle works for one zone, which is in alarm.
Fits(p, e, f, K, Z) ==
    /\ e.todo \cup e.rows \subseteq K
    /\ e.own # None => /\ e.pc = "await"
                       /\ f[e.own].phase = "stop" /\ f[e.own].out = Least(e.todo)
    /\ e.pc \in {"replace", "await"} => e.kind \in {"stop", "unowned"} /\ e.todo # {}
    /\ e.kind = "test" => e.todo # {}
    /\ p = "engine" =>
         /\ e.kind \in {"idle", "fire", "stop"}
         /\ e.kind = "fire" => e.zone \in Z /\ (e.pc # "next" => e.rows # {})
         /\ e.kind \in {"fire", "stop"} => \A x \in e.todo \cup e.rows : Zone[x] = e.zone

Wired ==
    /\ on \in [Channels -> {"off", "bounded", "latched"}]
    /\ gone \subseteq Outputs
    /\ demands \subseteq rows \cup gone
    /\ failed \subseteq rows \cup gone
    /\ Records(act, active, rows \cup gone)
    /\ \A p \in Processes : Fits(p, op[p], act, rows \cup gone, alarms)

\* A claim belongs to a zone in alarm, or the StopAll of its zone has not come to
\* it yet; a StopAll past its decision has released its claim and found no other.
Claimed ==
    /\ \A r \in demands :
         \/ r \in gone \/ Zone[r] \in alarms
         \/ op["engine"].kind = "stop" /\ r \in op["engine"].todo
    /\ op["engine"].kind = "stop" /\ op["engine"].pc \in {"replace", "await"} =>
         /\ Least(op["engine"].todo) \notin demands
         /\ ~ForeignRemains(Least(op["engine"].todo))

\* The StopAll under way still has its activation for o to come.
ToStop(o) ==
    /\ op["engine"].kind = "stop" /\ o \in op["engine"].todo
    /\ ~(op["engine"].pc = "await" /\ o = Least(op["engine"].todo))

Held(o) == \/ active[o] # None \/ ToStop(o) \/ o \in failed \cup gone
           \/ o \in rows /\ Zone[o] \in alarms

\* SounderGuarded without the chains that have been replaced and the passes of
\* StopUnowned: these end without a successor.
Guarded ==
    life = "up" =>
        \A ch \in Channels :
            on[ch] = "latched" /\ SounderChannel(ch) =>
                \E o \in Outputs : Channel[o] = ch /\ Held(o)

Watch == Wired /\ Claimed /\ Guarded

----------------------------------------------------------------------------
(* The records of the activations *)

\* No stop pass loses its record.
Keeping(f, g) == \A a \in Activations : f[a].phase = "stop" => g[a] = f[a]

LEMMA FreeTyped == Free \in ActType /\ None \notin Activations /\ None \notin Outputs
BY OutputsAssumption DEF Free, ActType, Phases

LEMMA CancelledRecords ==
    ASSUME NEW K, Records(act, active, K), NEW o \in Outputs
    PROVE  /\ Cancelled(act, o) \in [Activations -> ActType]
           /\ \A b \in Activations :
                /\ Cancelled(act, o)[b] = act[b] \/ Cancelled(act, o)[b] = Free
                /\ b # active[o] \/ act[b].phase = "stop" => Cancelled(act, o)[b] = act[b]
<1>1. act \in [Activations -> ActType] BY DEF Records
<1> QED BY <1>1, FreeTyped DEF Cancelled, Pending

LEMMA ReplaceRecords ==
    ASSUME NEW K, Records(act, active, K), NEW o \in Outputs, o \in K, NEW a,
           NEW ph \in {"armed", "stop"}, Replace(o, a, ph)
    PROVE  /\ Records(act', active', K) /\ Keeping(act, act')
           /\ a \in Activations /\ active' = [active EXCEPT ![o] = a]
           /\ act'[a].out = o /\ act'[a].phase = ph
<1> DEFINE f == Cancelled(act, o)
           r == [out |-> o, phase |-> ph, rounds |-> 0]
<1>1. /\ a \in Activations /\ act[a].phase = "free"
      /\ active' = [active EXCEPT ![o] = a] /\ act' = [f EXCEPT ![a] = r]
  BY DEF Replace
<1>2. /\ f \in [Activations -> ActType]
      /\ \A b \in Activations :
           /\ f[b] = act[b] \/ f[b] = Free
           /\ b # active[o] \/ act[b].phase = "stop" => f[b] = act[b]
  BY CancelledRecords
<1>3. r \in ActType BY OutputsAssumption DEF ActType, Phases, Pending
<1>4. /\ act \in [Activations -> ActType] /\ active \in [Outputs -> Activations \cup {None}]
      /\ \A b \in Activations : act[b].phase = "free" \/ act[b].out \in K
      /\ \A x \in Outputs : active[x] # None => act[active[x]].out = x
                                               /\ act[active[x]].phase # "free"
  BY DEF Records
<1>5. r.out = o /\ r.phase = ph /\ Free.phase = "free" BY DEF Free
<1> HIDE DEF f, r
<1>6. act' \in [Activations -> ActType] /\ active' \in [Outputs -> Activations \cup {None}]
  BY <1>1, <1>2, <1>3, <1>4
<1>7. act'[a] = r /\ \A b \in Activations : b # a => act'[b] = f[b] BY <1>1, <1>2
<1>8. \A b \in Activations : act'[b].phase = "free" \/ act'[b].out \in K BY <1>2, <1>4, <1>5, <1>7
<1>9. ASSUME NEW x \in Outputs, active'[x] # None
      PROVE  act'[active'[x]].out = x /\ act'[active'[x]].phase # "free"
  <2>1. CASE x = o BY <1>1, <1>4, <1>5, <1>7, <2>1
  <2>2. CASE x # o
    <3>1. active'[x] = active[x] /\ active[x] \in Activations /\ active[x] # None
      BY <1>1, <1>4, <1>9, <2>2
    <3>2. active[x] # a BY <1>1, <1>4, <3>1
    <3>3. active[x] # active[o] BY <1>4, <2>2, <3>1
    <3> QED BY <1>2, <1>4, <1>7, <3>1, <3>2, <3>3
  <2> QED BY <2>1, <2>2
<1>10. Keeping(act, act')
  <2> SUFFICES ASSUME NEW b \in Activations, act[b].phase = "stop" PROVE act'[b] = act[b]
    BY DEF Keeping
  <2> QED BY <1>1, <1>2, <1>7
<1>11. Records(act', active', K) BY <1>6, <1>8, <1>9 DEF Records
<1> QED BY <1>1, <1>5, <1>7, <1>10, <1>11

LEMMA ArmRecords ==
    ASSUME NEW K, Records(act, active, K), NEW o \in Outputs, o \in K, ArmStopWatchdog(o)
    PROVE  /\ Records(act', active', K) /\ Keeping(act, act')
           /\ active'[o] # None /\ \A x \in Outputs : active[x] # None => active'[x] # None
<1>1. PICK a \in Activations : Replace(o, a, "armed") BY DEF ArmStopWatchdog
<1>2. /\ Records(act', active', K) /\ Keeping(act, act')
      /\ active' = [active EXCEPT ![o] = a]
  BY <1>1, ReplaceRecords
<1>3. active \in [Outputs -> Activations \cup {None}] BY DEF Records
<1> QED BY <1>2, <1>3, FreeTyped

LEMMA CancelRecords ==
    ASSUME NEW K, Records(act, active, K), NEW o \in Outputs, CancelWatchdog(o)
    PROVE  /\ Records(act', active', K) /\ Keeping(act, act')
           /\ \A x \in Outputs : x # o => active'[x] = active[x]
<1> DEFINE f == Cancelled(act, o)
<1>1. act' = f /\ active' = [active EXCEPT ![o] = None] BY DEF CancelWatchdog
<1>2. /\ f \in [Activations -> ActType]
      /\ \A b \in Activations :
           /\ f[b] = act[b] \/ f[b] = Free
           /\ b # active[o] \/ act[b].phase = "stop" => f[b] = act[b]
  BY CancelledRecords
<1>3. /\ active \in [Outputs -> Activations \cup {None}]
      /\ \A b \in Activations : act[b].phase = "free" \/ act[b].out \in K
      /\ \A x \in Outputs : active[x] # None => act[active[x]].out = x
                                               /\ act[active[x]].phase # "free"
  BY DEF Records
<1> HIDE DEF f
<1>4. active' \in [Outputs -> Activations \cup {None}] BY <1>1, <1>3
<1>5. \A b \in Activations : act'[b].phase = "free" \/ act'[b].out \in K BY <1>1, <1>2, <1>3 DEF Free
<1>6. ASSUME NEW x \in Outputs, active'[x] # None
      PROVE  act'[active'[x]].out = x /\ act'[active'[x]].phase # "free"
  <2>1. x # o /\ active'[x] = active[x] /\ active[x] \in Activations
    BY <1>1, <1>3, <1>6
  <2>2. active[x] # active[o] BY <1>3, <1>6, <2>1
  <2> QED BY <1>1, <1>2, <1>3, <1>6, <2>1, <2>2
<1>7. Keeping(act, act') BY <1>1, <1>2 DEF Keeping
<1>8. Records(act', active', K) BY <1>1, <1>2, <1>4, <1>5, <1>6 DEF Records
<1> QED BY <1>1, <1>3, <1>7, <1>8

\* The end of a thread takes the record out of the map, and no other.
LEMMA ClearRecords ==
    ASSUME NEW K, Records(act, active, K), NEW a \in Activations,
           act[a].phase # "stop", ClearActivation(a)
    PROVE  /\ Records(act', active', K) /\ Keeping(act, act')
           /\ \A x \in Outputs : x # act[a].out => active'[x] = active[x]
<1>1. /\ act' = [act EXCEPT ![a] = Free]
      /\ active' = [o \in Outputs |-> IF active[o] = a THEN None ELSE active[o]]
  BY DEF ClearActivation
<1>2. /\ act \in [Activations -> ActType] /\ active \in [Outputs -> Activations \cup {None}]
      /\ \A b \in Activations : act[b].phase = "free" \/ act[b].out \in K
      /\ \A x \in Outputs : active[x] # None => act[active[x]].out = x
                                               /\ act[active[x]].phase # "free"
  BY DEF Records
<1>3. act' \in [Activations -> ActType] /\ active' \in [Outputs -> Activations \cup {None}]
  BY <1>1, <1>2, FreeTyped
<1>4. \A b \in Activations : act'[b] = IF b = a THEN Free ELSE act[b] BY <1>1, <1>2
<1>5. \A b \in Activations : act'[b].phase = "free" \/ act'[b].out \in K BY <1>2, <1>4 DEF Free
<1>6. ASSUME NEW x \in Outputs, active'[x] # None
      PROVE  act'[active'[x]].out = x /\ act'[active'[x]].phase # "free"
  BY <1>1, <1>2, <1>4, <1>6
<1>7. Keeping(act, act') BY <1>4 DEF Keeping
<1>8. Records(act', active', K) BY <1>3, <1>5, <1>6 DEF Records
<1>9. \A x \in Outputs : x # act[a].out => active'[x] = active[x]
  BY <1>1, <1>2, FreeTyped
<1> QED BY <1>7, <1>8, <1>9

\* A change of a record's phase or rounds that leaves its row alone.
LEMMA PhaseRecords ==
    ASSUME NEW K, Records(act, active, K), NEW a \in Activations, act[a].phase \notin {"free", "stop"},
           act' \in [Activations -> ActType], active' = active,
           act'[a].out = act[a].out, act'[a].phase # "free",
           \A b \in Activations : b # a => act'[b] = act[b]
    PROVE  Records(act', active', K) /\ Keeping(act, act')
<1>1. Records(act', active', K)
  <2>1. \A b \in Activations : act'[b].phase = "free" \/ act'[b].out \in K BY DEF Records
  <2>2. ASSUME NEW x \in Outputs, active'[x] # None
        PROVE  act'[active'[x]].out = x /\ act'[active'[x]].phase # "free"
    <3>1. active[x] \in Activations BY <2>2 DEF Records
    <3>2. act[active[x]].out = x /\ act[active[x]].phase # "free" BY <2>2 DEF Records
    <3> QED BY <3>1, <3>2
  <2> QED BY <2>1, <2>2 DEF Records
<1>2. Keeping(act, act') BY DEF Keeping
<1> QED BY <1>1, <1>2

----------------------------------------------------------------------------
(* The processes, the claims and the guards *)

LEMMA IdleFits ==
    ASSUME NEW p, NEW f, NEW K, NEW Z PROVE Fits(p, Idle, f, K, Z)
BY DEF Fits, Idle

LEMMA FitsKept ==
    ASSUME NEW p, NEW e \in OpType, NEW f, NEW g, NEW K, NEW Z, NEW Y,
           Fits(p, e, f, K, Z), Keeping(f, g), Z \subseteq Y \/ p # "engine"
    PROVE  Fits(p, e, g, K, Y)
<1>1. e.own \in Activations \cup {None} BY DEF OpType
<1>2. e.own # None => /\ e.pc = "await"
                      /\ g[e.own].phase = "stop" /\ g[e.own].out = Least(e.todo)
  BY <1>1 DEF Fits, Keeping
<1>3. p = "engine" /\ e.kind = "fire" => e.zone \in Y BY DEF Fits
<1> QED BY <1>2, <1>3 DEF Fits

\* The other process keeps its place when one of them moves.
LEMMA OthersFit ==
    ASSUME NEW K, NEW p \in Processes, NEW e,
           op \in [Processes -> OpType],
           \A q \in Processes : Fits(q, op[q], act, K, alarms),
           Keeping(act, act'), alarms \subseteq alarms' \/ p = "engine",
           op' = [op EXCEPT ![p] = e], Fits(p, e, act', K, alarms')
    PROVE  \A q \in Processes : Fits(q, op'[q], act', K, alarms')
<1> SUFFICES ASSUME NEW q \in Processes PROVE Fits(q, op'[q], act', K, alarms') OBVIOUS
<1>1. CASE q = p BY <1>1
<1>2. CASE q # p
  <2>1. op'[q] = op[q] /\ op[q] \in OpType BY <1>2
  <2> QED BY <2>1, FitsKept
<1> QED BY <1>1, <1>2

LEMMA AllFit ==
    ASSUME NEW K, op \in [Processes -> OpType],
           \A q \in Processes : Fits(q, op[q], act, K, alarms),
           Keeping(act, act'), UNCHANGED <<op, alarms>>
    PROVE  \A q \in Processes : Fits(q, op'[q], act', K, alarms')
<1> SUFFICES ASSUME NEW q \in Processes PROVE Fits(q, op'[q], act', K, alarms') OBVIOUS
<1>1. op'[q] = op[q] /\ op[q] \in OpType OBVIOUS
<1> QED BY <1>1, FitsKept

\* The row a pass is at, and the rows of a cycle.
LEMMA RowsKnown ==
    ASSUME LedgerInv, Wired, NEW p \in Processes
    PROVE  /\ op[p] \in OpType
           /\ Fits(p, op[p], act, rows \cup gone, alarms)
           /\ rows \cup gone \subseteq Outputs
           /\ op[p].todo # {} => /\ Least(op[p].todo) \in op[p].todo
                                 /\ Least(op[p].todo) \in rows \cup gone
           /\ op[p].rows # {} => /\ Least(op[p].rows) \in op[p].rows
                                 /\ Least(op[p].rows) \in rows \cup gone
<1>1. op[p] \in OpType BY DEF LedgerInv, NoiseTyped
<1>2. Fits(p, op[p], act, rows \cup gone, alarms) /\ rows \cup gone \subseteq Outputs
  BY DEF Wired, LedgerInv, NoiseTyped
<1>3. op[p].todo \cup op[p].rows \subseteq rows \cup gone BY <1>2 DEF Fits
<1> QED BY <1>1, <1>2, <1>3, LeastIn

\* The row of a claim is held, and not by an activation that may end: whoever
\* defers to the claim leaves the channel in good hands.
LEMMA ClaimHeld ==
    ASSUME LedgerInv, Wired, Claimed, NEW r \in demands
    PROVE  /\ r \in Outputs
           /\ r \in gone \/ (r \in rows /\ Zone[r] \in alarms) \/ ToStop(r)
<1>1. r \in rows \cup gone /\ r \in Outputs
  BY DEF Wired, LedgerInv, NoiseTyped
<1>2. CASE r \in gone \/ Zone[r] \in alarms BY <1>1, <1>2
<1>3. CASE op["engine"].kind = "stop" /\ r \in op["engine"].todo
  <2>1. op["engine"].pc = "await" => r # Least(op["engine"].todo) BY <1>3 DEF Claimed
  <2> QED BY <1>1, <1>3, <2>1 DEF ToStop
<1> QED BY <1>2, <1>3 DEF Claimed

LEMMA HeldKept ==
    ASSUME NEW o, Held(o), active[o] # None => active'[o] # None,
           op'["engine"] = op["engine"],
           failed \cup gone \subseteq failed' \cup gone', rows \subseteq rows' \cup gone',
           alarms \subseteq alarms'
    PROVE  Held(o)'
BY DEF Held, ToStop

\* A step keeps the guard when whoever held a channel still does, or another row.
LEMMA GuardKept ==
    ASSUME Guarded, life' = "up" => life = "up",
           \A ch \in Channels : on'[ch] = "latched" =>
               \/ on[ch] = "latched" /\ \A o \in Outputs : Channel[o] = ch /\ Held(o) =>
                                          \E x \in Outputs : Channel[x] = ch /\ Held(x)'
               \/ \E x \in Outputs : Channel[x] = ch /\ Held(x)'
    PROVE  Guarded'
<1> SUFFICES ASSUME life' = "up", NEW ch \in Channels, on'[ch] = "latched", SounderChannel(ch)
             PROVE  \E x \in Outputs : Channel[x] = ch /\ Held(x)'
  BY DEF Guarded, SounderChannel
<1>1. CASE \E x \in Outputs : Channel[x] = ch /\ Held(x)' BY <1>1
<1>2. CASE on[ch] = "latched" /\ \A o \in Outputs : Channel[o] = ch /\ Held(o) =>
                                    \E x \in Outputs : Channel[x] = ch /\ Held(x)'
  <2>1. \E o \in Outputs : Channel[o] = ch /\ Held(o) BY <1>2 DEF Guarded
  <2> QED BY <1>2, <2>1
<1> QED BY <1>1, <1>2

\* Nothing about the claims changes but that some are released.
LEMMA ClaimsKept ==
    ASSUME Claimed, demands' \subseteq demands, gone \subseteq gone', alarms \subseteq alarms',
           op'["engine"] = op["engine"]
    PROVE  Claimed'
<1>1. \A r \in demands' :
         \/ r \in gone' \/ Zone[r] \in alarms'
         \/ op'["engine"].kind = "stop" /\ r \in op'["engine"].todo
  BY DEF Claimed
<1>2. op'["engine"].kind = "stop" /\ op'["engine"].pc \in {"replace", "await"} =>
         /\ Least(op'["engine"].todo) \notin demands'
         /\ ~ForeignRemains(Least(op["engine"].todo))'
  BY DEF Claimed, ForeignRemains
<1> QED BY <1>1, <1>2 DEF Claimed

----------------------------------------------------------------------------
(* One lemma per action *)

LEMMA Same == Keeping(act, act) BY DEF Keeping

LEMMA FireCycleWatch ==
    ASSUME LedgerInv, Watch, NEW z \in Zones, FireCycle(z) PROVE Watch'
<1>1. PICK opts \in [degraded : BOOLEAN, preAlarm : BOOLEAN, silent : BOOLEAN, smoke : BOOLEAN],
           i \in Incidents, blinded \in BOOLEAN :
        op' = [op EXCEPT !["engine"] =
                 [Idle EXCEPT !.kind = "fire", !.zone = z,
                              !.todo = {o \in RowsOf(z) : ClassEligible(Class[o], opts)},
                              !.left = AcousticBudget(IF blinded \/ i = "rowless" THEN 0
                                                      ELSE ledger[z])]]
  BY DEF FireCycle
<1> DEFINE n == AcousticBudget(IF blinded \/ i = "rowless" THEN 0 ELSE ledger[z])
           S == {o \in RowsOf(z) : ClassEligible(Class[o], opts)}
           e == [Idle EXCEPT !.kind = "fire", !.zone = z, !.todo = S, !.left = n]
<1>0. op' = [op EXCEPT !["engine"] = e] BY <1>1
<1>2. /\ e.kind = "fire" /\ e.zone = z /\ e.rows = {} /\ e.pc = "next" /\ e.own = None
      /\ e.todo \subseteq RowsOf(z)
  BY DEF Idle
<1> HIDE DEF e
<1>3. /\ UNCHANGED <<on, rows, gone, active, act, demands, failed, life>>
      /\ alarms' = alarms \cup {z} /\ op["engine"] = Idle
  BY DEF FireCycle
<1>4. op \in [Processes -> OpType] BY DEF LedgerInv, NoiseTyped
<1>5. op'["engine"] = e BY <1>0, <1>4 DEF Processes
<1>6. Fits("engine", e, act', rows \cup gone, alarms')
  BY <1>2, <1>3 DEF Fits, RowsOf
<1>7. \A q \in Processes : Fits(q, op'[q], act', rows \cup gone, alarms')
  <2>1. Keeping(act, act') BY <1>3, Same
  <2>2. "engine" \in Processes BY DEF Processes
  <2> QED BY <1>0, <1>4, <1>6, <2>1, <2>2, OthersFit DEF Watch, Wired
<1>8. Wired' BY <1>3, <1>7 DEF Watch, Wired
<1>9. Claimed' BY <1>2, <1>3, <1>5 DEF Watch, Claimed, Idle
<1>10. Guarded'
  <2>1. ASSUME NEW o, Held(o) PROVE Held(o)'
    BY <1>3, <2>1 DEF Held, ToStop, Idle
  <2> QED BY <1>3, <2>1, GuardKept DEF Watch
<1> QED BY <1>8, <1>9, <1>10 DEF Watch

LEMMA StopAllWatch ==
    ASSUME LedgerInv, Watch, NEW z \in Zones, StopAll(z) PROVE Watch'
<1> DEFINE e == [Idle EXCEPT !.kind = "stop", !.zone = z, !.todo = RowsOf(z)]
<1>1. op' = [op EXCEPT !["engine"] = e] BY DEF StopAll
<1>2. /\ e.kind = "stop" /\ e.zone = z /\ e.rows = {} /\ e.pc = "next" /\ e.own = None
      /\ e.todo = RowsOf(z)
  BY DEF Idle
<1> HIDE DEF e
<1>3. /\ UNCHANGED <<on, rows, gone, active, act, demands, failed, life>>
      /\ alarms' = alarms \ {z} /\ op["engine"] = Idle
  BY DEF StopAll
<1>4. op \in [Processes -> OpType] BY DEF LedgerInv, NoiseTyped
<1>5. op'["engine"] = e BY <1>1, <1>4 DEF Processes
<1>6. Fits("engine", e, act', rows \cup gone, alarms')
  BY <1>2, <1>3 DEF Fits, RowsOf
<1>7. \A q \in Processes : Fits(q, op'[q], act', rows \cup gone, alarms')
  <2>1. Keeping(act, act') BY <1>3, Same
  <2>2. "engine" \in Processes BY DEF Processes
  <2> QED BY <1>1, <1>4, <1>6, <2>1, <2>2, OthersFit DEF Watch, Wired
<1>8. Wired' BY <1>3, <1>7 DEF Watch, Wired
<1>9. Claimed'
  <2>1. ASSUME NEW r \in demands PROVE r \in gone \/ Zone[r] \in alarms \ {z} \/ r \in e.todo
    <3>1. r \in rows \cup gone BY DEF Watch, Wired
    <3>2. r \in gone \/ Zone[r] \in alarms BY <1>3 DEF Watch, Claimed, Idle
    <3> QED BY <1>2, <3>1, <3>2 DEF RowsOf
  <2> QED BY <1>2, <1>3, <1>5, <2>1 DEF Claimed
<1>10. Guarded'
  <2>1. ASSUME NEW o, Held(o) PROVE Held(o)'
    BY <1>2, <1>3, <1>5, <2>1 DEF Held, ToStop, Idle, RowsOf
  <2> QED BY <1>3, <2>1, GuardKept DEF Watch
<1> QED BY <1>8, <1>9, <1>10 DEF Watch

LEMMA SideWatch ==
    ASSUME LedgerInv, Watch, NEW e, Side(e), alarms \subseteq alarms',
           Fits("side", e, act, rows \cup gone, alarms')
    PROVE  Watch'
<1>1. /\ UNCHANGED <<on, rows, gone, active, act, demands, failed, life>>
      /\ op' = [op EXCEPT !["side"] = e]
  BY DEF Side
<1>2. op \in [Processes -> OpType] BY DEF LedgerInv, NoiseTyped
<1>3. op'["engine"] = op["engine"] BY <1>1, <1>2 DEF Processes
<1>4. Wired'
  <2>1. Keeping(act, act') BY <1>1, Same
  <2>2. "side" \in Processes /\ Fits("side", e, act', rows \cup gone, alarms')
    BY <1>1 DEF Processes
  <2>3. \A q \in Processes : Fits(q, op'[q], act', rows \cup gone, alarms')
    BY <1>1, <1>2, <2>1, <2>2, OthersFit DEF Watch, Wired
  <2> QED BY <1>1, <2>3 DEF Watch, Wired
<1>5. Claimed' BY <1>1, <1>3, ClaimsKept DEF Watch
<1>6. Guarded'
  <2>1. ASSUME NEW o, Held(o) PROVE Held(o)' BY <1>1, <1>3, <2>1, HeldKept
  <2> QED BY <1>1, <2>1, GuardKept DEF Watch
<1> QED BY <1>4, <1>5, <1>6 DEF Watch

LEMMA SideStartsWatch ==
    ASSUME LedgerInv, Watch,
           \/ \E z \in Zones : StopUnowned(z) \/ AdoptBounded(z)
           \/ \E o \in Outputs : TestFire(o)
    PROVE  Watch'
<1>1. ASSUME NEW z \in Zones, StopUnowned(z) PROVE Watch'
  <2> DEFINE e == [Idle EXCEPT !.kind = "unowned", !.zone = z, !.todo = RowsOf(z)]
  <2>1. Side(e) /\ UNCHANGED alarms BY <1>1 DEF StopUnowned, SideOnly
  <2>2. Fits("side", e, act, rows \cup gone, alarms') BY DEF Fits, Idle, RowsOf
  <2> HIDE DEF e
  <2> QED BY <2>1, <2>2, SideWatch
<1>2. ASSUME NEW z \in Zones, AdoptBounded(z) PROVE Watch'
  <2> DEFINE heard == {o \in RowsOf(z) : IsSounding(o)}
  <2>1. PICK i \in Incidents :
          Side([Idle EXCEPT !.kind = "adopt", !.zone = z,
                            !.todo = IF i = "row" THEN heard ELSE {}])
    BY <1>2 DEF AdoptBounded
  <2>2. alarms' = alarms \cup {z} BY <1>2 DEF AdoptBounded
  <2>3. heard \subseteq rows BY DEF RowsOf
  <2> HIDE DEF heard
  <2> DEFINE S == IF i = "row" THEN heard ELSE {}
             e == [Idle EXCEPT !.kind = "adopt", !.zone = z, !.todo = S]
  <2>4. Side(e) BY <2>1
  <2>5. S \subseteq rows BY <2>3
  <2> HIDE DEF S
  <2>6. Fits("side", e, act, rows \cup gone, alarms') BY <2>5 DEF Fits, Idle
  <2> HIDE DEF e
  <2> QED BY <2>2, <2>4, <2>6, SideWatch
<1>3. ASSUME NEW o \in Outputs, TestFire(o) PROVE Watch'
  <2> DEFINE e == [Idle EXCEPT !.kind = "test", !.zone = Zone[o], !.todo = {o}, !.pc = "write"]
  <2>1. Side(e) /\ UNCHANGED alarms /\ o \in rows BY <1>3 DEF TestFire, SideOnly
  <2>2. Fits("side", e, act, rows \cup gone, alarms') BY <2>1 DEF Fits, Idle
  <2> HIDE DEF e
  <2> QED BY <2>1, <2>2, SideWatch
<1> QED BY <1>1, <1>2, <1>3

\* A step of a cycle: it works on its own rows, whose zone is in alarm, so new
\* claims and new noise are held by the StopAll to come.
LEMMA CycleWatch ==
    ASSUME LedgerInv, Watch, NEW d,
           op["engine"].kind = "fire", op' = [op EXCEPT !["engine"] = d],
           d.kind = "fire", d.zone = op["engine"].zone, d.own = None,
           d.todo \cup d.rows \subseteq op["engine"].todo \cup op["engine"].rows,
           d.pc \in {"next", "write", "arm"}, d.pc # "next" => d.rows # {},
           UNCHANGED <<rows, gone, alarms, life>>,
           on' \in [Channels -> {"off", "bounded", "latched"}],
           \A ch \in Channels : on'[ch] = "latched" =>
               on[ch] = "latched" \/ \E x \in op["engine"].rows : Channel[x] = ch,
           Records(act', active', rows \cup gone), Keeping(act, act'),
           demands' \subseteq demands \cup op["engine"].todo \cup op["engine"].rows,
           failed \subseteq failed', failed' \subseteq rows \cup gone,
           \A x \in Outputs : active[x] # None => active'[x] # None \/ x \in failed'
    PROVE  Watch'
<1> DEFINE e == op["engine"]
<1>1. "engine" \in Processes /\ op \in [Processes -> OpType] /\ op'["engine"] = d
  BY DEF LedgerInv, NoiseTyped, Processes
<1>2. Fits("engine", e, act, rows \cup gone, alarms) /\ rows \cup gone \subseteq Outputs
  BY <1>1, RowsKnown DEF Watch
<1>3. /\ e.zone \in alarms
      /\ \A x \in e.todo \cup e.rows : x \in rows \cup gone /\ Zone[x] = e.zone
  BY <1>2 DEF Fits
<1>4. Fits("engine", d, act', rows \cup gone, alarms') BY <1>3 DEF Fits
<1>5. Wired'
  <2>1. \A q \in Processes : Fits(q, op'[q], act', rows \cup gone, alarms')
    BY <1>1, <1>4, OthersFit DEF Watch, Wired
  <2>2. demands' \subseteq rows \cup gone BY <1>3 DEF Watch, Wired
  <2> QED BY <2>1, <2>2 DEF Watch, Wired
<1>6. Claimed' BY <1>1, <1>3 DEF Watch, Claimed
<1>7. Guarded'
  <2>1. ASSUME NEW x \in Outputs, Held(x) PROVE Held(x)' BY <2>1 DEF Held, ToStop
  <2>2. ASSUME NEW x \in e.rows PROVE x \in Outputs /\ Held(x)' BY <1>2, <1>3 DEF Held
  <2> QED BY <2>1, <2>2, GuardKept DEF Watch
<1> QED BY <1>5, <1>6, <1>7 DEF Watch

LEMMA FireReserveWatch ==
    ASSUME LedgerInv, Watch, FireReserve PROVE Watch'
<1> DEFINE e == op["engine"]
           o == Least(e.todo)
           group == Covered(e)
           past == [e EXCEPT !.todo = @ \ group]
           noise == Reserve(group, e.left)
           go == [past EXCEPT !.rows = group, !.pc = "write", !.noise = noise, !.left = @ - noise]
<1>1. "engine" \in Processes BY DEF Processes
<1>2. e.kind = "fire" /\ e.pc = "next" /\ e.todo # {} BY DEF FireReserve
<1>3. /\ e \in OpType /\ Fits("engine", e, act, rows \cup gone, alarms)
      /\ rows \cup gone \subseteq Outputs /\ o \in e.todo /\ o \in rows \cup gone
  BY <1>1, <1>2, RowsKnown DEF Watch
<1>4. group \subseteq e.todo /\ o \in group BY <1>3 DEF Covered
<1>5. e.own = None /\ e.todo \cup e.rows \subseteq rows \cup gone BY <1>2, <1>3 DEF Fits
<1>6. /\ past.kind = "fire" /\ past.zone = e.zone /\ past.own = None /\ past.pc = "next"
      /\ past.todo = e.todo \ group /\ past.rows = e.rows
      /\ go.kind = "fire" /\ go.zone = e.zone /\ go.own = None /\ go.pc = "write"
      /\ go.todo = e.todo \ group /\ go.rows = group
  BY <1>2, <1>3, <1>5 DEF OpType
<1>7. UNCHANGED <<on, rows, gone, alarms, life>> BY DEF FireReserve
<1>8. /\ on \in [Channels -> {"off", "bounded", "latched"}] /\ failed \subseteq rows \cup gone
      /\ Records(act, active, rows \cup gone)
  BY DEF Watch, Wired
<1>9. \/ /\ op' = [op EXCEPT !["engine"] = past] /\ UNCHANGED <<active, act, demands>>
         /\ failed' = failed \/ failed' = failed \cup group
      \/ /\ op' = [op EXCEPT !["engine"] = go] /\ UNCHANGED failed
         /\ \/ demands' = demands \cup {o} /\ ArmStopWatchdog(o)
            \/ UNCHANGED <<active, act, demands>>
  BY DEF FireReserve
<1> HIDE DEF past, go, group, o
<1>10. CASE /\ op' = [op EXCEPT !["engine"] = past] /\ UNCHANGED <<active, act, demands>>
            /\ failed' = failed \/ failed' = failed \cup group
  <2>1. failed \subseteq failed' /\ failed' \subseteq rows \cup gone BY <1>4, <1>5, <1>8, <1>10
  <2>2. Records(act', active', rows \cup gone) /\ Keeping(act, act') BY <1>8, <1>10, Same
  <2>3. past.todo \cup past.rows \subseteq e.todo \cup e.rows BY <1>6
  <2> HIDE DEF e
  <2> QED BY <1>2, <1>6, <1>7, <1>8, <1>10, <2>1, <2>2, <2>3, CycleWatch DEF e
<1>11. CASE /\ op' = [op EXCEPT !["engine"] = go] /\ UNCHANGED failed
            /\ \/ demands' = demands \cup {o} /\ ArmStopWatchdog(o)
               \/ UNCHANGED <<active, act, demands>>
  <2>1. /\ Records(act', active', rows \cup gone) /\ Keeping(act, act')
        /\ \A x \in Outputs : active[x] # None => active'[x] # None
    <3>1. CASE ArmStopWatchdog(o) BY <1>3, <1>8, <3>1, ArmRecords
    <3>2. CASE UNCHANGED <<active, act>> BY <1>8, <3>2, Same
    <3> QED BY <1>11, <3>1, <3>2
  <2>2. demands' \subseteq demands \cup e.todo \cup e.rows BY <1>3, <1>11
  <2>3. go.todo \cup go.rows \subseteq e.todo \cup e.rows /\ go.rows # {} BY <1>4, <1>6
  <2>4. failed \subseteq failed' /\ failed' \subseteq rows \cup gone BY <1>8, <1>11
  <2> HIDE DEF e
  <2> QED BY <1>2, <1>6, <1>7, <1>8, <1>11, <2>1, <2>2, <2>3, <2>4, CycleWatch DEF e
<1> QED BY <1>9, <1>10, <1>11

LEMMA FireWriteWatch ==
    ASSUME LedgerInv, Watch, FireWrite PROVE Watch'
<1> DEFINE e == op["engine"]
           o == Least(e.rows)
           done == [e EXCEPT !.rows = {}, !.pc = "next", !.noise = 0]
           arm == [e EXCEPT !.pc = "arm", !.noise = 0]
<1>1. "engine" \in Processes BY DEF Processes
<1>2. e.kind = "fire" /\ e.pc = "write" BY DEF FireWrite
<1>3. /\ e \in OpType /\ Fits("engine", e, act, rows \cup gone, alarms)
      /\ rows \cup gone \subseteq Outputs
  BY <1>1, RowsKnown DEF Watch
<1>4. e.rows # {} /\ e.own = None /\ e.todo \cup e.rows \subseteq rows \cup gone
  BY <1>2, <1>3 DEF Fits
<1>5. o \in e.rows /\ o \in rows \cup gone BY <1>1, <1>4, RowsKnown DEF Watch
<1>6. /\ done.kind = "fire" /\ done.zone = e.zone /\ done.own = None /\ done.pc = "next"
      /\ done.todo = e.todo /\ done.rows = {}
      /\ arm.kind = "fire" /\ arm.zone = e.zone /\ arm.own = None /\ arm.pc = "arm"
      /\ arm.todo = e.todo /\ arm.rows = e.rows
  BY <1>2, <1>3, <1>4 DEF OpType
<1>7. UNCHANGED <<rows, gone, alarms, life>> BY DEF FireWrite
<1>8. /\ on \in [Channels -> {"off", "bounded", "latched"}] /\ failed \subseteq rows \cup gone
      /\ Records(act, active, rows \cup gone)
  BY DEF Watch, Wired
<1>9. /\ on' \in [Channels -> {"off", "bounded", "latched"}]
      /\ \A ch \in Channels : on'[ch] = "latched" => on[ch] = "latched" \/ ch = Channel[o]
  <2>1. \/ on' = on \/ on' = [on EXCEPT ![Channel[o]] = "latched"]
        \/ on' = [on EXCEPT ![Channel[o]] = "bounded"]
    BY DEF FireWrite
  <2> HIDE DEF o
  <2> QED BY <1>8, <2>1
<1>10. \/ /\ failed' = failed \cup e.rows /\ op' = [op EXCEPT !["engine"] = done]
          /\ \/ demands' = demands \ {o} /\ CancelWatchdog(o)
             \/ UNCHANGED <<active, act, demands>>
       \/ /\ op' = [op EXCEPT !["engine"] = done] \/ op' = [op EXCEPT !["engine"] = arm]
          /\ UNCHANGED <<active, act, demands, failed>>
  BY DEF FireWrite
<1> HIDE DEF done, arm, o
<1>11. CASE /\ failed' = failed \cup e.rows /\ op' = [op EXCEPT !["engine"] = done]
            /\ \/ demands' = demands \ {o} /\ CancelWatchdog(o)
               \/ UNCHANGED <<active, act, demands>>
  <2>1. /\ Records(act', active', rows \cup gone) /\ Keeping(act, act')
        /\ \A x \in Outputs : active[x] # None => active'[x] # None \/ x \in failed'
    <3>1. CASE CancelWatchdog(o) BY <1>3, <1>5, <1>8, <1>11, <3>1, CancelRecords
    <3>2. CASE UNCHANGED <<active, act>> BY <1>8, <3>2, Same
    <3> QED BY <1>11, <3>1, <3>2
  <2>2. demands' \subseteq demands \cup e.todo \cup e.rows BY <1>11
  <2>3. failed \subseteq failed' /\ failed' \subseteq rows \cup gone BY <1>4, <1>8, <1>11
  <2>4. done.todo \cup done.rows \subseteq e.todo \cup e.rows BY <1>6
  <2>5. \A ch \in Channels : on'[ch] = "latched" =>
           on[ch] = "latched" \/ \E x \in e.rows : Channel[x] = ch
    BY <1>5, <1>9
  <2> HIDE DEF e
  <2> QED BY <1>2, <1>6, <1>7, <1>9, <1>11, <2>1, <2>2, <2>3, <2>4, <2>5, CycleWatch DEF e
<1>12. CASE /\ op' = [op EXCEPT !["engine"] = done] \/ op' = [op EXCEPT !["engine"] = arm]
            /\ UNCHANGED <<active, act, demands, failed>>
  <2>1. Records(act', active', rows \cup gone) /\ Keeping(act, act') BY <1>8, <1>12, Same
  <2>2. demands' \subseteq demands \cup e.todo \cup e.rows BY <1>12
  <2>3. failed \subseteq failed' /\ failed' \subseteq rows \cup gone BY <1>8, <1>12
  <2>4. \A ch \in Channels : on'[ch] = "latched" =>
           on[ch] = "latched" \/ \E x \in e.rows : Channel[x] = ch
    BY <1>5, <1>9
  <2>5. PICK d \in {done, arm} : op' = [op EXCEPT !["engine"] = d] BY <1>12
  <2>6. /\ d.kind = "fire" /\ d.zone = e.zone /\ d.own = None /\ d.pc \in {"next", "write", "arm"}
        /\ d.todo \cup d.rows \subseteq e.todo \cup e.rows /\ (d.pc # "next" => d.rows # {})
    BY <1>4, <1>6, <2>5
  <2> HIDE DEF e
  <2> QED BY <1>2, <1>7, <1>9, <1>12, <2>1, <2>2, <2>3, <2>4, <2>5, <2>6, CycleWatch DEF e
<1> QED BY <1>10, <1>11, <1>12

LEMMA FireArmWatch ==
    ASSUME LedgerInv, Watch, FireArm PROVE Watch'
<1> DEFINE e == op["engine"]
           o == Least(e.rows)
           more == e.rows \ {o}
           done == [e EXCEPT !.rows = {}, !.pc = "next"]
           on2 == [e EXCEPT !.rows = more]
<1>1. "engine" \in Processes BY DEF Processes
<1>2. e.kind = "fire" /\ e.pc = "arm" BY DEF FireArm
<1>3. /\ e \in OpType /\ Fits("engine", e, act, rows \cup gone, alarms)
      /\ rows \cup gone \subseteq Outputs
  BY <1>1, RowsKnown DEF Watch
<1>4. e.rows # {} /\ e.own = None /\ e.todo \cup e.rows \subseteq rows \cup gone
  BY <1>2, <1>3 DEF Fits
<1>5. o \in e.rows /\ o \in rows \cup gone BY <1>1, <1>4, RowsKnown DEF Watch
<1>6. /\ done.kind = "fire" /\ done.zone = e.zone /\ done.own = None /\ done.pc = "next"
      /\ done.todo = e.todo /\ done.rows = {}
      /\ on2.kind = "fire" /\ on2.zone = e.zone /\ on2.own = None /\ on2.pc = "arm"
      /\ on2.todo = e.todo /\ on2.rows = more
  BY <1>2, <1>3, <1>4 DEF OpType
<1>7. UNCHANGED <<on, rows, gone, alarms, life, failed>> /\ demands' = demands \cup {o}
  BY DEF FireArm
<1>8. /\ on \in [Channels -> {"off", "bounded", "latched"}] /\ failed \subseteq rows \cup gone
      /\ Records(act, active, rows \cup gone)
  BY DEF Watch, Wired
<1>9. UNCHANGED <<active, act>> \/ ArmStopWatchdog(o) BY DEF FireArm
<1>10. op' = [op EXCEPT !["engine"] = IF more = {} THEN done ELSE on2] BY DEF FireArm
<1> HIDE DEF done, on2, o
<1>11. /\ Records(act', active', rows \cup gone) /\ Keeping(act, act')
       /\ \A x \in Outputs : active[x] # None => active'[x] # None
  <2>1. CASE ArmStopWatchdog(o) BY <1>3, <1>5, <1>8, <2>1, ArmRecords
  <2>2. CASE UNCHANGED <<active, act>> BY <1>8, <2>2, Same
  <2> QED BY <1>9, <2>1, <2>2
<1>12. PICK d : op' = [op EXCEPT !["engine"] = d] /\ d = IF more = {} THEN done ELSE on2
  BY <1>10
<1>13. /\ d.kind = "fire" /\ d.zone = e.zone /\ d.own = None /\ d.pc \in {"next", "write", "arm"}
       /\ d.todo \cup d.rows \subseteq e.todo \cup e.rows /\ (d.pc # "next" => d.rows # {})
  BY <1>6, <1>12
<1>14. demands' \subseteq demands \cup e.todo \cup e.rows BY <1>5, <1>7
<1>15. failed \subseteq failed' /\ failed' \subseteq rows \cup gone BY <1>7, <1>8
<1> HIDE DEF e
<1> QED BY <1>2, <1>7, <1>8, <1>11, <1>12, <1>13, <1>14, <1>15, CycleWatch DEF e

\* The first half of a stop: whoever defers to a foreign claim leaves the channel
\* to the row of that claim.
LEMMA UnclaimWatch ==
    ASSUME LedgerInv, Watch, NEW p \in Processes, Unclaim(p) PROVE Watch'
<1> DEFINE e == op[p]
           o == Least(e.todo)
           less == [e EXCEPT !.todo = @ \ {o}]
           go == [e EXCEPT !.pc = "replace"]
           K == rows \cup gone
<1>1. /\ e.kind \in {"stop", "unowned"} /\ e.pc = "next" /\ e.todo # {}
      /\ UNCHANGED <<on, rows, gone, failed, alarms, life>>
  BY DEF Unclaim
<1>2. /\ e \in OpType /\ Fits(p, e, act, K, alarms) /\ K \subseteq Outputs
      /\ o \in e.todo /\ o \in K
  BY <1>1, RowsKnown DEF Watch
<1>3. /\ less.kind = e.kind /\ less.zone = e.zone /\ less.pc = "next" /\ less.own = e.own
      /\ less.rows = e.rows /\ less.todo = e.todo \ {o}
      /\ go.kind = e.kind /\ go.zone = e.zone /\ go.pc = "replace" /\ go.own = e.own
      /\ go.rows = e.rows /\ go.todo = e.todo
  BY <1>1, <1>2 DEF OpType
<1>4. /\ demands' \subseteq demands /\ (p = "engine" => demands' = demands \ {o})
      /\ \/ op' = [op EXCEPT ![p] = less] /\ UNCHANGED <<active, act>>
            /\ p # "engine"
         \/ op' = [op EXCEPT ![p] = less] /\ CancelWatchdog(o) /\ ForeignRemains(o)
         \/ op' = [op EXCEPT ![p] = go] /\ UNCHANGED <<active, act>> /\ ~ForeignRemains(o)
  <2>1. p = "engine" => e.kind = "stop" BY <1>1, <1>2 DEF Fits
  <2> QED BY <2>1 DEF Unclaim
<1> HIDE DEF less, go
<1>5. /\ Records(act', active', K) /\ Keeping(act, act')
      /\ \A x \in Outputs : x # o => active'[x] = active[x]
  <2>1. Records(act, active, K) BY DEF Watch, Wired
  <2>2. CASE UNCHANGED <<active, act>> BY <2>1, <2>2, Same
  <2>3. CASE CancelWatchdog(o) BY <1>2, <2>1, <2>3, CancelRecords
  <2> QED BY <1>4, <2>2, <2>3
<1>6. PICK d \in {less, go} : op' = [op EXCEPT ![p] = d] BY <1>4
<1>7. op \in [Processes -> OpType] /\ op'[p] = d /\ \A q \in Processes : q # p => op'[q] = op[q]
  BY <1>6 DEF LedgerInv, NoiseTyped
<1>8. Wired'
  <2>1. Fits(p, d, act', K, alarms') BY <1>1, <1>2, <1>3, <1>6 DEF Fits
  <2>2. \A q \in Processes : Fits(q, op'[q], act', K, alarms')
    BY <1>1, <1>5, <1>6, <1>7, <2>1, OthersFit DEF Watch, Wired
  <2> QED BY <1>1, <1>4, <1>5, <2>2 DEF Watch, Wired
<1>9. "engine" \in Processes BY DEF Processes
<1>10. Claimed'
  <2>1. CASE p # "engine"
    <3>1. op'["engine"] = op["engine"] BY <1>7, <1>9, <2>1
    <3> QED BY <1>1, <1>4, <3>1, ClaimsKept DEF Watch
  <2>2. CASE p = "engine"
    <3>1. demands' = demands \ {o} /\ op'["engine"] = d /\ d.kind = e.kind
      BY <1>3, <1>4, <1>6, <1>7, <2>2
    <3>2. ASSUME NEW r \in demands'
          PROVE  \/ r \in gone' \/ Zone[r] \in alarms'
                 \/ op'["engine"].kind = "stop" /\ r \in op'["engine"].todo
      <4>1. r \in demands /\ r # o BY <3>1
      <4>2. r \in e.todo => r \in d.todo BY <1>3, <1>6, <4>1
      <4> QED BY <1>1, <2>2, <3>1, <4>1, <4>2 DEF Watch, Claimed
    <3>3. d.pc \in {"replace", "await"} => d.todo = e.todo /\ ~ForeignRemains(o)
      <4>1. d.pc \in {"replace", "await"} => d # less BY <1>3
      <4>2. d # less => d = go BY <1>6
      <4>3. op' = [op EXCEPT ![p] = less] => d = less BY <1>7
      <4> QED BY <1>3, <1>4, <4>1, <4>2, <4>3
    <3>4. ~ForeignRemains(o) =>
             ~(\E r \in demands' \ {o} : Channel[r] = Channel[o] /\ Zone[r] # Zone[o])
      BY <3>1 DEF ForeignRemains
    <3>5. d.pc \in {"replace", "await"} =>
             /\ Least(op'["engine"].todo) \notin demands'
             /\ ~ForeignRemains(Least(op["engine"].todo))'
      BY <3>1, <3>3, <3>4 DEF ForeignRemains
    <3> QED BY <3>1, <3>2, <3>5 DEF Claimed
  <2> QED BY <2>1, <2>2
<1>11. ASSUME NEW x, ToStop(x), x # o PROVE ToStop(x)'
  <2>1. CASE p # "engine"
    <3>1. op'["engine"] = op["engine"] BY <1>7, <1>9, <2>1
    <3> QED BY <1>11, <3>1 DEF ToStop
  <2>2. CASE p = "engine"
    <3>1. op'["engine"] = d BY <1>7, <2>2
    <3>2. d.kind = e.kind /\ x \in d.todo /\ d.pc # "await"
      BY <1>3, <1>6, <1>11, <2>2 DEF ToStop
    <3> QED BY <1>11, <2>2, <3>1, <3>2 DEF ToStop
  <2> QED BY <2>1, <2>2
<1>12. Guarded'
  <2>1. ASSUME NEW x \in Outputs, Held(x), x # o PROVE Held(x)'
    BY <1>1, <1>5, <1>11, <2>1 DEF Held
  <2>2. ASSUME NEW c, c = o, Held(c) PROVE \E x \in Outputs : Channel[x] = Channel[c] /\ Held(x)'
    <3>1. CASE ForeignRemains(o)
      <4>1. PICK r \in demands : r # o /\ Channel[r] = Channel[o] BY <3>1 DEF ForeignRemains
      <4>2. r \in Outputs /\ (r \in gone \/ (r \in rows /\ Zone[r] \in alarms) \/ ToStop(r))
        BY ClaimHeld DEF Watch
      <4>3. Held(r)' BY <1>1, <1>11, <4>1, <4>2 DEF Held
      <4> QED BY <2>2, <4>1, <4>2, <4>3
    <3>2. CASE ~ForeignRemains(o)
      <4>1. UNCHANGED <<active, act>> /\ (p = "engine" => op' = [op EXCEPT ![p] = go])
        BY <1>4, <3>2
      <4>2. ToStop(c) => ToStop(c)'
        <5>1. CASE p # "engine"
          <6>1. op'["engine"] = op["engine"] BY <1>7, <1>9, <5>1
          <6> QED BY <6>1 DEF ToStop
        <5>2. CASE p = "engine"
          <6>1. op'["engine"] = go BY <1>7, <4>1, <5>2
          <6> QED BY <1>3, <5>2, <6>1 DEF ToStop
        <5> QED BY <5>1, <5>2
      <4>3. Held(c)' BY <1>1, <2>2, <4>1, <4>2 DEF Held
      <4> QED BY <1>2, <2>2, <4>3
    <3> QED BY <3>1, <3>2
  <2>3. \A x \in Outputs : Held(x) => \E y \in Outputs : Channel[y] = Channel[x] /\ Held(y)'
    BY <2>1, <2>2
  <2> QED BY <1>1, <2>3, GuardKept DEF Watch
<1> QED BY <1>8, <1>10, <1>12 DEF Watch

LEMMA TakeOverWatch ==
    ASSUME LedgerInv, Watch, NEW p \in Processes, TakeOver(p) PROVE Watch'
<1> DEFINE e == op[p]
           K == rows \cup gone
<1>0. PICK o : o = Least(e.todo) OBVIOUS
<1>1. PICK a \in Activations :
         /\ o = Least(e.todo) /\ Replace(o, a, "stop")
         /\ op' = [op EXCEPT ![p].pc = "await", ![p].own = a]
  <2>1. \E a \in Activations : /\ Replace(Least(e.todo), a, "stop")
                               /\ op' = [op EXCEPT ![p].pc = "await", ![p].own = a]
    BY DEF TakeOver
  <2> QED BY <1>0, <2>1 DEF Replace, Cancelled
<1>2. e.pc = "replace" /\ UNCHANGED <<on, rows, gone, demands, failed, alarms, life>>
  BY DEF TakeOver
<1>3. e \in OpType /\ Fits(p, e, act, K, alarms) /\ K \subseteq Outputs
  BY RowsKnown DEF Watch
<1>4. e.kind \in {"stop", "unowned"} /\ e.todo # {} BY <1>2, <1>3 DEF Fits
<1>5. o \in e.todo /\ o \in K /\ o \in Outputs BY <1>1, <1>3, <1>4, RowsKnown DEF Watch
<1>6. /\ Records(act', active', K) /\ Keeping(act, act') /\ active' = [active EXCEPT ![o] = a]
      /\ act'[a].out = o /\ act'[a].phase = "stop"
  BY <1>1, <1>5, ReplaceRecords DEF Watch, Wired
<1>7. active \in [Outputs -> Activations \cup {None}] BY DEF Watch, Wired, Records
<1> DEFINE d == [e EXCEPT !.pc = "await", !.own = a]
<1>8. /\ d.kind = e.kind /\ d.zone = e.zone /\ d.todo = e.todo /\ d.rows = e.rows
      /\ d.pc = "await" /\ d.own = a
  BY <1>3 DEF OpType
<1>9. op \in [Processes -> OpType] BY DEF LedgerInv, NoiseTyped
<1>10. op' = [op EXCEPT ![p] = d] BY <1>1, <1>9
<1> HIDE DEF d
<1>11. op'[p] = d /\ \A q \in Processes : q # p => op'[q] = op[q] BY <1>9, <1>10
<1>12. Wired'
  <2>1. Fits(p, d, act', K, alarms')
    <3>1. d.todo \cup d.rows \subseteq K BY <1>3, <1>8 DEF Fits
    <3>2. act'[d.own].phase = "stop" /\ act'[d.own].out = Least(d.todo) BY <1>1, <1>6, <1>8
    <3>3. /\ d.pc = "await" /\ d.kind \in {"stop", "unowned"} /\ d.todo # {}
      BY <1>4, <1>8
    <3>4. p = "engine" => /\ d.kind = "stop"
                          /\ \A x \in d.todo \cup d.rows : Zone[x] = d.zone
      BY <1>3, <1>4, <1>8 DEF Fits
    <3> QED BY <3>1, <3>2, <3>3, <3>4 DEF Fits
  <2>2. \A q \in Processes : Fits(q, op'[q], act', K, alarms')
    BY <1>2, <1>6, <1>9, <1>10, <2>1, OthersFit DEF Watch, Wired
  <2> QED BY <1>2, <1>6, <2>2 DEF Watch, Wired
<1>13. "engine" \in Processes BY DEF Processes
<1>14. Claimed'
  <2>1. CASE p # "engine"
    <3>1. op'["engine"] = op["engine"] BY <1>11, <1>13, <2>1
    <3> QED BY <1>2, <3>1, ClaimsKept DEF Watch
  <2>2. CASE p = "engine"
    <3>1. op'["engine"] = d BY <1>11, <2>2
    <3>2. \A r \in demands' :
             \/ r \in gone' \/ Zone[r] \in alarms'
             \/ op'["engine"].kind = "stop" /\ r \in op'["engine"].todo
      BY <1>2, <1>8, <2>2, <3>1 DEF Watch, Claimed
    <3>3. d.kind = "stop" => /\ Least(d.todo) \notin demands'
                             /\ ~(\E r \in demands' \ {Least(d.todo)} :
                                    /\ Channel[r] = Channel[Least(d.todo)]
                                    /\ Zone[r] # Zone[Least(d.todo)])
      BY <1>2, <1>8, <2>2 DEF Watch, Claimed, ForeignRemains
    <3> QED BY <3>1, <3>2, <3>3 DEF Claimed, ForeignRemains
  <2> QED BY <2>1, <2>2
<1>15. Guarded'
  <2>1. ASSUME NEW x \in Outputs, Held(x) PROVE Held(x)'
    <3>1. CASE x = o BY <1>6, <1>7, <3>1, FreeTyped DEF Held
    <3>2. CASE x # o
      <4>1. active'[x] = active[x] BY <1>6, <1>7, <3>2
      <4>2. ToStop(x) => ToStop(x)'
        <5>1. CASE p # "engine"
          <6>1. op'["engine"] = op["engine"] BY <1>11, <1>13, <5>1
          <6> QED BY <6>1 DEF ToStop
        <5>2. CASE p = "engine"
          <6>1. op'["engine"] = d BY <1>11, <5>2
          <6> QED BY <1>1, <1>8, <3>2, <5>2, <6>1 DEF ToStop
        <5> QED BY <5>1, <5>2
      <4> QED BY <1>2, <2>1, <4>1, <4>2 DEF Held
    <3> QED BY <3>1, <3>2
  <2> QED BY <1>2, <2>1, GuardKept DEF Watch
<1> QED BY <1>12, <1>14, <1>15 DEF Watch

LEMMA FinishWatch ==
    ASSUME LedgerInv, Watch, NEW p \in Processes, Finish(p) PROVE Watch'
<1>1. /\ op[p].todo = {} /\ op' = [op EXCEPT ![p] = Idle]
      /\ UNCHANGED <<on, rows, gone, active, act, demands, failed, alarms, life>>
  BY DEF Finish
<1>2. op \in [Processes -> OpType] /\ "engine" \in Processes
  BY DEF LedgerInv, NoiseTyped, Processes
<1>3. op'["engine"] = IF p = "engine" THEN Idle ELSE op["engine"] BY <1>1, <1>2
<1>4. Wired'
  <2>1. Keeping(act, act') BY <1>1, Same
  <2>2. \A q \in Processes : Fits(q, op'[q], act', rows \cup gone, alarms')
    BY <1>1, <1>2, <2>1, IdleFits, OthersFit DEF Watch, Wired
  <2> QED BY <1>1, <2>2 DEF Watch, Wired
<1>5. Claimed'
  <2>1. CASE p # "engine" BY <1>1, <1>3, <2>1, ClaimsKept DEF Watch
  <2>2. CASE p = "engine" BY <1>1, <1>3, <2>2 DEF Watch, Claimed, Idle
  <2> QED BY <2>1, <2>2
<1>6. Guarded'
  <2>1. ASSUME NEW x, Held(x) PROVE Held(x)' BY <1>1, <1>3, <2>1 DEF Held, ToStop
  <2> QED BY <1>1, <2>1, GuardKept DEF Watch
<1> QED BY <1>4, <1>5, <1>6 DEF Watch

\* A step beside the engine that takes no watchdog away and starts no sounder.
LEMMA SideStepWatch ==
    ASSUME LedgerInv, Watch, NEW d, op' = [op EXCEPT !["side"] = d],
           Fits("side", d, act', rows \cup gone, alarms'),
           UNCHANGED <<rows, gone, demands, alarms, life>>,
           on' \in [Channels -> {"off", "bounded", "latched"}],
           \A ch \in Channels : on'[ch] = "latched" => on[ch] = "latched",
           Records(act', active', rows \cup gone), Keeping(act, act'),
           \A x \in Outputs : active[x] # None => active'[x] # None,
           failed \subseteq failed', failed' \subseteq rows \cup gone
    PROVE  Watch'
<1>1. /\ op \in [Processes -> OpType] /\ "side" \in Processes
      /\ op'["engine"] = op["engine"]
  BY DEF LedgerInv, NoiseTyped, Processes
<1>2. Wired'
  <2>1. \A q \in Processes : Fits(q, op'[q], act', rows \cup gone, alarms')
    BY <1>1, OthersFit DEF Watch, Wired
  <2> QED BY <2>1 DEF Watch, Wired
<1>3. Claimed' BY <1>1, ClaimsKept DEF Watch
<1>4. Guarded'
  <2>1. ASSUME NEW x \in Outputs, Held(x) PROVE Held(x)' BY <1>1, <2>1, HeldKept
  <2> QED BY <2>1, GuardKept DEF Watch
<1> QED BY <1>2, <1>3, <1>4 DEF Watch

LEMMA AdoptWatch ==
    ASSUME LedgerInv, Watch, Adopt PROVE Watch'
<1> DEFINE e == op["side"]
           o == Least(e.todo)
           d == [e EXCEPT !.todo = @ \ {o}]
           K == rows \cup gone
<1>1. "side" \in Processes /\ op \in [Processes -> OpType]
  BY DEF LedgerInv, NoiseTyped, Processes
<1>2. /\ e.kind = "adopt" /\ e.todo # {} /\ ArmStopWatchdog(o)
      /\ UNCHANGED <<on, rows, gone, demands, alarms, life>>
      /\ failed' = failed \/ failed' = failed \cup {o}
      /\ op' = [op EXCEPT !["side"].todo = @ \ {o}]
  BY DEF Adopt
<1>3. /\ e \in OpType /\ Fits("side", e, act, K, alarms) /\ K \subseteq Outputs
      /\ o \in e.todo /\ o \in K
  BY <1>1, <1>2, RowsKnown DEF Watch
<1>4. /\ d.kind = "adopt" /\ d.pc = e.pc /\ d.own = e.own /\ d.rows = e.rows
      /\ d.todo = e.todo \ {o}
  BY <1>2, <1>3 DEF OpType
<1>5. op' = [op EXCEPT !["side"] = d] BY <1>1, <1>2
<1>6. Fits("side", d, act', K, alarms') BY <1>2, <1>3, <1>4 DEF Fits
<1>7. /\ on \in [Channels -> {"off", "bounded", "latched"}] /\ failed \subseteq K
      /\ Records(act, active, K)
  BY DEF Watch, Wired
<1> HIDE DEF d, o
<1>8. /\ Records(act', active', K) /\ Keeping(act, act')
      /\ \A x \in Outputs : active[x] # None => active'[x] # None
  BY <1>2, <1>3, <1>7, ArmRecords
<1>9. failed \subseteq failed' /\ failed' \subseteq K BY <1>2, <1>3, <1>7
<1> QED BY <1>2, <1>5, <1>6, <1>7, <1>8, <1>9, SideStepWatch

LEMMA TestWatch ==
    ASSUME LedgerInv, Watch, TestWrite \/ TestArm PROVE Watch'
<1> DEFINE e == op["side"]
           o == Least(e.todo)
           K == rows \cup gone
<1>1. "side" \in Processes /\ op \in [Processes -> OpType]
  BY DEF LedgerInv, NoiseTyped, Processes
<1>2. e.kind = "test" BY DEF TestWrite, TestArm
<1>3. e \in OpType /\ Fits("side", e, act, K, alarms) /\ K \subseteq Outputs
  BY <1>1, RowsKnown DEF Watch
<1>4. e.todo # {} BY <1>2, <1>3 DEF Fits
<1>5. o \in e.todo /\ o \in K BY <1>1, <1>4, RowsKnown DEF Watch
<1>6. /\ on \in [Channels -> {"off", "bounded", "latched"}] /\ failed \subseteq K
      /\ Records(act, active, K)
  BY DEF Watch, Wired
<1>7. CASE TestWrite
  <2> DEFINE d == [e EXCEPT !.pc = "arm"]
  <2>1. /\ UNCHANGED <<rows, gone, active, act, demands, alarms, life>>
        /\ on' = on \/ on' = [on EXCEPT ![Channel[o]] = "bounded"]
        /\ failed' = failed \/ failed' = failed \cup {o}
        /\ op' = [op EXCEPT !["side"] = Idle] \/ op' = [op EXCEPT !["side"] = d]
    BY <1>1, <1>7 DEF TestWrite
  <2>2. /\ d.kind = "test" /\ d.pc = "arm" /\ d.own = e.own /\ d.rows = e.rows
        /\ d.todo = e.todo
    BY <1>2, <1>3 DEF OpType
  <2>3. e.pc = "write" BY <1>7 DEF TestWrite
  <2>4. Fits("side", d, act', K, alarms') BY <1>3, <1>4, <2>2, <2>3 DEF Fits
  <2> HIDE DEF d, o
  <2>5. PICK c : op' = [op EXCEPT !["side"] = c] /\ c \in {Idle, d} BY <2>1
  <2>6. Fits("side", c, act', K, alarms') BY <2>4, <2>5, IdleFits
  <2>7. /\ on' \in [Channels -> {"off", "bounded", "latched"}]
        /\ \A ch \in Channels : on'[ch] = "latched" => on[ch] = "latched"
    BY <1>6, <2>1
  <2>8. failed \subseteq failed' /\ failed' \subseteq K BY <1>5, <1>6, <2>1
  <2>9. Records(act', active', K) /\ Keeping(act, act') BY <1>6, <2>1, Same
  <2> QED BY <2>1, <2>5, <2>6, <2>7, <2>8, <2>9, SideStepWatch
<1>8. CASE TestArm
  <2>1. /\ UNCHANGED <<on, rows, gone, failed, demands, alarms, life>>
        /\ op' = [op EXCEPT !["side"] = Idle] /\ ArmStopWatchdog(o)
    BY <1>8 DEF TestArm
  <2>2. Fits("side", Idle, act', K, alarms') BY IdleFits
  <2> HIDE DEF o
  <2>3. /\ Records(act', active', K) /\ Keeping(act, act')
        /\ \A x \in Outputs : active[x] # None => active'[x] # None
    BY <1>3, <1>5, <1>6, <2>1, ArmRecords
  <2> QED BY <1>6, <2>1, <2>2, <2>3, SideStepWatch
<1> QED BY <1>7, <1>8

\* A callback that changes no process: what it takes from its row is made up for
\* by a failure on record, a silent channel or the holder of a foreign claim.
LEMMA CallbackWatch ==
    ASSUME LedgerInv, Watch, UNCHANGED <<rows, gone, alarms, op, life>>,
           on' \in [Channels -> {"off", "bounded", "latched"}],
           \A ch \in Channels : on'[ch] = "latched" => on[ch] = "latched",
           demands' \subseteq demands, failed' \subseteq rows \cup gone,
           Records(act', active', rows \cup gone), Keeping(act, act'), NEW o,
           \A x \in Outputs : x # o => /\ active[x] # None => active'[x] # None
                                       /\ x \in failed => x \in failed',
           \/ active[o] # None /\ active'[o] # None /\ (o \in failed => o \in failed')
           \/ o \in failed'
           \/ ForeignRemains(o) /\ failed' = failed
           \/ on'[Channel[o]] # "latched"
           \/ o \notin Outputs
           \/ UNCHANGED <<active, failed>>
    PROVE  Watch'
<1>1. op \in [Processes -> OpType] BY DEF LedgerInv, NoiseTyped
<1>2. Wired'
  <2>1. \A q \in Processes : Fits(q, op'[q], act', rows \cup gone, alarms')
    BY <1>1, AllFit DEF Watch, Wired
  <2> QED BY <2>1 DEF Watch, Wired
<1>3. Claimed' BY ClaimsKept DEF Watch
<1>4. Guarded'
  <2>1. ASSUME NEW x \in Outputs, x # o, Held(x) PROVE Held(x)'
    BY <2>1 DEF Held, ToStop
  <2>2. ASSUME o \in Outputs, Held(o), on'[Channel[o]] = "latched"
        PROVE  \E x \in Outputs : Channel[x] = Channel[o] /\ Held(x)'
    <3>1. CASE active'[o] # None \/ o \in failed' BY <2>2, <3>1 DEF Held
    <3>2. CASE ForeignRemains(o) /\ failed' = failed
      <4>1. PICK r \in demands : r # o /\ Channel[r] = Channel[o] BY <3>2 DEF ForeignRemains
      <4>2. r \in Outputs /\ (r \in gone \/ (r \in rows /\ Zone[r] \in alarms) \/ ToStop(r))
        BY ClaimHeld DEF Watch
      <4>3. Held(r)' BY <4>2 DEF Held, ToStop
      <4> QED BY <4>1, <4>2, <4>3
    <3>3. CASE UNCHANGED <<active, failed>> BY <2>2, <3>3 DEF Held, ToStop
    <3> QED BY <2>2, <3>1, <3>2, <3>3
  <2>3. \A x \in Outputs : Held(x) /\ on'[Channel[x]] = "latched" =>
           \E y \in Outputs : Channel[y] = Channel[x] /\ Held(y)'
    BY <2>1, <2>2
  <2> QED BY <2>3, GuardKept DEF Watch
<1> QED BY <1>2, <1>3, <1>4 DEF Watch

LEMMA TimerWatch ==
    ASSUME LedgerInv, Watch, NEW a \in Activations, TimerFires(a) PROVE Watch'
<1> DEFINE K == rows \cup gone
<1>1. /\ act[a].phase \in Pending
      /\ act' = [act EXCEPT ![a].phase = IF @ = "armed" THEN "due" ELSE "verify"]
      /\ UNCHANGED <<on, rows, gone, active, demands, failed, alarms, op, life>>
  BY DEF TimerFires
<1>2. /\ on \in [Channels -> {"off", "bounded", "latched"}] /\ failed \subseteq K
      /\ Records(act, active, K)
  BY DEF Watch, Wired
<1>3. act \in [Activations -> ActType] BY <1>2 DEF Records
<1>4. act' \in [Activations -> ActType] BY <1>1, <1>3 DEF ActType, Phases
<1>5. /\ act'[a].out = act[a].out /\ act'[a].phase # "free"
      /\ \A b \in Activations : b # a => act'[b] = act[b]
  BY <1>1, <1>3 DEF ActType
<1>6. Records(act', active', K) /\ Keeping(act, act')
  BY <1>1, <1>2, <1>4, <1>5, PhaseRecords DEF Pending
<1> QED BY <1>1, <1>2, <1>6, CallbackWatch

LEMMA RunStopWatch ==
    ASSUME LedgerInv, Watch, NEW a \in Activations, RunStop(a) PROVE Watch'
<1> DEFINE K == rows \cup gone
<1>0. PICK o : o = act[a].out OBVIOUS
<1>1. /\ act[a].phase = "due" /\ demands' \subseteq demands
      /\ UNCHANGED <<on, rows, gone, failed, alarms, op, life>>
      /\ \/ ForeignRemains(o) /\ ClearActivation(a)
         \/ act' = [act EXCEPT ![a].phase = "stop"] /\ UNCHANGED active
  BY <1>0 DEF RunStop, ForeignRemains
<1>2. /\ on \in [Channels -> {"off", "bounded", "latched"}] /\ failed \subseteq K
      /\ Records(act, active, K)
  BY DEF Watch, Wired
<1>3. CASE ForeignRemains(o) /\ ClearActivation(a)
  <2>1. /\ Records(act', active', K) /\ Keeping(act, act')
        /\ \A x \in Outputs : x # o => active'[x] = active[x]
    BY <1>0, <1>1, <1>2, <1>3, ClearRecords
  <2> QED BY <1>1, <1>2, <1>3, <2>1, CallbackWatch
<1>4. CASE act' = [act EXCEPT ![a].phase = "stop"] /\ UNCHANGED active
  <2>1. act \in [Activations -> ActType] BY <1>2 DEF Records
  <2>2. act' \in [Activations -> ActType] BY <1>4, <2>1 DEF ActType, Phases
  <2>3. /\ act'[a].out = act[a].out /\ act'[a].phase # "free"
        /\ \A b \in Activations : b # a => act'[b] = act[b]
    BY <1>4, <2>1 DEF ActType
  <2>4. Records(act', active', K) /\ Keeping(act, act')
    BY <1>1, <1>2, <1>4, <2>2, <2>3, PhaseRecords
  <2> QED BY <1>1, <1>2, <1>4, <2>4, CallbackWatch
<1> QED BY <1>1, <1>3, <1>4

LEMMA VerifyWatch ==
    ASSUME LedgerInv, Watch, NEW a \in Activations, VerifyStop(a) PROVE Watch'
<1> DEFINE K == rows \cup gone
<1>0. PICK o : o = act[a].out OBVIOUS
<1>1. /\ act[a].phase = "verify"
      /\ UNCHANGED <<on, rows, gone, demands, alarms, op, life>>
      /\ \/ on[Channel[o]] = "off" /\ ClearActivation(a) /\ failed' = failed \ {o}
         \/ ClearActivation(a) /\ failed' = failed \cup {o}
         \/ /\ act[a].rounds < Window /\ UNCHANGED <<active, failed>>
            /\ act' = [act EXCEPT ![a].phase = "due", ![a].rounds = @ + 1]
  BY <1>0 DEF VerifyStop
<1>2. /\ on \in [Channels -> {"off", "bounded", "latched"}] /\ failed \subseteq K
      /\ Records(act, active, K) /\ K \subseteq Outputs
  BY DEF Watch, Wired, LedgerInv, NoiseTyped
<1>3. ASSUME ClearActivation(a)
      PROVE  /\ Records(act', active', K) /\ Keeping(act, act')
             /\ \A x \in Outputs : x # o => active'[x] = active[x]
  BY <1>0, <1>1, <1>2, <1>3, ClearRecords
<1>4. CASE on[Channel[o]] = "off" /\ ClearActivation(a) /\ failed' = failed \ {o}
  <2>1. on'[Channel[o]] # "latched" BY <1>1, <1>4
  <2> QED BY <1>1, <1>2, <1>3, <1>4, <2>1, CallbackWatch
<1>5. CASE ClearActivation(a) /\ failed' = failed \cup {o}
  <2>1. failed' \subseteq K /\ failed \subseteq failed' /\ o \in failed'
    BY <1>0, <1>1, <1>2, <1>5 DEF Records
  <2> QED BY <1>1, <1>2, <1>3, <1>5, <2>1, CallbackWatch
<1>6. CASE /\ act[a].rounds < Window /\ UNCHANGED <<active, failed>>
           /\ act' = [act EXCEPT ![a].phase = "due", ![a].rounds = @ + 1]
  <2>1. act \in [Activations -> ActType] BY <1>2 DEF Records
  <2> DEFINE r == [act[a] EXCEPT !.phase = "due", !.rounds = @ + 1]
  <2>2. r \in ActType /\ r.out = act[a].out /\ r.phase = "due"
    BY <1>6, <2>1, OutputsAssumption DEF ActType, Phases
  <2>3. act' = [act EXCEPT ![a] = r] BY <1>6, <2>1
  <2> HIDE DEF r
  <2>4. act' \in [Activations -> ActType] BY <2>1, <2>2, <2>3
  <2>5. /\ act'[a].out = act[a].out /\ act'[a].phase # "free"
        /\ \A b \in Activations : b # a => act'[b] = act[b]
    BY <2>1, <2>2, <2>3
  <2>6. Records(act', active', K) /\ Keeping(act, act')
    BY <1>1, <1>2, <1>6, <2>4, <2>5, PhaseRecords
  <2> QED BY <1>1, <1>2, <1>6, <2>6, CallbackWatch
<1> QED BY <1>1, <1>4, <1>5, <1>6

\* A stop write ends the wait of the pass that took over with the record; that
\* pass was no longer counted on, and its row is verified or current elsewhere.
LEMMA StopWriteWatch ==
    ASSUME LedgerInv, Watch, NEW a \in Activations, StopWrite(a) PROVE Watch'
<1> DEFINE K == rows \cup gone
           next(q) == [op[q] EXCEPT !.pc = "next", !.own = None, !.todo = @ \ {Least(@)}]
<1>0. PICK o : o = act[a].out OBVIOUS
<1>1. /\ act[a].phase = "stop"
      /\ on' = on \/ on' = [on EXCEPT ![Channel[o]] = "off"]
      /\ failed' = failed \/ failed' = failed \cup {o}
      /\ \/ active[o] = a /\ act' = [act EXCEPT ![a].phase = "waiting"]
         \/ active[o] # a /\ act' = [act EXCEPT ![a] = Free]
      /\ op' = [q \in Processes |-> IF op[q].own = a THEN next(q) ELSE op[q]]
      /\ UNCHANGED <<rows, gone, active, demands, alarms, life>>
  BY <1>0 DEF StopWrite
<1>2. /\ on \in [Channels -> {"off", "bounded", "latched"}] /\ failed \subseteq K
      /\ Records(act, active, K)
  BY DEF Watch, Wired
<1>3. /\ act \in [Activations -> ActType] /\ active \in [Outputs -> Activations \cup {None}]
      /\ \A b \in Activations : act[b].phase = "free" \/ act[b].out \in K
      /\ \A x \in Outputs : active[x] # None => act[active[x]].out = x
                                               /\ act[active[x]].phase # "free"
  BY <1>2 DEF Records
<1>4. a # None BY FreeTyped
<1>5. /\ act' \in [Activations -> ActType]
      /\ \A b \in Activations : b # a => act'[b] = act[b]
      /\ act'[a].phase = "free" \/ act'[a].out = o
      /\ active[o] = a => act'[a].out = o /\ act'[a].phase = "waiting"
  <2>1. CASE active[o] = a /\ act' = [act EXCEPT ![a].phase = "waiting"]
    BY <1>0, <1>3, <2>1 DEF ActType, Phases, Pending
  <2>2. CASE active[o] # a /\ act' = [act EXCEPT ![a] = Free]
    BY <1>3, <2>2, FreeTyped DEF Free
  <2> QED BY <1>1, <2>1, <2>2
<1>6. Records(act', active', K)
  <2>1. \A b \in Activations : act'[b].phase = "free" \/ act'[b].out \in K
    BY <1>0, <1>1, <1>3, <1>5
  <2>2. ASSUME NEW x \in Outputs, active'[x] # None
        PROVE  act'[active'[x]].out = x /\ act'[active'[x]].phase # "free"
    <3>1. active'[x] = active[x] /\ active[x] \in Activations BY <1>1, <1>3, <2>2
    <3>2. active[x] = a => x = o BY <1>0, <1>3, <1>4
    <3> QED BY <1>3, <1>4, <1>5, <2>2, <3>1, <3>2
  <2> QED BY <1>1, <1>3, <1>5, <2>1, <2>2 DEF Records
<1>7. \A q \in Processes : /\ op[q] \in OpType /\ Fits(q, op[q], act, K, alarms)
                           /\ next(q).kind = op[q].kind /\ next(q).zone = op[q].zone
                           /\ next(q).rows = op[q].rows /\ next(q).pc = "next"
                           /\ next(q).own = None
                           /\ next(q).todo = op[q].todo \ {Least(op[q].todo)}
  <2> SUFFICES ASSUME NEW q \in Processes
               PROVE  /\ op[q] \in OpType /\ Fits(q, op[q], act, K, alarms)
                      /\ next(q).kind = op[q].kind /\ next(q).zone = op[q].zone
                      /\ next(q).rows = op[q].rows /\ next(q).pc = "next"
                      /\ next(q).own = None
                      /\ next(q).todo = op[q].todo \ {Least(op[q].todo)}
    OBVIOUS
  <2>1. op[q] \in OpType /\ Fits(q, op[q], act, K, alarms) BY RowsKnown DEF Watch
  <2> QED BY <2>1 DEF OpType
<1>8. \A q \in Processes : op'[q] = IF op[q].own = a THEN next(q) ELSE op[q] BY <1>1
<1> HIDE DEF next
<1>9. ASSUME NEW q \in Processes PROVE Fits(q, op'[q], act', K, alarms')
  <2>1. CASE op[q].own = a
    <3>1. op'[q] = next(q) /\ op[q].kind \in {"stop", "unowned"}
      <4>1. op[q].pc = "await" BY <1>4, <1>7, <2>1 DEF Fits
      <4> QED BY <1>7, <1>8, <2>1, <4>1 DEF Fits
    <3>2. next(q).todo \cup next(q).rows \subseteq K BY <1>7 DEF Fits
    <3>3. q = "engine" => \A x \in next(q).todo \cup next(q).rows : Zone[x] = next(q).zone
      BY <1>7, <3>1 DEF Fits
    <3>4. q = "engine" => next(q).kind = "stop" BY <1>7, <3>1 DEF Fits
    <3> QED BY <1>7, <3>1, <3>2, <3>3, <3>4 DEF Fits
  <2>2. CASE op[q].own # a
    <3>1. op'[q] = op[q] /\ op[q].own \in Activations \cup {None} BY <1>7, <1>8, <2>2 DEF OpType
    <3>2. op[q].own # None => act'[op[q].own] = act[op[q].own] BY <1>5, <2>2, <3>1
    <3> QED BY <1>1, <1>7, <3>1, <3>2 DEF Fits
  <2> QED BY <2>1, <2>2
<1>10. Wired'
  <2>1. on' \in [Channels -> {"off", "bounded", "latched"}] BY <1>1, <1>2
  <2>2. failed' \subseteq K BY <1>0, <1>1, <1>2, <1>3
  <2> QED BY <1>1, <1>6, <1>9, <2>1, <2>2 DEF Watch, Wired
<1>11. "engine" \in Processes BY DEF Processes
<1>12. ASSUME op["engine"].own = a
       PROVE  /\ op["engine"].kind = "stop" /\ op["engine"].pc = "await"
              /\ op'["engine"] = next("engine")
              /\ Least(op["engine"].todo) \notin demands
  <2>1. op["engine"].pc = "await" BY <1>4, <1>7, <1>11, <1>12 DEF Fits
  <2>2. op["engine"].kind = "stop" BY <1>7, <1>11, <2>1 DEF Fits
  <2>3. Least(op["engine"].todo) \notin demands BY <2>1, <2>2 DEF Watch, Claimed
  <2> QED BY <1>8, <1>11, <1>12, <2>1, <2>2, <2>3
<1>13. Claimed'
  <2>1. CASE op["engine"].own # a
    <3>1. op'["engine"] = op["engine"] BY <1>8, <1>11, <2>1
    <3> QED BY <1>1, <3>1, ClaimsKept DEF Watch
  <2>2. CASE op["engine"].own = a
    BY <1>1, <1>7, <1>11, <1>12, <2>2 DEF Watch, Claimed
  <2> QED BY <2>1, <2>2
<1>14. Guarded'
  <2>1. ASSUME NEW x, ToStop(x) PROVE ToStop(x)'
    <3>1. CASE op["engine"].own # a
      <4>1. op'["engine"] = op["engine"] BY <1>8, <1>11, <3>1
      <4> QED BY <2>1, <4>1 DEF ToStop
    <3>2. CASE op["engine"].own = a
      BY <1>7, <1>11, <1>12, <2>1, <3>2 DEF ToStop
    <3> QED BY <3>1, <3>2
  <2>2. ASSUME NEW x \in Outputs, Held(x) PROVE Held(x)' BY <1>1, <2>1, <2>2 DEF Held
  <2>3. \A ch \in Channels : on'[ch] = "latched" => on[ch] = "latched" BY <1>1, <1>2
  <2> QED BY <1>1, <2>2, <2>3, GuardKept DEF Watch
<1> QED BY <1>10, <1>13, <1>14 DEF Watch

\* pruneDemands and pruneFailed only drop rows that are gone.
LEMMA ReloadWatch ==
    ASSUME LedgerInv, Watch, NEW o \in Outputs, Reload(o) PROVE Watch'
<1>1. /\ o \in rows /\ rows' = rows \ {o} /\ gone' = gone \cup {o}
      /\ demands' = demands \cap rows' /\ failed' = failed \cap rows'
      /\ UNCHANGED <<on, active, act, alarms, op, life>>
  BY DEF Reload
<1>2. rows' \cup gone' = rows \cup gone BY <1>1
<1>3. Wired' BY <1>1, <1>2 DEF Watch, Wired
<1>4. Claimed' BY <1>1, ClaimsKept DEF Watch
<1>5. Guarded'
  <2>1. failed \subseteq rows \cup gone BY DEF Watch, Wired
  <2>2. ASSUME NEW x \in Outputs, Held(x) PROVE Held(x)'
    BY <1>1, <2>1, <2>2 DEF Held, ToStop
  <2> QED BY <1>1, <2>2, GuardKept DEF Watch
<1> QED BY <1>3, <1>4, <1>5 DEF Watch

\* The end of the service: from Shutdown on nobody promises a guard.
LEMMA ShutdownWatch ==
    ASSUME LedgerInv, Watch, Shutdown \/ ShutdownStop \/ StopWatchdogs \/ EngineStop
    PROVE  Watch'
<1> DEFINE K == rows \cup gone
<1>1. Guarded' BY DEF Shutdown, ShutdownStop, StopWatchdogs, EngineStop, Guarded
<1>2. /\ UNCHANGED <<rows, gone, alarms, op, failed>> /\ demands' \subseteq demands
      /\ on' = on \/ \E ch : on' = [on EXCEPT ![ch] = "off"]
  BY DEF Shutdown, ShutdownStop, StopWatchdogs, EngineStop
<1>3. Claimed' BY <1>2, ClaimsKept DEF Watch
<1>4. /\ on \in [Channels -> {"off", "bounded", "latched"}] /\ Records(act, active, K)
  BY DEF Watch, Wired
<1>5. Records(act', active', K) /\ Keeping(act, act')
  <2>1. CASE UNCHANGED <<act, active>> BY <1>4, <2>1, Same
  <2>2. CASE StopWatchdogs
    <3>1. /\ active' = [x \in Outputs |-> None]
          /\ act' = [b \in Activations |->
                       IF act[b].phase \in Pending /\ active[act[b].out] = b THEN Free ELSE act[b]]
      BY <2>2 DEF StopWatchdogs
    <3>2. /\ act \in [Activations -> ActType]
          /\ \A b \in Activations : act[b].phase = "free" \/ act[b].out \in K
      BY <1>4 DEF Records
    <3>3. \A b \in Activations : act'[b] = act[b] \/ act'[b] = Free BY <3>1
    <3>4. act' \in [Activations -> ActType] BY <3>1, <3>2, FreeTyped
    <3>5. \A b \in Activations : act'[b].phase = "free" \/ act'[b].out \in K
      BY <3>2, <3>3 DEF Free
    <3>6. Keeping(act, act') BY <3>1 DEF Keeping, Pending
    <3> QED BY <3>1, <3>4, <3>5, <3>6 DEF Records
  <2> QED BY <2>1, <2>2 DEF Shutdown, ShutdownStop, EngineStop
<1>6. Wired'
  <2>1. on' \in [Channels -> {"off", "bounded", "latched"}] BY <1>2, <1>4
  <2>2. op \in [Processes -> OpType] BY DEF LedgerInv, NoiseTyped
  <2>3. \A q \in Processes : Fits(q, op'[q], act', K, alarms')
    BY <1>2, <1>5, <2>2, AllFit DEF Watch, Wired
  <2> QED BY <1>2, <1>5, <2>1, <2>3 DEF Watch, Wired
<1> QED BY <1>1, <1>3, <1>6 DEF Watch

LEMMA DeviceEndsWatch ==
    ASSUME LedgerInv, Watch, NEW ch \in Channels, DeviceEnds(ch) PROVE Watch'
<1>1. /\ on' = [on EXCEPT ![ch] = "off"]
      /\ UNCHANGED <<rows, gone, active, act, demands, failed, alarms, op, life>>
  BY DEF DeviceEnds
<1>2. /\ on \in [Channels -> {"off", "bounded", "latched"}] /\ failed \subseteq rows \cup gone
      /\ Records(act, active, rows \cup gone)
  BY DEF Watch, Wired
<1>3. /\ on' \in [Channels -> {"off", "bounded", "latched"}]
      /\ \A c \in Channels : on'[c] = "latched" => on[c] = "latched"
  BY <1>1, <1>2
<1>4. Records(act', active', rows \cup gone) /\ Keeping(act, act') BY <1>1, <1>2, Same
<1> QED BY <1>1, <1>2, <1>3, <1>4, CallbackWatch

----------------------------------------------------------------------------

LEMMA WatchInit == Init => Watch
<1> SUFFICES ASSUME Init PROVE Watch OBVIOUS
<1>1. /\ gone = {} /\ demands = {} /\ failed = {} /\ op = [p \in Processes |-> Idle]
      /\ on = [ch \in Channels |-> "off"] /\ active = [o \in Outputs |-> None]
      /\ act = [a \in Activations |-> Free]
  BY DEF Init
<1>2. Records(act, active, rows \cup gone) BY <1>1, FreeTyped DEF Records, Free
<1>3. Wired BY <1>1, <1>2, IdleFits DEF Wired
<1>4. op["engine"] = Idle BY <1>1 DEF Processes
<1>5. Claimed BY <1>1, <1>4 DEF Claimed, Idle
<1>6. Guarded BY <1>1 DEF Guarded
<1> QED BY <1>3, <1>5, <1>6 DEF Watch

LEMMA WatchStep == LedgerInv /\ Watch /\ [Next]_vars => Watch'
<1> SUFFICES ASSUME LedgerInv, Watch, [Next]_vars PROVE Watch' OBVIOUS
<1>1. CASE \E z \in Zones : FireCycle(z) \/ StopAll(z) \/ StopUnowned(z) \/ AdoptBounded(z)
  BY <1>1, FireCycleWatch, StopAllWatch, SideStartsWatch
<1>2. CASE \E o \in Outputs : TestFire(o) \/ Reload(o) BY <1>2, SideStartsWatch, ReloadWatch
<1>3. "engine" \in Processes /\ "side" \in Processes BY DEF Processes
<1>4. CASE EngineWork
  BY <1>3, <1>4, FireReserveWatch, FireWriteWatch, FireArmWatch, UnclaimWatch, TakeOverWatch,
     FinishWatch DEF EngineWork, Work
<1>5. CASE SideWork
  BY <1>3, <1>5, AdoptWatch, TestWatch, UnclaimWatch, TakeOverWatch, FinishWatch
  DEF SideWork, Work
<1>6. CASE \E a \in Activations : Callback(a)
  BY <1>6, TimerWatch, RunStopWatch, StopWriteWatch, VerifyWatch DEF Callback
<1>7. CASE \E ch \in Channels : DeviceEnds(ch) BY <1>7, DeviceEndsWatch
<1>8. CASE Shutdown \/ ShutdownStop \/ StopWatchdogs \/ EngineStop BY <1>8, ShutdownWatch
<1>9. CASE Rest \/ UNCHANGED vars
  <2>1. UNCHANGED vars BY <1>9 DEF Rest
  <2>2. Wired' BY <2>1 DEF vars, Watch, Wired
  <2>3. Claimed' BY <2>1 DEF vars, Watch, Claimed, ForeignRemains
  <2>4. Guarded' BY <2>1 DEF vars, Watch, Guarded, Held, ToStop
  <2> QED BY <2>2, <2>3, <2>4 DEF Watch
<1> QED BY <1>1, <1>2, <1>4, <1>5, <1>6, <1>7, <1>8, <1>9 DEF Next

\* The driver's records, processes, claims and guards, for any number of cycles,
\* passes beside them and faults: the current record of a row is for that row, a
\* stop pass that waits is the record it took over with, every claim belongs to a
\* zone in alarm or is still to be released, and every latched sounder is held.
\* Nothing about the acoustic account is needed but that op has its type.
THEOREM WatchInvariant == Spec => []Watch
<1>1. Init => Watch BY WatchInit
<1>2. LedgerInv /\ Watch /\ [Next]_vars => Watch' BY WatchStep
<1> QED BY <1>1, <1>2, LedgerInvariant, PTL DEF Spec

\* armStopWatchdog, runStop, verifyStop and the claims on shared channels: while
\* the service is up a latched sounder has a stop under way or to come, a failure
\* on record, or a zone in alarm.  It needs no promise about the speed of writes
\* (Prompt) and holds for any number of cycles, passes beside them and faults.
THEOREM SoundersAreGuarded == Spec => []SounderGuarded
<1>1. LedgerInv /\ Watch => SounderGuarded
  <2> SUFFICES ASSUME LedgerInv, Watch, life = "up", NEW ch \in Channels,
                      on[ch] = "latched", SounderChannel(ch)
               PROVE  \E o \in Outputs :
                        /\ Channel[o] = ch
                        /\ Answered(o) \/ o \in gone \/ (o \in rows /\ Zone[o] \in alarms)
    BY DEF SounderGuarded
  <2>1. PICK o \in Outputs : Channel[o] = ch /\ Held(o) BY DEF Watch, Guarded
  <2>2. CASE active[o] # None
    <3>1. active[o] \in Activations /\ act[active[o]].out = o
      BY <2>2 DEF Watch, Wired, Records
    <3> QED BY <2>1, <3>1 DEF Answered, Chain
  <2>3. CASE ToStop(o)
    <3>1. Stopping(o) BY <2>3 DEF ToStop, Stopping, Processes
    <3> QED BY <2>1, <3>1 DEF Answered
  <2>4. CASE o \in failed \cup gone \/ (o \in rows /\ Zone[o] \in alarms)
    BY <2>1, <2>4 DEF Answered
  <2> QED BY <2>1, <2>2, <2>3, <2>4 DEF Held
<1> QED BY <1>1, LedgerInvariant, WatchInvariant, PTL

\* releaseDemandForeignRemains under the engine lock: from the decision of a
\* StopAll to its write no other zone can claim the channel, since claims are made
\* by cycles, which hold the same lock.
THEOREM StopAllSpares == Spec => StopAllSparesOthers
<1> DEFINE A == \A a \in Activations :
                  LET o == act[a].out
                  IN  op["engine"].own = a /\ act[a].phase = "stop" /\ act'[a].phase # "stop"
                        => ~ForeignRemains(o)
<1>1. LedgerInv /\ Watch /\ [Next]_vars => [A]_vars
  <2> SUFFICES ASSUME LedgerInv, Watch, NEW a \in Activations, op["engine"].own = a
               PROVE  ~ForeignRemains(act[a].out)
    OBVIOUS
  <2>1. "engine" \in Processes /\ a # None BY FreeTyped DEF Processes
  <2>2. Fits("engine", op["engine"], act, rows \cup gone, alarms)
    BY <2>1 DEF Watch, Wired
  <2>3. /\ op["engine"].pc = "await" /\ act[a].out = Least(op["engine"].todo)
    BY <2>1, <2>2 DEF Fits
  <2>4. op["engine"].kind = "stop" BY <2>2, <2>3 DEF Fits
  <2> QED BY <2>3, <2>4 DEF Watch, Claimed
<1> HIDE DEF A
<1>2. Spec => [][A]_vars BY <1>1, LedgerInvariant, WatchInvariant, PTL DEF Spec
<1> QED BY <1>2 DEF StopAllSparesOthers, A

=============================================================================
