-------------------------- MODULE DataPointProofs --------------------------
(***************************************************************************)
(* What the data point holds as confirmed, the CCU has really had: for any *)
(* values, any number of concurrent writers and any number of writes,      *)
(* missed events and changes at the device.                                *)
(***************************************************************************)
EXTENDS DataPoint, TLAPS

\* The processes that carry a value carry one.
Carried ==
    \A p \in Processes :
        pc[p].at \in {"anchor", "apply", "arm", "wire", "store"} => pc[p].val \in Values

DPType == TypeOK /\ Carried

HeldOrNone == held \cup {None}

\* The inductive invariant: NoInventedState says nothing of the values that are
\* still to become the confirmed one.  The CCU's events, the anchor of the
\* tracker, an anchor that a writer has read, one that a rollback has taken out
\* and the value a confirmation is about are all values the CCU has had.
Grounded ==
    /\ ccu \in held
    /\ wire \in Seq(held)
    /\ value \in HeldOrNone
    /\ tracker.prev \in HeldOrNone
    /\ \A p \in Processes :
         /\ pc[p].at \in {"apply", "restore"} => pc[p].mem \in HeldOrNone
         /\ pc[p].at = "store" => pc[p].val \in held

PcType == [Processes -> [at : Steps, val : Maybe, mem : Maybe]]

----------------------------------------------------------------------------
(* Steps of a process *)

\* Goto moves one process and leaves the others where they are.
LEMMA GotoMoves ==
    ASSUME pc \in PcType, NEW p \in Processes,
           NEW s \in Steps, NEW v \in Maybe, NEW m \in Maybe,
           Goto(p, s, v, m)
    PROVE  /\ pc' \in PcType
           /\ pc'[p] = [at |-> s, val |-> v, mem |-> m]
           /\ \A q \in Processes : q # p => pc'[q] = pc[q]
BY DEF Goto, PcType

LEMMA FinishMoves ==
    ASSUME pc \in PcType, NEW p \in Processes, Finish(p)
    PROVE  /\ pc' \in PcType
           /\ pc'[p] = [at |-> "idle", val |-> None, mem |-> None]
           /\ \A q \in Processes : q # p => pc'[q] = pc[q]
BY DEF Finish, Idle, PcType, Steps, Maybe

LEMMA ResetTyped ==
    ASSUME Reset
    PROVE  /\ tracker' \in [active : BOOLEAN, val : Values, prev : Maybe, pending : Nat]
           /\ tracker'.prev = None
           /\ timer' \in BOOLEAN
           /\ waiting' \subseteq Senders
BY DataPointAssumption DEF Reset, Fresh, Maybe

\* A longer history keeps every event on the wire grounded.
LEMMA HeldGrows ==
    ASSUME NEW S, NEW w, NEW q \in Seq(S)
    PROVE  q \in Seq(S \cup {w}) /\ Append(q, w) \in Seq(S \cup {w})
<1>1. q \in [1 .. Len(q) -> S] /\ Len(q) \in Nat OBVIOUS
<1>2. q \in [1 .. Len(q) -> S \cup {w}] BY <1>1
<1>3. q \in Seq(S \cup {w}) BY <1>1, <1>2
<1> QED BY <1>3

----------------------------------------------------------------------------

LEMMA InitHolds == Init => DPType /\ Grounded
<1> SUFFICES ASSUME Init PROVE DPType /\ Grounded OBVIOUS
<1>1. pc \in PcType BY DEF Init, Idle, PcType, Steps, Maybe
<1>2. \A p \in Processes : pc[p].at = "idle" BY DEF Init, Idle
<1>3. TypeOK
  <2>1. tracker \in [active : BOOLEAN, val : Values, prev : Maybe, pending : Nat]
    BY DataPointAssumption DEF Init, Fresh, Maybe
  <2>2. /\ ccu \in Values /\ held \subseteq Values
        /\ wire \in Seq(Values) /\ value \in Maybe
    BY DataPointAssumption DEF Init, Maybe
  <2>4. timer \in BOOLEAN /\ waiting \subseteq Senders BY DEF Init
  <2>3. writes \in 0 .. MaxWrites /\ upsets \in 0 .. MaxUpsets
    <3>1. MaxWrites \in Nat /\ MaxUpsets \in Nat BY DataPointAssumption
    <3>2. writes = 0 /\ upsets = 0 BY DEF Init
    <3> QED BY <3>1, <3>2
  <2> QED BY <1>1, <2>1, <2>2, <2>3, <2>4 DEF TypeOK, PcType
<1>4. Carried BY <1>2 DEF Carried
<1>5. Grounded BY <1>2 DEF Init, Grounded, Fresh, HeldOrNone
<1> QED BY <1>3, <1>4, <1>5 DEF DPType

\* The steps of the CCU and of the writers.
LEMMA CCUSteps ==
    ASSUME DPType, Grounded, DeviceChanges
    PROVE  DPType' /\ Grounded'
<1> USE DEF DPType
<1>1. PICK w \in Values \ {ccu} : Differs(w) BY DEF DeviceChanges
<1>2. wire' \in Seq(held') BY <1>1, HeldGrows DEF Grounded, Differs
<1>3. wire' \in Seq(Values) BY <1>1 DEF TypeOK, Differs
<1>4. TypeOK'
  BY <1>1, <1>3, DataPointAssumption DEF TypeOK, DeviceChanges, Differs, Upset
<1>5. Carried' BY DEF Carried, DeviceChanges
<1>6. Grounded' BY <1>1, <1>2 DEF Grounded, DeviceChanges, Differs, HeldOrNone
<1> QED BY <1>4, <1>5, <1>6

LEMMA WriteSteps ==
    ASSUME DPType, Grounded, NEW s \in Senders, StartWrite(s) \/ Write(s)
    PROVE  DPType' /\ Grounded'
<1> USE DEF DPType
<1>0. s \in Processes BY DEF Processes
<1>t. pc \in PcType BY DEF TypeOK, PcType
<1>n. None \in Maybe /\ \A v \in Values : v \in Maybe BY DEF Maybe
<1>1. CASE StartWrite(s)
  <2>1. PICK v \in Values :
          IF tracker.active /\ tracker.val = v
          THEN Goto(s, "wire", v, None) \/ UNCHANGED pc
          ELSE Goto(s, "anchor", v, None)
    BY <1>1 DEF StartWrite
  <2>2. /\ TypeOK' <=> pc' \in PcType
        /\ UNCHANGED <<ccu, wire, value, tracker, held>>
    BY <1>1, DataPointAssumption DEF StartWrite, TypeOK, PcType
  <2>3. \/ Goto(s, "wire", v, None) \/ Goto(s, "anchor", v, None)
        \/ UNCHANGED pc BY <2>1
  <2>4. CASE UNCHANGED pc BY <2>2, <2>4, <1>t DEF Carried, Grounded, HeldOrNone
  <2>5. CASE Goto(s, "wire", v, None)
    <3>1. /\ pc' \in PcType
          /\ pc'[s] = [at |-> "wire", val |-> v, mem |-> None]
          /\ \A q \in Processes : q # s => pc'[q] = pc[q]
      BY <1>0, <1>t, <1>n, <2>5, GotoMoves DEF Steps
    <3> QED BY <2>2, <3>1 DEF Carried, Grounded, HeldOrNone
  <2>6. CASE Goto(s, "anchor", v, None)
    <3>1. /\ pc' \in PcType
          /\ pc'[s] = [at |-> "anchor", val |-> v, mem |-> None]
          /\ \A q \in Processes : q # s => pc'[q] = pc[q]
      BY <1>0, <1>t, <1>n, <2>6, GotoMoves DEF Steps
    <3> QED BY <2>2, <3>1 DEF Carried, Grounded, HeldOrNone
  <2> QED BY <2>3, <2>4, <2>5, <2>6
<1>2. CASE Anchor(s)
  <2>1. /\ TypeOK' <=> pc' \in PcType
        /\ UNCHANGED <<ccu, wire, value, tracker, held>>
    BY <1>2 DEF Anchor, TypeOK, PcType
  <2>2. pc[s].val \in Values /\ value \in Maybe
    BY <1>0, <1>2 DEF Anchor, At, Carried, TypeOK
  <2>3. /\ pc' \in PcType
        /\ pc'[s] = [at |-> "apply", val |-> pc[s].val, mem |-> value]
        /\ \A q \in Processes : q # s => pc'[q] = pc[q]
    BY <1>0, <1>t, <1>n, <1>2, <2>2, GotoMoves DEF Steps, Anchor
  <2> QED BY <2>1, <2>2, <2>3 DEF Carried, Grounded, HeldOrNone
<1>3. CASE Applies(s)
  <2>1. pc[s].val \in Values /\ pc[s].mem \in HeldOrNone /\ pc[s].mem \in Maybe
    BY <1>0, <1>t, <1>3 DEF Applies, At, Carried, Grounded, PcType
  <2>2. /\ tracker' \in [active : BOOLEAN, val : Values, prev : Maybe, pending : Nat]
        /\ tracker'.prev \in HeldOrNone
    BY <1>3, <2>1 DEF Applies, Apply, TypeOK, Grounded
  <2>3. /\ pc' \in PcType
        /\ pc'[s] = [at |-> "arm", val |-> pc[s].val, mem |-> None]
        /\ \A q \in Processes : q # s => pc'[q] = pc[q]
    BY <1>0, <1>t, <1>n, <1>3, <2>1, GotoMoves DEF Steps, Applies
  <2>4. TypeOK' BY <1>3, <2>2, <2>3 DEF Applies, TypeOK, PcType
  <2>5. UNCHANGED <<ccu, wire, value, held>> BY <1>3 DEF Applies
  <2> QED BY <2>1, <2>2, <2>3, <2>4, <2>5 DEF Carried, Grounded, HeldOrNone
<1>4. CASE Arm(s)
  <2>1. pc[s].val \in Values BY <1>0, <1>4 DEF Arm, At, Carried
  <2>2. /\ pc' \in PcType
        /\ pc'[s] = [at |-> "wire", val |-> pc[s].val, mem |-> None]
        /\ \A q \in Processes : q # s => pc'[q] = pc[q]
    BY <1>0, <1>t, <1>n, <1>4, <2>1, GotoMoves DEF Steps, Arm
  <2>3. TypeOK' /\ UNCHANGED <<ccu, wire, value, tracker, held>>
    BY <1>4, <2>2 DEF Arm, TypeOK, PcType
  <2> QED BY <2>1, <2>2, <2>3 DEF Carried, Grounded, HeldOrNone
<1>5. CASE Dispatch(s)
  <2>1. pc[s].val \in Values BY <1>0, <1>5 DEF Dispatch, At, Carried
  <2>2. \/ \E w \in Values : Takes(w) \/ Differs(w)
        \/ UNCHANGED <<ccu, wire, held, upsets>>
    BY <1>5, <2>1 DEF Dispatch
  <2>3. /\ ccu' \in Values /\ ccu' \in held'
        /\ wire' \in Seq(Values) /\ wire' \in Seq(held')
        /\ held \subseteq held' /\ held' \subseteq Values
        /\ upsets' \in 0 .. MaxUpsets
    <3>1. CASE UNCHANGED <<ccu, wire, held, upsets>> BY <3>1 DEF TypeOK, Grounded
    <3>2. ASSUME NEW w \in Values, Takes(w) \/ Differs(w) PROVE <2>3!:
      <4>1. ccu' = w /\ held' = held \cup {w} BY <3>2 DEF Takes, Differs
      <4>2. wire' = wire \/ wire' = Append(wire, w) BY <3>2 DEF Takes, Differs
      <4>3. upsets' \in 0 .. MaxUpsets
        BY <3>2, DataPointAssumption DEF Takes, Differs, Upset, TypeOK
      <4>4. wire' \in Seq(held') BY <4>1, <4>2, HeldGrows DEF Grounded
      <4>5. wire' \in Seq(Values) BY <4>2 DEF TypeOK
      <4> QED BY <4>1, <4>3, <4>4, <4>5 DEF TypeOK
    <3> QED BY <2>2, <3>1, <3>2
  <2>4. UNCHANGED <<value, tracker, timer, waiting, writes>> BY <1>5 DEF Dispatch
  <2>5. \/ Goto(s, "echo", None, None) \/ Goto(s, "rollback", None, None)
    BY <1>5 DEF Dispatch
  <2>6. /\ pc' \in PcType
        /\ \/ pc'[s] = [at |-> "echo", val |-> None, mem |-> None]
           \/ pc'[s] = [at |-> "rollback", val |-> None, mem |-> None]
        /\ \A q \in Processes : q # s => pc'[q] = pc[q]
    BY <1>0, <1>t, <1>n, <2>5, GotoMoves DEF Steps
  <2>7. TypeOK' BY <2>3, <2>4, <2>6 DEF TypeOK, PcType
  <2>8. Carried' BY <2>6 DEF Carried
  <2>9. Grounded' BY <2>3, <2>4, <2>6 DEF Grounded, HeldOrNone
  <2> QED BY <2>7, <2>8, <2>9
<1>6. CASE Echo(s) \/ Wake(s)
  <2>1. /\ pc' \in PcType
        /\ \/ pc'[s] = [at |-> "idle", val |-> None, mem |-> None]
           \/ pc'[s] = [at |-> "waiting", val |-> None, mem |-> None]
        /\ \A q \in Processes : q # s => pc'[q] = pc[q]
    BY <1>0, <1>t, <1>n, <1>6, GotoMoves, FinishMoves DEF Steps, Echo, Wake
  <2>2. TypeOK' /\ UNCHANGED <<ccu, wire, value, tracker, held>>
    BY <1>6, <2>1 DEF Echo, Wake, TypeOK, PcType
  <2> QED BY <2>1, <2>2 DEF Carried, Grounded, HeldOrNone
<1> QED BY <1>1, <1>2, <1>3, <1>4, <1>5, <1>6 DEF Write

\* The steps of a rollback.
LEMMA UndoSteps ==
    ASSUME DPType, Grounded, NEW p \in Senders \cup {"timer"},
           Undo(p) \/ (p = "timer" /\ Fire)
    PROVE  DPType' /\ Grounded'
<1> USE DEF DPType
<1>0. p \in Processes BY DEF Processes
<1>t. pc \in PcType BY DEF TypeOK, PcType
<1>n. None \in Maybe BY DEF Maybe
<1>1. CASE p = "timer" /\ Fire
  <2>1. /\ pc' \in PcType
        /\ pc'[p] = [at |-> "rollback", val |-> None, mem |-> None]
        /\ \A q \in Processes : q # p => pc'[q] = pc[q]
    BY <1>0, <1>t, <1>n, <1>1, GotoMoves DEF Steps, Fire
  <2>2. TypeOK' /\ UNCHANGED <<ccu, wire, value, tracker, held>>
    BY <1>1, <2>1 DEF Fire, TypeOK, PcType
  <2> QED BY <2>1, <2>2 DEF Carried, Grounded, HeldOrNone
<1>2. CASE Rollback(p) /\ tracker.active
  <2>1. tracker.prev \in Maybe /\ tracker.prev \in HeldOrNone
    BY DEF TypeOK, Grounded
  <2>2. /\ pc' \in PcType
        /\ pc'[p] = [at |-> "restore", val |-> None, mem |-> tracker.prev]
        /\ \A q \in Processes : q # p => pc'[q] = pc[q]
    BY <1>0, <1>t, <1>n, <1>2, <2>1, GotoMoves DEF Steps, Rollback
  <2>3. Reset /\ UNCHANGED <<ccu, wire, value, held, writes, upsets>>
    BY <1>2 DEF Rollback
  <2>4. TypeOK' BY <2>2, <2>3, ResetTyped DEF TypeOK, PcType
  <2> QED BY <2>1, <2>2, <2>3, <2>4, ResetTyped DEF Carried, Grounded, HeldOrNone
<1>3. CASE Rollback(p) /\ ~tracker.active
  <2>1. /\ pc' \in PcType
        /\ pc'[p] = [at |-> "idle", val |-> None, mem |-> None]
        /\ \A q \in Processes : q # p => pc'[q] = pc[q]
    BY <1>0, <1>t, <1>3, FinishMoves DEF Rollback
  <2>2. TypeOK' /\ UNCHANGED <<ccu, wire, value, tracker, held>>
    BY <1>3, <2>1 DEF Rollback, TypeOK, PcType
  <2> QED BY <2>1, <2>2 DEF Carried, Grounded, HeldOrNone
<1>4. CASE Restore(p)
  <2>1. /\ pc' \in PcType
        /\ pc'[p] = [at |-> "idle", val |-> None, mem |-> None]
        /\ \A q \in Processes : q # p => pc'[q] = pc[q]
    BY <1>0, <1>t, <1>4, FinishMoves DEF Restore
  <2>2. value' \in Maybe /\ value' \in HeldOrNone
    BY <1>0, <1>t, <1>4 DEF Restore, At, Grounded, PcType
  <2>3. TypeOK' /\ UNCHANGED <<ccu, wire, tracker, held>>
    BY <1>4, <2>1, <2>2 DEF Restore, TypeOK, PcType
  <2> QED BY <2>1, <2>2, <2>3 DEF Carried, Grounded, HeldOrNone
<1> QED BY <1>1, <1>2, <1>3, <1>4 DEF Undo

\* An event or a swept value is taken up: it is one the CCU has had.
LEMMA SourceSteps ==
    ASSUME DPType, Grounded, Deliver \/ Sweep
    PROVE  DPType' /\ Grounded'
<1> USE DEF DPType
<1>t. pc \in PcType BY DEF TypeOK, PcType
<1>n. None \in Maybe /\ \A v \in Values : v \in Maybe BY DEF Maybe
<1>1. PICK p \in Confirmers, v \in held :
        Goto(p, "store", v, None) /\ (wire' = wire \/ (wire # <<>> /\ wire' = Tail(wire)))
  <2>1. CASE Deliver
    <3>1. Head(wire) \in held BY <2>1 DEF Deliver, Grounded
    <3> QED BY <2>1, <3>1 DEF Deliver, Confirmers
  <2>2. CASE Sweep
    <3>1. ccu \in held BY DEF Grounded
    <3> QED BY <2>2, <3>1 DEF Sweep, Confirmers
  <2> QED BY <2>1, <2>2
<1>2. v \in Values /\ p \in Processes BY DEF TypeOK, Processes
<1>3. /\ pc' \in PcType
      /\ pc'[p] = [at |-> "store", val |-> v, mem |-> None]
      /\ \A q \in Processes : q # p => pc'[q] = pc[q]
  BY <1>1, <1>2, <1>t, <1>n, GotoMoves DEF Steps
<1>4. wire' \in Seq(Values) /\ wire' \in Seq(held)
  <2>1. wire \in Seq(Values) /\ wire \in Seq(held) BY DEF TypeOK, Grounded
  <2>2. wire # <<>> => Tail(wire) \in Seq(Values) BY <2>1
  <2>3. wire # <<>> => Tail(wire) \in Seq(held) BY <2>1
  <2> QED BY <1>1, <2>1, <2>2, <2>3
<1>5. UNCHANGED <<ccu, value, tracker, timer, waiting, held, writes, upsets>>
  BY DEF Deliver, Sweep
<1>6. TypeOK' BY <1>3, <1>4, <1>5 DEF TypeOK, PcType
<1> QED BY <1>2, <1>3, <1>4, <1>5, <1>6 DEF Carried, Grounded, HeldOrNone

\* The steps of applyConfirmed.
LEMMA ConfirmSteps ==
    ASSUME DPType, Grounded, NEW p \in Confirmers, ApplyConfirmed(p)
    PROVE  DPType' /\ Grounded'
<1> USE DEF DPType
<1>0. p \in Processes BY DEF Processes
<1>t. pc \in PcType BY DEF TypeOK, PcType
<1>n. None \in Maybe /\ pc[p].val \in Maybe /\ tracker.val \in Maybe
  BY <1>0, <1>t DEF Maybe, PcType, TypeOK
<1>1. /\ pc' \in PcType
      /\ pc'[p].at \in {"idle", "look", "snap", "confirm", "check", "clear"}
      /\ \A q \in Processes : q # p => pc'[q] = pc[q]
  <2>1. ASSUME NEW a \in {"look", "snap", "confirm", "check", "clear"},
               NEW v \in Maybe, NEW m \in Maybe, Goto(p, a, v, m)
        PROVE  <1>1!:
    <3>1. a \in Steps BY DEF Steps
    <3>2. /\ pc' \in PcType
          /\ pc'[p] = [at |-> a, val |-> v, mem |-> m]
          /\ \A q \in Processes : q # p => pc'[q] = pc[q]
      BY <1>0, <1>t, <2>1, <3>1, GotoMoves
    <3>3. pc'[p].at = a BY <3>2
    <3> QED BY <3>2, <3>3
  <2>2. ASSUME Finish(p) PROVE <1>1!:
    <3>1. /\ pc' \in PcType
          /\ pc'[p] = [at |-> "idle", val |-> None, mem |-> None]
          /\ \A q \in Processes : q # p => pc'[q] = pc[q]
      BY <1>0, <1>t, <2>2, FinishMoves
    <3>2. pc'[p].at = "idle" BY <3>1
    <3> QED BY <3>1, <3>2
  <2>3. \/ Finish(p)
        \/ Goto(p, "look", pc[p].val, None) \/ Goto(p, "snap", pc[p].val, None)
        \/ Goto(p, "confirm", pc[p].val, tracker.val)
        \/ Goto(p, "check", None, None) \/ Goto(p, "clear", None, None)
    BY DEF ApplyConfirmed, Store, Look, Snap, Confirm, Check, Clear
  <2> QED BY <1>n, <2>1, <2>2, <2>3
<1>2. UNCHANGED <<ccu, wire, held, writes, upsets>>
  BY DEF ApplyConfirmed, Store, Look, Snap, Confirm, Check, Clear
<1>3. value' \in Maybe /\ value' \in HeldOrNone
  <2>1. CASE Store(p)
    <3>1. pc[p].val \in held BY <1>0, <2>1 DEF Store, At, Grounded
    <3> QED BY <2>1, <3>1, <1>n DEF Store, HeldOrNone
  <2>2. CASE ~Store(p)
    <3>1. value' = value
      BY <2>2 DEF ApplyConfirmed, Look, Snap, Confirm, Check, Clear
    <3> QED BY <3>1 DEF TypeOK, Grounded
  <2> QED BY <2>1, <2>2
<1>4. /\ tracker' \in [active : BOOLEAN, val : Values, prev : Maybe, pending : Nat]
      /\ tracker'.prev \in HeldOrNone
      /\ timer' \in BOOLEAN /\ waiting' \subseteq Senders
  <2>1. CASE Clear(p) BY <2>1, ResetTyped DEF Clear, HeldOrNone
  <2>2. CASE Confirm(p)
    <3>1. tracker' = ConfirmOne(tracker) /\ UNCHANGED <<timer, waiting>>
      BY <2>2 DEF Confirm
    <3>2. \/ tracker' = tracker
          \/ tracker.pending > 0 /\ tracker' = [tracker EXCEPT !.pending = @ - 1]
      BY <3>1 DEF ConfirmOne
    <3> QED BY <3>1, <3>2 DEF TypeOK, Grounded
  <2>3. CASE Store(p) \/ Look(p) \/ Snap(p) \/ Check(p)
    BY <2>3 DEF Store, Look, Snap, Check, TypeOK, Grounded
  <2> QED BY <2>1, <2>2, <2>3 DEF ApplyConfirmed
<1>5. TypeOK' BY <1>1, <1>2, <1>3, <1>4 DEF TypeOK, PcType
<1> QED BY <1>1, <1>2, <1>3, <1>4, <1>5 DEF Carried, Grounded, HeldOrNone

----------------------------------------------------------------------------

LEMMA StepHolds == DPType /\ Grounded /\ [Next]_vars => (DPType /\ Grounded)'
<1> SUFFICES ASSUME DPType, Grounded, [Next]_vars PROVE (DPType /\ Grounded)' OBVIOUS
<1>1. CASE UNCHANGED vars
  BY <1>1 DEF vars, DPType, TypeOK, Carried, Grounded, HeldOrNone
<1>2. CASE DeviceChanges BY <1>2, CCUSteps
<1>3. CASE \E s \in Senders : StartWrite(s) \/ Write(s) BY <1>3, WriteSteps
<1>4. CASE Fire \/ \E p \in Senders \cup {"timer"} : Undo(p) BY <1>4, UndoSteps
<1>5. CASE Deliver \/ Sweep BY <1>5, SourceSteps
<1>6. CASE \E p \in Confirmers : ApplyConfirmed(p) BY <1>6, ConfirmSteps
<1> QED BY <1>1, <1>2, <1>3, <1>4, <1>5, <1>6 DEF Next

\* For any number of writers, writes, missed events and changes at the device:
\* the value held as confirmed is one the CCU has had.  No rollback, skipped
\* burst or late confirmation turns a value that was only asked for into one.
THEOREM ConfirmedIsReal == Spec => []NoInventedState
<1>1. DPType /\ Grounded => NoInventedState
  BY DEF Grounded, NoInventedState, HeldOrNone
<1> QED BY InitHolds, StepHolds, <1>1, PTL DEF Spec
=============================================================================
