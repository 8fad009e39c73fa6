------------------------ MODULE CommandThrottleProofs ------------------------
(***************************************************************************)
(* The permit accounting of the throttle for any number of goroutines, any *)
(* capacity, queue depth and assignment of priorities, and that the        *)
(* throttle implements the plain pool of permits.                          *)
(*                                                                         *)
(* Every step of ThrottleNext does one of four things to the two sets the  *)
(* accounting is about, the holders of permits and the waiters: it leaves  *)
(* the holders alone (Neutral), hands a free permit to a goroutine (Takes),*)
(* gives one back (Frees) or passes one on to the first waiter (Hands).    *)
(* The lemmas below show which step is which; the inductive invariant      *)
(* follows from the four cases alone, and so does the refinement.          *)
(***************************************************************************)
EXTENDS CommandThrottle, FiniteSetTheorems, TLAPS

Neutral == /\ Holders' = Holders
           /\ inFlight' = inFlight
           /\ Waiters' # {} => (Waiters # {} \/ inFlight >= Capacity)

Takes(c) == /\ c \in Calls \ Holders
            /\ Holders' = Holders \cup {c}
            /\ inFlight < Capacity /\ inFlight' = inFlight + 1
            /\ Waiters' = {}

Frees(c) == /\ c \in Holders
            /\ Holders' = Holders \ {c}
            /\ inFlight' = IF inFlight > 0 THEN inFlight - 1 ELSE inFlight
            /\ Waiters' = Waiters
            /\ Waiters = {} \/ inFlight' >= Capacity

Hands(c, w) == /\ c \in Holders /\ w \in Calls \ Holders
               /\ Holders' = (Holders \ {c}) \cup {w}
               /\ inFlight' = (IF inFlight > 0 THEN inFlight - 1 ELSE inFlight) + 1
               /\ w \in Waiters

Effect == \/ Neutral
          \/ \E c \in Calls : Takes(c) \/ Frees(c) \/ \E w \in Calls : Hands(c, w)

ThrottleInv ==
    /\ ThrottleTypeOK
    /\ PermitsConserved
    /\ inFlight <= Capacity
    /\ NoIdlePermit
    /\ NobodyParked

----------------------------------------------------------------------------

\* A goroutine that moves inside the holders, or outside both sets, changes
\* nothing the accounting is about.
LEMMA MoveNeutral ==
    ASSUME ThrottleTypeOK, NEW c \in Calls, NEW s \in Stages, Goto(c, s),
           s # "queued", (stage[c] \in HolderStages) <=> (s \in HolderStages),
           inFlight' = inFlight
    PROVE  Neutral /\ Waiters' \subseteq Waiters
<1>1. Holders' = Holders
  BY DEF ThrottleTypeOK, Goto, Holders, HolderStages, Stages
<1>2. Waiters' \subseteq Waiters
  BY DEF ThrottleTypeOK, Goto, Waiters, Stages
<1> QED BY <1>1, <1>2 DEF Neutral

LEMMA GiveBackEffect ==
    ASSUME ThrottleTypeOK, NEW c \in Calls, stage[c] \in HolderStages, GiveBack(c)
    PROVE  /\ Frees(c) \/ \E w \in Calls : Hands(c, w)
           /\ stage' \in [Calls -> Stages] /\ inFlight' \in Int
           /\ ahead' \subseteq Calls \X Calls
           /\ Waiters' \subseteq Waiters
<1> DEFINE left == IF inFlight > 0 THEN inFlight - 1 ELSE inFlight
<1>1. left \in Int
  BY DEF ThrottleTypeOK
<1>2. c \in Holders /\ c \notin Waiters
  BY DEF Holders, Waiters, HolderStages
<1>3. CASE /\ left >= Capacity \/ Waiters = {}
           /\ inFlight' = left
           /\ Goto(c, "idle")
           /\ UNCHANGED ahead
  <2>1. Holders' = Holders \ {c}
    BY <1>3 DEF ThrottleTypeOK, Goto, Holders, HolderStages, Stages
  <2>2. Waiters' = Waiters
    BY <1>3 DEF ThrottleTypeOK, Goto, Waiters, HolderStages, Stages
  <2>3. stage' \in [Calls -> Stages] /\ ahead' \subseteq Calls \X Calls
    BY <1>3 DEF ThrottleTypeOK, Goto, Stages
  <2> QED BY <1>1, <1>2, <1>3, <2>1, <2>2, <2>3 DEF Frees
<1>4. CASE \E w \in Waiters :
             /\ left < Capacity /\ First(w)
             /\ inFlight' = left + 1
             /\ stage' = [stage EXCEPT ![c] = "idle", ![w] = "ready"]
             /\ ahead' = Without(w)
  <2>1. PICK w \in Waiters :
             /\ inFlight' = left + 1
             /\ stage' = [stage EXCEPT ![c] = "idle", ![w] = "ready"]
             /\ ahead' = Without(w)
    BY <1>4
  <2>2. w \in Calls \ Holders /\ w # c
    BY <1>2, <2>1 DEF Holders, Waiters, HolderStages
  <2>3. Holders' = (Holders \ {c}) \cup {w}
    BY <2>1, <2>2 DEF ThrottleTypeOK, Holders, HolderStages, Stages
  <2>4. Waiters' \subseteq Waiters
    BY <2>1, <2>2 DEF ThrottleTypeOK, Waiters, Stages
  <2>5. stage' \in [Calls -> Stages]
    BY <2>1, <2>2 DEF ThrottleTypeOK, Stages
  <2>6. ahead' \subseteq Calls \X Calls
    BY <2>1 DEF ThrottleTypeOK, Without
  <2>7. Hands(c, w)
    BY <1>2, <2>1, <2>2, <2>3 DEF Hands
  <2> QED BY <1>1, <2>1, <2>2, <2>4, <2>5, <2>6, <2>7
<1> QED BY <1>3, <1>4 DEF GiveBack

\* One step per action: what it does to holders and waiters, and that it keeps
\* the types.
LEMMA StepEffect ==
    ASSUME ThrottleInv, ThrottleNext
    PROVE  Effect /\ ThrottleTypeOK' /\ (shut' => Waiters' = {})
<1> USE ThrottleAssumption
<1>0. ThrottleTypeOK /\ NobodyParked /\ NoIdlePermit
  BY DEF ThrottleInv
<1> DEFINE Goal == Effect /\ ThrottleTypeOK' /\ (shut' => Waiters' = {})
<1>a. ASSUME NEW c \in Calls, stage[c] \in HolderStages, GiveBack(c),
             UNCHANGED <<ctxDone, shut, rested>>
      PROVE  Goal
  <2>1. /\ Frees(c) \/ \E w \in Calls : Hands(c, w)
        /\ stage' \in [Calls -> Stages] /\ inFlight' \in Int
        /\ ahead' \subseteq Calls \X Calls
        /\ Waiters' \subseteq Waiters
    BY <1>0, <1>a, GiveBackEffect
  <2>2. Effect
    BY <2>1 DEF Effect
  <2>3. ThrottleTypeOK'
    BY <1>0, <1>a, <2>1 DEF ThrottleTypeOK
  <2> QED BY <1>0, <1>a, <2>1, <2>2, <2>3 DEF NobodyParked
<1>b. ASSUME NEW c \in Calls, NEW s \in Stages \ {"queued"}, Goto(c, s),
             (stage[c] \in HolderStages) <=> (s \in HolderStages),
             UNCHANGED <<ctxDone, inFlight, shut>>, rested' \in BOOLEAN,
             ahead' \subseteq Calls \X Calls
      PROVE  Goal
  <2>1. Neutral /\ Waiters' \subseteq Waiters
    BY <1>0, <1>b, MoveNeutral
  <2>2. ThrottleTypeOK'
    BY <1>0, <1>b DEF ThrottleTypeOK, Goto
  <2> QED BY <1>0, <1>b, <2>1, <2>2 DEF Effect, NobodyParked
<1>1. ASSUME NEW c \in Calls, Acquire(c) PROVE Goal
  <2>1. CASE Critical(c)
    BY <1>0, <1>1, <2>1, <1>b DEF Acquire, ThrottleTypeOK, Stages, HolderStages
  <2>2. CASE ~Critical(c)
    BY <1>0, <1>1, <2>2, <1>b DEF Acquire, ThrottleTypeOK, Stages, HolderStages
  <2> QED BY <2>1, <2>2
<1>2. ASSUME NEW c \in Calls, WaitForDelay(c) PROVE Goal
  BY <1>0, <1>2, <1>b DEF WaitForDelay, Return, ThrottleTypeOK, Stages, HolderStages
<1>3. ASSUME NEW c \in Calls, Sleep(c) PROVE Goal
  BY <1>0, <1>3, <1>b DEF Sleep, Return, ThrottleTypeOK, Stages, HolderStages
<1>4. ASSUME NEW c \in Calls, Enter(c) PROVE Goal
  <2>1. CASE Return(c) /\ UNCHANGED <<inFlight, ahead, rested>>
    BY <1>0, <1>4, <2>1, <1>b DEF Enter, Return, ThrottleTypeOK, Stages, HolderStages
  <2>2. CASE /\ ~shut /\ inFlight < Capacity /\ Waiters = {}
             /\ inFlight' = inFlight + 1
             /\ Goto(c, "held") /\ Record(c)
             /\ UNCHANGED ahead
    <3>1. c \notin Holders
      BY <1>4 DEF Enter, Holders, HolderStages
    <3>2. Holders' = Holders \cup {c}
      BY <1>0, <2>2 DEF ThrottleTypeOK, Goto, Holders, HolderStages, Stages
    <3>3. Waiters' = {}
      BY <1>0, <2>2 DEF ThrottleTypeOK, Goto, Waiters, Stages
    <3>4. rested' \in BOOLEAN
      BY <1>0, <2>2 DEF Record, ThrottleTypeOK
    <3>5. stage' \in [Calls -> Stages]
      BY <1>0, <2>2 DEF ThrottleTypeOK, Goto, Stages
    <3>6. ThrottleTypeOK'
      BY <1>0, <1>4, <2>2, <3>4, <3>5 DEF ThrottleTypeOK, Enter
    <3> QED BY <2>2, <3>1, <3>2, <3>3, <3>6 DEF Effect, Takes
  <2>3. CASE /\ ~shut /\ ~(inFlight < Capacity /\ Waiters = {})
             /\ Goto(c, "queued")
             /\ ahead' = ahead \cup (Waiters \X {c})
             /\ UNCHANGED <<inFlight, rested>>
    <3>1. Holders' = Holders
      BY <1>0, <1>4, <2>3 DEF Enter, ThrottleTypeOK, Goto, Holders, HolderStages, Stages
    <3>2. Waiters # {} \/ inFlight >= Capacity
      BY <1>0, <2>3 DEF ThrottleTypeOK
    <3>3. ahead' \subseteq Calls \X Calls
      BY <1>0, <2>3 DEF ThrottleTypeOK, Waiters
    <3>4. stage' \in [Calls -> Stages]
      BY <1>0, <2>3 DEF ThrottleTypeOK, Goto, Stages
    <3>5. ThrottleTypeOK' /\ ~shut'
      BY <1>0, <1>4, <2>3, <3>3, <3>4 DEF ThrottleTypeOK, Enter
    <3> QED BY <2>3, <3>1, <3>2, <3>5 DEF Effect, Neutral
  <2> QED BY <1>4, <2>1, <2>2, <2>3 DEF Enter
<1>5. ASSUME NEW c \in Calls, Recheck(c) PROVE Goal
  <2>1. CASE GiveBack(c)
    BY <1>5, <2>1, <1>a DEF Recheck, HolderStages
  <2>2. CASE ~GiveBack(c)
    BY <1>0, <1>5, <2>2, <1>b DEF Recheck, ThrottleTypeOK, Stages, HolderStages
  <2> QED BY <2>1, <2>2
<1>6. ASSUME NEW c \in Calls, Doze(c) PROVE Goal
  <2>1. CASE GiveBack(c)
    BY <1>6, <2>1, <1>a DEF Doze, HolderStages
  <2>2. CASE ~GiveBack(c)
    BY <1>0, <1>6, <2>2, <1>b DEF Doze, ThrottleTypeOK, Stages, HolderStages
  <2> QED BY <2>1, <2>2
<1>7. ASSUME NEW c \in Calls, Proceed(c) PROVE Goal
  BY <1>0, <1>7, <1>b DEF Proceed, Record, ThrottleTypeOK, Stages, HolderStages
<1>8. ASSUME NEW c \in Calls, ClosedOut(c) PROVE Goal
  BY <1>0, <1>8, <1>b DEF ClosedOut, Return, ThrottleTypeOK, Stages, HolderStages
<1>9. ASSUME NEW c \in Calls, CancelWaiter(c) PROVE Goal
  <2>1. CASE GiveBack(c) /\ stage[c] = "ready"
    BY <1>9, <2>1, <1>a DEF CancelWaiter, HolderStages
  <2>2. CASE Return(c) /\ stage[c] \in {"queued", "closedOut"} /\ UNCHANGED inFlight
             /\ ahead' \in {Without(c), ahead}
    <3>1. ahead' \subseteq Calls \X Calls
      BY <1>0, <2>2 DEF Without, ThrottleTypeOK
    <3> QED
      BY <1>0, <1>9, <2>2, <3>1, <1>b
      DEF CancelWaiter, Return, ThrottleTypeOK, Stages, HolderStages
  <2> QED BY <1>9, <2>1, <2>2 DEF CancelWaiter
<1>10. ASSUME NEW c \in Calls, Release(c) PROVE Goal
  BY <1>10, <1>a DEF Release, HolderStages
<1>11. ASSUME Contexts \/ Rest PROVE Goal
  <2>1. Holders' = Holders /\ Waiters' = Waiters /\ UNCHANGED <<inFlight, shut>>
    BY <1>11 DEF Contexts, Rest, Holders, Waiters
  <2>2. ThrottleTypeOK'
    BY <1>0, <1>11 DEF Contexts, Rest, ThrottleTypeOK
  <2> QED BY <1>0, <2>1, <2>2 DEF Effect, Neutral, NobodyParked
<1>12. ASSUME ThrottleClose PROVE Goal
  <2>1. Holders' = Holders
    BY <1>0, <1>12 DEF ThrottleTypeOK, ThrottleClose, Holders, HolderStages, Stages
  <2>2. Waiters' = {}
    BY <1>0, <1>12 DEF ThrottleTypeOK, ThrottleClose, Waiters, Stages
  <2>3. stage' \in [Calls -> Stages]
    BY <1>0, <1>12 DEF ThrottleTypeOK, ThrottleClose, Stages
  <2>4. ThrottleTypeOK'
    BY <1>0, <1>12, <2>3 DEF ThrottleClose, ThrottleTypeOK
  <2> QED BY <1>12, <2>1, <2>2, <2>4 DEF Effect, Neutral, ThrottleClose
<1> QED
  BY <1>1, <1>2, <1>3, <1>4, <1>5, <1>6, <1>7, <1>8, <1>9, <1>10, <1>11, <1>12
  DEF ThrottleNext, AcquireStep

\* The counter stays the number of holders in each of the four cases.
LEMMA EffectKeepsCount ==
    ASSUME ThrottleInv, Effect, ThrottleTypeOK'
    PROVE  PermitsConserved' /\ inFlight' <= Capacity /\ NoIdlePermit'
<1> USE ThrottleAssumption
<1>1. IsFiniteSet(Holders) /\ Cardinality(Holders) \in Nat
  BY FS_Subset, FS_CardinalityType DEF Holders
<1>2. inFlight \in Nat /\ inFlight = Cardinality(Holders) /\ inFlight <= Capacity
  BY <1>1 DEF ThrottleInv, PermitsConserved
<1>3. CASE Neutral
  BY <1>2, <1>3 DEF Neutral, ThrottleInv, PermitsConserved, NoIdlePermit
<1>4. ASSUME NEW c \in Calls, Takes(c)
      PROVE  PermitsConserved' /\ inFlight' <= Capacity /\ NoIdlePermit'
  <2>1. Cardinality(Holders') = Cardinality(Holders) + 1
    BY <1>1, <1>4, FS_AddElement DEF Takes
  <2> QED BY <1>2, <1>4, <2>1 DEF Takes, PermitsConserved, NoIdlePermit
<1>5. ASSUME NEW c \in Calls, Frees(c)
      PROVE  PermitsConserved' /\ inFlight' <= Capacity /\ NoIdlePermit'
  <2>1. Cardinality(Holders') = Cardinality(Holders) - 1
    BY <1>1, <1>5, FS_RemoveElement DEF Frees
  <2>2. inFlight > 0
    BY <1>1, <1>2, <1>5, FS_EmptySet DEF Frees
  <2> QED BY <1>2, <1>5, <2>1, <2>2 DEF Frees, PermitsConserved, NoIdlePermit
<1>6. ASSUME NEW c \in Calls, NEW w \in Calls, Hands(c, w)
      PROVE  PermitsConserved' /\ inFlight' <= Capacity /\ NoIdlePermit'
  <2>1. inFlight > 0
    BY <1>1, <1>2, <1>6, FS_EmptySet DEF Hands
  <2>2. IsFiniteSet(Holders \ {c}) /\ Cardinality(Holders \ {c}) = Cardinality(Holders) - 1
    BY <1>1, <1>6, FS_RemoveElement DEF Hands
  <2>3. Cardinality(Holders') = Cardinality(Holders)
    <3> DEFINE rest == Holders \ {c}
    <3>1. w \notin rest /\ Holders' = rest \cup {w}
      BY <1>6 DEF Hands
    <3>2. Cardinality(rest \cup {w}) = Cardinality(rest) + 1
      BY <2>2, <3>1, FS_AddElement
    <3> QED BY <1>1, <2>2, <3>1, <3>2
  <2>4. inFlight' = inFlight
    BY <1>2, <1>6, <2>1 DEF Hands
  <2>5. inFlight >= Capacity
    BY <1>6 DEF Hands, ThrottleInv, NoIdlePermit
  <2> QED BY <1>2, <2>3, <2>4, <2>5 DEF PermitsConserved, NoIdlePermit
<1> QED BY <1>3, <1>4, <1>5, <1>6 DEF Effect

LEMMA InitInv == ThrottleInit => ThrottleInv
<1> SUFFICES ASSUME ThrottleInit PROVE ThrottleInv
  OBVIOUS
<1>1. ThrottleTypeOK
  <2>1. stage \in [Calls -> Stages] /\ ctxDone \in [Calls -> BOOLEAN]
    BY DEF ThrottleInit, Stages
  <2>2. shut \in BOOLEAN /\ rested \in BOOLEAN
    BY Zenon DEF ThrottleInit
  <2>3. inFlight \in Int /\ ahead \subseteq Calls \X Calls
    BY DEF ThrottleInit
  <2> QED BY <2>1, <2>2, <2>3 DEF ThrottleTypeOK
<1>2. Holders = {} /\ Waiters = {}
  BY DEF ThrottleInit, Holders, Waiters, HolderStages
<1> QED
  BY <1>1, <1>2, FS_EmptySet, ThrottleAssumption
  DEF ThrottleInit, ThrottleInv, PermitsConserved, NoIdlePermit, NobodyParked

LEMMA StepInv == ThrottleInv /\ [ThrottleNext]_throttleVars => ThrottleInv'
<1> SUFFICES ASSUME ThrottleInv, [ThrottleNext]_throttleVars PROVE ThrottleInv'
  OBVIOUS
<1>1. CASE ThrottleNext
  BY <1>1, StepEffect, EffectKeepsCount DEF ThrottleInv, NobodyParked
<1>2. CASE UNCHANGED throttleVars
  BY <1>2 DEF throttleVars, ThrottleInv, ThrottleTypeOK, PermitsConserved, NoIdlePermit,
              NobodyParked, Holders, Waiters
<1> QED BY <1>1, <1>2

LEMMA InvariantHolds == ThrottleSpec => []ThrottleInv
  BY InitInv, StepInv, PTL DEF ThrottleSpec

\* The counter inFlight of throttle.go is the number of permits reserved, on
\* every path through acquireFor, Release, cancelWaiter and Close.
THEOREM PermitAccounting == ThrottleSpec => []PermitsConserved
<1>1. ThrottleInv => PermitsConserved
  BY DEF ThrottleInv
<1> QED BY <1>1, InvariantHolds, PTL

\* wakeNextLocked is called wherever it has to be: no permit is free while a
\* waiter is parked, so no command waits longer than it must.
THEOREM NoPermitIdle == ThrottleSpec => []NoIdlePermit
<1>1. ThrottleInv => NoIdlePermit
  BY DEF ThrottleInv
<1> QED BY <1>1, InvariantHolds, PTL

\* Never more than MaxInFlight commands hold a permit.
THEOREM CapacityBound == ThrottleSpec => []Bounded
<1>1. ThrottleInv => Bounded
  BY DEF ThrottleInv, PermitsConserved, Bounded
<1> QED BY <1>1, InvariantHolds, PTL

\* After Close nobody is left in the heap.
THEOREM CloseDrains == ThrottleSpec => []NobodyParked
<1>1. ThrottleInv => NobodyParked
  BY DEF ThrottleInv
<1> QED BY <1>1, InvariantHolds, PTL

\* The throttle, with its queue, priorities, pacing, cancellation and Close,
\* implements the plain pool of permits.
THEOREM ThrottleIsPool == ThrottleSpec => Pool!PoolSpec
<1>1. ThrottleInit => Pool!PoolInit
  BY DEF ThrottleInit, Holders, HolderStages, Pool!PoolInit
<1>2. ThrottleInv /\ [ThrottleNext]_throttleVars => [Pool!PoolNext]_Holders
  <2> SUFFICES ASSUME ThrottleInv, [ThrottleNext]_throttleVars
               PROVE  [Pool!PoolNext]_Holders
    OBVIOUS
  <2>1. CASE UNCHANGED throttleVars
    BY <2>1 DEF throttleVars, Holders
  <2>2. CASE ThrottleNext
    <3>1. Effect
      BY <2>2, StepEffect
    <3>2. CASE Neutral
      BY <3>2 DEF Neutral
    <3>3. ASSUME NEW c \in Calls, Takes(c) PROVE Pool!PoolNext
      <4>1. Pool!Take(c)
        BY <3>3 DEF Takes, ThrottleInv, PermitsConserved, Pool!Take, Pool!Cardinality, Cardinality
      <4> QED BY <4>1 DEF Pool!PoolNext
    <3>4. ASSUME NEW c \in Calls, Frees(c) PROVE Pool!PoolNext
      BY <3>4 DEF Frees, Pool!PoolNext, Pool!Return
    <3>5. ASSUME NEW c \in Calls, NEW w \in Calls, Hands(c, w) PROVE Pool!PoolNext
      BY <3>5 DEF Hands, Pool!PoolNext, Pool!PassOn
    <3> QED BY <3>1, <3>2, <3>3, <3>4, <3>5 DEF Effect
  <2> QED BY <2>1, <2>2
<1> QED BY <1>1, <1>2, InvariantHolds, PTL DEF ThrottleSpec, Pool!PoolSpec
=============================================================================
