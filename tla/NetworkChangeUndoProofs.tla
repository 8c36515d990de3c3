----------------------- MODULE NetworkChangeUndoProofs -----------------------
(***************************************************************************)
(* The way back from an unconfirmed profile is never lost: NetworkChange's *)
(* inductive invariant, for every set of networks, tokens and workers and  *)
(* every bound, provided the delays of the code order the steps as its     *)
(* numbers say (Timely).  And from it: NetworkChange implements            *)
(* NetworkPromise.                                                         *)
(***************************************************************************)
EXTENDS NetworkChangeProofs

\* What Core speaks about.
coreVars == <<state, profile, applyTimer, rollbackTimer, rollback, trusted, abandoned>>

\* No request of worker w works on the pending change.
Bystander(w) == request[w].pc \notin ApplyPc \union ConfirmPc

LEMMA IdleFields == Idle.pc = "idle" /\ NoChange.phase = "none"
  BY DEF Idle, NoChange

\* What moving one worker does to all of them.
LEMMA BecomeWorkers ==
    ASSUME RequestType, NEW w \in Worker, NEW r, Become(w, r)
    PROVE  /\ request'[w] = r
           /\ \A v \in Worker : v # w => request'[v] = request[v]
  BY DEF Become, RequestType

LEMMA GotoWorkers ==
    ASSUME RequestType, NEW w \in Worker, NEW pc, Goto(w, pc)
    PROVE  /\ request'[w].pc = pc /\ request'[w].change = request[w].change
           /\ \A v \in Worker : v # w => request'[v] = request[v]
  BY DEF Goto, RequestType, Process

\* Steps that touch nothing Core speaks about.
LEMMA CoreStutters ==
    ASSUME Core, UNCHANGED <<coreVars, activation, request>>
    PROVE  Core'
  BY DEF Core, coreVars, ActivationAlone, ActivationGuarded, RollbackUnitOnce, SavedTrusted,
     ApplyUndisturbed, ApplyClears, ConfirmHoldsCandidate, UndoKept, UndoScheduled,
     ConfirmableIsApplied

\* A request that has nothing to do with the pending change may go on.
LEMMA CoreBystander ==
    ASSUME Types, Core, NEW w \in Worker, Bystander(w), Bystander(w)',
           \A v \in Worker : v # w => request'[v] = request[v],
           UNCHANGED <<coreVars, activation>>
    PROVE  Core'
<1>1. /\ ApplyUndisturbed' /\ ConfirmHoldsCandidate' /\ ApplyClears'
  BY DEF Core, coreVars, ApplyUndisturbed, ApplyClears, ConfirmHoldsCandidate, Bystander, ApplyPc,
     ConfirmPc
<1>2. ActivationAlone' /\ UndoScheduled'
  BY DEF Core, coreVars, ActivationAlone, UndoScheduled, Bystander, ConfirmPc
<1>3. /\ ActivationGuarded' /\ RollbackUnitOnce' /\ SavedTrusted'
      /\ UndoKept' /\ ConfirmableIsApplied'
  BY DEF Core, coreVars, ActivationGuarded, RollbackUnitOnce, SavedTrusted, UndoKept,
     ConfirmableIsApplied
<1>. QED BY <1>1, <1>2, <1>3 DEF Core

\* The activation may end at any point.
LEMMA CoreActivationEnds ==
    ASSUME Core, activation' = Idle, UNCHANGED <<coreVars, request>>
    PROVE  Core'
  BY IdleFields DEF Core, coreVars, ActivationAlone, ActivationGuarded, RollbackUnitOnce, SavedTrusted,
     ApplyUndisturbed, ApplyClears, ConfirmHoldsCandidate, UndoKept, UndoScheduled,
     ConfirmableIsApplied

\* The activation may go on without touching the profile once it is armed.
LEMMA CoreActivationGoesOn ==
    ASSUME Core, activation.pc \in {"up", "render", "install"},
           activation'.pc \in {"render", "install", "commit"},
           activation'.change = activation.change,
           UNCHANGED <<coreVars, request>>
    PROVE  Core'
  BY IdleFields DEF Core, coreVars, ActivationAlone, ActivationGuarded, RollbackUnitOnce, SavedTrusted,
     ApplyUndisturbed, ApplyClears, ConfirmHoldsCandidate, UndoKept, UndoScheduled,
     ConfirmableIsApplied

-----------------------------------------------------------------------------
(* One lemma per process: its steps keep Core.                             *)

LEMMA ApplyCore ==
    ASSUME Timely, Types, Core, NEW w \in Worker,
           ApplyCheck(w) \/ ApplyStop(w) \/ ApplySave(w) \/ ApplySaveFails(w) \/ ApplySchedule(w)
    PROVE  Core'
<1>0. RequestType
  BY DEF Types
<1>1. CASE ApplyCheck(w)
  <2>1. PICK t \in Token : Become(w, [Idle EXCEPT !.pc = "stop", !.token = t])
    BY <1>1 DEF ApplyCheck
  <2>2. /\ request[w].pc = "idle" /\ request'[w].pc = "stop"
        /\ \A v \in Worker : v # w => request'[v] = request[v]
    <3>1. /\ request'[w] = [Idle EXCEPT !.pc = "stop", !.token = t]
          /\ \A v \in Worker : v # w => request'[v] = request[v]
      BY <1>0, <2>1, BecomeWorkers
    <3>. QED BY <1>1, <3>1 DEF ApplyCheck, Working, Idle
  <2>3. UNCHANGED <<coreVars, activation>> /\ state.phase = "none"
    BY <1>1 DEF ApplyCheck, coreVars, disk, units
  <2>4. activation.pc = "idle" /\ profile \in trusted
    BY <2>3 DEF Core, ActivationAlone, UndoKept
  <2>5. ActivationAlone' /\ ActivationGuarded' /\ RollbackUnitOnce' /\ SavedTrusted'
    BY <2>3, <2>4 DEF Core, coreVars, ActivationAlone, ActivationGuarded, RollbackUnitOnce,
       SavedTrusted
  <2>6. ApplyUndisturbed' /\ ApplyClears' /\ ConfirmHoldsCandidate'
    BY <2>2, <2>3, <2>4 DEF Core, coreVars, ApplyUndisturbed, ApplyClears, ConfirmHoldsCandidate,
       ConfirmPc
  <2>7. UndoKept' /\ UndoScheduled' /\ ConfirmableIsApplied'
    BY <2>3, <2>4 DEF Core, coreVars, UndoKept, UndoScheduled, ConfirmableIsApplied
  <2>. QED BY <2>5, <2>6, <2>7 DEF Core
<1>2. CASE ApplyStop(w)
  <2>1. /\ request[w].pc = "stop" /\ request'[w].pc = "save"
        /\ \A v \in Worker : v # w => request'[v] = request[v]
    BY <1>0, <1>2, GotoWorkers DEF ApplyStop, Working
  <2>2. /\ activation' = Idle /\ rollback' = Idle /\ rollbackTimer' = NoToken
        /\ UNCHANGED <<state, profile, trusted, abandoned>>
    BY <1>2 DEF ApplyStop, disk, history
  <2>3. profile \in trusted /\ state.phase # "active"
    BY <2>1 DEF Core, ApplyUndisturbed, ApplyPc
  <2>4. ActivationAlone' /\ ActivationGuarded' /\ RollbackUnitOnce' /\ SavedTrusted'
    BY <2>2, IdleFields DEF Core, ActivationAlone, ActivationGuarded, RollbackUnitOnce, SavedTrusted
  <2>5. ApplyUndisturbed' /\ ApplyClears' /\ ConfirmHoldsCandidate'
    BY <2>1, <2>2, <2>3, IdleFields DEF Core, ApplyUndisturbed, ApplyClears, ConfirmHoldsCandidate,
       ConfirmPc
  <2>6. UndoKept' /\ UndoScheduled' /\ ConfirmableIsApplied'
    BY <2>2, <2>3 DEF UndoKept, UndoScheduled, ConfirmableIsApplied
  <2>. QED BY <2>4, <2>5, <2>6 DEF Core
<1>3. CASE ApplySave(w)
  <2>1. /\ request[w].pc = "save" /\ request'[w].pc = "schedule"
        /\ \A v \in Worker : v # w => request'[v] = request[v]
    BY <1>0, <1>3, GotoWorkers DEF ApplySave, Working
  <2>2. /\ state'.phase = "staged" /\ state'.profile = profile
        /\ UNCHANGED <<profile, applyTimer, rollbackTimer, activation, rollback, trusted, abandoned>>
    BY <1>3 DEF ApplySave, SavedChange, disk, units, history
  <2>3. /\ profile \in trusted /\ state.phase # "active"
        /\ activation.pc = "idle" /\ rollback.pc = "idle" /\ rollbackTimer = NoToken
    BY <2>1 DEF Core, ApplyUndisturbed, ApplyPc, ApplyClears
  <2>4. ActivationAlone' /\ ActivationGuarded' /\ RollbackUnitOnce' /\ SavedTrusted'
    BY <2>2, <2>3 DEF ActivationAlone, ActivationGuarded, RollbackUnitOnce, SavedTrusted
  <2>5. ApplyUndisturbed' /\ ApplyClears' /\ ConfirmHoldsCandidate'
    BY <2>1, <2>2, <2>3 DEF Core, ApplyUndisturbed, ApplyClears, ConfirmHoldsCandidate, ConfirmPc
  <2>6. UndoKept' /\ UndoScheduled' /\ ConfirmableIsApplied'
    BY <2>2, <2>3 DEF UndoKept, UndoScheduled, ConfirmableIsApplied
  <2>. QED BY <2>4, <2>5, <2>6 DEF Core
<1>4. CASE ApplySchedule(w)
  <2>1. /\ request[w].pc = "schedule" /\ request'[w].pc = "idle"
        /\ \A v \in Worker : v # w => request'[v] = request[v]
    BY <1>0, <1>4, BecomeWorkers, IdleFields DEF ApplySchedule, Working
  <2>2. /\ state' = state \/ state' = NoChange
        /\ UNCHANGED <<profile, rollbackTimer, activation, rollback, trusted, abandoned>>
    BY <1>4 DEF ApplySchedule, disk, history
  <2>3. /\ profile \in trusted /\ state.phase # "active"
        /\ activation.pc = "idle" /\ rollback.pc = "idle" /\ rollbackTimer = NoToken
    BY <2>1 DEF Core, ApplyUndisturbed, ApplyPc, ApplyClears
  <2>4. ActivationAlone' /\ ActivationGuarded' /\ RollbackUnitOnce' /\ SavedTrusted'
    BY <2>2, <2>3, IdleFields DEF Core, ActivationAlone, ActivationGuarded, RollbackUnitOnce,
       SavedTrusted
  <2>5. ApplyUndisturbed' /\ ApplyClears' /\ ConfirmHoldsCandidate'
    BY <2>1, <2>2, <2>3, IdleFields DEF Core, ApplyUndisturbed, ApplyClears, ConfirmHoldsCandidate,
       ApplyPc, ConfirmPc
  <2>6. UndoKept' /\ UndoScheduled' /\ ConfirmableIsApplied'
    BY <2>2, <2>3, IdleFields DEF UndoKept, UndoScheduled, ConfirmableIsApplied
  <2>. QED BY <2>4, <2>5, <2>6 DEF Core
<1>5. CASE ApplySaveFails(w)
  <2>1. /\ request[w].pc = "save" /\ request'[w].pc = "idle"
        /\ \A v \in Worker : v # w => request'[v] = request[v]
    BY <1>0, <1>5, BecomeWorkers, IdleFields DEF ApplySaveFails, Working
  <2>2. /\ UNCHANGED <<state, profile, applyTimer, rollbackTimer, activation, rollback, trusted>>
        /\ "restore" \in abandoned' <=> "restore" \in abandoned
    BY <1>5 DEF ApplySaveFails, Abandon, disk, units
  <2>3. /\ profile \in trusted /\ state.phase # "active"
        /\ activation.pc = "idle" /\ rollback.pc = "idle" /\ rollbackTimer = NoToken
    BY <2>1 DEF Core, ApplyUndisturbed, ApplyPc, ApplyClears
  <2>4. ActivationAlone' /\ ActivationGuarded' /\ RollbackUnitOnce' /\ SavedTrusted'
    BY <2>2, <2>3 DEF Core, ActivationAlone, ActivationGuarded, RollbackUnitOnce, SavedTrusted
  <2>5. ApplyUndisturbed' /\ ApplyClears' /\ ConfirmHoldsCandidate'
    BY <2>1, <2>2, <2>3 DEF Core, ApplyUndisturbed, ApplyClears, ConfirmHoldsCandidate,
       ApplyPc, ConfirmPc
  <2>6. UndoKept' /\ UndoScheduled' /\ ConfirmableIsApplied'
    BY <2>2, <2>3 DEF UndoKept, UndoScheduled, ConfirmableIsApplied
  <2>. QED BY <2>4, <2>5, <2>6 DEF Core
<1>. QED BY <1>1, <1>2, <1>3, <1>4, <1>5

LEMMA ConfirmCore ==
    ASSUME Timely, Types, Core, NEW w \in Worker,
           ConfirmStart(w) \/ ConfirmStop(w) \/ ConfirmUnlink(w)
    PROVE  Core'
<1>0. RequestType
  BY DEF Types
<1>1. CASE ConfirmStart(w)
  <2>1. /\ request[w].pc = "idle"
        /\ request'[w].pc = "confirmStop" /\ request'[w].change = state
        /\ \A v \in Worker : v # w => request'[v] = request[v]
    <3>1. Become(w, [Idle EXCEPT !.pc = "confirmStop", !.change = state]) /\ request[w].pc = "idle"
      BY <1>1 DEF ConfirmStart, Working
    <3>2. /\ [Idle EXCEPT !.pc = "confirmStop", !.change = state].pc = "confirmStop"
          /\ [Idle EXCEPT !.pc = "confirmStop", !.change = state].change = state
      BY DEF Idle
    <3>3. /\ request'[w] = [Idle EXCEPT !.pc = "confirmStop", !.change = state]
          /\ \A v \in Worker : v # w => request'[v] = request[v]
      BY <1>0, <3>1, BecomeWorkers
    <3>. QED BY <3>1, <3>2, <3>3
  <2>2. UNCHANGED <<coreVars, activation>> /\ state.phase = "active"
    BY <1>1 DEF ConfirmStart, coreVars, disk, units, history
  <2>3. activation.pc = "idle" /\ profile \in trusted \union {state.candidate}
    BY <2>2 DEF Core, ActivationAlone, UndoKept
  <2>4. ActivationAlone' /\ ActivationGuarded' /\ RollbackUnitOnce' /\ SavedTrusted'
    BY <2>2, <2>3 DEF Core, coreVars, ActivationAlone, ActivationGuarded, RollbackUnitOnce,
       SavedTrusted
  <2>5. ApplyUndisturbed' /\ ApplyClears' /\ ConfirmHoldsCandidate'
    BY <2>1, <2>2, <2>3 DEF Core, coreVars, ApplyUndisturbed, ApplyClears, ConfirmHoldsCandidate,
       ApplyPc
  <2>6. UndoKept' /\ UndoScheduled' /\ ConfirmableIsApplied'
    BY <2>1, <2>2 DEF Core, coreVars, UndoKept, UndoScheduled, ConfirmableIsApplied
  <2>. QED BY <2>4, <2>5, <2>6 DEF Core
<1>2. CASE ConfirmStop(w)
  <2>1. /\ request[w].pc = "confirmStop"
        /\ request'[w].pc = "confirmUnlink" /\ request'[w].change = request[w].change
        /\ \A v \in Worker : v # w => request'[v] = request[v]
    BY <1>0, <1>2, GotoWorkers DEF ConfirmStop, Working
  <2>2. /\ rollbackTimer' = NoToken
        /\ UNCHANGED <<state, profile, applyTimer, activation, rollback, trusted, abandoned>>
    BY <1>2 DEF ConfirmStop, disk, history
  <2>3. activation.pc = "idle"
    BY <2>1 DEF Core, ActivationAlone, ConfirmPc
  <2>4. ActivationAlone' /\ ActivationGuarded' /\ RollbackUnitOnce' /\ SavedTrusted'
    BY <2>2, <2>3 DEF Core, ActivationAlone, ActivationGuarded, RollbackUnitOnce, SavedTrusted
  <2>5. ApplyUndisturbed' /\ ApplyClears' /\ ConfirmHoldsCandidate'
    BY <2>1, <2>2 DEF Core, ApplyUndisturbed, ApplyClears, ConfirmHoldsCandidate, ApplyPc,
       ConfirmPc
  <2>6. UndoKept' /\ UndoScheduled' /\ ConfirmableIsApplied'
    BY <2>1, <2>2 DEF Core, UndoKept, UndoScheduled, ConfirmableIsApplied
  <2>. QED BY <2>4, <2>5, <2>6 DEF Core
<1>3. CASE ConfirmUnlink(w)
  <2>1. /\ request[w].pc = "confirmUnlink" /\ request'[w].pc = "idle"
        /\ \A v \in Worker : v # w => request'[v] = request[v]
    BY <1>0, <1>3, BecomeWorkers, IdleFields DEF ConfirmUnlink, Working
  <2>2. /\ state' = NoChange
        /\ trusted' = trusted \union {request[w].change.candidate}
        /\ UNCHANGED <<profile, applyTimer, rollbackTimer, activation, rollback, abandoned>>
    BY <1>3 DEF ConfirmUnlink, disk, units
  <2>3. activation.pc = "idle" /\ profile \in trusted'
    BY <2>1, <2>2 DEF Core, ActivationAlone, ConfirmHoldsCandidate, ConfirmPc
  <2>4. ActivationAlone' /\ ActivationGuarded' /\ RollbackUnitOnce' /\ SavedTrusted'
    BY <2>2, <2>3, IdleFields DEF Core, ActivationAlone, ActivationGuarded, RollbackUnitOnce,
       SavedTrusted
  <2>5. ApplyUndisturbed' /\ ApplyClears' /\ ConfirmHoldsCandidate'
    BY <2>1, <2>2, <2>3, IdleFields DEF Core, ApplyUndisturbed, ApplyClears, ConfirmHoldsCandidate,
       ApplyPc, ConfirmPc
  <2>6. UndoKept' /\ UndoScheduled' /\ ConfirmableIsApplied'
    BY <2>2, <2>3, IdleFields DEF UndoKept, UndoScheduled, ConfirmableIsApplied
  <2>. QED BY <2>4, <2>5, <2>6 DEF Core
<1>. QED BY <1>1, <1>2, <1>3

LEMMA ActivateCore ==
    ASSUME Timely, Types, Core, ActivateStart \/ ActivateStep
    PROVE  Core'
<1>1. CASE ActivateStart
  <2>1. /\ UNCHANGED <<state, profile, rollbackTimer, rollback, trusted, abandoned, request>>
        /\ applyTimer # NoToken /\ applyTimer' = NoToken
    BY <1>1 DEF ActivateStart, disk, history
  <2>2. \A v \in Worker : Bystander(v)
    BY <1>1 DEF ActivateStart, RequestsSettled, Bystander
  <2>3. /\ rollback.pc = "idle" /\ rollbackTimer = NoToken /\ state.phase # "active"
    BY <2>1 DEF Core, ApplyClears
  <2>4. CASE state.phase # "none" /\ state.token = applyTimer
    <3>1. activation' = [Idle EXCEPT !.pc = "arm", !.change = state]
      BY <1>1, <2>4 DEF ActivateStart
    <3>2. activation'.pc = "arm" /\ activation'.change = state
      BY <3>1 DEF Idle
    <3>3. state.phase = "staged"
      BY <2>3, <2>4, PendingIsChange DEF Types, StoreType, Change
    <3>4. ActivationAlone' /\ ActivationGuarded' /\ RollbackUnitOnce' /\ SavedTrusted'
      BY <2>1, <2>2, <2>3, <3>2, <3>3 DEF Core, ActivationAlone, ActivationGuarded,
         RollbackUnitOnce, SavedTrusted, Bystander
    <3>5. ApplyUndisturbed' /\ ApplyClears' /\ ConfirmHoldsCandidate'
      BY <2>1, <2>2 DEF ApplyUndisturbed, ApplyClears, ConfirmHoldsCandidate, Bystander, ApplyPc
    <3>6. UndoKept' /\ UndoScheduled' /\ ConfirmableIsApplied'
      BY <2>1 DEF Core, UndoKept, UndoScheduled, ConfirmableIsApplied
    <3>. QED BY <3>4, <3>5, <3>6 DEF Core
  <2>5. CASE ~(state.phase # "none" /\ state.token = applyTimer)
    <3>1. activation'.pc = "idle"
      BY <1>1, <2>5, IdleFields DEF ActivateStart
    <3>2. ActivationAlone' /\ ActivationGuarded' /\ RollbackUnitOnce' /\ SavedTrusted'
      BY <2>1, <2>2, <2>3, <3>1 DEF Core, ActivationAlone, ActivationGuarded, RollbackUnitOnce,
         SavedTrusted
    <3>3. ApplyUndisturbed' /\ ApplyClears' /\ ConfirmHoldsCandidate'
      BY <2>1, <2>2 DEF ApplyUndisturbed, ApplyClears, ConfirmHoldsCandidate, Bystander, ApplyPc
    <3>4. UndoKept' /\ UndoScheduled' /\ ConfirmableIsApplied'
      BY <2>1 DEF Core, UndoKept, UndoScheduled, ConfirmableIsApplied
    <3>. QED BY <3>2, <3>3, <3>4 DEF Core
  <2>. QED BY <2>4, <2>5
\* What holds while the activation runs.
<1>0. ASSUME activation.pc # "idle"
      PROVE  /\ rollback.pc = "idle"
             /\ state = activation.change /\ state.phase = "staged"
             /\ \A v \in Worker : Bystander(v)
             /\ state.profile \in trusted
  BY <1>0 DEF Core, ActivationAlone, SavedTrusted, Bystander
<1>2. CASE ActivateArm
  <2>1. CASE activation' = Idle /\ UNCHANGED rollbackTimer
    <3>1. UNCHANGED <<coreVars, request>>
      BY <1>2, <2>1 DEF ActivateArm, coreVars, disk, history
    <3>. QED BY <2>1, <3>1, CoreActivationEnds
  <2>2. CASE /\ RollbackUnitFree
             /\ rollbackTimer' = activation.change.token
             /\ activation' = [activation EXCEPT !.pc = "modify"]
    <3>1. /\ activation.pc = "arm"
          /\ UNCHANGED <<state, profile, applyTimer, rollback, trusted, abandoned, request>>
      BY <1>2 DEF ActivateArm, disk, history
    <3>2. activation'.pc = "modify" /\ activation'.change = activation.change
      BY <2>2 DEF Types, ActivationType, Process
    <3>3. ActivationAlone' /\ ActivationGuarded' /\ RollbackUnitOnce' /\ SavedTrusted'
      BY <1>0, <2>2, <3>1, <3>2 DEF Core, ActivationAlone, ActivationGuarded, RollbackUnitOnce,
         SavedTrusted, Bystander
    <3>4. ApplyUndisturbed' /\ ApplyClears' /\ ConfirmHoldsCandidate'
      BY <1>0, <3>1 DEF Core, ApplyUndisturbed, ApplyClears, ConfirmHoldsCandidate, Bystander,
         ApplyPc
    <3>5. UndoKept' /\ UndoScheduled' /\ ConfirmableIsApplied'
      BY <1>0, <2>2, <3>1 DEF Core, UndoKept, UndoScheduled, ConfirmableIsApplied
    <3>. QED BY <3>3, <3>4, <3>5 DEF Core
  <2>. QED BY <1>2, <2>1, <2>2 DEF ActivateArm
<1>3. CASE ActivateModify
  <2>1. CASE activation' = Idle /\ UNCHANGED profile
    <3>1. UNCHANGED <<coreVars, request>>
      BY <1>3, <2>1 DEF ActivateModify, coreVars, units, history
    <3>. QED BY <2>1, <3>1, CoreActivationEnds
  <2>2. CASE /\ profile' = activation.change.candidate
             /\ activation' = [activation EXCEPT !.pc = "up"]
    <3>1. /\ activation.pc = "modify"
          /\ UNCHANGED <<state, applyTimer, rollbackTimer, rollback, trusted, abandoned, request>>
      BY <1>3 DEF ActivateModify, units, history
    <3>2. activation'.pc = "up" /\ activation'.change = activation.change
      BY <2>2 DEF Types, ActivationType, Process
    <3>3. rollbackTimer = state.token
      BY <1>0, <3>1 DEF Core, ActivationGuarded
    <3>4. ActivationAlone' /\ ActivationGuarded' /\ RollbackUnitOnce' /\ SavedTrusted'
      BY <1>0, <2>2, <3>1, <3>2, <3>3 DEF Core, ActivationAlone, ActivationGuarded,
         RollbackUnitOnce, SavedTrusted, Bystander
    <3>5. ApplyUndisturbed' /\ ApplyClears' /\ ConfirmHoldsCandidate'
      BY <1>0, <3>1 DEF Core, ApplyUndisturbed, ApplyClears, ConfirmHoldsCandidate, Bystander,
         ApplyPc
    <3>6. UndoKept' /\ UndoScheduled' /\ ConfirmableIsApplied'
      BY <1>0, <2>2, <3>1, <3>3 DEF UndoKept, UndoScheduled, ConfirmableIsApplied
    <3>. QED BY <3>4, <3>5, <3>6 DEF Core
  <2>. QED BY <1>3, <2>1, <2>2 DEF ActivateModify
<1>4. CASE ActivateUp
  <2>1. activation.pc = "up" /\ UNCHANGED <<coreVars, request>>
    BY <1>4 DEF ActivateUp, coreVars, disk, units, history
  <2>2. CASE activation' = Idle
    BY <2>1, <2>2, CoreActivationEnds
  <2>3. CASE \E n \in Yields(profile) : activation' = [activation EXCEPT !.pc = "render", !.rules = {n}]
    <3>1. activation'.pc = "render" /\ activation'.change = activation.change
      BY <2>3 DEF Types, ActivationType, Process
    <3>. QED BY <2>1, <3>1, CoreActivationGoesOn
  <2>. QED BY <1>4, <2>2, <2>3 DEF ActivateUp
<1>5. CASE ActivateRender
  <2>1. activation.pc = "render" /\ UNCHANGED <<coreVars, request>>
    BY <1>5 DEF ActivateRender, coreVars, units, history
  <2>2. activation'.pc = "install" /\ activation'.change = activation.change
    BY <1>5 DEF ActivateRender, Types, ActivationType, Process
  <2>. QED BY <2>1, <2>2, CoreActivationGoesOn
<1>6. CASE ActivateInstall
  <2>1. activation.pc = "install" /\ UNCHANGED <<coreVars, request>>
    BY <1>6 DEF ActivateInstall, coreVars, units, history
  <2>2. CASE activation' = Idle
    BY <2>1, <2>2, CoreActivationEnds
  <2>3. CASE activation' = [activation EXCEPT !.pc = "commit"]
    <3>1. activation'.pc = "commit" /\ activation'.change = activation.change
      BY <2>3 DEF Types, ActivationType, Process
    <3>. QED BY <2>1, <3>1, CoreActivationGoesOn
  <2>. QED BY <1>6, <2>2, <2>3 DEF ActivateInstall
<1>7. CASE ActivateCommit
  <2>1. /\ activation.pc = "commit" /\ activation' = Idle
        /\ UNCHANGED <<profile, applyTimer, rollbackTimer, rollback, trusted, abandoned, request>>
    BY <1>7 DEF ActivateCommit, disk, units, history
  <2>2. /\ state'.phase = "active" /\ state'.token = state.token
        /\ state'.profile = state.profile /\ state'.candidate = state.candidate
    BY <1>0, <1>7, <2>1 DEF ActivateCommit, Types, ActivationType, Change
  <2>3. profile = state.candidate
    BY <1>0, <2>1 DEF Core, ActivationGuarded
  <2>4. ActivationAlone' /\ ActivationGuarded' /\ RollbackUnitOnce' /\ SavedTrusted'
    BY <1>0, <2>1, <2>2, IdleFields DEF Core, ActivationAlone, ActivationGuarded, RollbackUnitOnce,
       SavedTrusted
  <2>5. ApplyUndisturbed' /\ ApplyClears' /\ ConfirmHoldsCandidate'
    BY <1>0, <2>1 DEF Core, ApplyUndisturbed, ApplyClears, ConfirmHoldsCandidate, Bystander, ApplyPc
  <2>6. UndoKept' /\ UndoScheduled' /\ ConfirmableIsApplied'
    BY <1>0, <2>1, <2>2, <2>3 DEF Core, UndoKept, UndoScheduled, ConfirmableIsApplied
  <2>. QED BY <2>4, <2>5, <2>6 DEF Core
<1>. QED BY <1>1, <1>2, <1>3, <1>4, <1>5, <1>6, <1>7 DEF ActivateStep

LEMMA RollbackStartCore ==
    ASSUME Timely, Types, Core, RollbackStart
    PROVE  Core'
<1>1. /\ rollbackTimer # NoToken /\ rollbackTimer' = NoToken /\ activation.pc = "idle"
      /\ UNCHANGED <<state, profile, applyTimer, activation, request, trusted, abandoned>>
  BY DEF RollbackStart, ActivationSettled, disk, history
<1>2. rollback.pc = "idle"
  BY <1>1 DEF Core, RollbackUnitOnce
<1>3. /\ rollback'.pc \in {"idle", "read"}
      /\ state.phase # "none" /\ state.token = rollbackTimer => rollback'.pc = "read"
  BY IdleFields DEF RollbackStart, Idle
<1>4. ActivationAlone' /\ ActivationGuarded' /\ RollbackUnitOnce' /\ SavedTrusted'
  BY <1>1, <1>3 DEF Core, ActivationAlone, ActivationGuarded, RollbackUnitOnce, SavedTrusted
<1>5. ApplyUndisturbed' /\ ApplyClears' /\ ConfirmHoldsCandidate'
  BY <1>1 DEF Core, ApplyUndisturbed, ApplyClears, ConfirmHoldsCandidate
<1>6. UndoKept' /\ ConfirmableIsApplied'
  BY <1>1, <1>2 DEF Core, UndoKept, ConfirmableIsApplied
<1>7. UndoScheduled'
  BY <1>1, <1>2, <1>3 DEF Core, UndoKept, UndoScheduled
<1>. QED BY <1>4, <1>5, <1>6, <1>7 DEF Core

LEMMA RestoreCore ==
    ASSUME Timely, Types, Core, RestoreStep
    PROVE  Core'
<1>0. /\ rollback.pc # "idle" /\ activation.pc = "idle" /\ applyTimer = NoToken
      /\ rollbackTimer = NoToken
      /\ \A w \in Worker : request[w].pc \notin {"save", "schedule"}
  <2>1. rollback.pc # "idle"
    BY DEF RestoreStep, RestoreRead, RestoreModify, RestoreUp, RestoreNft, RestoreUnlink
  <2>. QED BY <2>1 DEF Core, ActivationAlone, ApplyClears, RollbackUnitOnce
<1>1. UNCHANGED <<applyTimer, rollbackTimer, activation, request, trusted>>
  BY DEF RestoreStep, RestoreRead, RestoreModify, RestoreUp, RestoreNft, RestoreUnlink, units,
     history
<1>2. ActivationAlone' /\ ActivationGuarded' /\ RollbackUnitOnce' /\ ApplyClears'
  BY <1>0, <1>1 DEF ActivationAlone, ActivationGuarded, RollbackUnitOnce, ApplyClears
\* The five steps differ in what they do to the rest.
<1>3. CASE RestoreRead
  <2>1. UNCHANGED <<state, profile, abandoned>> /\ rollback.pc = "read"
    BY <1>3 DEF RestoreRead, disk, history
  <2>2. CASE /\ state.phase # "none"
             /\ rollback' = [rollback EXCEPT !.pc = "modify", !.change = state]
    <3>1. rollback'.pc = "modify" /\ rollback'.change = state
      BY <2>2 DEF Types, RollbackType, Process
    <3>2. SavedTrusted' /\ ApplyUndisturbed' /\ ConfirmHoldsCandidate'
      BY <1>1, <2>1, <2>2, <3>1 DEF Core, SavedTrusted, ApplyUndisturbed, ConfirmHoldsCandidate
    <3>3. UndoKept' /\ UndoScheduled' /\ ConfirmableIsApplied'
      BY <1>1, <2>1, <3>1 DEF Core, UndoKept, UndoScheduled, ConfirmableIsApplied
    <3>. QED BY <1>2, <3>2, <3>3 DEF Core
  <2>3. CASE state.phase = "none" /\ rollback' = Idle
    <3>1. SavedTrusted' /\ ApplyUndisturbed' /\ ConfirmHoldsCandidate'
      BY <1>1, <2>1, <2>3, IdleFields DEF Core, SavedTrusted, ApplyUndisturbed,
         ConfirmHoldsCandidate
    <3>2. UndoKept' /\ UndoScheduled' /\ ConfirmableIsApplied'
      BY <1>1, <2>1, <2>3 DEF Core, UndoKept, UndoScheduled, ConfirmableIsApplied
    <3>. QED BY <1>2, <3>1, <3>2 DEF Core
  <2>. QED BY <1>3, <2>2, <2>3 DEF RestoreRead
\* A restore that fails leaves the change pending, and says so.
<1>4. ASSUME RestoreFails, UNCHANGED <<state, profile>>
      PROVE  Core'
  <2>1. /\ rollback'.pc = "idle"
        /\ "restore" \in abandoned' <=> "restore" \in abandoned \/ state.phase # "none"
    BY <1>4, IdleFields DEF RestoreFails, Abandon
  <2>2. SavedTrusted' /\ ApplyUndisturbed' /\ ConfirmHoldsCandidate'
    BY <1>1, <1>4, <2>1 DEF Core, SavedTrusted, ApplyUndisturbed, ConfirmHoldsCandidate
  <2>3. UndoKept' /\ UndoScheduled' /\ ConfirmableIsApplied'
    BY <1>1, <1>4, <2>1 DEF Core, UndoKept, UndoScheduled, ConfirmableIsApplied
  <2>. QED BY <1>2, <2>2, <2>3 DEF Core
<1>5. CASE RestoreModify
  <2>1. rollback.pc = "modify" /\ UNCHANGED state
    BY <1>5 DEF RestoreModify
  <2>2. CASE RestoreFails /\ UNCHANGED profile
    BY <1>4, <2>1, <2>2
  <2>3. CASE /\ profile' = rollback.change.profile
             /\ rollback' = [rollback EXCEPT !.pc = "up"]
             /\ UNCHANGED abandoned
    <3>1. /\ rollback'.pc = "up" /\ rollback'.change = rollback.change
          /\ profile' = rollback'.change.profile
      BY <2>3 DEF Types, RollbackType, Process
    <3>2. profile' \in trusted
      BY <2>1, <2>3 DEF Core, SavedTrusted
    <3>3. SavedTrusted' /\ ApplyUndisturbed' /\ ConfirmHoldsCandidate'
      BY <1>1, <2>1, <3>1, <3>2 DEF Core, SavedTrusted, ApplyUndisturbed, ConfirmHoldsCandidate
    <3>4. UndoKept' /\ UndoScheduled' /\ ConfirmableIsApplied'
      BY <1>1, <3>1, <3>2 DEF UndoKept, UndoScheduled, ConfirmableIsApplied
    <3>. QED BY <1>2, <3>3, <3>4 DEF Core
  <2>. QED BY <1>5, <2>2, <2>3 DEF RestoreModify
<1>6. ASSUME UNCHANGED <<state, profile, abandoned>>, rollback.pc \in {"up", "nft"},
             rollback'.pc \in {"nft", "unlink"}, rollback'.change = rollback.change
      PROVE  Core'
  <2>1. SavedTrusted' /\ ApplyUndisturbed' /\ ConfirmHoldsCandidate'
    BY <1>1, <1>6 DEF Core, SavedTrusted, ApplyUndisturbed, ConfirmHoldsCandidate
  <2>2. UndoKept' /\ UndoScheduled' /\ ConfirmableIsApplied'
    BY <1>1, <1>6 DEF Core, UndoKept, UndoScheduled, ConfirmableIsApplied
  <2>. QED BY <1>2, <2>1, <2>2 DEF Core
<1>7. CASE RestoreUp
  <2>1. rollback.pc = "up" /\ UNCHANGED <<state, profile>>
    BY <1>7 DEF RestoreUp, disk
  <2>2. CASE RestoreFails
    BY <1>4, <2>1, <2>2
  <2>3. CASE rollback' = [rollback EXCEPT !.pc = "nft"] /\ UNCHANGED abandoned
    <3>1. rollback'.pc = "nft" /\ rollback'.change = rollback.change
      BY <2>3 DEF Types, RollbackType, Process
    <3>. QED BY <1>6, <2>1, <2>3, <3>1
  <2>. QED BY <1>7, <2>2, <2>3 DEF RestoreUp
<1>8. CASE RestoreNft
  <2>1. rollback.pc = "nft" /\ UNCHANGED <<state, profile, abandoned>>
    BY <1>8 DEF RestoreNft, history
  <2>2. rollback'.pc = "unlink" /\ rollback'.change = rollback.change
    BY <1>8 DEF RestoreNft, Types, RollbackType, Process
  <2>. QED BY <1>6, <2>1, <2>2
<1>9. CASE RestoreUnlink
  <2>1. /\ rollback.pc = "unlink" /\ rollback' = Idle /\ state' = NoChange
        /\ UNCHANGED <<profile, abandoned>>
    BY <1>9 DEF RestoreUnlink, disk, history
  <2>2. profile \in trusted
    BY <2>1 DEF Core, SavedTrusted
  <2>3. SavedTrusted' /\ ApplyUndisturbed' /\ ConfirmHoldsCandidate'
    BY <1>1, <2>1, <2>2, IdleFields DEF Core, SavedTrusted, ApplyUndisturbed, ConfirmHoldsCandidate
  <2>4. UndoKept' /\ UndoScheduled' /\ ConfirmableIsApplied'
    BY <1>1, <2>1, <2>2, IdleFields DEF UndoKept, UndoScheduled, ConfirmableIsApplied
  <2>. QED BY <1>2, <2>3, <2>4 DEF Core
<1>. QED BY <1>3, <1>5, <1>7, <1>8, <1>9 DEF RestoreStep

LEMMA EditCore ==
    ASSUME Types, Core, NEW w \in Worker,
           EditStart(w) \/ EditWrite(w) \/ EditRender(w) \/ EditInstall(w)
    PROVE  Core'
<1>0. RequestType
  BY DEF Types
<1>1. UNCHANGED <<coreVars, activation>>
  BY DEF EditStart, EditWrite, EditRender, EditInstall, coreVars, disk, units, history
<1>2. Bystander(w)
  BY DEF EditStart, EditWrite, EditRender, EditInstall, Working, Bystander, ApplyPc, ConfirmPc
<1>3. \E r : Become(w, r) /\ r.pc \in {"idle", "write", "render", "install"}
  <2>1. CASE EditStart(w)
    <3>1. \E list, rules : \/ Become(w, [Idle EXCEPT !.pc = "write", !.list = list, !.rules = rules])
                           \/ Become(w, [Idle EXCEPT !.pc = "write", !.list = list])
      BY <2>1 DEF EditStart
    <3>2. \A list, rules : /\ [Idle EXCEPT !.pc = "write", !.list = list, !.rules = rules].pc = "write"
                           /\ [Idle EXCEPT !.pc = "write", !.list = list].pc = "write"
      BY DEF Idle
    <3>. QED BY <3>1, <3>2
  <2>2. CASE EditWrite(w)
    <3>1. [request[w] EXCEPT !.pc = "render", !.list = {}].pc = "render"
      BY <1>0 DEF RequestType, Process
    <3>. QED BY <2>2, <3>1 DEF EditWrite
  <2>3. CASE EditRender(w)
    <3>1. \A rules : [Idle EXCEPT !.pc = "install", !.rules = rules].pc = "install"
      BY DEF Idle
    <3>. QED BY <2>3, <3>1, IdleFields DEF EditRender
  <2>4. CASE EditInstall(w)
    BY <2>4, IdleFields DEF EditInstall
  <2>. QED BY <2>1, <2>2, <2>3, <2>4
<1>4. /\ \A v \in Worker : v # w => request'[v] = request[v]
      /\ request'[w].pc \in {"idle", "write", "render", "install"}
  BY <1>0, <1>3, BecomeWorkers
<1>5. Bystander(w)'
  BY <1>4 DEF Bystander, ApplyPc, ConfirmPc
<1>. QED BY <1>1, <1>2, <1>4, <1>5, CoreBystander

LEMMA RebootCore ==
    ASSUME Types, Core, Reboot
    PROVE  Core'
<1>1. /\ UNCHANGED <<state, profile, trusted>>
      /\ applyTimer' = NoToken /\ rollbackTimer' = NoToken
      /\ activation'.pc = "idle" /\ rollback'.pc = "idle"
      /\ "restore" \in abandoned' <=> "restore" \in abandoned \/ state.phase # "none"
  BY IdleFields DEF Reboot, Abandon, disk
<1>2. \A w \in Worker : request'[w].pc = "idle"
  BY IdleFields DEF Reboot
<1>3. ActivationAlone' /\ ActivationGuarded' /\ RollbackUnitOnce' /\ SavedTrusted'
  BY <1>1 DEF Core, ActivationAlone, ActivationGuarded, RollbackUnitOnce, SavedTrusted
<1>4. ApplyUndisturbed' /\ ApplyClears' /\ ConfirmHoldsCandidate'
  BY <1>1, <1>2 DEF ApplyUndisturbed, ApplyClears, ConfirmHoldsCandidate, ApplyPc, ConfirmPc
<1>5. UndoKept' /\ UndoScheduled' /\ ConfirmableIsApplied'
  BY <1>1 DEF Core, UndoKept, UndoScheduled, ConfirmableIsApplied
<1>. QED BY <1>3, <1>4, <1>5 DEF Core

-----------------------------------------------------------------------------
LEMMA InitCore == Init => Core
  BY IdleFields DEF Init, Core, ActivationAlone, ActivationGuarded, RollbackUnitOnce, SavedTrusted,
     ApplyUndisturbed, ApplyClears, ConfirmHoldsCandidate, UndoKept, UndoScheduled,
     ConfirmableIsApplied, ApplyPc, ConfirmPc

LEMMA NextCore ==
    ASSUME Timely, Types, Core, [Next]_vars
    PROVE  Core'
<1>1. CASE UNCHANGED vars
  BY <1>1, CoreStutters DEF vars, disk, units, history, coreVars
<1>2. CASE MigrateStep \/ LeaseChange \/ Reconnect
  <2>1. UNCHANGED <<coreVars, activation, request>>
    BY <1>2 DEF MigrateStep, MigrateStart, MigrateInstall, LeaseChange, Reconnect, coreVars, disk,
       units, history
  <2>. QED BY <2>1, CoreStutters
<1>3. ASSUME NEW w \in Worker, RequestStart(w) \/ RequestStep(w)
      PROVE  Core'
  BY <1>3, ApplyCore, ConfirmCore, EditCore DEF RequestStart, RequestStep
<1>. QED BY <1>1, <1>2, <1>3, ActivateCore, RollbackStartCore, RestoreCore, RebootCore DEF Next

\* The inductive invariant: with the delays of the code, every process finds
\* what it relies on, whatever the others do between two of its steps.
THEOREM InductiveInvCorrect == Spec => []InductiveInv
<1>1. Init => InductiveInv
  BY InitType, InitCore DEF InductiveInv
<1>2. InductiveInv /\ [Next]_vars => InductiveInv'
  <2> SUFFICES ASSUME InductiveInv, [Next]_vars
               PROVE  TypeOK' /\ (Timely => Core')
    BY DEF InductiveInv
  <2>1. TypeOK'
    BY NextTypes DEF InductiveInv
  <2>2. Timely => Core'
    BY TypeParts, NextCore DEF InductiveInv, Types
  <2>. QED BY <2>1, <2>2
<1>. QED BY <1>1, <1>2, PTL DEF Spec

\* While an unconfirmed profile runs, STATE holds that change and a confirmed
\* profile to go back to.
THEOREM UndoKeptCorrect == Spec => []UndoKept
<1>1. InductiveInv => UndoKept
  BY DEF InductiveInv, Core, UndoKept
<1>. QED BY <1>1, InductiveInvCorrect, PTL

\* Unless the machine went down or a restore failed, an armed or running
\* rollback or a confirmation under way is going to end it.
THEOREM UndoScheduledCorrect == Spec => []UndoScheduled
<1>1. InductiveInv => UndoScheduled
  BY DEF InductiveInv, Core, UndoScheduled
<1>. QED BY <1>1, InductiveInvCorrect, PTL

\* What the administrator is offered to confirm is what the device runs.
THEOREM ConfirmableIsAppliedCorrect == Spec => []ConfirmableIsApplied
<1>1. InductiveInv => ConfirmableIsApplied
  BY DEF InductiveInv, Core, ConfirmableIsApplied
<1>. QED BY <1>1, InductiveInvCorrect, PTL

\* An activation runs beside no rollback, apply or confirm, on the change in
\* the STATE file.
THEOREM ActivationAloneCorrect == Spec => []ActivationAlone
<1>1. InductiveInv => ActivationAlone
  BY DEF InductiveInv, Core, ActivationAlone
<1>. QED BY <1>1, InductiveInvCorrect, PTL

\* A rollback that removes the STATE file has put the saved profile back.
THEOREM RollbackRestoresCorrect ==
    ASSUME Timely
    PROVE  Spec => RollbackRestores
<1>1. InductiveInv /\ [Next]_vars => [RestoreUnlink => profile = rollback.change.profile]_vars
  BY DEF InductiveInv, Core, SavedTrusted, RestoreUnlink
<1>. QED BY <1>1, InductiveInvCorrect, PTL DEF Spec, RollbackRestores

-----------------------------------------------------------------------------
(* NetworkChange implements NetworkPromise: each step of its processes is  *)
(* one of the abstract transaction, or changes nothing of it.              *)

LEMMA PendingFields ==
    ASSUME state \in Change
    PROVE  PendingChange = [phase |-> state.phase, saved |-> state.profile,
                            candidate |-> state.candidate]
  BY DEF PendingChange, Change

\* Most steps change neither the profile, nor the STATE file, nor what was
\* confirmed.
LEMMA PromiseStutters ==
    ASSUME UNCHANGED <<state, profile, trusted>>
    PROVE  UNCHANGED Promise!vars
  BY DEF Promise!vars, PendingChange

LEMMA PromiseInit == Init => Promise!Init
  BY DEF Init, Promise!Init, Promise!Nothing, PendingChange, NoChange

\* Removing the STATE file gives the change up, or accepts it.
LEMMA PromiseDrop ==
    ASSUME profile \in trusted, state' = NoChange, UNCHANGED <<profile, trusted>>
    PROVE  Promise!Drop
  BY DEF Promise!Drop, Promise!Settled, Promise!Nothing, PendingChange, NoChange

LEMMA PromiseRevert ==
    ASSUME profile' \in trusted, UNCHANGED <<state, trusted>>
    PROVE  Promise!Revert
  BY DEF Promise!Revert, PendingChange

LEMMA RequestPromise ==
    ASSUME Timely, Types, Core, NEW w \in Worker, RequestStart(w) \/ RequestStep(w)
    PROVE  [Promise!Next]_(Promise!vars)
<1>1. CASE ApplySave(w)
  <2>1. PICK candidate \in Profile : state' = SavedChange(request[w].token, candidate)
    BY <1>1 DEF ApplySave
  <2>2. PendingChange' = [phase |-> "staged", saved |-> profile, candidate |-> candidate]
    BY <2>1 DEF SavedChange, PendingChange
  <2>3. profile \in trusted /\ UNCHANGED <<profile, trusted>>
    BY <1>1 DEF ApplySave, Working, Core, ApplyUndisturbed, ApplyPc, disk, history
  <2>4. Promise!Stage
    BY <2>2, <2>3 DEF Promise!Stage, Promise!Settled
  <2>. QED BY <2>4 DEF Promise!Next
<1>2. CASE ApplySchedule(w)
  <2>1. profile \in trusted /\ UNCHANGED <<profile, trusted>>
    BY <1>2 DEF ApplySchedule, Working, Core, ApplyUndisturbed, ApplyPc, disk, history
  <2>2. state' = state \/ state' = NoChange
    BY <1>2 DEF ApplySchedule
  <2>. QED BY <2>1, <2>2, PromiseStutters, PromiseDrop DEF Promise!Next
<1>3. CASE ConfirmUnlink(w)
  <2>1. /\ state' = NoChange /\ UNCHANGED profile
        /\ trusted' = trusted \union {request[w].change.candidate}
    BY <1>3 DEF ConfirmUnlink, disk
  <2>2. request[w].change.candidate \in Profile /\ profile \in trusted'
    BY <1>3, <2>1 DEF ConfirmUnlink, Working, Core, ConfirmHoldsCandidate, ConfirmPc, Types,
       RequestType, Change
  <2>3. Promise!Accept
    BY <2>1, <2>2 DEF Promise!Accept, Promise!Nothing, PendingChange, NoChange
  <2>. QED BY <2>3 DEF Promise!Next
<1>4. CASE ~(ApplySave(w) \/ ApplySchedule(w) \/ ConfirmUnlink(w))
  <2>1. UNCHANGED <<state, profile, trusted>>
    BY <1>4 DEF RequestStart, RequestStep, ApplyCheck, ApplyStop, ApplySaveFails, ConfirmStart, ConfirmStop,
       EditStart, EditWrite, EditRender, EditInstall, disk, history
  <2>. QED BY <2>1, PromiseStutters
<1>. QED BY <1>1, <1>2, <1>3, <1>4

LEMMA ActivatePromise ==
    ASSUME Timely, Types, Core, ActivateStart \/ ActivateStep
    PROVE  [Promise!Next]_(Promise!vars)
<1>1. CASE ActivateModify /\ profile' # profile
  <2>1. /\ activation.pc = "modify" /\ profile' = activation.change.candidate
        /\ UNCHANGED <<state, trusted>>
    BY <1>1 DEF ActivateModify, history
  <2>2. state = activation.change /\ state.phase = "staged" /\ state.profile \in trusted
    BY <2>1 DEF Core, ActivationAlone, SavedTrusted
  <2>3. state \in Change
    BY <2>1, <2>2 DEF Types, ActivationType
  <2>4. Promise!Switch
    BY <2>1, <2>2, <2>3, PendingFields DEF Promise!Switch, PendingChange
  <2>. QED BY <2>4 DEF Promise!Next
<1>2. CASE ActivateCommit
  <2>1. /\ activation.pc = "commit" /\ state' = [activation.change EXCEPT !.phase = "active"]
        /\ UNCHANGED <<profile, trusted>>
    BY <1>2 DEF ActivateCommit, disk, history
  <2>2. /\ state = activation.change /\ state.phase = "staged"
        /\ profile = activation.change.candidate
    BY <2>1 DEF Core, ActivationAlone, ActivationGuarded
  <2>3. state \in Change
    BY <2>1, <2>2 DEF Types, ActivationType
  <2>4. /\ state'.phase = "active" /\ state'.profile = state.profile
        /\ state'.candidate = state.candidate
    BY <2>1, <2>2, <2>3 DEF Change
  <2>5. PendingChange' = [phase |-> "active", saved |-> state.profile,
                          candidate |-> state.candidate]
    BY <2>4 DEF PendingChange
  <2>6. PendingChange' = [PendingChange EXCEPT !.phase = "active"]
    BY <2>3, <2>5, PendingFields
  <2>7. Promise!Offer
    BY <2>1, <2>2, <2>3, <2>6, PendingFields DEF Promise!Offer
  <2>. QED BY <2>7 DEF Promise!Next
<1>3. CASE ~ActivateCommit /\ ~(ActivateModify /\ profile' # profile)
  <2>1. UNCHANGED <<state, profile, trusted>>
    BY <1>3 DEF ActivateStep, ActivateStart, ActivateArm, ActivateModify, ActivateUp,
       ActivateRender, ActivateInstall, disk, history
  <2>. QED BY <2>1, PromiseStutters
<1>. QED BY <1>1, <1>2, <1>3

LEMMA RollbackPromise ==
    ASSUME Timely, Types, Core, RollbackStart \/ RestoreStep
    PROVE  [Promise!Next]_(Promise!vars)
<1>1. CASE RestoreModify /\ profile' # profile
  <2>1. /\ rollback.pc = "modify" /\ profile' = rollback.change.profile
        /\ UNCHANGED <<state, trusted>>
    BY <1>1 DEF RestoreModify
  <2>2. profile' \in trusted
    BY <2>1 DEF Core, SavedTrusted
  <2>. QED BY <2>1, <2>2, PromiseRevert DEF Promise!Next
<1>2. CASE RestoreUnlink
  <2>1. /\ rollback.pc = "unlink" /\ state' = NoChange /\ UNCHANGED <<profile, trusted>>
    BY <1>2 DEF RestoreUnlink, disk, history
  <2>2. profile \in trusted
    BY <2>1 DEF Core, SavedTrusted
  <2>. QED BY <2>1, <2>2, PromiseDrop DEF Promise!Next
<1>3. CASE ~RestoreUnlink /\ ~(RestoreModify /\ profile' # profile)
  <2>1. UNCHANGED <<state, profile, trusted>>
    BY <1>3 DEF RestoreStep, RollbackStart, RestoreRead, RestoreModify, RestoreUp, RestoreNft,
       disk, history
  <2>. QED BY <2>1, PromiseStutters
<1>. QED BY <1>1, <1>2, <1>3

\* Every execution, seen through the STATE file and the profile, is one of
\* the abstract transaction.
THEOREM PromiseKeptCorrect ==
    ASSUME Timely
    PROVE  Spec => PromiseKept
<1>1. InductiveInv /\ [Next]_vars => [Promise!Next]_(Promise!vars)
  <2> SUFFICES ASSUME InductiveInv, [Next]_vars
               PROVE  [Promise!Next]_(Promise!vars)
    OBVIOUS
  <2>1. Types /\ Core
    BY TypeParts DEF InductiveInv, Types
  <2>2. CASE UNCHANGED vars
    BY <2>2, PromiseStutters DEF vars, disk, history
  <2>3. CASE MigrateStep \/ LeaseChange \/ Reconnect \/ Reboot
    <3>1. UNCHANGED <<state, profile, trusted>>
      BY <2>3 DEF MigrateStep, MigrateStart, MigrateInstall, LeaseChange, Reconnect, Reboot, disk,
         history
    <3>. QED BY <3>1, PromiseStutters
  <2>. QED BY <2>1, <2>2, <2>3, RequestPromise, ActivatePromise, RollbackPromise DEF Next
<1>. QED BY <1>1, PromiseInit, InductiveInvCorrect, PTL DEF Spec, PromiseKept, Promise!Spec
=============================================================================
