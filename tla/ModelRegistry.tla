--------------------------- MODULE ModelRegistry ---------------------------
(***************************************************************************)
(* The signed-model registry of core-supervisor/src/model_registry.rs:      *)
(* load, shadow bookkeeping, promotion and rollback.  Each lock a method    *)
(* takes and releases is one step of the thread that calls it.  A signature *)
(* is only whether a trusted key verifies it; versions are generations.     *)
(***************************************************************************)
EXTENDS Integers, FiniteSetsExt

CONSTANTS ModelKinds,    \* kinds in use; only Routing may steer traffic
          Routing,       \* ModelKind::AdaptiveFallback
          ModelThreads,  \* threads that call the registry
          MinDecisions,  \* SHADOW_MIN_DECISIONS
          MinOutcomes,   \* SHADOW_MIN_EVALUATED_OUTCOMES
          MaxGenerations,\* bound on the artifacts loaded
          MaxDecisions   \* bound on the shadow decisions and outcomes counted

VARIABLES models,      \* models: kind -> artifact, or NoArtifact
          evaluations, \* evaluations: kind -> [samples, model, fsm], zero when absent
          keysTrusted, \* trusted_keys is not empty
          fsmOnly,     \* fsm_only
          promotions,  \* total_promotions
          rollbacks,   \* total_rollbacks
          call,        \* per thread: the method it is inside, after the first lock
          evidence,    \* kind -> outcomes reported for the artifact now loaded
          passed,      \* kinds whose artifact has met the quality gate (history)
          mixed        \* kinds whose last load overlapped another call on them (history)

modelVars == <<models, evaluations, keysTrusted, fsmOnly, promotions, rollbacks, call, evidence,
               passed, mixed>>

ASSUME RegistryAssumption ==
    /\ Routing \in ModelKinds
    /\ MinDecisions \in Nat /\ MinOutcomes \in Nat /\ MaxDecisions \in Nat

NoArtifact == [mode |-> "None", generation |-> 0, decisions |-> 0, aged |-> FALSE]
NoCall == [pc |-> "idle", kind |-> Routing, ok |-> FALSE]
NoEvaluation == [samples |-> 0, model |-> 0, fsm |-> 0]

ModelsInit ==
    /\ models = [k \in ModelKinds |-> NoArtifact]
    /\ evaluations = [k \in ModelKinds |-> NoEvaluation]
    /\ keysTrusted = FALSE
    /\ fsmOnly = TRUE
    /\ promotions = 0 /\ rollbacks = 0
    /\ call = [t \in ModelThreads |-> NoCall]
    /\ evidence = [k \in ModelKinds |-> 0]
    /\ passed = {} /\ mixed = {}

Rests(t) == call[t].pc = "idle"
Enter(t, pc, kind, ok) == call' = [call EXCEPT ![t] = [pc |-> pc, kind |-> kind, ok |-> ok]]
Leave(t) == call' = [call EXCEPT ![t] = NoCall]

\* A call on this kind begins: does it fall between the locks of a load?
Begins(kind) ==
    mixed' = IF \E u \in ModelThreads : call[u].pc = "forget" /\ call[u].kind = kind
               THEN mixed \union {kind} ELSE mixed

AddTrustedKey ==
    /\ keysTrusted' = TRUE
    /\ UNCHANGED <<models, evaluations, fsmOnly, promotions, rollbacks, call, evidence, passed, mixed>>

\* verify_artifact_signature
SignatureStatus(signed, verifies) ==
    CASE ~ signed -> "Missing"
      [] signed /\ ~ keysTrusted -> "UntrustedKey"
      [] signed /\ keysTrusted /\ verifies -> "Valid"
      [] OTHER -> "Invalid"

\* load_artifact: the artifact goes in ...
LoadInsert(t, kind, signed, verifies) ==
    /\ Rests(t) /\ MapThenSumSet(LAMBDA k : models[k].generation, ModelKinds) < MaxGenerations
    /\ SignatureStatus(signed, verifies) = "Valid"
    /\ models' = [models EXCEPT ![kind] = [mode |-> "Shadow", generation |-> @.generation + 1,
                                           decisions |-> 0, aged |-> FALSE]]
    /\ evidence' = [evidence EXCEPT ![kind] = 0]
    /\ Enter(t, "forget", kind, TRUE)
    /\ mixed' = IF \E u \in ModelThreads : ~ Rests(u) /\ call[u].kind = kind
                   THEN mixed \union {kind} ELSE mixed \ {kind}
    /\ passed' = passed \ {kind}
    /\ UNCHANGED <<evaluations, keysTrusted, fsmOnly, promotions, rollbacks>>

\* Mutant of LoadForget: the evaluation of the artifact before it stays.
LoadForgetNothing(t) ==
    /\ call[t].pc = "forget"
    /\ Leave(t)
    /\ UNCHANGED <<models, evaluations, keysTrusted, fsmOnly, promotions, rollbacks, evidence, passed, mixed>>

\* ... and the evaluation of the one before it goes, under another lock.
LoadForget(t) ==
    /\ call[t].pc = "forget"
    /\ evaluations' = [evaluations EXCEPT ![call[t].kind] = NoEvaluation]
    /\ Leave(t)
    /\ UNCHANGED <<models, keysTrusted, fsmOnly, promotions, rollbacks, evidence, passed, mixed>>

\* record_shadow_decision: the mode is read, the counter raised afterwards.
DecisionRead(t, kind) ==
    /\ Rests(t) /\ models[kind].mode = "Shadow"
    /\ Enter(t, "decision", kind, TRUE) /\ Begins(kind)
    /\ UNCHANGED <<models, evaluations, keysTrusted, fsmOnly, promotions, rollbacks, evidence, passed>>

DecisionCount(t) ==
    /\ call[t].pc = "decision"
    /\ models' = [models EXCEPT ![call[t].kind].decisions = IF @ < MaxDecisions THEN @ + 1 ELSE @]
    /\ Leave(t)
    /\ UNCHANGED <<evaluations, keysTrusted, fsmOnly, promotions, rollbacks, evidence, passed, mixed>>

\* record_shadow_outcome and ShadowEvaluation::observe.
OutcomeRead(t, kind) ==
    /\ Rests(t) /\ models[kind].mode = "Shadow"
    /\ Enter(t, "outcome", kind, TRUE) /\ Begins(kind)
    /\ UNCHANGED <<models, evaluations, keysTrusted, fsmOnly, promotions, rollbacks, evidence, passed>>

OutcomeObserve(t, modelWon, fsmWon) ==
    /\ call[t].pc = "outcome"
    /\ evaluations[call[t].kind].samples < MaxDecisions
    /\ evaluations' = [evaluations EXCEPT ![call[t].kind] =
           [samples |-> @.samples + 1,
            model |-> IF modelWon THEN @.model + 1 ELSE @.model,
            fsm |-> IF fsmWon THEN @.fsm + 1 ELSE @.fsm]]
    /\ evidence' = [evidence EXCEPT ![call[t].kind] = @ + 1]
    /\ Leave(t)
    /\ UNCHANGED <<models, keysTrusted, fsmOnly, promotions, rollbacks, passed, mixed>>

\* The artifact has been loaded for SHADOW_MIN_DURATION.
SevenDays(kind) ==
    /\ models[kind].mode # "None" /\ ~ models[kind].aged
    /\ models' = [models EXCEPT ![kind].aged = TRUE]
    /\ UNCHANGED <<evaluations, keysTrusted, fsmOnly, promotions, rollbacks, call, evidence, passed, mixed>>

\* meets_promotion_quality_gate; the margin of one percent in integers.  The
\* paired counts differ by as much as the successes do.
QualityGate(e) ==
    /\ e.samples >= MinOutcomes
    /\ e.model * 100 >= e.fsm * 100 + e.samples
    /\ e.model >= e.fsm

\* Mutant of Seasoned: either of the shadow conditions is enough.
SeasonedEither(kind) ==
    /\ models[kind].mode = "Shadow" /\ kind = Routing
    /\ models[kind].aged \/ models[kind].decisions >= MinDecisions

\* What promotion_readiness asks of the artifact: the days and the decisions.  The
\* head of model_registry.rs and the directive say "or"; the code and the doc of
\* is_promotion_eligible say "and".
Seasoned(kind) ==
    /\ models[kind].mode = "Shadow" /\ kind = Routing
    /\ models[kind].aged
    /\ models[kind].decisions >= MinDecisions

\* promote: promotion_readiness copies the artifact under one read lock ...
PromoteRead(t, kind) ==
    /\ Rests(t) /\ Seasoned(kind)
    /\ Enter(t, "ready", kind, TRUE) /\ Begins(kind)
    /\ UNCHANGED <<models, evaluations, keysTrusted, fsmOnly, promotions, rollbacks, evidence, passed>>

\* ... reads the evaluation under another, and releases that one, too, before ...
PromoteCheck(t) ==
    /\ call[t].pc = "ready"
    /\ IF QualityGate(evaluations[call[t].kind])
         THEN call' = [call EXCEPT ![t].pc = "promote"] /\ passed' = passed \union {call[t].kind}
         ELSE Leave(t) /\ UNCHANGED passed
    /\ UNCHANGED <<models, evaluations, keysTrusted, fsmOnly, promotions, rollbacks, evidence, mixed>>

\* Mutant of PromoteCommit: the mode is not read again.
PromoteCommitBlind(t) ==
    /\ call[t].pc = "promote"
    /\ models' = [models EXCEPT ![call[t].kind].mode = "Promoted"]
    /\ promotions' = promotions + 1
    /\ fsmOnly' = FALSE
    /\ Leave(t)
    /\ UNCHANGED <<evaluations, keysTrusted, rollbacks, evidence, passed, mixed>>

\* ... the write lock, under which only the mode is looked at again.
PromoteCommit(t) ==
    /\ call[t].pc = "promote"
    /\ IF models[call[t].kind].mode = "Shadow"
         THEN /\ models' = [models EXCEPT ![call[t].kind].mode = "Promoted"]
              /\ promotions' = promotions + 1
              /\ fsmOnly' = FALSE
         ELSE UNCHANGED <<models, promotions, fsmOnly>>
    /\ Leave(t)
    /\ UNCHANGED <<evaluations, keysTrusted, rollbacks, evidence, passed, mixed>>

\* rollback of a promoted model, all under one write lock.
Rollback(kind) ==
    /\ models[kind].mode = "Promoted"
    /\ models' = [models EXCEPT ![kind].mode = "RolledBack"]
    /\ rollbacks' = rollbacks + 1
    /\ fsmOnly' = (fsmOnly \/ \A k \in ModelKinds : models'[k].mode # "Promoted")
    /\ UNCHANGED <<evaluations, keysTrusted, promotions, call, evidence, passed, mixed>>

ModelsNext ==
    \/ AddTrustedKey
    \/ \E t \in ModelThreads :
          \/ \E kind \in ModelKinds :
                \/ \E signed, verifies \in BOOLEAN : LoadInsert(t, kind, signed, verifies)
                \/ DecisionRead(t, kind) \/ OutcomeRead(t, kind) \/ PromoteRead(t, kind)
          \/ \E modelWon, fsmWon \in BOOLEAN : OutcomeObserve(t, modelWon, fsmWon)
          \/ LoadForget(t) \/ DecisionCount(t) \/ PromoteCheck(t) \/ PromoteCommit(t)
    \/ \E kind \in ModelKinds : SevenDays(kind) \/ Rollback(kind)

ModelsSpec == ModelsInit /\ [][ModelsNext]_modelVars

-----------------------------------------------------------------------------
ModelsTypeOK ==
    /\ \A k \in ModelKinds :
          /\ models[k].mode \in {"None", "Shadow", "Promoted", "RolledBack"}
          /\ evaluations[k].model <= evaluations[k].samples
          /\ evaluations[k].fsm <= evaluations[k].samples
    /\ {keysTrusted, fsmOnly} \subseteq BOOLEAN

\* The artifact went through its own shadow period: seven days, the decisions and,
\* on outcomes reported for this very artifact, the quality gate.
ShadowPeriodServed(k) ==
    /\ models[k].aged /\ models[k].decisions >= MinDecisions
    /\ k \in passed /\ evidence[k] >= MinOutcomes

\* What is in force went through its own shadow period (promotion_readiness,
\* promote).  It does not hold: load_artifact replaces the artifact and its
\* evaluation under two locks, promote checks under two and commits under a
\* third, so a load that overlaps another call on its kind can leave the new
\* artifact promoted on the record of the one before it.
PromotedServedAll ==
    \A k \in ModelKinds : models[k].mode = "Promoted" => ShadowPeriodServed(k)

\* What the locks keep of it: only the routing kind is ever in force, and with a
\* shadow period of its own unless its last load overlapped another call on it.
PromotedEarned ==
    \A k \in ModelKinds : models[k].mode = "Promoted" =>
        k = Routing /\ (k \in mixed \/ ShadowPeriodServed(k))

\* A model that was rolled back stays out until another artifact is loaded:
\* no promotion that was checked before the rollback brings it back.
RolledBackStaysOut ==
    [][\A k \in ModelKinds :
          (models[k].mode = "RolledBack" /\ models'[k].generation = models[k].generation)
              => models'[k].mode = "RolledBack"]_modelVars

\* Promotion is earned by the artifact that is promoted, but for loads overlapped
\* by another call on the kind, and a rollback is not undone by a call that
\* looked at the registry before it (promote, rollback).
PromotionDiscipline == []PromotedEarned /\ RolledBackStaysOut

\* "Whether the system is in FSM-only mode (no promoted models)" (is_fsm_only).
FsmOnlyMeansNoneInForce ==
    fsmOnly = (\A k \in ModelKinds : models[k].mode # "Promoted")
=============================================================================
