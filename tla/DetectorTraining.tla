-------------------------- MODULE DetectorTraining --------------------------
(***************************************************************************)
(* One visual training attempt: the container that trains it               *)
(* (modal_app.py visual_train_remote, training_attempt.py, train_detector.py *)
(* train), the files of its directory, and the export of its checkpoint.   *)
(*                                                                         *)
(* `disk` is the directory as the running container sees it and `volume`   *)
(* the copy of the last commit.  A container that ends early leaves either *)
(* one behind: the last commit when it ran on a Modal volume, what is on   *)
(* its disk when the trainer runs on a local directory.                    *)
(***************************************************************************)
EXTENDS SafetySelection, Sequences, SequencesExt

CONSTANTS Seeds,        \* base checkpoints an operator may supply
          DataVersions, \* versions of the prepared dataset
          Schedules,    \* total epochs an operator may ask for
          Boxes,        \* what a validation may report
          MaxLaunches,  \* bound: containers started
          MaxChanges,   \* bound: replacements of the inputs, and exports
          None

ASSUME BoxesAssumption == \A box \in Boxes : IsBox(box)
ASSUME ScheduleAssumption == Schedules \subseteq 1..500
ASSUME BoundAssumption == MaxLaunches \in Nat /\ MaxChanges \in Nat

VARIABLES
    named,     \* a named attempt from a frozen seed, or the default attempt
    inputs,    \* the operator's inputs: base checkpoint and prepared dataset
    disk, volume,
    proc,      \* the training container
    artifact,  \* what the export stage published in the artifact directory
    launches, changes

vars == <<named, inputs, disk, volume, proc, artifact, launches, changes>>

----------------------------------------------------------------------------
(* Files.  A checkpoint is known by the seeds and datasets it was trained  *)
(* from and by the launch and epoch that wrote it.                         *)

SeedCheckpoint(seed) ==
    [seeds |-> {seed}, data |-> {}, launch |-> 0, epoch |-> -1]

NoFiles ==
    [frozenSeed |-> None, staged |-> None, seedIncumbent |-> None,
     last |-> None, best |-> None, safetyBest |-> None,
     progress |-> None, manifest |-> None]

Contract(seed, data, epochs) ==
    [seed |-> seed, data |-> data, epochs |-> epochs]

Hashes(f) == [last |-> f.last, best |-> f.best, safetyBest |-> f.safetyBest]

Idle == [pc |-> "idle"]

\* Replaying the history of a progress file from its seed's evaluation.
Replayed(progress) ==
    FoldLeft(NextState, InitialState(progress.seedIncumbent.evaluation),
             progress.history)

----------------------------------------------------------------------------
(* Launches.                                                               *)

Process(pc, seed, data, epochs) ==
    [pc |-> pc, seed |-> seed, data |-> data, epochs |-> epochs,
     launch |-> launches + 1, forced |-> FALSE, weights |-> SeedCheckpoint(seed),
     seedIncumbent |-> None, state |-> None, history |-> <<>>, box |-> None]

\* A named attempt copies its seed into a fresh directory, and commits it
\* before the long copy of the dataset.
InitializeSeededAttempt(epochs) ==
    /\ named /\ proc = Idle /\ launches < MaxLaunches
    /\ disk.frozenSeed = None
    /\ disk' = [NoFiles EXCEPT !.frozenSeed = inputs.seed]
    /\ volume' = disk'
    /\ proc' = Process("staging", inputs.seed, None, epochs)
    /\ launches' = launches + 1
    /\ UNCHANGED <<named, inputs, artifact, changes>>

\* The default attempt starts over only when nothing was recorded yet, or by
\* force.
MayStartOver(force) == force \/ disk.progress = None

\* Force deletes the directory.
LaunchDefault(epochs, force) ==
    /\ ~named /\ proc = Idle /\ launches < MaxLaunches
    /\ MayStartOver(force)
    /\ disk' = IF force THEN NoFiles ELSE disk
    /\ proc' = [Process("staging", inputs.seed, None, epochs)
                  EXCEPT !.forced = force]
    /\ launches' = launches + 1
    /\ UNCHANGED <<named, inputs, volume, artifact, changes>>

\* The dataset is copied to the container's disk, and the copy's manifests
\* into the attempt's directory.
Stage ==
    /\ proc.pc = "staging"
    /\ disk' = [disk EXCEPT !.staged = inputs.data]
    /\ proc' = [proc EXCEPT !.pc = "seeding", !.data = inputs.data]
    /\ UNCHANGED <<named, inputs, volume, artifact, launches, changes>>

\* A resumed launch trusts nothing of the directory that it cannot verify: the
\* inputs, (mutant: the schedule alone,)
SameSchedule(f, seed, data, epochs) == f.progress.contract.epochs = epochs

SameContract(f, seed, data, epochs) ==
    /\ f.staged = data
    /\ f.progress.contract = Contract(seed, data, epochs)
    /\ f.seedIncumbent = f.progress.seedIncumbent
    /\ f.seedIncumbent.seed = seed

\* the checkpoints and the selection.
CanResume(f, seed, data, epochs) ==
    /\ named => f.frozenSeed # None
    /\ f.progress # None
    /\ SameContract(f, seed, data, epochs)
    /\ f.progress.hashes = Hashes(f)
    /\ Replayed(f.progress) = f.progress.state
    /\ f.last.epoch = f.progress.epoch
    /\ f.progress.epoch + 1 < epochs

EffectiveSeed == IF named THEN disk.frozenSeed ELSE inputs.seed

\* Mutant: the selection starts from the seed again.
RestoredSeed(progress) == InitialState(progress.seedIncumbent.evaluation)

Restored(progress) == progress.state

LaunchResume(epochs) ==
    /\ proc = Idle /\ launches < MaxLaunches
    /\ CanResume(disk, EffectiveSeed, inputs.data, epochs)
    /\ proc' = [Process("training", EffectiveSeed, inputs.data, epochs) EXCEPT
                  !.weights = disk.last,
                  !.seedIncumbent = disk.progress.seedIncumbent,
                  !.state = Restored(disk.progress),
                  !.history = disk.progress.history]
    /\ launches' = launches + 1
    /\ UNCHANGED <<named, inputs, disk, volume, artifact, changes>>

----------------------------------------------------------------------------
(* Training.                                                               *)

\* The container ends: an exception, a preemption or the timeout.
Stop ==
    /\ proc # Idle
    /\ proc' = Idle
    /\ disk' \in {disk, volume}
    /\ volume' = disk'
    /\ UNCHANGED <<named, inputs, artifact, launches, changes>>

\* The frozen seed is evaluated and becomes the first safety-best.pt; a seed
\* with missing classes cannot open the selection (Stop).
ValidateSeed(box) ==
    /\ proc.pc = "seeding"
    /\ ValidCandidate(Aligned(box))
    /\ LET incumbent == [seed |-> proc.seed, evaluation |-> Aligned(box)]
       IN  /\ disk' = [disk EXCEPT !.safetyBest = SeedCheckpoint(proc.seed),
                                   !.seedIncumbent = incumbent]
           /\ proc' = [proc EXCEPT !.pc = "training",
                                   !.seedIncumbent = incumbent,
                                   !.state = InitialState(Aligned(box))]
    /\ volume' = disk'
    /\ UNCHANGED <<named, inputs, artifact, launches, changes>>

\* Ultralytics trains one epoch and saves last.pt, and best.pt when its own
\* fitness improved, before it calls the trainer back.
TrainEpoch(box, fitter) ==
    /\ proc.pc = "training"
    /\ Len(proc.history) < proc.epochs
    /\ LET saved == [seeds |-> proc.weights.seeds \union {proc.seed},
                     data  |-> proc.weights.data \union {proc.data},
                     launch |-> proc.launch, epoch |-> Len(proc.history)]
       IN  /\ disk' = [disk EXCEPT
                         !.last = saved,
                         !.best = IF fitter \/ proc.history = <<>> THEN saved ELSE @]
           /\ proc' = [proc EXCEPT !.pc = "saved", !.weights = saved, !.box = box]
    /\ UNCHANGED <<named, inputs, volume, artifact, launches, changes>>

\* The checkpoint of a selected epoch.
Chosen(f) == f.last

\* The callback judges the epoch, and copies last.pt over safety-best.pt when
\* it is selected; an incomplete evaluation raises (Stop).
SelectEpoch ==
    /\ proc.pc = "saved"
    /\ ValidCandidate(Aligned(proc.box))
    /\ LET e == Aligned(proc.box)
       IN  /\ disk' = IF Selected(proc.state, e)
                      THEN [disk EXCEPT !.safetyBest = Chosen(disk)] ELSE disk
           /\ proc' = [proc EXCEPT !.pc = "selected",
                                   !.state = NextState(proc.state, e),
                                   !.history = Append(proc.history, e)]
    /\ UNCHANGED <<named, inputs, volume, artifact, launches, changes>>

\* The progress file is replaced atomically.
WriteProgress ==
    /\ proc.pc = "selected"
    /\ disk' = [disk EXCEPT !.progress =
                  [epoch |-> Len(proc.history) - 1, history |-> proc.history,
                   seedIncumbent |-> proc.seedIncumbent, state |-> proc.state,
                   contract |-> Contract(proc.seed, proc.data, proc.epochs),
                   hashes |-> Hashes(disk)]]
    /\ proc' = [proc EXCEPT !.pc = "recorded"]
    /\ UNCHANGED <<named, inputs, volume, artifact, launches, changes>>

CommitEpoch ==
    /\ proc.pc = "recorded"
    /\ volume' = disk
    /\ proc' = [proc EXCEPT !.pc = "training"]
    /\ UNCHANGED <<named, inputs, disk, artifact, launches, changes>>

\* What the manifest names.  (Mutant: Ultralytics' own choice.)
PublishedBest(f) == f.best

Published(f) == f.safetyBest

\* After the last epoch safety-best.pt is evaluated on the held-out splits,
\* and the manifest names it.
Finish ==
    /\ proc.pc = "training"
    /\ Len(proc.history) = proc.epochs
    /\ disk' = [disk EXCEPT !.manifest =
                  [checkpoint |-> Published(disk), score |-> proc.state.incumbent,
                   seedIncumbent |-> proc.seedIncumbent,
                   history |-> proc.history, epochs |-> proc.epochs]]
    /\ volume' = disk'
    /\ proc' = Idle
    /\ UNCHANGED <<named, inputs, artifact, launches, changes>>

----------------------------------------------------------------------------
(* Around the training.                                                    *)

\* The operator uploads another base checkpoint or prepares the data again.
ReplaceInputs(seed, data) ==
    /\ changes < MaxChanges
    /\ inputs' = [seed |-> seed, data |-> data]
    /\ inputs' # inputs
    /\ changes' = changes + 1
    /\ UNCHANGED <<named, disk, volume, proc, artifact, launches>>

\* A checkpoint without a manifest counts as zero epochs, and two epochs or
\* fewer as a smoke test.
Status(epochs) ==
    IF epochs <= 2 THEN "development-smoke" ELSE "trained-unpublished"

\* The export stage, a container of its own, reads what was committed.
Export ==
    /\ volume.safetyBest # None /\ changes < MaxChanges
    /\ LET epochs == IF volume.manifest = None THEN 0 ELSE volume.manifest.epochs
       IN  artifact' = [source |-> volume.safetyBest, epochs |-> epochs,
                        status |-> Status(epochs)]
    /\ changes' = changes + 1
    /\ UNCHANGED <<named, inputs, disk, volume, proc, launches>>

Init ==
    /\ named \in BOOLEAN
    /\ inputs \in [seed : Seeds, data : DataVersions]
    /\ disk = NoFiles
    /\ volume = NoFiles
    /\ proc = Idle
    /\ artifact = None
    /\ launches = 0
    /\ changes = 0

Next ==
    \/ \E epochs \in Schedules : \/ InitializeSeededAttempt(epochs)
                                 \/ LaunchResume(epochs)
    \/ \E epochs \in Schedules, force \in BOOLEAN : LaunchDefault(epochs, force)
    \/ Stage
    \/ Stop
    \/ \E box \in Boxes : ValidateSeed(box)
    \/ \E box \in Boxes, fitter \in BOOLEAN : TrainEpoch(box, fitter)
    \/ SelectEpoch
    \/ WriteProgress
    \/ CommitEpoch
    \/ Finish
    \/ \E seed \in Seeds, data \in DataVersions : ReplaceInputs(seed, data)
    \/ Export

Spec == Init /\ [][Next]_vars

----------------------------------------------------------------------------
(* Properties.                                                             *)

Checkpoints ==
    [seeds : SUBSET Seeds, data : SUBSET DataVersions,
     launch : 0..MaxLaunches, epoch : -1..500]

Incumbents == [seed : Seeds, evaluation : Evaluations]

Histories == Seq(Evaluations)

Progresses ==
    [epoch : 0..500, history : Histories, seedIncumbent : Incumbents,
     state : SelectionStates,
     contract : [seed : Seeds, data : DataVersions, epochs : Schedules],
     hashes : [last : Checkpoints, best : Checkpoints, safetyBest : Checkpoints]]

Manifests ==
    [checkpoint : Checkpoints, score : Evaluations, seedIncumbent : Incumbents,
     history : Histories, epochs : Schedules]

ASSUME NoneAssumption ==
    /\ None \notin Seeds \union DataVersions \union Boxes
    /\ None \notin Checkpoints /\ None \notin Incumbents
    /\ None \notin SelectionStates /\ None \notin Progresses
    /\ None \notin Manifests

Files ==
    [frozenSeed : Seeds \union {None}, staged : DataVersions \union {None},
     seedIncumbent : Incumbents \union {None},
     last : Checkpoints \union {None}, best : Checkpoints \union {None},
     safetyBest : Checkpoints \union {None},
     progress : Progresses \union {None}, manifest : Manifests \union {None}]

Phases == {"staging", "seeding", "training", "saved", "selected", "recorded"}

Processes ==
    [pc : Phases, seed : Seeds, data : DataVersions \union {None},
     epochs : Schedules, launch : 0..MaxLaunches, forced : BOOLEAN,
     weights : Checkpoints, seedIncumbent : Incumbents \union {None},
     state : SelectionStates \union {None}, history : Histories,
     box : Boxes \union {None}]

Running == proc.pc \in {"training", "saved", "selected", "recorded"}

\* Every file has the form its readers expect, in the container's view and in
\* the last commit, and a running trainer holds a complete selection state.
TypeOK ==
    /\ named \in BOOLEAN
    /\ inputs \in [seed : Seeds, data : DataVersions]
    /\ disk \in Files /\ volume \in Files
    /\ proc \in Processes \union {Idle}
    /\ launches \in 0..MaxLaunches
    /\ proc # Idle => Len(proc.history) <= proc.epochs
    /\ proc.pc \notin {"idle", "staging"} => proc.data # None
    /\ Running => /\ proc.state # None /\ proc.seedIncumbent # None
                  /\ disk.safetyBest # None
    /\ proc.pc \in {"saved", "selected", "recorded"} =>
         disk.last # None /\ disk.best # None
    /\ proc.pc = "saved" => proc.box # None

\* The evaluation that made a checkpoint the incumbent: the seed's, or that
\* of the epoch that saved it.
EvaluationOf(checkpoint, seedIncumbent, history) ==
    IF checkpoint.epoch = -1 THEN seedIncumbent.evaluation
    ELSE history[checkpoint.epoch + 1]

\* Across interruptions, leftovers of an earlier launch and resumes, the file
\* safety-best.pt that a running trainer would publish is the checkpoint that
\* scored the incumbent it compares the next epoch with.
SafetyBestIsIncumbent ==
    proc.pc \in {"training", "recorded"} =>
        /\ disk.safetyBest.epoch < Len(proc.history)
        /\ EvaluationOf(disk.safetyBest, proc.seedIncumbent, proc.history)
             = proc.state.incumbent

\* A checkpoint the trainer resumes from, publishes or exports was trained
\* from one frozen seed and on one version of the data, whatever was uploaded
\* or prepared between its launches.
OneContract ==
    /\ Running => /\ disk.safetyBest.seeds = {proc.seed}
                  /\ disk.safetyBest.data \subseteq {proc.data}
                  /\ proc.weights.seeds = {proc.seed}
                  /\ proc.weights.data \subseteq {proc.data}
    /\ artifact # None => /\ Cardinality(artifact.source.seeds) = 1
                          /\ Cardinality(artifact.source.data) <= 1

\* Selection never trades away what the seed had: the weakest secret class of
\* the incumbent is no weaker than the seed's, and the other classes stay
\* within the bound below the best they ever were, their high water.
Sound(seedIncumbent, state) ==
    /\ SecretMinimum(state.incumbent) >= SecretMinimum(seedIncumbent.evaluation)
    /\ OtherTotal(state.incumbent) >= state.highWater - OtherDropFromHighWater
    /\ state.highWater >= OtherTotal(seedIncumbent.evaluation)

NeverRegress ==
    /\ Running => Sound(proc.seedIncumbent, proc.state)
    /\ volume.progress # None =>
         Sound(volume.progress.seedIncumbent, volume.progress.state)
    /\ volume.manifest # None =>
         SecretMinimum(volume.manifest.score)
           >= SecretMinimum(volume.manifest.seedIncumbent.evaluation)

\* A training manifest on the volume describes a completed schedule and the
\* safety-best.pt beside it.
ManifestTrue ==
    volume.manifest # None =>
        LET m == volume.manifest
        IN  /\ m.checkpoint = volume.safetyBest
            /\ Len(m.history) = m.epochs
            /\ EvaluationOf(m.checkpoint, m.seedIncumbent, m.history) = m.score

\* The selection on the volume is that of one uninterrupted run.
Log ==
    INSTANCE SelectionLog WITH
      log <- IF volume.progress = None THEN <<>>
             ELSE <<volume.progress.seedIncumbent.evaluation>>
                    \o volume.progress.history,
      selection <- IF volume.progress = None THEN None ELSE volume.progress.state

ImplementsSelectionLog == Log!Spec

\* A named attempt that exists and has stopped before its manifest can be
\* resumed with its inputs: what the refusal to start it again tells the
\* operator to do ("visual attempt already exists; resume it explicitly").
StoppedAttemptResumes ==
    named /\ proc = Idle /\ disk.frozenSeed # None /\ disk.manifest = None =>
        \E data \in DataVersions, epochs \in Schedules :
            CanResume(disk, disk.frozenSeed, data, epochs)

=============================================================================
