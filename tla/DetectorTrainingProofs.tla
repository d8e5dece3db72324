----------------------- MODULE DetectorTrainingProofs -----------------------
(***************************************************************************)
(* Proofs about the visual training attempt: its files and its process are *)
(* well formed, and neither interruptions nor resumes let the selected     *)
(* checkpoint regress from the frozen seed.                                *)
(***************************************************************************)
EXTENDS DetectorTraining, FiniteSetTheorems,
        SequenceTheorems, TLAPS

----------------------------------------------------------------------------
(* The selection rule.                                                     *)

LEMMA AlignedType ==
  ASSUME NEW box \in Boxes
  PROVE  Aligned(box) \in Evaluations
<1>1. IsBox(box)
  BY BoxesAssumption
<1>2. ASSUME NEW c \in Classes, c \in DOMAIN box
      PROVE  box[c][1] \in Scores /\ box[c][2] \in Scores
  BY <1>1, <1>2 DEF IsBox
<1>3. 0 \in Scores
  BY DEF Scores
<1>4. QED
  BY <1>2, <1>3 DEF Aligned, Evaluations

LEMMA Totals ==
  ASSUME NEW e \in Evaluations
  PROVE  /\ SecretMinimum(e) \in Nat
         /\ OtherTotal(e) \in Nat
         /\ PrecisionTotal(e) \in Nat
         /\ \A c \in SecretClasses : SecretMinimum(e) <= e.recall[c]
         /\ \E c \in SecretClasses : SecretMinimum(e) = e.recall[c]
<1> DEFINE r == e.recall
           p == e.precision
<1>1. \A c \in Classes : r[c] \in Nat /\ p[c] \in Nat
  BY DEF Evaluations, Scores
<1>2. /\ r["CARD_NUMBER"] \in Nat /\ r["CVC"] \in Nat /\ r["SECRET"] \in Nat
      /\ p["CARD_NUMBER"] \in Nat /\ p["CVC"] \in Nat /\ p["SECRET"] \in Nat
  BY <1>1 DEF Classes, SecretClasses
<1>3. /\ r["NAME"] \in Nat /\ r["EMAIL"] \in Nat /\ r["PHONE"] \in Nat
      /\ r["ADDRESS"] \in Nat /\ r["SENSITIVE_FIELD"] \in Nat
      /\ r["SENSITIVE_IMAGE"] \in Nat
      /\ p["NAME"] \in Nat /\ p["EMAIL"] \in Nat /\ p["PHONE"] \in Nat
      /\ p["ADDRESS"] \in Nat /\ p["SENSITIVE_FIELD"] \in Nat
      /\ p["SENSITIVE_IMAGE"] \in Nat
  BY <1>1 DEF Classes, OtherClasses
<1>4. OtherTotal(e) \in Nat
  BY <1>3 DEF OtherTotal
<1>5. PrecisionTotal(e) \in Nat
  BY <1>2, <1>3 DEF PrecisionTotal
<1>6. /\ SecretMinimum(e) \in {r["CARD_NUMBER"], r["CVC"], r["SECRET"]}
      /\ SecretMinimum(e) <= r["CARD_NUMBER"]
      /\ SecretMinimum(e) <= r["CVC"]
      /\ SecretMinimum(e) <= r["SECRET"]
  <2> HIDE DEF p
  <2> QED
    BY <1>2 DEF SecretMinimum
<1>7. QED
  <2> HIDE DEF r, p
  <2>1. \A c \in SecretClasses : SecretMinimum(e) <= r[c]
    BY <1>6 DEF SecretClasses
  <2>2. \E c \in SecretClasses : SecretMinimum(e) = r[c]
    BY <1>6 DEF SecretClasses
  <2>3. SecretMinimum(e) \in Nat
    BY <1>2, <1>6
  <2>4. QED
    BY <1>4, <1>5, <2>1, <2>2, <2>3 DEF r

\* A selected candidate has a weakest secret class no weaker than the
\* incumbent's, and other classes within the bound of the high water.
LEMMA SelectedIsNoWorse ==
  ASSUME NEW st \in SelectionStates, NEW e \in Evaluations, Selected(st, e)
  PROVE  /\ SecretMinimum(e) >= SecretMinimum(st.incumbent)
         /\ OtherTotal(e) >= st.highWater - OtherDropFromHighWater
<1>1. st.incumbent \in Evaluations /\ st.highWater \in Nat
  BY DEF SelectionStates
<1>2. OtherTotal(e) >= st.highWater - OtherDropFromHighWater
  BY DEF Selected, HardGates
<1>3. SecretMinimum(e) \in Nat /\ SecretMinimum(st.incumbent) \in Nat
  BY <1>1, Totals
<1>4. CASE SecretImproves(st.incumbent, e)
  BY <1>2, <1>3, <1>4 DEF SecretImproves, MeaningfulSecretGain
<1>5. CASE TieBandImproves(st.incumbent, e)
  BY <1>2, <1>3, <1>5 DEF TieBandImproves, MeaningfulSecretGain
<1>6. CASE PrecisionBreaksTie(st.incumbent, e)
  <2>1. PICK c \in SecretClasses : SecretMinimum(e) = e.recall[c]
    BY Totals
  <2>2. SecretMinimum(st.incumbent) <= st.incumbent.recall[c]
    BY <1>1, Totals
  <2>3. e.recall[c] >= st.incumbent.recall[c]
    BY <1>6 DEF PrecisionBreaksTie, Classes
  <2>4. e.recall[c] \in Nat /\ st.incumbent.recall[c] \in Nat
    BY <1>1 DEF Evaluations, Scores, Classes
  <2>5. QED
    BY <1>2, <1>3, <2>1, <2>2, <2>3, <2>4
<1>7. QED
  BY <1>4, <1>5, <1>6 DEF Selected

LEMMA InitialStateSound ==
  ASSUME NEW i \in Incumbents
  PROVE  /\ InitialState(i.evaluation) \in SelectionStates
         /\ Sound(i, InitialState(i.evaluation))
<1>1. i.evaluation \in Evaluations
  BY DEF Incumbents
<1>2. /\ SecretMinimum(i.evaluation) \in Nat
      /\ OtherTotal(i.evaluation) \in Nat
  BY <1>1, Totals
<1>3. QED
  BY <1>1, <1>2 DEF InitialState, SelectionStates, Sound, OtherDropFromHighWater

LEMMA NextStateType ==
  ASSUME NEW st \in SelectionStates, NEW e \in Evaluations
  PROVE  NextState(st, e) \in SelectionStates
<1>1. OtherTotal(e) \in Nat
  BY Totals
<1>2. QED
  BY <1>1 DEF NextState, SelectionStates

LEMMA NextStateSound ==
  ASSUME NEW i \in Incumbents, NEW st \in SelectionStates, NEW e \in Evaluations,
         Sound(i, st)
  PROVE  /\ NextState(st, e) \in SelectionStates
         /\ Sound(i, NextState(st, e))
<1>1. /\ st.incumbent \in Evaluations /\ st.highWater \in Nat
      /\ i.evaluation \in Evaluations
  BY DEF SelectionStates, Incumbents
<1>2. /\ SecretMinimum(e) \in Nat /\ OtherTotal(e) \in Nat
      /\ SecretMinimum(st.incumbent) \in Nat
      /\ SecretMinimum(i.evaluation) \in Nat /\ OtherTotal(i.evaluation) \in Nat
  BY <1>1, Totals
<1>3. CASE ~Selected(st, e)
  BY <1>3 DEF NextState
<1>4. CASE Selected(st, e)
  <2>1. /\ SecretMinimum(e) >= SecretMinimum(st.incumbent)
        /\ OtherTotal(e) >= st.highWater - OtherDropFromHighWater
    BY <1>4, SelectedIsNoWorse
  <2> DEFINE hw == IF OtherTotal(e) > st.highWater THEN OtherTotal(e) ELSE st.highWater
  <2>2. NextState(st, e) = [incumbent |-> e, highWater |-> hw]
    BY <1>4 DEF NextState
  <2>3. /\ hw \in Nat /\ hw >= st.highWater
        /\ OtherTotal(e) >= hw - OtherDropFromHighWater
    BY <1>1, <1>2, <2>1 DEF OtherDropFromHighWater
  <2>4. [incumbent |-> e, highWater |-> hw] \in SelectionStates
    BY <2>3 DEF SelectionStates
  <2>5. Sound(i, [incumbent |-> e, highWater |-> hw])
    BY <1>1, <1>2, <2>1, <2>3 DEF Sound
  <2>6. QED
    BY <2>2, <2>4, <2>5
<1>5. QED
  BY <1>3, <1>4

----------------------------------------------------------------------------
(* The files and the process are well formed.                              *)

HistoriesComplete ==
    \A f \in {disk, volume} :
        f.progress # None => Len(f.progress.history) = f.progress.epoch + 1

\* The conjuncts of TypeOK that do not depend on the phase ...
Shape ==
    /\ named \in BOOLEAN
    /\ inputs \in [seed : Seeds, data : DataVersions]
    /\ disk \in Files /\ volume \in Files
    /\ proc \in Processes \union {Idle}
    /\ launches \in 0..MaxLaunches
    /\ HistoriesComplete

\* ... and what a phase may rely on.
PhaseOK ==
    proc # Idle =>
      /\ Len(proc.history) <= proc.epochs
      /\ proc.pc # "staging" => proc.data # None
      /\ Running =>
           /\ proc.state # None /\ proc.seedIncumbent # None
           /\ disk.safetyBest # None
           /\ proc.history # << >> => disk.best # None
      /\ proc.pc \in {"saved", "selected", "recorded"} =>
           disk.last # None /\ disk.best # None
      /\ proc.pc = "saved" =>
           /\ proc.box # None
           /\ Len(proc.history) < proc.epochs
           /\ disk.last.epoch = Len(proc.history)
      /\ proc.pc = "selected" => proc.history # << >>
      /\ proc.pc \in {"staging", "seeding"} => proc.history = << >>

\* The lengths of histories.
LEMMA HistoryFacts ==
  /\ << >> \in Histories
  /\ \A h \in Histories : Len(h) \in Nat
  /\ \A h \in Histories : h # << >> => Len(h) > 0
  /\ \A h \in Histories, e \in Evaluations :
       /\ Append(h, e) \in Histories
       /\ Len(Append(h, e)) = Len(h) + 1
       /\ Append(h, e)[Len(h) + 1] = e
       /\ \A i \in 1..Len(h) : Append(h, e)[i] = h[i]
BY DEF Histories

LEMMA SeedCheckpointType ==
  ASSUME NEW seed \in Seeds
  PROVE  SeedCheckpoint(seed) \in Checkpoints
BY BoundAssumption DEF SeedCheckpoint, Checkpoints

LEMMA NoFilesType == NoFiles \in Files
BY DEF NoFiles, Files

LEMMA ProcessType ==
  ASSUME NEW pc \in Phases, NEW seed \in Seeds, NEW epochs \in Schedules,
         NEW data, data \in DataVersions \/ data = None,
         launches \in 0..MaxLaunches, launches < MaxLaunches
  PROVE  /\ Process(pc, seed, data, epochs) \in Processes
         /\ Process(pc, seed, data, epochs).pc = pc
         /\ Process(pc, seed, data, epochs).data = data
         /\ Process(pc, seed, data, epochs).epochs = epochs
         /\ Process(pc, seed, data, epochs).history = << >>
         /\ Process(pc, seed, data, epochs) # Idle
<1>1. SeedCheckpoint(seed) \in Checkpoints
  BY SeedCheckpointType
<1>2. launches + 1 \in 0..MaxLaunches
  BY BoundAssumption
<1>3. QED
  BY <1>1, <1>2, HistoryFacts DEF Process, Processes, Phases, Idle

LEMMA ScheduleType == \A epochs \in Schedules : epochs \in Nat /\ epochs >= 1 /\ epochs <= 500
BY ScheduleAssumption

LEMMA Within ==
  \A n, m \in Nat : /\ n < m /\ m <= 500 => n \in 0..500
                    /\ n <= m /\ m <= 500 /\ n > 0 => n - 1 \in 0..500
OBVIOUS

LEMMA Successor == \A n, m \in Nat : (n < m => n + 1 <= m) /\ n + 1 # 0
OBVIOUS

LEMMA Epochs == \A n \in 0..500 : n \in -1..500
OBVIOUS

LEMMA Busy == \A p \in Processes : p # Idle /\ p.pc # "idle" /\ p.pc \in Phases
BY DEF Processes, Idle, Phases

LEMMA IdlePhase == Idle.pc = "idle"
BY DEF Idle

LEMMA WellFormedIsTyped == Shape /\ PhaseOK => TypeOK
BY IdlePhase, Busy DEF Shape, PhaseOK, TypeOK, Running, Phases

LEMMA WellFormedInit == Init => Shape /\ PhaseOK
<1> SUFFICES ASSUME Init PROVE Shape /\ PhaseOK
  OBVIOUS
<1>1. disk \in Files /\ volume \in Files
  BY NoFilesType DEF Init
<1>2. HistoriesComplete
  BY DEF HistoriesComplete, Init, NoFiles
<1>3. launches \in 0..MaxLaunches
  BY BoundAssumption DEF Init
<1>4. QED
  BY <1>1, <1>2, <1>3 DEF Shape, PhaseOK, Init

----------------------------------------------------------------------------
(* What each action does, field by field.                                  *)

LEMMA ShapeFacts ==
  ASSUME Shape
  PROVE  /\ disk \in Files /\ volume \in Files
         /\ proc \in Processes \union {Idle} /\ launches \in 0..MaxLaunches
         /\ inputs.seed \in Seeds /\ inputs.data \in DataVersions
         /\ proc # Idle => proc \in Processes
         /\ proc.pc # "idle" => proc # Idle
BY IdlePhase DEF Shape

LEMMA FileFacts ==
  ASSUME NEW f \in Files
  PROVE  /\ f.last # None => f.last \in Checkpoints
         /\ f.best # None => f.best \in Checkpoints
         /\ f.safetyBest # None => f.safetyBest \in Checkpoints
         /\ f.progress # None => f.progress \in Progresses
         /\ f.manifest # None => f.manifest \in Manifests
BY DEF Files

LEMMA ProcessFacts ==
  ASSUME NEW p \in Processes
  PROVE  /\ p.seed \in Seeds /\ p.epochs \in Schedules /\ p.history \in Histories
         /\ p.launch \in 0..MaxLaunches /\ p.weights \in Checkpoints
         /\ p.data # None => p.data \in DataVersions
         /\ p.state # None => p.state \in SelectionStates
         /\ p.seedIncumbent # None => p.seedIncumbent \in Incumbents
         /\ p.box # None => p.box \in Boxes
BY DEF Processes

LEMMA ProgressFacts ==
  ASSUME NEW r \in Progresses
  PROVE  /\ r.epoch \in 0..500 /\ r.history \in Histories
         /\ r.seedIncumbent \in Incumbents /\ r.state \in SelectionStates
         /\ r.hashes.last \in Checkpoints /\ r.hashes.best \in Checkpoints
         /\ r.hashes.safetyBest \in Checkpoints
         /\ r.contract.epochs \in Schedules
BY DEF Progresses

LEMMA InitializeEffect ==
  ASSUME Shape, NEW epochs \in Schedules, InitializeSeededAttempt(epochs)
  PROVE  /\ disk' \in Files /\ volume' = disk'
         /\ disk'.progress = None /\ disk'.manifest = None
         /\ proc' \in Processes /\ proc'.pc = "staging" /\ proc'.data = None
         /\ proc'.history = << >> /\ proc'.epochs = epochs
         /\ launches' \in 0..MaxLaunches
<1>1. disk' \in Files /\ disk'.progress = None /\ disk'.manifest = None
  BY ShapeFacts DEF InitializeSeededAttempt, NoFiles, Files
<1>2. /\ Process("staging", inputs.seed, None, epochs) \in Processes
      /\ Process("staging", inputs.seed, None, epochs).pc = "staging"
      /\ Process("staging", inputs.seed, None, epochs).data = None
      /\ Process("staging", inputs.seed, None, epochs).epochs = epochs
      /\ Process("staging", inputs.seed, None, epochs).history = << >>
  <2>1. launches < MaxLaunches /\ "staging" \in Phases
    BY DEF InitializeSeededAttempt, Phases
  <2>2. QED
    BY <2>1, ShapeFacts, ProcessType
<1>3. launches' \in 0..MaxLaunches
  BY ShapeFacts, BoundAssumption DEF InitializeSeededAttempt
<1>4. QED
  BY <1>1, <1>2, <1>3 DEF InitializeSeededAttempt

LEMMA DefaultEffect ==
  ASSUME Shape, NEW epochs \in Schedules, NEW force \in BOOLEAN,
         LaunchDefault(epochs, force)
  PROVE  /\ disk' \in Files
         /\ disk'.progress = None
         /\ disk' = disk \/ disk'.manifest = None
         /\ proc' \in Processes /\ proc'.pc = "staging"
         /\ proc'.history = << >> /\ proc'.epochs = epochs
         /\ launches' \in 0..MaxLaunches
<1> DEFINE start == Process("staging", inputs.seed, None, epochs)
<1>1. /\ start \in Processes /\ start.pc = "staging"
      /\ start.history = << >> /\ start.epochs = epochs
  <2>1. launches < MaxLaunches /\ "staging" \in Phases
    BY DEF LaunchDefault, Phases
  <2>2. QED
    BY <2>1, ShapeFacts, ProcessType
<1>2. proc' = [start EXCEPT !.forced = force]
  BY DEF LaunchDefault
<1> HIDE DEF start
<1>3. /\ proc' \in Processes /\ proc'.pc = "staging"
      /\ proc'.history = << >> /\ proc'.epochs = epochs
  BY <1>1, <1>2 DEF Processes
<1>4. disk' \in Files /\ disk'.progress = None /\ (disk' = disk \/ disk'.manifest = None)
  BY ShapeFacts, NoFilesType DEF LaunchDefault, MayStartOver, NoFiles
<1>5. launches' \in 0..MaxLaunches
  BY ShapeFacts, BoundAssumption DEF LaunchDefault
<1>6. QED
  BY <1>3, <1>4, <1>5

LEMMA ResumeEffect ==
  ASSUME Shape, NEW epochs \in Schedules, LaunchResume(epochs)
  PROVE  /\ disk.progress \in Progresses
         /\ disk.progress.hashes = Hashes(disk)
         /\ disk.progress.contract.epochs = epochs
         /\ disk.progress.epoch + 1 < epochs
         /\ disk.last # None /\ disk.best # None /\ disk.safetyBest # None
         /\ proc' \in Processes /\ proc'.pc = "training" /\ proc'.epochs = epochs
         /\ proc'.data # None
         /\ proc'.history = disk.progress.history
         /\ proc'.state = disk.progress.state
         /\ proc'.seedIncumbent = disk.progress.seedIncumbent
         /\ launches' \in 0..MaxLaunches
<1>1. /\ disk.progress # None /\ disk.progress.hashes = Hashes(disk)
      /\ disk.progress.contract = Contract(EffectiveSeed, inputs.data, epochs)
      /\ disk.progress.epoch + 1 < epochs
      /\ named => disk.frozenSeed # None
  BY DEF LaunchResume, CanResume, SameContract
<1>2. disk.progress \in Progresses
  BY <1>1, ShapeFacts, FileFacts
<1>3. /\ disk.progress.hashes.last = disk.last
      /\ disk.progress.hashes.best = disk.best
      /\ disk.progress.hashes.safetyBest = disk.safetyBest
  BY <1>1 DEF Hashes
<1>4. /\ disk.last \in Checkpoints /\ disk.best \in Checkpoints
      /\ disk.safetyBest \in Checkpoints
  BY <1>2, <1>3, ProgressFacts
<1>5. disk.last # None /\ disk.best # None /\ disk.safetyBest # None
  BY <1>4, NoneAssumption
<1>6. disk.progress.contract.epochs = epochs
  BY <1>1 DEF Contract
<1>7. EffectiveSeed \in Seeds
  BY <1>1, ShapeFacts DEF EffectiveSeed, Files
<1> DEFINE start == Process("training", EffectiveSeed, inputs.data, epochs)
<1>8. start \in Processes /\ start.pc = "training" /\ start.data = inputs.data
      /\ start.epochs = epochs
  BY <1>7, ShapeFacts, ProcessType DEF LaunchResume, Phases
<1>9. proc' = [start EXCEPT !.weights = disk.last,
                            !.seedIncumbent = disk.progress.seedIncumbent,
                            !.state = disk.progress.state,
                            !.history = disk.progress.history]
  BY DEF LaunchResume, Restored
<1>10. /\ disk.progress.history \in Histories /\ disk.progress.state \in SelectionStates
       /\ disk.progress.seedIncumbent \in Incumbents
  BY <1>2, ProgressFacts
<1> HIDE DEF start
<1>11. proc' \in Processes
  BY <1>4, <1>8, <1>9, <1>10 DEF Processes
<1>12. /\ proc'.pc = "training" /\ proc'.epochs = epochs /\ proc'.data = inputs.data
       /\ proc'.history = disk.progress.history
       /\ proc'.state = disk.progress.state
       /\ proc'.seedIncumbent = disk.progress.seedIncumbent
  BY <1>8, <1>9 DEF Processes
<1>13. inputs.data # None
  BY ShapeFacts, NoneAssumption
<1>14. launches' \in 0..MaxLaunches
  BY ShapeFacts, BoundAssumption DEF LaunchResume
<1>15. QED
  BY <1>1, <1>2, <1>5, <1>6, <1>11, <1>12, <1>13, <1>14

LEMMA StageEffect ==
  ASSUME Shape, Stage
  PROVE  /\ disk' \in Files
         /\ disk'.progress = disk.progress /\ disk'.manifest = disk.manifest
         /\ proc \in Processes
         /\ proc' \in Processes /\ proc'.pc = "seeding" /\ proc'.data # None
         /\ proc'.history = proc.history /\ proc'.epochs = proc.epochs
<1>1. disk' \in Files /\ disk'.progress = disk.progress /\ disk'.manifest = disk.manifest
  BY ShapeFacts DEF Stage, Files
<1>2. proc \in Processes
  BY ShapeFacts DEF Stage
<1>3. proc' = [proc EXCEPT !.pc = "seeding", !.data = inputs.data]
  BY DEF Stage
<1>4. /\ proc' \in Processes /\ proc'.pc = "seeding" /\ proc'.data = inputs.data
      /\ proc'.history = proc.history /\ proc'.epochs = proc.epochs
  BY <1>2, <1>3, ShapeFacts DEF Processes, Phases
<1>5. inputs.data # None
  BY ShapeFacts, NoneAssumption
<1>6. QED
  BY <1>1, <1>2, <1>4, <1>5

LEMMA ValidateSeedEffect ==
  ASSUME Shape, NEW box \in Boxes, ValidateSeed(box)
  PROVE  /\ proc \in Processes
         /\ disk' \in Files /\ volume' = disk' /\ disk'.safetyBest # None
         /\ disk'.safetyBest.epoch = -1
         /\ disk'.progress = disk.progress /\ disk'.manifest = disk.manifest
         /\ disk'.best = disk.best
         /\ proc' \in Processes /\ proc'.pc = "training" /\ proc'.data = proc.data
         /\ proc'.history = proc.history /\ proc'.epochs = proc.epochs
         /\ proc'.seedIncumbent \in Incumbents
         /\ proc'.state = InitialState(proc'.seedIncumbent.evaluation)
<1> DEFINE incumbent == [seed |-> proc.seed, evaluation |-> Aligned(box)]
<1>1. proc \in Processes /\ proc.seed \in Seeds
  BY ShapeFacts, ProcessFacts DEF ValidateSeed
<1>2. /\ incumbent \in Incumbents /\ incumbent.evaluation = Aligned(box)
      /\ SeedCheckpoint(proc.seed) \in Checkpoints
  BY <1>1, AlignedType, SeedCheckpointType DEF Incumbents
<1>3. InitialState(incumbent.evaluation) \in SelectionStates
  BY <1>2, InitialStateSound
<1>4. /\ disk' = [disk EXCEPT !.safetyBest = SeedCheckpoint(proc.seed),
                              !.seedIncumbent = incumbent]
      /\ proc' = [proc EXCEPT !.pc = "training", !.seedIncumbent = incumbent,
                              !.state = InitialState(incumbent.evaluation)]
      /\ volume' = disk'
  BY DEF ValidateSeed
<1> HIDE DEF incumbent
<1>5. /\ disk' \in Files /\ disk'.safetyBest = SeedCheckpoint(proc.seed)
      /\ disk'.progress = disk.progress /\ disk'.manifest = disk.manifest
      /\ disk'.best = disk.best
  BY <1>2, <1>4, ShapeFacts DEF Files
<1>6. proc' \in Processes
  BY <1>1, <1>2, <1>3, <1>4 DEF Processes, Phases
<1>7. /\ proc'.pc = "training" /\ proc'.data = proc.data
      /\ proc'.history = proc.history /\ proc'.epochs = proc.epochs
      /\ proc'.seedIncumbent = incumbent
      /\ proc'.state = InitialState(incumbent.evaluation)
  BY <1>1, <1>4 DEF Processes
<1>8. SeedCheckpoint(proc.seed) # None /\ SeedCheckpoint(proc.seed).epoch = -1
  BY <1>2, NoneAssumption DEF SeedCheckpoint
<1>9. QED
  BY <1>1, <1>2, <1>4, <1>5, <1>6, <1>7, <1>8

LEMMA TrainEffect ==
  ASSUME Shape, PhaseOK, NEW box \in Boxes, NEW fitter \in BOOLEAN,
         TrainEpoch(box, fitter)
  PROVE  /\ proc \in Processes /\ proc.pc = "training"
         /\ disk' \in Files
         /\ disk'.last # None /\ disk'.last.epoch = Len(proc.history)
         /\ disk'.best # None
         /\ disk'.safetyBest = disk.safetyBest
         /\ disk'.progress = disk.progress /\ disk'.manifest = disk.manifest
         /\ proc' \in Processes /\ proc'.pc = "saved" /\ proc'.data = proc.data
         /\ proc'.history = proc.history /\ proc'.epochs = proc.epochs
         /\ proc'.state = proc.state /\ proc'.seedIncumbent = proc.seedIncumbent
         /\ proc'.box # None
<1> DEFINE saved == [seeds |-> proc.weights.seeds \union {proc.seed},
                     data  |-> proc.weights.data \union {proc.data},
                     launch |-> proc.launch, epoch |-> Len(proc.history)]
<1>1. proc \in Processes /\ proc.pc = "training" /\ proc.data # None
  BY ShapeFacts DEF TrainEpoch, PhaseOK
<1>2. /\ proc.seed \in Seeds /\ proc.data \in DataVersions
      /\ proc.launch \in 0..MaxLaunches /\ proc.weights \in Checkpoints
      /\ proc.history \in Histories
  BY <1>1, ProcessFacts
<1>3. Len(proc.history) \in 0..500
  <2>1. Len(proc.history) \in Nat
    BY <1>2, HistoryFacts
  <2>2. proc.epochs \in Nat /\ proc.epochs <= 500
    BY <1>1, ProcessFacts, ScheduleType
  <2>3. Len(proc.history) < proc.epochs
    BY DEF TrainEpoch
  <2>4. QED
    BY <2>1, <2>2, <2>3, Within
<1>4. saved \in Checkpoints /\ saved.epoch = Len(proc.history)
  <2>1. Len(proc.history) \in -1..500
    BY <1>3, Epochs
  <2>2. /\ proc.weights.seeds \in SUBSET Seeds
        /\ proc.weights.data \in SUBSET DataVersions
    BY <1>2 DEF Checkpoints
  <2>3. QED
    BY <1>2, <2>1, <2>2 DEF Checkpoints
<1> HIDE DEF saved
<1>5. /\ disk' = [disk EXCEPT !.last = saved,
                   !.best = IF fitter \/ proc.history = << >> THEN saved ELSE @]
      /\ proc' = [proc EXCEPT !.pc = "saved", !.weights = saved, !.box = box]
  BY DEF TrainEpoch, saved
<1>6. /\ disk' \in Files
      /\ disk'.last = saved /\ disk'.safetyBest = disk.safetyBest
      /\ disk'.progress = disk.progress /\ disk'.manifest = disk.manifest
      /\ disk'.best = IF fitter \/ proc.history = << >> THEN saved ELSE disk.best
  BY <1>4, <1>5, ShapeFacts DEF Files
<1>7. proc' \in Processes
  BY <1>1, <1>4, <1>5 DEF Processes, Phases
<1>8. /\ proc'.pc = "saved" /\ proc'.data = proc.data
      /\ proc'.history = proc.history /\ proc'.epochs = proc.epochs
      /\ proc'.state = proc.state /\ proc'.seedIncumbent = proc.seedIncumbent
      /\ proc'.box = box
  BY <1>1, <1>5 DEF Processes
<1>9. saved # None /\ box # None
  BY <1>4, NoneAssumption
<1>10. proc.history # << >> => disk.best # None
  BY <1>1, ShapeFacts DEF PhaseOK, Running, TrainEpoch
<1>11. QED
  BY <1>1, <1>4, <1>6, <1>7, <1>8, <1>9, <1>10

LEMMA SelectEffect ==
  ASSUME Shape, PhaseOK, SelectEpoch
  PROVE  LET e == Aligned(proc.box)
         IN  /\ proc \in Processes /\ proc.pc = "saved"
             /\ e \in Evaluations
             /\ proc.history \in Histories
             /\ Len(proc.history) < proc.epochs
             /\ disk.last # None /\ disk.last.epoch = Len(proc.history)
             /\ proc.state \in SelectionStates
             /\ proc.seedIncumbent \in Incumbents
             /\ disk' \in Files
             /\ disk'.safetyBest = IF Selected(proc.state, e) THEN disk.last
                                   ELSE disk.safetyBest
             /\ disk'.last = disk.last /\ disk'.best = disk.best
             /\ disk'.progress = disk.progress /\ disk'.manifest = disk.manifest
             /\ proc' \in Processes /\ proc'.pc = "selected" /\ proc'.data = proc.data
             /\ proc'.history = Append(proc.history, e)
             /\ proc'.epochs = proc.epochs
             /\ proc'.state = NextState(proc.state, e)
             /\ proc'.seedIncumbent = proc.seedIncumbent
<1> DEFINE e == Aligned(proc.box)
<1>1. proc \in Processes /\ proc.pc = "saved"
  BY ShapeFacts DEF SelectEpoch
<1>2. /\ proc.state # None /\ proc.seedIncumbent # None /\ proc.box # None
      /\ disk.last # None /\ disk.last.epoch = Len(proc.history)
      /\ Len(proc.history) < proc.epochs
  BY <1>1, Busy DEF PhaseOK, Running
<1>3. /\ proc.state \in SelectionStates /\ proc.seedIncumbent \in Incumbents
      /\ proc.box \in Boxes /\ proc.history \in Histories
      /\ disk.last \in Checkpoints
  BY <1>1, <1>2, ProcessFacts, FileFacts, ShapeFacts
<1>4. e \in Evaluations
  BY <1>3, AlignedType
<1> HIDE DEF e
<1>5. /\ NextState(proc.state, e) \in SelectionStates
      /\ Append(proc.history, e) \in Histories
  BY <1>3, <1>4, NextStateType, HistoryFacts
<1>6. /\ disk' = IF Selected(proc.state, e)
                 THEN [disk EXCEPT !.safetyBest = disk.last] ELSE disk
      /\ proc' = [proc EXCEPT !.pc = "selected", !.state = NextState(proc.state, e),
                              !.history = Append(proc.history, e)]
  BY DEF SelectEpoch, Chosen, e
<1>7. /\ disk' \in Files
      /\ disk'.safetyBest = IF Selected(proc.state, e) THEN disk.last
                            ELSE disk.safetyBest
      /\ disk'.last = disk.last /\ disk'.best = disk.best
      /\ disk'.progress = disk.progress /\ disk'.manifest = disk.manifest
  BY <1>3, <1>6, ShapeFacts DEF Files
<1>8. proc' \in Processes
  BY <1>1, <1>5, <1>6 DEF Processes, Phases
<1>9. /\ proc'.pc = "selected" /\ proc'.data = proc.data
      /\ proc'.history = Append(proc.history, e) /\ proc'.epochs = proc.epochs
      /\ proc'.state = NextState(proc.state, e)
      /\ proc'.seedIncumbent = proc.seedIncumbent
  BY <1>1, <1>6 DEF Processes
<1>10. QED
  BY <1>1, <1>2, <1>3, <1>4, <1>7, <1>8, <1>9 DEF e

LEMMA WriteEffect ==
  ASSUME Shape, PhaseOK, WriteProgress
  PROVE  /\ proc \in Processes /\ proc.pc = "selected"
         /\ disk' \in Files
         /\ disk'.progress # None
         /\ disk'.progress.epoch = Len(proc.history) - 1
         /\ disk'.progress.history = proc.history
         /\ disk'.progress.seedIncumbent = proc.seedIncumbent
         /\ disk'.progress.state = proc.state
         /\ disk'.progress.contract.epochs = proc.epochs
         /\ disk'.progress.hashes.safetyBest = disk.safetyBest
         /\ disk'.safetyBest = disk.safetyBest
         /\ disk'.last = disk.last /\ disk'.best = disk.best
         /\ disk'.manifest = disk.manifest
         /\ proc' \in Processes /\ proc'.pc = "recorded" /\ proc'.data = proc.data
         /\ proc'.history = proc.history /\ proc'.epochs = proc.epochs
         /\ proc'.state = proc.state /\ proc'.seedIncumbent = proc.seedIncumbent
<1> DEFINE record ==
      [epoch |-> Len(proc.history) - 1, history |-> proc.history,
       seedIncumbent |-> proc.seedIncumbent, state |-> proc.state,
       contract |-> Contract(proc.seed, proc.data, proc.epochs),
       hashes |-> Hashes(disk)]
<1>1. proc \in Processes /\ proc.pc = "selected"
  BY ShapeFacts DEF WriteProgress
<1>2. /\ proc.state # None /\ proc.seedIncumbent # None /\ proc.data # None
      /\ disk.last # None /\ disk.best # None /\ disk.safetyBest # None
      /\ Len(proc.history) <= proc.epochs /\ proc.history # << >>
  BY <1>1, Busy DEF PhaseOK, Running
<1>3. /\ proc.seed \in Seeds /\ proc.data \in DataVersions
      /\ proc.epochs \in Schedules /\ proc.history \in Histories
      /\ proc.state \in SelectionStates /\ proc.seedIncumbent \in Incumbents
      /\ disk.last \in Checkpoints /\ disk.best \in Checkpoints
      /\ disk.safetyBest \in Checkpoints
  BY <1>1, <1>2, ProcessFacts, FileFacts, ShapeFacts
<1>4. Len(proc.history) - 1 \in 0..500
  <2>1. Len(proc.history) \in Nat /\ Len(proc.history) > 0
    BY <1>2, <1>3, HistoryFacts
  <2>2. proc.epochs \in Nat /\ proc.epochs <= 500
    BY <1>3, ScheduleType
  <2>3. QED
    BY <1>2, <2>1, <2>2, Within
<1>5. record \in Progresses
  BY <1>3, <1>4 DEF Progresses, Contract, Hashes
<1>6. /\ record.epoch = Len(proc.history) - 1 /\ record.history = proc.history
      /\ record.seedIncumbent = proc.seedIncumbent /\ record.state = proc.state
      /\ record.contract.epochs = proc.epochs
      /\ record.hashes.safetyBest = disk.safetyBest
  BY DEF Contract, Hashes
<1> HIDE DEF record
<1>7. /\ disk' = [disk EXCEPT !.progress = record]
      /\ proc' = [proc EXCEPT !.pc = "recorded"]
  BY DEF WriteProgress, record
<1>8. /\ disk' \in Files /\ disk'.progress = record
      /\ disk'.safetyBest = disk.safetyBest
      /\ disk'.last = disk.last /\ disk'.best = disk.best
      /\ disk'.manifest = disk.manifest
  BY <1>5, <1>7, ShapeFacts DEF Files
<1>9. proc' \in Processes
  BY <1>1, <1>7 DEF Processes, Phases
<1>10. /\ proc'.pc = "recorded" /\ proc'.data = proc.data
       /\ proc'.history = proc.history /\ proc'.epochs = proc.epochs
       /\ proc'.state = proc.state /\ proc'.seedIncumbent = proc.seedIncumbent
  BY <1>1, <1>7 DEF Processes
<1>11. record # None
  BY <1>5, NoneAssumption
<1>12. QED
  BY <1>1, <1>6, <1>8, <1>9, <1>10, <1>11

LEMMA CommitEffect ==
  ASSUME Shape, CommitEpoch
  PROVE  /\ proc \in Processes /\ proc.pc = "recorded"
         /\ disk' = disk /\ volume' = disk
         /\ proc' \in Processes /\ proc'.pc = "training" /\ proc'.data = proc.data
         /\ proc'.history = proc.history /\ proc'.epochs = proc.epochs
         /\ proc'.state = proc.state /\ proc'.seedIncumbent = proc.seedIncumbent
<1>1. proc \in Processes /\ proc.pc = "recorded"
  BY ShapeFacts DEF CommitEpoch
<1>2. proc' = [proc EXCEPT !.pc = "training"] /\ disk' = disk /\ volume' = disk
  BY DEF CommitEpoch
<1>3. proc' \in Processes
  BY <1>1, <1>2 DEF Processes, Phases
<1>4. /\ proc'.pc = "training" /\ proc'.data = proc.data
      /\ proc'.history = proc.history /\ proc'.epochs = proc.epochs
      /\ proc'.state = proc.state /\ proc'.seedIncumbent = proc.seedIncumbent
  BY <1>1, <1>2 DEF Processes
<1>5. QED
  BY <1>1, <1>2, <1>3, <1>4

LEMMA FinishEffect ==
  ASSUME Shape, PhaseOK, Finish
  PROVE  /\ proc \in Processes /\ proc.pc = "training" /\ proc' = Idle
         /\ Len(proc.history) = proc.epochs
         /\ disk.safetyBest # None
         /\ proc.state \in SelectionStates /\ proc.seedIncumbent \in Incumbents
         /\ disk' \in Files /\ volume' = disk'
         /\ disk'.progress = disk.progress
         /\ disk'.safetyBest = disk.safetyBest
         /\ disk'.manifest # None
         /\ disk'.manifest.checkpoint = disk.safetyBest
         /\ disk'.manifest.score = proc.state.incumbent
         /\ disk'.manifest.seedIncumbent = proc.seedIncumbent
         /\ disk'.manifest.history = proc.history
         /\ disk'.manifest.epochs = proc.epochs
<1> DEFINE record ==
      [checkpoint |-> disk.safetyBest, score |-> proc.state.incumbent,
       seedIncumbent |-> proc.seedIncumbent,
       history |-> proc.history, epochs |-> proc.epochs]
<1>1. proc \in Processes /\ proc.pc = "training"
  BY ShapeFacts DEF Finish
<1>2. proc.state # None /\ proc.seedIncumbent # None /\ disk.safetyBest # None
  BY <1>1, Busy DEF PhaseOK, Running
<1>3. /\ proc.epochs \in Schedules /\ proc.history \in Histories
      /\ proc.state \in SelectionStates /\ proc.seedIncumbent \in Incumbents
      /\ disk.safetyBest \in Checkpoints
  BY <1>1, <1>2, ProcessFacts, FileFacts, ShapeFacts
<1>4. record \in Manifests
  BY <1>3 DEF Manifests, SelectionStates
<1>5. /\ record.checkpoint = disk.safetyBest /\ record.score = proc.state.incumbent
      /\ record.seedIncumbent = proc.seedIncumbent /\ record.history = proc.history
      /\ record.epochs = proc.epochs
  OBVIOUS
<1> HIDE DEF record
<1>6. /\ disk' = [disk EXCEPT !.manifest = record] /\ volume' = disk' /\ proc' = Idle
      /\ Len(proc.history) = proc.epochs
  BY DEF Finish, Published, record
<1>7. /\ disk' \in Files /\ disk'.manifest = record
      /\ disk'.progress = disk.progress /\ disk'.safetyBest = disk.safetyBest
  BY <1>4, <1>6, ShapeFacts DEF Files
<1>8. record # None
  BY <1>4, NoneAssumption
<1>9. QED
  BY <1>1, <1>2, <1>3, <1>5, <1>6, <1>7, <1>8

----------------------------------------------------------------------------
(* Well-formedness.                                                        *)

LEMMA ShapeStep == Shape /\ PhaseOK /\ [Next]_vars => Shape'
<1> SUFFICES ASSUME Shape, PhaseOK, [Next]_vars PROVE Shape'
  OBVIOUS
<1> USE DEF Shape, HistoriesComplete
<1>1. ASSUME NEW epochs \in Schedules, InitializeSeededAttempt(epochs) PROVE Shape'
  BY <1>1, InitializeEffect DEF InitializeSeededAttempt
<1>2. ASSUME NEW epochs \in Schedules, LaunchResume(epochs) PROVE Shape'
  BY <1>2, ResumeEffect DEF LaunchResume
<1>3. ASSUME NEW epochs \in Schedules, NEW force \in BOOLEAN, LaunchDefault(epochs, force)
      PROVE  Shape'
  BY <1>3, DefaultEffect DEF LaunchDefault
<1>4. CASE Stage
  BY <1>4, StageEffect DEF Stage
<1>5. CASE Stop
  BY <1>5 DEF Stop
<1>6. ASSUME NEW box \in Boxes, ValidateSeed(box) PROVE Shape'
  BY <1>6, ValidateSeedEffect DEF ValidateSeed
<1>7. ASSUME NEW box \in Boxes, NEW fitter \in BOOLEAN, TrainEpoch(box, fitter)
      PROVE  Shape'
  <2>1. /\ disk' \in Files /\ disk'.progress = disk.progress /\ proc' \in Processes
    BY <1>7, TrainEffect
  <2>2. UNCHANGED <<named, inputs, volume, launches>>
    BY <1>7 DEF TrainEpoch
  <2>3. QED
    BY <2>1, <2>2
<1>8. CASE SelectEpoch
  BY <1>8, SelectEffect DEF SelectEpoch
<1>9. CASE WriteProgress
  <2>1. Len(proc.history) \in Nat
    BY <1>9, WriteEffect, ProcessFacts, HistoryFacts
  <2>2. Len(disk'.progress.history) = disk'.progress.epoch + 1
    BY <1>9, <2>1, WriteEffect
  <2>3. QED
    BY <1>9, <2>2, WriteEffect DEF WriteProgress
<1>10. CASE CommitEpoch
  BY <1>10, CommitEffect DEF CommitEpoch
<1>11. CASE Finish
  BY <1>11, FinishEffect DEF Finish
<1>12. ASSUME NEW seed \in Seeds, NEW data \in DataVersions, ReplaceInputs(seed, data)
       PROVE  Shape'
  BY <1>12 DEF ReplaceInputs
<1>13. CASE Export
  BY <1>13 DEF Export
<1>14. CASE UNCHANGED vars
  BY <1>14 DEF vars
<1>15. QED
  BY <1>1, <1>2, <1>3, <1>4, <1>5, <1>6, <1>7, <1>8, <1>9, <1>10, <1>11, <1>12,
     <1>13, <1>14 DEF Next

LEMMA PhaseOKStep == Shape /\ PhaseOK /\ [Next]_vars => PhaseOK'
<1> SUFFICES ASSUME Shape, PhaseOK, [Next]_vars PROVE PhaseOK'
  OBVIOUS
<1> USE DEF PhaseOK, Running
<1>0. Len(<< >>) = 0 /\ \A epochs \in Schedules : 0 <= epochs
  BY ScheduleType
<1>1. ASSUME NEW epochs \in Schedules, InitializeSeededAttempt(epochs) PROVE PhaseOK'
  BY <1>0, <1>1, InitializeEffect
<1>2. ASSUME NEW epochs \in Schedules, LaunchResume(epochs) PROVE PhaseOK'
  <2>1. disk' = disk
    BY <1>2 DEF LaunchResume
  <2>2. /\ proc'.state # None /\ proc'.seedIncumbent # None
        /\ disk.progress.epoch \in 0..500
    <3>1. /\ disk.progress \in Progresses
          /\ proc'.state = disk.progress.state
          /\ proc'.seedIncumbent = disk.progress.seedIncumbent
      BY <1>2, ResumeEffect
    <3>2. /\ disk.progress.state \in SelectionStates
          /\ disk.progress.seedIncumbent \in Incumbents
          /\ disk.progress.epoch \in 0..500
      BY <3>1, ProgressFacts
    <3>3. QED
      BY <3>1, <3>2, NoneAssumption
  <2>3. Len(disk.progress.history) = disk.progress.epoch + 1
    BY <1>2, ResumeEffect, NoneAssumption DEF Shape, HistoriesComplete
  <2>4. Len(proc'.history) <= proc'.epochs
    BY <1>2, <2>2, <2>3, ResumeEffect, ScheduleType
  <2>5. QED
    BY <1>2, <2>1, <2>2, <2>4, ResumeEffect
<1>3. ASSUME NEW epochs \in Schedules, NEW force \in BOOLEAN, LaunchDefault(epochs, force)
      PROVE  PhaseOK'
  BY <1>0, <1>3, DefaultEffect
<1>4. CASE Stage
  BY <1>4, StageEffect, Busy DEF Stage
<1>5. CASE Stop
  BY <1>5 DEF Stop
<1>6. ASSUME NEW box \in Boxes, ValidateSeed(box) PROVE PhaseOK'
  <2>1. proc'.state \in SelectionStates
    BY <1>6, ValidateSeedEffect, InitialStateSound
  <2>2. proc'.state # None /\ proc'.seedIncumbent # None
    BY <1>6, <2>1, ValidateSeedEffect, NoneAssumption
  <2>3. QED
    BY <1>6, <2>2, ValidateSeedEffect, Busy DEF ValidateSeed
<1>7. ASSUME NEW box \in Boxes, NEW fitter \in BOOLEAN, TrainEpoch(box, fitter)
      PROVE  PhaseOK'
  BY <1>7, TrainEffect, Busy DEF TrainEpoch
<1>8. CASE SelectEpoch
  <2>1. /\ Len(proc'.history) <= proc'.epochs /\ proc'.history # << >>
        /\ proc'.state # None
    <3> DEFINE e == Aligned(proc.box)
    <3>1. /\ proc.history \in Histories /\ e \in Evaluations
          /\ Len(proc.history) < proc.epochs /\ proc'.epochs = proc.epochs
          /\ proc'.history = Append(proc.history, e)
          /\ proc'.state = NextState(proc.state, e)
          /\ proc.state \in SelectionStates /\ proc.epochs \in Nat
      BY <1>8, SelectEffect, ProcessFacts, ScheduleType
    <3> HIDE DEF e
    <3>2. /\ Len(Append(proc.history, e)) = Len(proc.history) + 1
          /\ Len(proc.history) \in Nat /\ Len(<< >>) = 0
      BY <3>1, HistoryFacts
    <3>3. NextState(proc.state, e) # None
      BY <3>1, NextStateType, NoneAssumption
    <3>4. Len(proc.history) + 1 <= proc.epochs /\ Len(proc.history) + 1 # 0
      BY <3>1, <3>2, Successor
    <3>5. QED
      BY <3>1, <3>2, <3>3, <3>4
  <2>2. QED
    BY <1>8, <2>1, SelectEffect, Busy
<1>9. CASE WriteProgress
  BY <1>9, WriteEffect, Busy
<1>10. CASE CommitEpoch
  BY <1>10, CommitEffect, Busy
<1>11. CASE Finish
  BY <1>11, FinishEffect
<1>12. ASSUME NEW seed \in Seeds, NEW data \in DataVersions, ReplaceInputs(seed, data)
       PROVE  PhaseOK'
  BY <1>12 DEF ReplaceInputs
<1>13. CASE Export
  BY <1>13 DEF Export
<1>14. CASE UNCHANGED vars
  BY <1>14 DEF vars
<1>15. QED
  BY <1>1, <1>2, <1>3, <1>4, <1>5, <1>6, <1>7, <1>8, <1>9, <1>10, <1>11, <1>12,
     <1>13, <1>14 DEF Next

\* Every file of the attempt and the process that trains it are well formed,
\* whatever is interrupted (TypeOK).
THEOREM TrainingTypeCorrect == Spec => []TypeOK
BY WellFormedInit, ShapeStep, PhaseOKStep, WellFormedIsTyped, PTL DEF Spec

----------------------------------------------------------------------------
(* The inductive invariant.  What a file claims must be true of the file    *)
(* itself, since a crash may make either copy the one the next launch reads. *)

\* The checkpoint was saved by an epoch of the history, or is the seed's, and
\* scored the evaluation.
Matches(checkpoint, seedIncumbent, history, evaluation) ==
    /\ checkpoint # None
    /\ checkpoint.epoch < Len(history)
    /\ EvaluationOf(checkpoint, seedIncumbent, history) = evaluation

ProgressSound(r) ==
    /\ Sound(r.seedIncumbent, r.state)
    /\ Matches(r.hashes.safetyBest, r.seedIncumbent, r.history, r.state.incumbent)

\* A finished schedule leaves a progress file that no launch resumes from.
ManifestSound(f) ==
    /\ f.progress # None /\ f.progress.contract.epochs = f.progress.epoch + 1
    /\ f.manifest.checkpoint = f.safetyBest
    /\ Len(f.manifest.history) = f.manifest.epochs
    /\ EvaluationOf(f.manifest.checkpoint, f.manifest.seedIncumbent,
                    f.manifest.history) = f.manifest.score
    /\ SecretMinimum(f.manifest.score)
         >= SecretMinimum(f.manifest.seedIncumbent.evaluation)

FileSound(f) ==
    /\ f.progress # None => ProgressSound(f.progress)
    /\ f.manifest # None => ManifestSound(f)

Recorded ==
    /\ disk.progress # None
    /\ disk.progress.epoch + 1 = Len(proc.history)
    /\ disk.progress.contract.epochs = proc.epochs

ProcSound ==
    proc # Idle =>
      /\ disk.manifest = None
      /\ Running =>
           /\ Sound(proc.seedIncumbent, proc.state)
           /\ Matches(disk.safetyBest, proc.seedIncumbent, proc.history,
                      proc.state.incumbent)
      /\ proc.pc = "recorded" => Recorded
      /\ proc.pc = "training" /\ proc.history # << >> => Recorded

IInv == Shape /\ PhaseOK /\ FileSound(disk) /\ FileSound(volume) /\ ProcSound

LEMMA FileSame ==
  ASSUME NEW f, NEW g, FileSound(f), g.progress = f.progress, g.manifest = None
  PROVE  FileSound(g)
BY DEF FileSound

LEMMA EmptyFile ==
  ASSUME NEW g, g.progress = None, g.manifest = None
  PROVE  FileSound(g)
BY DEF FileSound

\* An epoch that is appended leaves the evaluations of earlier ones in place.
LEMMA MatchesAppend ==
  ASSUME NEW c \in Checkpoints, NEW i, NEW h \in Histories, NEW e \in Evaluations,
         NEW v, Matches(c, i, h, v)
  PROVE  Matches(c, i, Append(h, e), v)
<1>1. c.epoch < Len(h) /\ c.epoch \in -1..500 /\ Len(h) \in Nat
  BY HistoryFacts DEF Matches, Checkpoints
<1>2. c.epoch < Len(Append(h, e)) /\ (c.epoch # -1 => c.epoch + 1 \in 1..Len(h))
  <2>1. Len(Append(h, e)) = Len(h) + 1
    BY HistoryFacts
  <2>2. \A k \in -1..500, n \in Nat :
          k < n => k < n + 1 /\ (k # -1 => k + 1 \in 1..n)
    OBVIOUS
  <2>3. QED
    BY <1>1, <2>1, <2>2
<1>3. c.epoch # -1 => Append(h, e)[c.epoch + 1] = h[c.epoch + 1]
  BY <1>2, HistoryFacts
<1>4. QED
  BY <1>2, <1>3 DEF Matches, EvaluationOf

LEMMA MatchesNew ==
  ASSUME NEW c \in Checkpoints, NEW i, NEW h \in Histories, NEW e \in Evaluations,
         c.epoch = Len(h)
  PROVE  Matches(c, i, Append(h, e), e)
<1>1. /\ Len(h) \in Nat /\ Len(Append(h, e)) = Len(h) + 1
      /\ Append(h, e)[Len(h) + 1] = e
  BY HistoryFacts
<1>2. \A n \in Nat : n < n + 1 /\ n # -1
  OBVIOUS
<1>3. c # None
  BY NoneAssumption
<1>4. c.epoch < Len(Append(h, e)) /\ c.epoch # -1
  BY <1>1, <1>2
<1>5. QED
  BY <1>1, <1>3, <1>4 DEF Matches, EvaluationOf

LEMMA InductiveInit == Init => IInv
<1> SUFFICES ASSUME Init PROVE IInv
  OBVIOUS
<1>1. FileSound(disk) /\ FileSound(volume)
  BY DEF Init, FileSound, NoFiles
<1>2. ProcSound
  BY DEF Init, ProcSound
<1>3. QED
  BY <1>1, <1>2, WellFormedInit DEF IInv

LEMMA FilesStep == IInv /\ [Next]_vars => FileSound(disk)' /\ FileSound(volume)'
<1> SUFFICES ASSUME IInv, [Next]_vars PROVE FileSound(disk') /\ FileSound(volume')
  OBVIOUS
<1>0. /\ Shape /\ PhaseOK /\ FileSound(disk) /\ FileSound(volume)
      /\ proc # Idle => disk.manifest = None
  BY DEF IInv, ProcSound
<1>1. ASSUME NEW epochs \in Schedules, InitializeSeededAttempt(epochs)
      PROVE  FileSound(disk') /\ FileSound(volume')
  BY <1>0, <1>1, InitializeEffect, EmptyFile
<1>2. ASSUME NEW epochs \in Schedules, LaunchResume(epochs)
      PROVE  FileSound(disk') /\ FileSound(volume')
  BY <1>0, <1>2 DEF LaunchResume
<1>3. ASSUME NEW epochs \in Schedules, NEW force \in BOOLEAN, LaunchDefault(epochs, force)
      PROVE  FileSound(disk') /\ FileSound(volume')
  <2>1. volume' = volume
    BY <1>3 DEF LaunchDefault
  <2>2. disk'.progress = None /\ (disk' = disk \/ disk'.manifest = None)
    BY <1>0, <1>3, DefaultEffect
  <2>3. QED
    BY <1>0, <2>1, <2>2, EmptyFile
<1>4. CASE Stage
  <2>1. /\ disk'.progress = disk.progress /\ disk'.manifest = disk.manifest
        /\ proc \in Processes
    BY <1>0, <1>4, StageEffect
  <2>2. volume' = volume
    BY <1>4 DEF Stage
  <2>3. QED
    BY <1>0, <2>1, <2>2, FileSame, Busy
<1>5. CASE Stop
  BY <1>0, <1>5 DEF Stop
<1>6. ASSUME NEW box \in Boxes, ValidateSeed(box)
      PROVE  FileSound(disk') /\ FileSound(volume')
  <2>1. /\ disk'.progress = disk.progress /\ disk'.manifest = disk.manifest
        /\ proc \in Processes /\ volume' = disk'
    BY <1>0, <1>6, ValidateSeedEffect
  <2>2. QED
    BY <1>0, <2>1, FileSame, Busy
<1>7. ASSUME NEW box \in Boxes, NEW fitter \in BOOLEAN, TrainEpoch(box, fitter)
      PROVE  FileSound(disk') /\ FileSound(volume')
  <2>1. /\ disk'.progress = disk.progress /\ disk'.manifest = disk.manifest
        /\ proc \in Processes
    BY <1>0, <1>7, TrainEffect
  <2>2. volume' = volume
    BY <1>7 DEF TrainEpoch
  <2>3. QED
    BY <1>0, <2>1, <2>2, FileSame, Busy
<1>8. CASE SelectEpoch
  <2>1. /\ disk'.progress = disk.progress /\ disk'.manifest = disk.manifest
        /\ proc \in Processes
    BY <1>0, <1>8, SelectEffect
  <2>2. volume' = volume
    BY <1>8 DEF SelectEpoch
  <2>3. QED
    BY <1>0, <2>1, <2>2, FileSame, Busy
<1>9. CASE WriteProgress
  <2>1. /\ disk'.progress.history = proc.history
        /\ disk'.progress.seedIncumbent = proc.seedIncumbent
        /\ disk'.progress.state = proc.state
        /\ disk'.progress.hashes.safetyBest = disk.safetyBest
        /\ disk'.manifest = disk.manifest
        /\ proc \in Processes /\ proc.pc = "selected"
    BY <1>0, <1>9, WriteEffect
  <2>2. /\ Sound(proc.seedIncumbent, proc.state)
        /\ Matches(disk.safetyBest, proc.seedIncumbent, proc.history,
                   proc.state.incumbent)
    BY <2>1, Busy DEF IInv, ProcSound, Running
  <2>3. ProgressSound(disk'.progress)
    BY <2>1, <2>2 DEF ProgressSound
  <2>4. volume' = volume
    BY <1>9 DEF WriteProgress
  <2>5. QED
    BY <1>0, <2>1, <2>3, <2>4, Busy DEF FileSound
<1>10. CASE CommitEpoch
  BY <1>0, <1>10, CommitEffect
<1>11. CASE Finish
  <2>1. /\ proc \in Processes /\ proc.pc = "training"
        /\ Len(proc.history) = proc.epochs /\ volume' = disk'
        /\ disk'.progress = disk.progress /\ disk'.safetyBest = disk.safetyBest
        /\ disk'.manifest.checkpoint = disk.safetyBest
        /\ disk'.manifest.score = proc.state.incumbent
        /\ disk'.manifest.seedIncumbent = proc.seedIncumbent
        /\ disk'.manifest.history = proc.history
        /\ disk'.manifest.epochs = proc.epochs
    BY <1>0, <1>11, FinishEffect
  <2>2. proc.history # << >>
    BY <2>1, ProcessFacts, ScheduleType
  <2>3. /\ Sound(proc.seedIncumbent, proc.state)
        /\ Matches(disk.safetyBest, proc.seedIncumbent, proc.history,
                   proc.state.incumbent)
        /\ Recorded
    BY <2>1, <2>2, Busy DEF IInv, ProcSound, Running
  <2>4. ManifestSound(disk')
    BY <2>1, <2>3 DEF ManifestSound, Recorded, Matches, Sound
  <2>5. QED
    BY <1>0, <2>1, <2>4 DEF FileSound
<1>12. ASSUME NEW seed \in Seeds, NEW data \in DataVersions, ReplaceInputs(seed, data)
       PROVE  FileSound(disk') /\ FileSound(volume')
  BY <1>0, <1>12 DEF ReplaceInputs
<1>13. CASE Export
  BY <1>0, <1>13 DEF Export
<1>14. CASE UNCHANGED vars
  BY <1>0, <1>14 DEF vars
<1>15. QED
  BY <1>1, <1>2, <1>3, <1>4, <1>5, <1>6, <1>7, <1>8, <1>9, <1>10, <1>11, <1>12,
     <1>13, <1>14 DEF Next

LEMMA ProcStep == IInv /\ [Next]_vars => ProcSound'
<1> SUFFICES ASSUME IInv, [Next]_vars PROVE ProcSound'
  OBVIOUS
<1>0. /\ Shape /\ PhaseOK /\ FileSound(disk)
      /\ proc # Idle => disk.manifest = None
  BY DEF IInv, ProcSound
<1> USE DEF ProcSound, Running, Recorded
<1>1. ASSUME NEW epochs \in Schedules, InitializeSeededAttempt(epochs) PROVE ProcSound'
  BY <1>0, <1>1, InitializeEffect
<1>2. ASSUME NEW epochs \in Schedules, LaunchResume(epochs) PROVE ProcSound'
  <2>1. disk' = disk
    BY <1>2 DEF LaunchResume
  <2>2. /\ disk.progress \in Progresses
        /\ disk.progress.hashes = Hashes(disk)
        /\ disk.progress.contract.epochs = epochs
        /\ disk.progress.epoch + 1 < epochs
        /\ proc'.pc = "training" /\ proc'.epochs = epochs
        /\ proc'.history = disk.progress.history
        /\ proc'.state = disk.progress.state
        /\ proc'.seedIncumbent = disk.progress.seedIncumbent
    BY <1>0, <1>2, ResumeEffect
  <2>3. disk.progress # None
    BY <2>2, NoneAssumption
  <2>4. disk.manifest = None
    <3>1. disk.progress.epoch \in 0..500 /\ epochs \in Nat
      BY <2>2, ProgressFacts, ScheduleType
    <3>2. disk.progress.contract.epochs # disk.progress.epoch + 1
      BY <2>2, <3>1
    <3>3. QED
      BY <1>0, <3>2 DEF FileSound, ManifestSound
  <2>5. /\ Sound(disk.progress.seedIncumbent, disk.progress.state)
        /\ Matches(disk.safetyBest, disk.progress.seedIncumbent,
                   disk.progress.history, disk.progress.state.incumbent)
    BY <1>0, <2>2, <2>3 DEF FileSound, ProgressSound, Hashes
  <2>6. Len(disk.progress.history) = disk.progress.epoch + 1
    BY <1>0, <2>3 DEF Shape, HistoriesComplete
  <2>7. QED
    BY <2>1, <2>2, <2>3, <2>4, <2>5, <2>6
<1>3. ASSUME NEW epochs \in Schedules, NEW force \in BOOLEAN, LaunchDefault(epochs, force)
      PROVE  ProcSound'
  <2>1. /\ disk'.progress = None /\ (disk' = disk \/ disk'.manifest = None)
        /\ proc'.pc = "staging"
    BY <1>0, <1>3, DefaultEffect
  <2>2. disk'.manifest = None
    BY <1>0, <2>1 DEF FileSound, ManifestSound
  <2>3. QED
    BY <2>1, <2>2
<1>4. CASE Stage
  <2>1. /\ disk'.manifest = disk.manifest /\ proc \in Processes
        /\ proc'.pc = "seeding"
    BY <1>0, <1>4, StageEffect
  <2>2. QED
    BY <1>0, <2>1, Busy
<1>5. CASE Stop
  BY <1>5 DEF Stop
<1>6. ASSUME NEW box \in Boxes, ValidateSeed(box) PROVE ProcSound'
  <2>1. /\ proc \in Processes /\ disk'.safetyBest # None
        /\ disk'.safetyBest.epoch = -1 /\ disk'.manifest = disk.manifest
        /\ proc'.pc = "training" /\ proc'.history = proc.history
        /\ proc'.seedIncumbent \in Incumbents
        /\ proc'.state = InitialState(proc'.seedIncumbent.evaluation)
    BY <1>0, <1>6, ValidateSeedEffect
  <2>2. proc'.history = << >>
    BY <1>0, <1>6, <2>1, Busy DEF ValidateSeed, PhaseOK
  <2>3. Sound(proc'.seedIncumbent, proc'.state)
    BY <2>1, InitialStateSound
  <2>4. Matches(disk'.safetyBest, proc'.seedIncumbent, proc'.history,
                proc'.state.incumbent)
    BY <2>1, <2>2 DEF Matches, EvaluationOf, InitialState
  <2>5. QED
    BY <1>0, <2>1, <2>2, <2>3, <2>4, Busy
<1>7. ASSUME NEW box \in Boxes, NEW fitter \in BOOLEAN, TrainEpoch(box, fitter)
      PROVE  ProcSound'
  <2>1. /\ proc \in Processes /\ proc.pc = "training"
        /\ disk'.safetyBest = disk.safetyBest /\ disk'.manifest = disk.manifest
        /\ proc'.pc = "saved" /\ proc'.history = proc.history
        /\ proc'.state = proc.state /\ proc'.seedIncumbent = proc.seedIncumbent
    BY <1>0, <1>7, TrainEffect
  <2>2. QED
    BY <1>0, <2>1, Busy DEF IInv
<1>8. CASE SelectEpoch
  <2> DEFINE e == Aligned(proc.box)
  <2>1. /\ proc \in Processes /\ proc.pc = "saved" /\ e \in Evaluations
        /\ proc.history \in Histories
        /\ disk.last # None /\ disk.last.epoch = Len(proc.history)
        /\ proc.state \in SelectionStates /\ proc.seedIncumbent \in Incumbents
        /\ disk'.safetyBest = IF Selected(proc.state, e) THEN disk.last
                              ELSE disk.safetyBest
        /\ disk'.manifest = disk.manifest
        /\ proc'.pc = "selected" /\ proc'.history = Append(proc.history, e)
        /\ proc'.state = NextState(proc.state, e)
        /\ proc'.seedIncumbent = proc.seedIncumbent
    BY <1>0, <1>8, SelectEffect
  <2> HIDE DEF e
  <2>2. /\ Sound(proc.seedIncumbent, proc.state)
        /\ Matches(disk.safetyBest, proc.seedIncumbent, proc.history,
                   proc.state.incumbent)
    BY <2>1, Busy DEF IInv
  <2>3. disk.safetyBest \in Checkpoints /\ disk.last \in Checkpoints
    BY <1>0, <2>1, <2>2, ShapeFacts, FileFacts DEF Matches
  <2>4. Sound(proc'.seedIncumbent, proc'.state)
    BY <2>1, <2>2, NextStateSound
  <2>5. Matches(disk'.safetyBest, proc'.seedIncumbent, proc'.history,
                proc'.state.incumbent)
    <3>1. CASE Selected(proc.state, e)
      BY <2>1, <2>3, <3>1, MatchesNew DEF NextState
    <3>2. CASE ~Selected(proc.state, e)
      BY <2>1, <2>2, <2>3, <3>2, MatchesAppend DEF NextState
    <3>3. QED
      BY <3>1, <3>2
  <2>6. QED
    BY <1>0, <2>1, <2>4, <2>5, Busy
<1>9. CASE WriteProgress
  <2>1. /\ proc \in Processes /\ proc.pc = "selected"
        /\ disk'.progress # None
        /\ disk'.progress.epoch = Len(proc.history) - 1
        /\ disk'.progress.contract.epochs = proc.epochs
        /\ disk'.safetyBest = disk.safetyBest /\ disk'.manifest = disk.manifest
        /\ proc'.pc = "recorded" /\ proc'.history = proc.history
        /\ proc'.epochs = proc.epochs /\ proc'.state = proc.state
        /\ proc'.seedIncumbent = proc.seedIncumbent
    BY <1>0, <1>9, WriteEffect
  <2>2. Len(proc.history) \in Nat
    BY <2>1, ProcessFacts, HistoryFacts
  <2>3. disk'.progress.epoch + 1 = Len(proc.history)
    BY <2>1, <2>2
  <2>4. QED
    BY <1>0, <2>1, <2>3, Busy DEF IInv
<1>10. CASE CommitEpoch
  <2>1. /\ proc \in Processes /\ proc.pc = "recorded" /\ disk' = disk
        /\ proc'.pc = "training" /\ proc'.history = proc.history
        /\ proc'.epochs = proc.epochs /\ proc'.state = proc.state
        /\ proc'.seedIncumbent = proc.seedIncumbent
    BY <1>0, <1>10, CommitEffect
  <2>2. QED
    BY <1>0, <2>1, Busy DEF IInv
<1>11. CASE Finish
  BY <1>0, <1>11, FinishEffect
<1>12. ASSUME NEW seed \in Seeds, NEW data \in DataVersions, ReplaceInputs(seed, data)
       PROVE  ProcSound'
  BY <1>12 DEF ReplaceInputs, IInv
<1>13. CASE Export
  BY <1>13 DEF Export, IInv
<1>14. CASE UNCHANGED vars
  BY <1>14 DEF vars, IInv
<1>15. QED
  BY <1>1, <1>2, <1>3, <1>4, <1>5, <1>6, <1>7, <1>8, <1>9, <1>10, <1>11, <1>12,
     <1>13, <1>14 DEF Next

LEMMA Inductive == Spec => []IInv
<1>1. IInv /\ [Next]_vars => IInv'
  BY ShapeStep, PhaseOKStep, FilesStep, ProcStep DEF IInv
<1>2. QED
  BY <1>1, InductiveInit, PTL DEF Spec

\* No interruption, resume or leftover lets the selected checkpoint lose what
\* the frozen seed recalled of the secret classes (NeverRegress).
THEOREM SelectionNeverRegresses == Spec => []NeverRegress
<1>1. IInv => NeverRegress
  <2> SUFFICES ASSUME IInv PROVE NeverRegress
    OBVIOUS
  <2>1. Running => Sound(proc.seedIncumbent, proc.state)
    BY IdlePhase DEF IInv, ProcSound, Running
  <2>2. QED
    BY <2>1 DEF IInv, FileSound, ProgressSound, ManifestSound, NeverRegress
<1>2. QED
  BY <1>1, Inductive, PTL

\* The safety-best.pt on disk is the checkpoint the next epoch is compared
\* with (SafetyBestIsIncumbent).
THEOREM SafetyBestAgrees == Spec => []SafetyBestIsIncumbent
<1>1. IInv => SafetyBestIsIncumbent
  BY IdlePhase DEF IInv, ProcSound, Running, Matches, SafetyBestIsIncumbent
<1>2. QED
  BY <1>1, Inductive, PTL

\* A manifest names the safety-best.pt beside it and a schedule that ran to
\* its end (ManifestTrue).
THEOREM ManifestsAreTrue == Spec => []ManifestTrue
<1>1. IInv => ManifestTrue
  BY DEF IInv, FileSound, ManifestSound, ManifestTrue
<1>2. QED
  BY <1>1, Inductive, PTL

----------------------------------------------------------------------------
(* Where checkpoints come from.                                            *)

From(c, seed, data) == c.seeds = {seed} /\ c.data \subseteq {data}

OneOrigin(c) == \E seed \in Seeds, data \in DataVersions : From(c, seed, data)

\* A leftover safety-best.pt has one origin too, and the checkpoints that a
\* progress file vouches for are those of its contract.
FileOrigins(f) ==
    /\ f.safetyBest # None => OneOrigin(f.safetyBest)
    /\ f.progress # None =>
         LET k == f.progress.contract
         IN  /\ From(f.progress.hashes.last, k.seed, k.data)
             /\ From(f.progress.hashes.safetyBest, k.seed, k.data)

ProcOrigins ==
    /\ proc.pc \in {"staging", "seeding"} => proc.weights = SeedCheckpoint(proc.seed)
    /\ Running => /\ From(proc.weights, proc.seed, proc.data)
                  /\ From(disk.safetyBest, proc.seed, proc.data)
    /\ proc.pc \in {"saved", "selected", "recorded"} =>
         From(disk.last, proc.seed, proc.data)

Origins ==
    /\ FileOrigins(disk) /\ FileOrigins(volume)
    /\ ProcOrigins
    /\ artifact # None => OneOrigin(artifact.source)

LEMMA SeedOrigin == \A seed, data : From(SeedCheckpoint(seed), seed, data)
BY DEF From, SeedCheckpoint

LEMMA OriginIsOne ==
  ASSUME NEW c, NEW seed \in Seeds, NEW data \in DataVersions, From(c, seed, data)
  PROVE  OneOrigin(c)
BY DEF OneOrigin

LEMMA FileOriginsSame ==
  ASSUME NEW f, NEW g, FileOrigins(f),
         g.safetyBest = f.safetyBest \/ g.safetyBest = None \/ OneOrigin(g.safetyBest),
         g.progress = f.progress \/ g.progress = None
  PROVE  FileOrigins(g)
BY DEF FileOrigins

\* A trainer's seed and data are an operator's.
LEMMA RunningInputs ==
  ASSUME Shape, PhaseOK, proc.pc \in Phases, proc.pc # "staging"
  PROVE  /\ proc \in Processes /\ proc.seed \in Seeds /\ proc.data \in DataVersions
<1>1. proc # Idle /\ proc \in Processes
  BY ShapeFacts DEF Phases
<1>2. proc.data # None
  BY <1>1 DEF PhaseOK
<1>3. QED
  BY <1>1, <1>2, ProcessFacts

LEMMA OriginsInit == Init => Origins
BY DEF Init, Origins, FileOrigins, ProcOrigins, NoFiles, Idle, Running

LEMMA OriginsInitialize ==
  ASSUME Shape, Origins, NEW epochs \in Schedules, InitializeSeededAttempt(epochs)
  PROVE  Origins'
<1>1. /\ disk' = [NoFiles EXCEPT !.frozenSeed = inputs.seed] /\ volume' = disk'
      /\ artifact' = artifact
      /\ proc' = Process("staging", inputs.seed, None, epochs)
  BY DEF InitializeSeededAttempt
<1>2. disk'.safetyBest = None /\ disk'.progress = None
  BY <1>1 DEF NoFiles
<1>3. /\ proc'.pc = "staging" /\ proc'.seed = inputs.seed
      /\ proc'.weights = SeedCheckpoint(inputs.seed)
  BY <1>1 DEF Process
<1>4. FileOrigins(disk')
  BY <1>2 DEF FileOrigins
<1>5. QED
  BY <1>1, <1>3, <1>4 DEF Origins, ProcOrigins, Running

LEMMA OriginsDefault ==
  ASSUME Shape, Origins, NEW epochs \in Schedules, NEW force \in BOOLEAN,
         LaunchDefault(epochs, force)
  PROVE  Origins'
<1>1. /\ disk' = disk \/ disk' = NoFiles
      /\ volume' = volume /\ artifact' = artifact
      /\ proc' = [Process("staging", inputs.seed, None, epochs) EXCEPT !.forced = force]
  BY DEF LaunchDefault
<1>2. /\ proc'.pc = "staging" /\ proc'.seed = inputs.seed
      /\ proc'.weights = SeedCheckpoint(inputs.seed)
  BY <1>1 DEF Process
<1>3. FileOrigins(disk')
  BY <1>1 DEF Origins, FileOrigins, NoFiles
<1>4. QED
  BY <1>1, <1>2, <1>3 DEF Origins, ProcOrigins, Running

\* The hashes of the progress file vouch for the files a resume reads.
LEMMA OriginsResume ==
  ASSUME Shape, Origins, NEW epochs \in Schedules, LaunchResume(epochs)
  PROVE  Origins'
<1>1. /\ disk' = disk /\ volume' = volume /\ artifact' = artifact
      /\ disk.progress # None /\ disk.progress.hashes = Hashes(disk)
      /\ disk.progress.contract = Contract(EffectiveSeed, inputs.data, epochs)
      /\ proc' = [Process("training", EffectiveSeed, inputs.data, epochs) EXCEPT
                    !.weights = disk.last,
                    !.seedIncumbent = disk.progress.seedIncumbent,
                    !.state = Restored(disk.progress),
                    !.history = disk.progress.history]
  BY DEF LaunchResume, CanResume, SameContract
<1>2. /\ disk.progress.hashes.last = disk.last
      /\ disk.progress.hashes.safetyBest = disk.safetyBest
      /\ disk.progress.contract.seed = EffectiveSeed
      /\ disk.progress.contract.data = inputs.data
  BY <1>1 DEF Hashes, Contract
<1>3. /\ From(disk.last, EffectiveSeed, inputs.data)
      /\ From(disk.safetyBest, EffectiveSeed, inputs.data)
  BY <1>1, <1>2 DEF Origins, FileOrigins
<1>4. /\ proc'.pc = "training" /\ proc'.seed = EffectiveSeed
      /\ proc'.data = inputs.data /\ proc'.weights = disk.last
  BY <1>1 DEF Process
<1>5. ProcOrigins'
  BY <1>1, <1>3, <1>4 DEF ProcOrigins
<1>6. QED
  BY <1>1, <1>5 DEF Origins

LEMMA OriginsStage ==
  ASSUME Shape, Origins, Stage
  PROVE  Origins'
<1>1. /\ disk' = [disk EXCEPT !.staged = inputs.data] /\ volume' = volume
      /\ proc' = [proc EXCEPT !.pc = "seeding", !.data = inputs.data]
      /\ artifact' = artifact /\ proc.pc = "staging" /\ proc \in Processes
  BY ShapeFacts DEF Stage
<1>2. disk'.safetyBest = disk.safetyBest /\ disk'.progress = disk.progress
  BY <1>1, ShapeFacts DEF Files
<1>3. FileOrigins(disk')
  BY <1>2, FileOriginsSame DEF Origins
<1>4. /\ proc'.pc = "seeding" /\ proc'.seed = proc.seed
      /\ proc'.weights = proc.weights
  BY <1>1 DEF Processes
<1>5. QED
  BY <1>1, <1>3, <1>4 DEF Origins, ProcOrigins, Running

LEMMA OriginsValidateSeed ==
  ASSUME Shape, PhaseOK, Origins, NEW box \in Boxes, ValidateSeed(box)
  PROVE  Origins'
<1> DEFINE incumbent == [seed |-> proc.seed, evaluation |-> Aligned(box)]
<1>1. /\ disk' = [disk EXCEPT !.safetyBest = SeedCheckpoint(proc.seed),
                              !.seedIncumbent = incumbent]
      /\ proc' = [proc EXCEPT !.pc = "training", !.seedIncumbent = incumbent,
                              !.state = InitialState(Aligned(box))]
      /\ volume' = disk' /\ artifact' = artifact /\ proc.pc = "seeding"
  BY DEF ValidateSeed
<1> HIDE DEF incumbent
<1>2. /\ proc \in Processes /\ proc.seed \in Seeds /\ proc.data \in DataVersions
  BY <1>1, RunningInputs DEF Phases
<1>3. /\ disk'.safetyBest = SeedCheckpoint(proc.seed)
      /\ disk'.progress = disk.progress
  BY <1>1, ShapeFacts DEF Files
<1>4. OneOrigin(disk'.safetyBest)
  BY <1>2, <1>3, SeedOrigin, OriginIsOne
<1>5. FileOrigins(disk')
  BY <1>3, <1>4, FileOriginsSame DEF Origins
<1>6. /\ proc'.pc = "training" /\ proc'.seed = proc.seed /\ proc'.data = proc.data
      /\ proc'.weights = SeedCheckpoint(proc.seed)
  BY <1>1, <1>2 DEF Processes, Origins, ProcOrigins
<1>7. ProcOrigins'
  BY <1>3, <1>6, SeedOrigin DEF ProcOrigins
<1>8. QED
  BY <1>1, <1>5, <1>7 DEF Origins

LEMMA OriginsTrain ==
  ASSUME Shape, PhaseOK, Origins, NEW box \in Boxes, NEW fitter \in BOOLEAN,
         TrainEpoch(box, fitter)
  PROVE  Origins'
<1> DEFINE saved == [seeds |-> proc.weights.seeds \union {proc.seed},
                     data  |-> proc.weights.data \union {proc.data},
                     launch |-> proc.launch, epoch |-> Len(proc.history)]
<1>1. /\ proc.pc = "training" /\ volume' = volume /\ artifact' = artifact
      /\ disk' = [disk EXCEPT !.last = saved,
                   !.best = IF fitter \/ proc.history = << >> THEN saved ELSE @]
      /\ proc' = [proc EXCEPT !.pc = "saved", !.weights = saved, !.box = box]
  BY DEF TrainEpoch
<1>2. /\ proc \in Processes /\ proc.seed \in Seeds /\ proc.data \in DataVersions
  BY <1>1, RunningInputs DEF Phases
<1>3. /\ From(proc.weights, proc.seed, proc.data)
      /\ From(disk.safetyBest, proc.seed, proc.data)
  BY <1>1 DEF Origins, ProcOrigins, Running
<1>4. From(saved, proc.seed, proc.data)
  BY <1>3 DEF From
<1> HIDE DEF saved
<1>5. /\ disk'.safetyBest = disk.safetyBest /\ disk'.progress = disk.progress
      /\ disk'.last = saved
  BY <1>1, ShapeFacts DEF Files
<1>6. FileOrigins(disk')
  BY <1>5, FileOriginsSame DEF Origins
<1>7. /\ proc'.pc = "saved" /\ proc'.seed = proc.seed /\ proc'.data = proc.data
      /\ proc'.weights = saved
  BY <1>1, <1>2 DEF Processes
<1>8. ProcOrigins'
  BY <1>3, <1>4, <1>5, <1>7 DEF ProcOrigins
<1>9. QED
  BY <1>1, <1>6, <1>8 DEF Origins

LEMMA OriginsSelect ==
  ASSUME Shape, PhaseOK, Origins, SelectEpoch
  PROVE  Origins'
<1>1. /\ proc.pc = "saved" /\ volume' = volume /\ artifact' = artifact
      /\ disk' = [disk EXCEPT !.safetyBest = disk.last] \/ disk' = disk
      /\ proc' = [proc EXCEPT !.pc = "selected",
                              !.state = NextState(proc.state, Aligned(proc.box)),
                              !.history = Append(proc.history, Aligned(proc.box))]
  BY DEF SelectEpoch, Chosen
<1>2. /\ proc \in Processes /\ proc.seed \in Seeds /\ proc.data \in DataVersions
  BY <1>1, RunningInputs DEF Phases
<1>3. /\ From(proc.weights, proc.seed, proc.data)
      /\ From(disk.safetyBest, proc.seed, proc.data)
      /\ From(disk.last, proc.seed, proc.data)
  BY <1>1 DEF Origins, ProcOrigins, Running
<1>4. /\ disk'.safetyBest \in {disk.last, disk.safetyBest}
      /\ disk'.progress = disk.progress /\ disk'.last = disk.last
  BY <1>1, ShapeFacts DEF Files
<1>5. FileOrigins(disk')
  BY <1>2, <1>3, <1>4, OriginIsOne, FileOriginsSame DEF Origins
<1>6. /\ proc'.pc = "selected" /\ proc'.seed = proc.seed /\ proc'.data = proc.data
      /\ proc'.weights = proc.weights
  BY <1>1, <1>2 DEF Processes
<1>7. ProcOrigins'
  BY <1>3, <1>4, <1>6 DEF ProcOrigins
<1>8. QED
  BY <1>1, <1>5, <1>7 DEF Origins

LEMMA OriginsWrite ==
  ASSUME Shape, PhaseOK, Origins, WriteProgress
  PROVE  Origins'
<1> DEFINE record ==
      [epoch |-> Len(proc.history) - 1, history |-> proc.history,
       seedIncumbent |-> proc.seedIncumbent, state |-> proc.state,
       contract |-> Contract(proc.seed, proc.data, proc.epochs),
       hashes |-> Hashes(disk)]
<1>1. /\ proc.pc = "selected" /\ volume' = volume /\ artifact' = artifact
      /\ disk' = [disk EXCEPT !.progress = record]
      /\ proc' = [proc EXCEPT !.pc = "recorded"]
  BY DEF WriteProgress
<1>2. /\ proc \in Processes /\ proc.seed \in Seeds /\ proc.data \in DataVersions
  BY <1>1, RunningInputs DEF Phases
<1>3. /\ From(proc.weights, proc.seed, proc.data)
      /\ From(disk.safetyBest, proc.seed, proc.data)
      /\ From(disk.last, proc.seed, proc.data)
  BY <1>1 DEF Origins, ProcOrigins, Running
<1>4. /\ record.contract.seed = proc.seed /\ record.contract.data = proc.data
      /\ record.hashes.last = disk.last
      /\ record.hashes.safetyBest = disk.safetyBest
  BY DEF Contract, Hashes
<1> HIDE DEF record
<1>5. /\ disk'.safetyBest = disk.safetyBest /\ disk'.last = disk.last
      /\ disk'.progress = record
  BY <1>1, ShapeFacts DEF Files
<1>6. FileOrigins(disk')
  BY <1>3, <1>4, <1>5 DEF Origins, FileOrigins
<1>7. /\ proc'.pc = "recorded" /\ proc'.seed = proc.seed /\ proc'.data = proc.data
      /\ proc'.weights = proc.weights
  BY <1>1, <1>2 DEF Processes
<1>8. ProcOrigins'
  BY <1>3, <1>5, <1>7 DEF ProcOrigins
<1>9. QED
  BY <1>1, <1>6, <1>8 DEF Origins

LEMMA OriginsCommit ==
  ASSUME Shape, PhaseOK, Origins, CommitEpoch
  PROVE  Origins'
<1>1. /\ proc.pc = "recorded" /\ volume' = disk /\ disk' = disk
      /\ artifact' = artifact /\ proc' = [proc EXCEPT !.pc = "training"]
  BY DEF CommitEpoch
<1>2. proc \in Processes
  BY <1>1, RunningInputs DEF Phases
<1>3. /\ proc'.pc = "training" /\ proc'.seed = proc.seed /\ proc'.data = proc.data
      /\ proc'.weights = proc.weights
  BY <1>1, <1>2 DEF Processes
<1>4. ProcOrigins'
  BY <1>1, <1>3 DEF Origins, ProcOrigins, Running
<1>5. QED
  BY <1>1, <1>4 DEF Origins

LEMMA OriginsStep == Shape /\ PhaseOK /\ Origins /\ [Next]_vars => Origins'
<1> SUFFICES ASSUME Shape, PhaseOK, Origins, [Next]_vars PROVE Origins'
  OBVIOUS
<1>1. CASE Stop
  <2>1. /\ proc' = Idle /\ artifact' = artifact
        /\ disk' = disk \/ disk' = volume
        /\ volume' = disk'
    BY <1>1 DEF Stop
  <2>2. FileOrigins(disk') /\ FileOrigins(volume')
    BY <2>1 DEF Origins
  <2>3. ProcOrigins'
    BY <2>1 DEF ProcOrigins, Running, Idle
  <2>4. QED
    BY <2>1, <2>2, <2>3 DEF Origins
<1>2. CASE Finish
  <2>1. /\ proc' = Idle /\ artifact' = artifact /\ volume' = disk'
        /\ \E m : disk' = [disk EXCEPT !.manifest = m]
    BY <1>2 DEF Finish
  <2>2. disk'.safetyBest = disk.safetyBest /\ disk'.progress = disk.progress
    BY <2>1, ShapeFacts DEF Files
  <2>3. FileOrigins(disk')
    BY <2>2, FileOriginsSame DEF Origins
  <2>4. QED
    BY <2>1, <2>3 DEF Origins, ProcOrigins, Running, Idle
<1>3. ASSUME NEW seed \in Seeds, NEW data \in DataVersions, ReplaceInputs(seed, data)
      PROVE  Origins'
  BY <1>3 DEF ReplaceInputs, Origins, ProcOrigins, Running
<1>4. CASE Export
  <2>1. /\ disk' = disk /\ volume' = volume /\ proc' = proc
        /\ volume.safetyBest # None /\ artifact'.source = volume.safetyBest
    BY <1>4 DEF Export
  <2>2. OneOrigin(artifact'.source)
    BY <2>1 DEF Origins, FileOrigins
  <2>3. QED
    BY <2>1, <2>2 DEF Origins, ProcOrigins, Running
<1>5. CASE UNCHANGED vars
  BY <1>5 DEF vars, Origins, ProcOrigins, Running
<1>6. QED
  BY <1>1, <1>2, <1>3, <1>4, <1>5, OriginsInitialize, OriginsDefault, OriginsResume,
     OriginsStage, OriginsValidateSeed, OriginsTrain, OriginsSelect, OriginsWrite,
     OriginsCommit DEF Next

\* Whatever was uploaded or prepared between the launches of an attempt, what
\* a trainer goes on from and what is exported comes from one frozen seed and
\* one version of the data (OneContract).
THEOREM CheckpointsHaveOneOrigin == Spec => []OneContract
<1>1. Origins => OneContract
  <2> SUFFICES ASSUME Origins PROVE OneContract
    OBVIOUS
  <2>1. CASE artifact # None
    <3>1. PICK seed \in Seeds, data \in DataVersions :
            From(artifact.source, seed, data)
      BY <2>1 DEF Origins, OneOrigin
    <3>2. Cardinality({seed}) = 1 /\ IsFiniteSet({data}) /\ Cardinality({data}) = 1
      BY FS_Singleton
    <3>3. /\ artifact.source.seeds = {seed}
          /\ Cardinality(artifact.source.data) <= Cardinality({data})
      BY <3>1, <3>2, FS_Subset DEF From
    <3>4. QED
      BY <3>2, <3>3 DEF Origins, ProcOrigins, OneContract, From
  <2>2. CASE artifact = None
    BY <2>2 DEF Origins, ProcOrigins, OneContract, From
  <2>3. QED
    BY <2>1, <2>2
<1>2. Shape /\ PhaseOK /\ Origins /\ [Next]_vars => (Shape /\ PhaseOK /\ Origins)'
  BY ShapeStep, PhaseOKStep, OriginsStep
<1>3. Init => Shape /\ PhaseOK /\ Origins
  BY WellFormedInit, OriginsInit
<1>4. QED
  BY <1>1, <1>2, <1>3, PTL DEF Spec

----------------------------------------------------------------------------
(* The attempt implements the log of one uninterrupted selection.  The     *)
(* abstract module has its own copy of the selection rule; the two are the *)
(* same.                                                                   *)

LEMMA SameClasses ==
  /\ Log!Classes = Classes /\ Log!SecretClasses = SecretClasses
  /\ Log!OtherClasses = OtherClasses
BY DEF Log!Classes, Classes, Log!SecretClasses, SecretClasses,
       Log!OtherClasses, OtherClasses

LEMMA SameAligned == \A box : Log!Aligned(box) = Aligned(box)
BY SameClasses DEF Log!Aligned, Aligned

LEMMA SameSummary ==
  \A e : /\ Log!OtherTotal(e) = OtherTotal(e)
         /\ Log!PrecisionTotal(e) = PrecisionTotal(e)
         /\ Log!SecretMinimum(e) = SecretMinimum(e)
BY DEF Log!OtherTotal, OtherTotal, Log!PrecisionTotal, PrecisionTotal,
       Log!SecretMinimum, SecretMinimum

LEMMA SamePolicy ==
  /\ Log!MeaningfulSecretGain = MeaningfulSecretGain
  /\ Log!IndividualSecretDrop = IndividualSecretDrop
  /\ Log!OtherDropFromIncumbent = OtherDropFromIncumbent
  /\ Log!OtherDropFromHighWater = OtherDropFromHighWater
  /\ Log!IndividualOtherDrop = IndividualOtherDrop
  /\ Log!PrecisionDrop = PrecisionDrop
  /\ Log!TieBandOtherGain = TieBandOtherGain
BY DEF Log!MeaningfulSecretGain, MeaningfulSecretGain, Log!IndividualSecretDrop,
       IndividualSecretDrop, Log!OtherDropFromIncumbent, OtherDropFromIncumbent,
       Log!OtherDropFromHighWater, OtherDropFromHighWater, Log!IndividualOtherDrop,
       IndividualOtherDrop, Log!PrecisionDrop, PrecisionDrop, Log!TieBandOtherGain,
       TieBandOtherGain

LEMMA SameSelected == \A state, e : Log!Selected(state, e) <=> Selected(state, e)
<1>1. ASSUME NEW state, NEW e PROVE Log!HardGates(state, e) <=> HardGates(state, e)
  BY SameClasses, SameSummary, SamePolicy DEF Log!HardGates, HardGates
<1>2. ASSUME NEW i, NEW e PROVE Log!SecretImproves(i, e) <=> SecretImproves(i, e)
  BY SameSummary, SamePolicy DEF Log!SecretImproves, SecretImproves
<1>3. ASSUME NEW i, NEW e PROVE Log!TieBandImproves(i, e) <=> TieBandImproves(i, e)
  BY SameSummary, SamePolicy DEF Log!TieBandImproves, TieBandImproves
<1>4. ASSUME NEW i, NEW e PROVE Log!PrecisionBreaksTie(i, e) <=> PrecisionBreaksTie(i, e)
  BY SameClasses, SameSummary DEF Log!PrecisionBreaksTie, PrecisionBreaksTie
<1>5. QED
  BY <1>1, <1>2, <1>3, <1>4 DEF Log!Selected, Selected, Log!ValidCandidate, ValidCandidate

LEMMA SameRule ==
  \A state, e : /\ Log!NextState(state, e) = NextState(state, e)
                /\ Log!InitialState(e) = InitialState(e)
BY SameSummary, SameSelected DEF Log!NextState, NextState, Log!InitialState, InitialState

\* A selection under way is where a progress file left it, or has judged one
\* epoch more.
Level(p, seedIncumbent, history, state) ==
    IF p = None
    THEN /\ history = << >>
         /\ \E box \in Boxes : /\ seedIncumbent.evaluation = Aligned(box)
                               /\ state = InitialState(Aligned(box))
    ELSE /\ seedIncumbent = p.seedIncumbent
         /\ history = p.history /\ state = p.state

Continues(p, seedIncumbent, history, state) ==
    \E box \in Boxes :
      IF p = None
      THEN /\ history = <<Aligned(box)>>
           /\ \E first \in Boxes :
                /\ seedIncumbent.evaluation = Aligned(first)
                /\ state = NextState(InitialState(Aligned(first)), Aligned(box))
      ELSE /\ seedIncumbent = p.seedIncumbent
           /\ history = Append(p.history, Aligned(box))
           /\ state = NextState(p.state, Aligned(box))

\* A trainer is never more than one epoch ahead of the last commit.
Durable ==
    /\ proc = Idle => disk.progress = volume.progress
    /\ proc.pc \in {"staging", "seeding"} => disk.progress = None
    /\ proc.pc \in {"training", "saved"} =>
         /\ disk.progress = volume.progress
         /\ Level(volume.progress, proc.seedIncumbent, proc.history, proc.state)
    /\ proc.pc = "selected" =>
         /\ disk.progress = volume.progress
         /\ Continues(volume.progress, proc.seedIncumbent, proc.history, proc.state)
    /\ proc.pc = "recorded" =>
         /\ disk.progress # None
         /\ Continues(volume.progress, proc.seedIncumbent, proc.history, proc.state)
         /\ Level(disk.progress, proc.seedIncumbent, proc.history, proc.state)

\* What one step may do to the progress file of the last commit.
Advances ==
    \/ volume'.progress = volume.progress
    \/ volume'.progress = None
    \/ /\ volume'.progress # None
       /\ Continues(volume.progress, volume'.progress.seedIncumbent,
                    volume'.progress.history, volume'.progress.state)

LEMMA LevelContinues ==
  ASSUME NEW p, NEW s, NEW h, NEW st, NEW box \in Boxes, Level(p, s, h, st)
  PROVE  Continues(p, s, Append(h, Aligned(box)), NextState(st, Aligned(box)))
<1>1. CASE p = None
  <2>1. Append(h, Aligned(box)) = <<Aligned(box)>>
    BY <1>1 DEF Level
  <2>2. QED
    BY <1>1, <2>1 DEF Level, Continues
<1>2. CASE p # None
  BY <1>2 DEF Level, Continues
<1>3. QED
  BY <1>1, <1>2

LEMMA DurableInit == Init => Durable
BY DEF Init, Durable, NoFiles, Idle

LEMMA DurableLaunch ==
  ASSUME Shape, Durable, NEW epochs \in Schedules,
         \/ InitializeSeededAttempt(epochs)
         \/ \E force \in BOOLEAN : LaunchDefault(epochs, force)
         \/ LaunchResume(epochs)
  PROVE  Durable' /\ Advances
<1>1. CASE InitializeSeededAttempt(epochs)
  BY <1>1, InitializeEffect, Busy DEF Durable, Advances
<1>2. ASSUME NEW force \in BOOLEAN, LaunchDefault(epochs, force)
      PROVE  Durable' /\ Advances
  <2>1. volume' = volume
    BY <1>2 DEF LaunchDefault
  <2>2. QED
    BY <1>2, <2>1, DefaultEffect, Busy DEF Durable, Advances
<1>3. CASE LaunchResume(epochs)
  <2>1. volume' = volume /\ disk' = disk /\ proc = Idle
    BY <1>3 DEF LaunchResume
  <2>2. disk.progress = volume.progress /\ disk.progress # None
    BY <1>3, <2>1, ResumeEffect, NoneAssumption DEF Durable
  <2>3. /\ proc'.pc = "training" /\ proc' # Idle
        /\ Level(volume.progress, proc'.seedIncumbent, proc'.history, proc'.state)
    BY <1>3, <2>2, ResumeEffect, Busy DEF Level
  <2>4. QED
    BY <2>1, <2>2, <2>3 DEF Durable, Advances
<1>4. QED
  BY <1>1, <1>2, <1>3

LEMMA DurableTraining ==
  ASSUME Shape, PhaseOK, Durable,
         \/ \E box \in Boxes : ValidateSeed(box)
         \/ \E box \in Boxes, fitter \in BOOLEAN : TrainEpoch(box, fitter)
         \/ SelectEpoch
  PROVE  Durable' /\ Advances
<1>1. ASSUME NEW box \in Boxes, ValidateSeed(box) PROVE Durable' /\ Advances
  <2>1. /\ proc.pc = "seeding" /\ proc' # Idle /\ proc'.pc = "training"
        /\ volume' = disk' /\ disk'.progress = None
    BY <1>1, ValidateSeedEffect, Busy DEF ValidateSeed, Durable
  <2>2. /\ proc'.history = << >>
        /\ proc'.state = InitialState(proc'.seedIncumbent.evaluation)
    BY <1>1, <2>1, ValidateSeedEffect, Busy DEF PhaseOK
  <2>3. proc'.seedIncumbent.evaluation = Aligned(box)
    <3>1. proc \in Processes
      BY <1>1, ValidateSeedEffect
    <3>2. \E st : proc' = [proc EXCEPT !.pc = "training", !.state = st,
              !.seedIncumbent = [seed |-> proc.seed, evaluation |-> Aligned(box)]]
      BY <1>1 DEF ValidateSeed
    <3>3. QED
      BY <3>1, <3>2 DEF Processes
  <2>4. Level(volume'.progress, proc'.seedIncumbent, proc'.history, proc'.state)
    BY <2>1, <2>2, <2>3 DEF Level
  <2>5. QED
    BY <2>1, <2>4 DEF Durable, Advances
<1>2. ASSUME NEW box \in Boxes, NEW fitter \in BOOLEAN, TrainEpoch(box, fitter)
      PROVE  Durable' /\ Advances
  <2>1. volume' = volume
    BY <1>2 DEF TrainEpoch
  <2>2. QED
    BY <1>2, <2>1, TrainEffect, Busy DEF Durable, Advances
<1>3. CASE SelectEpoch
  <2> DEFINE e == Aligned(proc.box)
  <2>1. volume' = volume
    BY <1>3 DEF SelectEpoch
  <2>2. /\ proc \in Processes /\ proc' # Idle
        /\ proc.pc = "saved" /\ proc'.pc = "selected"
        /\ disk'.progress = disk.progress
        /\ proc'.history = Append(proc.history, e)
        /\ proc'.state = NextState(proc.state, e)
        /\ proc'.seedIncumbent = proc.seedIncumbent
    BY <1>3, SelectEffect, Busy
  <2>3. proc.box \in Boxes
    BY <2>2, ProcessFacts, Busy DEF PhaseOK
  <2>4. /\ disk.progress = volume.progress
        /\ Level(volume.progress, proc.seedIncumbent, proc.history, proc.state)
    BY <2>2 DEF Durable
  <2>5. Continues(volume.progress, proc'.seedIncumbent, proc'.history, proc'.state)
    BY <2>2, <2>3, <2>4, LevelContinues
  <2>6. QED
    BY <2>1, <2>2, <2>4, <2>5 DEF Durable, Advances
<1>4. QED
  BY <1>1, <1>2, <1>3

LEMMA DurableRecording ==
  ASSUME Shape, PhaseOK, Durable, WriteProgress \/ CommitEpoch \/ Finish
  PROVE  Durable' /\ Advances
<1>1. CASE WriteProgress
  <2>1. volume' = volume
    BY <1>1 DEF WriteProgress
  <2>2. /\ proc.pc = "selected" /\ proc' # Idle /\ proc'.pc = "recorded"
        /\ disk'.progress # None
        /\ disk'.progress.history = proc.history
        /\ disk'.progress.seedIncumbent = proc.seedIncumbent
        /\ disk'.progress.state = proc.state
        /\ proc'.history = proc.history /\ proc'.state = proc.state
        /\ proc'.seedIncumbent = proc.seedIncumbent
    BY <1>1, WriteEffect, Busy
  <2>3. Level(disk'.progress, proc'.seedIncumbent, proc'.history, proc'.state)
    BY <2>2 DEF Level
  <2>4. QED
    BY <2>1, <2>2, <2>3 DEF Durable, Advances
<1>2. CASE CommitEpoch
  <2>1. /\ proc.pc = "recorded" /\ disk' = disk /\ volume' = disk
        /\ proc' # Idle /\ proc'.pc = "training" /\ proc'.history = proc.history
        /\ proc'.state = proc.state /\ proc'.seedIncumbent = proc.seedIncumbent
    BY <1>2, CommitEffect, Busy
  <2>2. /\ disk.progress # None
        /\ Continues(volume.progress, proc.seedIncumbent, proc.history, proc.state)
        /\ Level(disk.progress, proc.seedIncumbent, proc.history, proc.state)
    BY <2>1 DEF Durable
  <2>3. /\ proc.seedIncumbent = disk.progress.seedIncumbent
        /\ proc.history = disk.progress.history /\ proc.state = disk.progress.state
    BY <2>2 DEF Level
  <2>4. Advances
    BY <2>1, <2>2, <2>3 DEF Advances
  <2>5. Durable'
    BY <2>1, <2>2 DEF Durable
  <2>6. QED
    BY <2>4, <2>5
<1>3. CASE Finish
  BY <1>3, FinishEffect, IdlePhase DEF Durable, Advances
<1>4. QED
  BY <1>1, <1>2, <1>3

LEMMA DurableStep ==
  Shape /\ PhaseOK /\ Durable /\ [Next]_vars => Durable' /\ Advances
<1> SUFFICES ASSUME Shape, PhaseOK, Durable, [Next]_vars PROVE Durable' /\ Advances
  OBVIOUS
<1>1. CASE Stage
  <2>1. volume' = volume /\ proc.pc = "staging"
    BY <1>1 DEF Stage
  <2>2. QED
    BY <1>1, <2>1, StageEffect, Busy DEF Durable, Advances
<1>2. CASE Stop
  <2>1. /\ proc # Idle /\ proc' = Idle /\ volume' = disk'
        /\ disk' = disk \/ disk' = volume
    BY <1>2 DEF Stop
  <2>2. Durable'
    BY <2>1, IdlePhase DEF Durable
  <2>3. CASE disk' = volume
    BY <2>1, <2>2, <2>3 DEF Advances
  <2>4. CASE disk' = disk /\ proc.pc = "recorded"
    <3>1. /\ disk.progress # None
          /\ Continues(volume.progress, proc.seedIncumbent, proc.history, proc.state)
          /\ Level(disk.progress, proc.seedIncumbent, proc.history, proc.state)
      BY <2>4 DEF Durable
    <3>2. /\ proc.seedIncumbent = disk.progress.seedIncumbent
          /\ proc.history = disk.progress.history /\ proc.state = disk.progress.state
      BY <3>1 DEF Level
    <3>3. QED
      BY <2>1, <2>2, <2>4, <3>1, <3>2 DEF Advances
  <2>5. CASE disk' = disk /\ proc.pc # "recorded"
    <3>1. proc.pc \in Phases
      BY <2>1, ShapeFacts, Busy
    <3>2. disk.progress = None \/ disk.progress = volume.progress
      BY <2>5, <3>1 DEF Phases, Durable
    <3>3. QED
      BY <2>1, <2>2, <2>5, <3>2 DEF Advances
  <2>6. QED
    BY <2>1, <2>3, <2>4, <2>5
<1>3. ASSUME NEW seed \in Seeds, NEW data \in DataVersions, ReplaceInputs(seed, data)
      PROVE  Durable' /\ Advances
  BY <1>3 DEF ReplaceInputs, Durable, Advances
<1>4. CASE Export
  BY <1>4 DEF Export, Durable, Advances
<1>5. CASE UNCHANGED vars
  BY <1>5 DEF vars, Durable, Advances
<1>6. QED
  BY <1>1, <1>2, <1>3, <1>4, <1>5, DurableLaunch, DurableTraining, DurableRecording
     DEF Next

\* The log and the selection that a progress file stands for.
LogOf(p) == IF p = None THEN << >> ELSE <<p.seedIncumbent.evaluation>> \o p.history

SelectionOf(p) == IF p = None THEN None ELSE p.state

LEMMA LogGrows ==
  ASSUME NEW e \in Evaluations, NEW h \in Histories, NEW first \in Evaluations
  PROVE  /\ <<first>> \o << >> = <<first>>
         /\ <<first>> \o <<e>> = <<first, e>>
         /\ <<first>> \o Append(h, e) = Append(<<first>> \o h, e)
         /\ <<first>> \o h # << >>
<1>1. <<first>> \in Seq(Evaluations) /\ h \in Seq(Evaluations) /\ Len(<<first>>) = 1
  BY DEF Histories
<1>2. <<first>> \o << >> = <<first>>
  BY <1>1
<1>3. <<first>> \o <<e>> = <<first, e>>
  <2> DEFINE pair == <<first>> \o <<e>>
  <2>1. <<e>> \in Seq(Evaluations) /\ <<first, e>> \in Seq(Evaluations)
    OBVIOUS
  <2>2. pair \in Seq(Evaluations) /\ Len(pair) = 2 /\ Len(<<first, e>>) = 2
    BY <1>1, <2>1
  <2>3. pair[1] = first /\ pair[2] = e
    BY <1>1, <2>1
  <2> HIDE DEF pair
  <2>4. \A k \in 1..Len(pair) : pair[k] = <<first, e>>[k]
    BY <2>2, <2>3
  <2>5. pair = <<first, e>>
    BY <2>1, <2>2, <2>4, SeqEqual
  <2>6. QED
    BY <2>5 DEF pair
<1>4. <<first>> \o Append(h, e) = Append(<<first>> \o h, e)
  BY <1>1
<1>5. Len(<<first>> \o h) = 1 + Len(h) /\ Len(h) \in Nat
  BY <1>1
<1>6. <<first>> \o h # << >>
  BY <1>5
<1>7. QED
  BY <1>2, <1>3, <1>4, <1>6

LEMMA AdvancesIsAStep ==
  ASSUME Shape, Advances
  PROVE  [Log!Next]_<<LogOf(volume.progress), SelectionOf(volume.progress)>>
<1> DEFINE p == volume.progress
           q == volume'.progress
<1>1. CASE q = p
  BY <1>1 DEF LogOf, SelectionOf
<1>2. CASE q = None
  BY <1>2 DEF Log!Next, Log!Discard, LogOf, SelectionOf
<1>3. CASE /\ q # None
           /\ Continues(p, q.seedIncumbent, q.history, q.state)
  <2>1. PICK box \in Boxes :
          IF p = None
          THEN /\ q.history = <<Aligned(box)>>
               /\ \E first \in Boxes :
                    /\ q.seedIncumbent.evaluation = Aligned(first)
                    /\ q.state = NextState(InitialState(Aligned(first)), Aligned(box))
          ELSE /\ q.seedIncumbent = p.seedIncumbent
               /\ q.history = Append(p.history, Aligned(box))
               /\ q.state = NextState(p.state, Aligned(box))
    BY <1>3 DEF Continues
  <2>2. Aligned(box) \in Evaluations
    BY AlignedType
  <2>3. CASE p = None
    <3>1. PICK first \in Boxes :
            /\ q.seedIncumbent.evaluation = Aligned(first)
            /\ q.state = NextState(InitialState(Aligned(first)), Aligned(box))
      BY <2>1, <2>3
    <3>2. Aligned(first) \in Evaluations
      BY AlignedType
    <3>3. LogOf(q) = <<Aligned(first), Aligned(box)>>
      BY <1>3, <2>1, <2>2, <2>3, <3>1, <3>2, LogGrows, HistoryFacts DEF LogOf
    <3>4. SelectionOf(q) = NextState(InitialState(Aligned(first)), Aligned(box))
      BY <1>3, <3>1 DEF SelectionOf
    <3>5. LogOf(p) = << >>
      BY <2>3 DEF LogOf
    <3>6. Log!Begin(first, box)
      BY <3>3, <3>4, SameAligned, SameRule DEF Log!Begin, LogOf, SelectionOf
    <3>7. QED
      BY <3>5, <3>6 DEF Log!Next, LogOf, SelectionOf
  <2>4. CASE p # None
    <3>1. p \in Progresses
      BY <2>4, ShapeFacts, FileFacts
    <3>2. p.seedIncumbent.evaluation \in Evaluations /\ p.history \in Histories
      BY <3>1, ProgressFacts DEF Incumbents
    <3>3. LogOf(p) = <<p.seedIncumbent.evaluation>> \o p.history
      BY <2>4 DEF LogOf
    <3>4. LogOf(q) = Append(LogOf(p), Aligned(box)) /\ LogOf(p) # << >>
      BY <1>3, <2>1, <2>2, <2>4, <3>2, <3>3, LogGrows DEF LogOf
    <3>5. SelectionOf(q) = NextState(SelectionOf(p), Aligned(box))
      BY <1>3, <2>1, <2>4 DEF SelectionOf
    <3>6. Log!Judge(box)
      BY <3>4, <3>5, SameAligned, SameRule DEF Log!Judge, LogOf, SelectionOf
    <3>7. QED
      BY <3>6 DEF Log!Next
  <2>5. QED
    BY <2>3, <2>4
<1>4. QED
  BY <1>1, <1>2, <1>3 DEF Advances

\* However often containers end and resume, the committed selection is that of
\* one run that judges its epochs in order, each once (ImplementsSelectionLog).
THEOREM TrainingImplementsSelectionLog == Spec => ImplementsSelectionLog
<1>1. Init => Log!Init
  BY DEF Init, Log!Init, NoFiles
<1>2. Shape /\ PhaseOK /\ Durable /\ [Next]_vars
        => [Log!Next]_<<LogOf(volume.progress), SelectionOf(volume.progress)>>
  BY DurableStep, AdvancesIsAStep
<1>3. Shape /\ PhaseOK /\ Durable /\ [Next]_vars => (Shape /\ PhaseOK /\ Durable)'
  BY ShapeStep, PhaseOKStep, DurableStep
<1>4. Init => Shape /\ PhaseOK /\ Durable
  BY WellFormedInit, DurableInit
<1>5. QED
  <2>1. Shape /\ PhaseOK /\ Durable /\ [Next]_vars
          => [Log!Next]_<<IF volume.progress = None THEN << >>
                          ELSE <<volume.progress.seedIncumbent.evaluation>>
                                 \o volume.progress.history,
                          IF volume.progress = None THEN None
                          ELSE volume.progress.state>>
    BY <1>2 DEF LogOf, SelectionOf
  <2>2. QED
    BY <1>1, <2>1, <1>3, <1>4, PTL DEF Spec, ImplementsSelectionLog, Log!Spec

=============================================================================
