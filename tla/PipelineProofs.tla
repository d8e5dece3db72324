------------------------------- MODULE PipelineProofs ------------------------
(***************************************************************************)
(* Proofs about what models are trained on and released with: a            *)
(* release-eligible manifest rests on one model and a published lock pins  *)
(* what it says, for any backends, trainings, stages and commits; and the  *)
(* data of the visual detector keeps its splits apart and its labels whole *)
(* through every copy, failure and restart, for any uploads and containers. *)
(***************************************************************************)
EXTENDS TaggerRelease, DetectorData, TLAPS

-----------------------------------------------------------------------------
(* Types *)

Baselines == {"none", "contract_verified", "frozen"}
DataSizes == {"none"} \cup Sizes
GoldenSet == [of : Nat, data : DataSizes]
EvaluationSet == [of : Nat, passed : BOOLEAN]
OutcomeSet == [status : {"none", "passed", "traced"}, on : GoldenSet]
EvidenceSet == [trained : Nat, evaluation : EvaluationSet,
                backends : [Backends -> OutcomeSet]]
ManifestSet == [int8 : Nat, thresholds : Nat, goldens : GoldenSet,
                release_eligible : BOOLEAN, evidence : EvidenceSet]
ArtifactSet == [int8 : Nat, thresholds : Nat, goldens : GoldenSet,
                manifest : ManifestSet]
RunSet == [baseline : Baselines, data : DataSizes, ready : BOOLEAN,
           ocr : BOOLEAN, tokenizer : BOOLEAN, final : Nat, trained : Nat,
           thresholds : Nat, evaluation : EvaluationSet,
           artifacts : ArtifactSet]
ReportSet == [model : Nat, goldens : GoldenSet,
              backends : [Backends -> OutcomeSet]]
LockSet == [status : {"bootstrap", "development_candidate_local",
                      "release_candidate_local", "published"},
            sha256 : Nat, revision : Nat, touched : BOOLEAN]
PubSet == [at : {"idle", "upload", "verify", "sync", "mark"},
           manifest : ManifestSet, revision : Nat, touched : BOOLEAN]

TypeOK ==
  /\ run \in RunSet /\ stages \in Nat /\ models \in Nat
  /\ broken \subseteq Nat
  /\ local \in ArtifactSet /\ report \in ReportSet
  /\ hub \in Seq(ArtifactSet) /\ hub # <<>>
  /\ lock \in LockSet /\ pub \in PubSet

-----------------------------------------------------------------------------
(* The inductive invariant *)

(* Every record on the volume is of a model trained by now.                *)
Past == run.final <= models /\ run.evaluation.of <= models

(* What lies beside the model of the run directory is of that model,       *)
(* unless its train stage broke off.                                       *)
RunIsOfOneModel ==
  \/ run.final = 0
  \/ run.final \in broken
  \/ /\ run.evaluation.of = run.final
     /\ run.thresholds = run.final
     /\ run.trained = run.final

(* A backend that passed was run on vectors of the model of the report.    *)
ReportIsOfOneModel ==
  \A b \in Backends : report.backends[b].status # "none" =>
    /\ report.model # 0
    /\ report.backends[b].on.of = report.model

(* What a manifest that passed the release checks rests on.                *)
OwnEvaluation(mf, bad) ==
  mf.release_eligible /\ mf.int8 \notin bad =>
    /\ mf.evidence.evaluation = [of |-> mf.int8, passed |-> TRUE]
    /\ mf.thresholds = mf.int8
    /\ mf.evidence.trained = mf.int8
Parity(mf) ==
  mf.release_eligible =>
    \A b \in Backends :
      /\ BackendPassed(b, mf.evidence.backends[b])
      /\ mf.evidence.backends[b].on.of = mf.int8

(* The directory that is being published is the one that was validated,    *)
(* and from the verification on the commit to be pinned holds its files.   *)
PublishesOne ==
  pub.at # "idle" =>
    /\ pub.manifest.release_eligible
    /\ ~pub.touched => local.manifest = pub.manifest
    /\ pub.at \in {"sync", "mark"} =>
         /\ pub.revision \in DOMAIN hub
         /\ ~pub.touched => /\ hub[pub.revision].manifest = pub.manifest
                            /\ Lists(pub.manifest, hub[pub.revision])
    /\ pub.at = "mark" /\ ~pub.touched => lock.sha256 = pub.manifest.int8

-----------------------------------------------------------------------------
(* Types of the values that stand for nothing, and of the records. *)

LEMMA NothingTypes ==
  /\ NoGoldens \in GoldenSet /\ NoEvaluation \in EvaluationSet
  /\ NoBackends \in [Backends -> OutcomeSet] /\ NoReport \in ReportSet
  /\ NoEvidence \in EvidenceSet /\ NoManifest \in ManifestSet
  /\ NoArtifacts \in ArtifactSet /\ EmptyRun \in RunSet /\ Idle \in PubSet
<1>1. /\ NoGoldens \in GoldenSet /\ NoEvaluation \in EvaluationSet
  BY DEF NoGoldens, GoldenSet, NoEvaluation, EvaluationSet, DataSizes
<1>2. NoBackends \in [Backends -> OutcomeSet]
  BY <1>1 DEF NoBackends, NotRun, OutcomeSet
<1>3. NoReport \in ReportSet
  BY <1>1, <1>2 DEF NoReport, ReportSet
<1>4. NoEvidence \in EvidenceSet
  BY <1>1, <1>2 DEF NoEvidence, EvidenceSet
<1>5. NoManifest \in ManifestSet
  BY <1>1, <1>4 DEF NoManifest, ManifestSet
<1>6. NoArtifacts \in ArtifactSet
  BY <1>1, <1>5 DEF NoArtifacts, ArtifactSet
<1>7. EmptyRun \in RunSet
  BY <1>1, <1>6 DEF EmptyRun, RunSet, Baselines, DataSizes
<1>8. Idle \in PubSet
  BY <1>5 DEF Idle, PubSet
<1> QED BY <1>1, <1>2, <1>3, <1>4, <1>5, <1>6, <1>7, <1>8

(* The directory a stage leaves is one that it passed through.             *)
LEMMA LeavesOne ==
  ASSUME NEW paths, Leaves(paths)
  PROVE  \E path \in paths : \E k \in DOMAIN path : run' = path[k]
BY DEF Leaves

-----------------------------------------------------------------------------
(* What each stage on the volume leaves *)

(* baseline touches nothing but the baseline.                              *)
LEMMA BaselineLeaves ==
  ASSUME run \in RunSet, BaselineStage
  PROVE  /\ run' \in RunSet /\ run'.artifacts = run.artifacts
         /\ run'.final = run.final /\ run'.trained = run.trained
         /\ run'.thresholds = run.thresholds /\ run'.evaluation = run.evaluation
<1>1. \E b \in Baselines : run' = [run EXCEPT !.baseline = b]
  <2> DEFINE starts == {run, [run EXCEPT !.baseline = "none"]}
             given == {"missing", "passed", "failed"}
  <2>1. PICK dir \in starts, evaluation \in given, k \in 1..2 :
          run' = <<dir, Freeze(dir, evaluation)>>[k]
    BY LeavesOne DEF BaselineStage
  <2>2. \E b \in Baselines : dir = [run EXCEPT !.baseline = b]
    BY DEF RunSet, Baselines
  <2>3. \E b \in Baselines : Freeze(dir, evaluation) = [run EXCEPT !.baseline = b]
    BY <2>2 DEF Freeze, RunSet, Baselines
  <2>4. run' = dir \/ run' = Freeze(dir, evaluation)
    BY <2>1
  <2> QED BY <2>2, <2>3, <2>4
<1> QED BY <1>1 DEF RunSet

(* The elements of a concatenation are those of its parts.                 *)
LEMMA PartsOf ==
  ASSUME NEW S, NEW s \in Seq(S), NEW t \in Seq(S), NEW k \in DOMAIN (s \o t)
  PROVE  (s \o t)[k] \in S
OBVIOUS

(* prepare leaves the model and what was made of it.                       *)
LEMMA PrepareLeaves ==
  ASSUME run \in RunSet, PrepareStage
  PROVE  /\ run' \in RunSet /\ run'.artifacts = run.artifacts
         /\ run'.final = run.final /\ run'.trained = run.trained
         /\ run'.thresholds = run.thresholds /\ run'.evaluation = run.evaluation
<1> DEFINE Same == {dir \in RunSet :
                      /\ dir.artifacts = run.artifacts
                      /\ dir.final = run.final /\ dir.trained = run.trained
                      /\ dir.thresholds = run.thresholds
                      /\ dir.evaluation = run.evaluation}
           cleared == [run EXCEPT !.data = "none", !.ready = FALSE,
                                  !.ocr = FALSE, !.tokenizer = FALSE]
           outcomes == {"missing", "verified", "refused"}
<1>1. run \in Same /\ cleared \in Same
  BY DEF RunSet, DataSizes
<1>2. PICK dir \in {run, cleared}, size \in Sizes, holdout \in outcomes :
        \E k \in DOMAIN PrepareFrom(dir, size, holdout) :
          run' = PrepareFrom(dir, size, holdout)[k]
  BY LeavesOne DEF PrepareStage
<1>3. dir \in Same
  BY <1>1, <1>2
<1>4. Prepared(dir, size, holdout) \in Seq(Same) \ {<<>>}
  <2> DEFINE split == [dir EXCEPT !.data = size]
             kept == [split EXCEPT !.ocr = @ \/ holdout = "verified"]
             done == [kept EXCEPT !.ready = TRUE]
  <2>1. split \in Same
    BY <1>3 DEF RunSet, DataSizes
  <2>2. kept \in Same
    <3>1. (split.ocr \/ holdout = "verified") \in BOOLEAN
      BY ZenonT(30)
    <3> QED BY <2>1, <3>1 DEF RunSet
  <2>3. done \in Same
    BY <2>2 DEF RunSet
  <2>4. Prepared(dir, size, holdout) \in {<<split>>, <<split, kept, done>>}
    BY DEF Prepared
  <2> HIDE DEF split, kept, done, Same
  <2>5. <<split>> \in Seq(Same) /\ <<split>> # <<>>
    BY <2>1
  <2>6. <<split, kept, done>> \in Seq(Same) /\ <<split, kept, done>> # <<>>
    BY <2>1, <2>2, <2>3
  <2> QED BY <2>4, <2>5, <2>6
<1> DEFINE data == IF dir.ready THEN <<dir>> ELSE Prepared(dir, size, holdout)
           last == data[Len(data)]
           built == IF last.ready THEN <<[last EXCEPT !.tokenizer = TRUE]>>
                    ELSE <<>>
<1>5. data \in Seq(Same) \ {<<>>}
  <2> HIDE DEF Same
  <2> QED BY <1>3, <1>4
<1>6. last \in Same
  <2> HIDE DEF Same, data
  <2> QED BY <1>5
<1>7. built \in Seq(Same)
  <2>1. [last EXCEPT !.tokenizer = TRUE] \in Same
    <3> HIDE DEF last
    <3> QED BY <1>6 DEF RunSet
  <2> HIDE DEF Same, last
  <2> QED BY <2>1
<1>8. PrepareFrom(dir, size, holdout) = (<<dir>> \o data) \o built
  BY DEF PrepareFrom
<1>9. run' \in Same
  <2> HIDE DEF Same, data, built
  <2>1. (<<dir>> \o data) \o built \in Seq(Same)
    BY <1>3, <1>5, <1>7
  <2> QED BY <1>2, <1>8, <2>1
<1> QED BY <1>9

(* train leaves the directory as it was or without a model, or with the    *)
(* new model m: with all of its records, or as one whose evaluation is     *)
(* still that of another.                                                  *)
LEMMA TrainLeaves ==
  ASSUME run \in RunSet, models \in Nat, TrainStage
  PROVE  /\ run' \in RunSet /\ run'.artifacts = run.artifacts
         /\ \/ /\ run'.final \in {0, run.final}
               /\ run'.evaluation \in {NoEvaluation, run.evaluation}
               /\ run'.final = 0 \/ /\ run'.trained = run.trained
                                    /\ run'.thresholds = run.thresholds
                                    /\ run'.evaluation = run.evaluation
            \/ /\ run'.final = models + 1
               /\ run'.evaluation \in {NoEvaluation, run.evaluation}
            \/ /\ run'.final = models + 1 /\ run'.evaluation.of = models + 1
               /\ run'.thresholds = models + 1 /\ run'.trained = models + 1
<1> DEFINE m == models + 1
           cleared == [run EXCEPT !.final = 0, !.trained = 0, !.thresholds = 0,
                                  !.evaluation = NoEvaluation]
<1>1. PICK dir \in {run, cleared}, holdout \in SliceResults,
           ocr \in SliceResults :
        \E k \in DOMAIN TrainFrom(dir, m, holdout, ocr) :
          run' = TrainFrom(dir, m, holdout, ocr)[k]
  BY LeavesOne DEF TrainStage
<1>2. m \in Nat
  OBVIOUS
<1>3. /\ dir \in RunSet /\ dir.artifacts = run.artifacts
      /\ dir.evaluation \in {NoEvaluation, run.evaluation}
      /\ dir = run \/ dir.final = 0
  <2>1. /\ cleared \in RunSet /\ cleared.artifacts = run.artifacts
        /\ cleared.evaluation = NoEvaluation /\ cleared.final = 0
    BY NothingTypes DEF RunSet
  <2> HIDE DEF cleared
  <2> QED BY <1>1, <2>1
<1> DEFINE d1 == [dir EXCEPT !.final = m]
           d2 == [dir EXCEPT !.final = m, !.trained = m]
           d3 == Calibrated(d2)
           d4 == Evaluated(d3, holdout, ocr)
<1>4. /\ d1 \in RunSet /\ d1.artifacts = run.artifacts /\ d1.final = m
      /\ d1.evaluation = dir.evaluation
  BY <1>2, <1>3 DEF RunSet
<1>5. /\ d2 \in RunSet /\ d2.artifacts = run.artifacts /\ d2.final = m
      /\ d2.evaluation = dir.evaluation /\ d2.trained = m
  BY <1>2, <1>3 DEF RunSet
<1>6. /\ d3 \in RunSet /\ d3.artifacts = run.artifacts /\ d3.final = m
      /\ d3.evaluation = dir.evaluation /\ d3.trained = m /\ d3.thresholds = m
  <2> HIDE DEF d2
  <2> QED BY <1>2, <1>5 DEF Calibrated, RunSet
<1>7. /\ d4 \in RunSet /\ d4.artifacts = run.artifacts /\ d4.final = m
      /\ d4.evaluation.of = m /\ d4.trained = m /\ d4.thresholds = m
  <2> DEFINE passed == GateResults(holdout, d3.ocr, ocr)
  <2>1. passed \in BOOLEAN
    <3>1. SlicePasses(holdout) \in BOOLEAN /\ SlicePasses(ocr) \in BOOLEAN
      BY <1>1, ZenonT(30) DEF SlicePasses, SliceResults
    <3> QED BY <1>6, <3>1, ZenonT(30) DEF GateResults, RunSet
  <2>2. [of |-> d3.final, passed |-> passed] \in EvaluationSet
    <3> HIDE DEF d3, passed
    <3> QED BY <1>2, <1>6, <2>1 DEF EvaluationSet
  <2>3. d4 = [d3 EXCEPT !.evaluation = [of |-> d3.final, passed |-> passed]]
    BY DEF Evaluated
  <2> HIDE DEF d3, passed, d4
  <2> QED BY <1>6, <2>2, <2>3 DEF RunSet
<1>8. run' \in {dir, d1, d2, d3, d4}
  <2>1. CASE ~MayTrain(dir)
    BY <1>1, <2>1 DEF TrainFrom
  <2>2. CASE MayTrain(dir)
    <3>1. TrainFrom(dir, m, holdout, ocr) =
            <<dir>> \o Trained(dir, m) \o
            <<Calibrated(Trained(dir, m)[2]),
              Evaluated(Calibrated(Trained(dir, m)[2]), holdout, ocr)>>
      BY <2>2 DEF TrainFrom
    <3>2. Trained(dir, m) = <<d1, d2>>
      BY DEF Trained
    <3>3. TrainFrom(dir, m, holdout, ocr) = <<dir>> \o <<d1, d2>> \o <<d3, d4>>
      <4>1. Trained(dir, m)[2] = d2
        BY <3>2
      <4> HIDE DEF d1, d2
      <4> QED BY <3>1, <3>2, <4>1
    <3> HIDE DEF d1, d2, d3, d4
    <3>4. <<dir>> \o <<d1, d2>> \o <<d3, d4>> \in Seq({dir, d1, d2, d3, d4})
      OBVIOUS
    <3> QED BY <1>1, <3>3, <3>4
  <2> QED BY <2>1, <2>2
<1> HIDE DEF d1, d2, d3, d4
<1>9. CASE run' = dir
  <2>1. CASE dir = run
    BY <1>9, <2>1, <1>3
  <2>2. CASE dir.final = 0
    BY <1>9, <2>2, <1>3
  <2> QED BY <1>3, <2>1, <2>2
<1> QED BY <1>3, <1>4, <1>5, <1>6, <1>7, <1>8, <1>9

(* export leaves the records of the model as they are; a manifest it       *)
(* writes is of the model in final/, and an eligible one rests on the      *)
(* records beside it and on a report of that model.                        *)
LEMMA ExportLeaves ==
  ASSUME run \in RunSet, report \in ReportSet, ReportIsOfOneModel, ExportStage
  PROVE  /\ run' \in RunSet
         /\ run'.final = run.final /\ run'.trained = run.trained
         /\ run'.thresholds = run.thresholds /\ run'.evaluation = run.evaluation
         /\ LET mf == run'.artifacts.manifest IN
            \/ mf \in {run.artifacts.manifest, NoManifest}
            \/ /\ run.final # 0 /\ mf.int8 = run.final
               /\ mf.thresholds = run.thresholds
               /\ mf.release_eligible => /\ mf.evidence.trained = run.trained
                                         /\ mf.evidence.evaluation = run.evaluation
                                         /\ run.evaluation.passed
               /\ Parity(mf)
<1> DEFINE cleared == [run EXCEPT !.artifacts = NoArtifacts]
           licenses == {"pending", "approved"}
<1>1. PICK dir \in {run, cleared}, given \in {NoReport, report}, loss \in 0..2,
           quick \in BOOLEAN, license \in licenses :
        \E k \in DOMAIN Exported(dir, given, loss, quick, license) :
          run' = Exported(dir, given, loss, quick, license)[k]
  BY LeavesOne DEF ExportStage
<1> DEFINE Kept(d) == /\ d \in RunSet
                      /\ d.final = run.final /\ d.trained = run.trained
                      /\ d.thresholds = run.thresholds
                      /\ d.evaluation = run.evaluation
           Old(d) == d.artifacts.manifest \in {run.artifacts.manifest, NoManifest}
<1>2. Kept(dir) /\ Old(dir)
  <2>1. Kept(run) /\ Old(run)
    OBVIOUS
  <2>2. Kept(cleared) /\ Old(cleared)
    BY NothingTypes DEF RunSet, NoArtifacts
  <2> HIDE DEF Kept, Old, cleared
  <2> QED BY <1>1, <2>1, <2>2
<1>3. /\ given \in ReportSet
      /\ \A b \in Backends : given.backends[b].status # "none" =>
           given.backends[b].on.of = given.model
  <2>1. \A b \in Backends : NoReport.backends[b].status = "none"
    BY DEF NoReport, NoBackends, NotRun
  <2> QED BY <1>1, <2>1, NothingTypes DEF ReportIsOfOneModel
<1> DEFINE goldens == [of |-> dir.final, data |-> dir.data]
           eligible == ReleaseChecks(dir, given, dir.final, goldens, loss, license)
           a1 == [dir EXCEPT !.artifacts.int8 = dir.final]
           a2 == [a1 EXCEPT !.artifacts.thresholds = dir.thresholds]
           a3 == [a2 EXCEPT !.artifacts.goldens = goldens]
           evidence == IF eligible
                       THEN [trained |-> dir.trained,
                             evaluation |-> dir.evaluation,
                             backends |-> given.backends]
                       ELSE NoEvidence
           mf == [int8 |-> dir.final, thresholds |-> dir.thresholds,
                  goldens |-> goldens, release_eligible |-> eligible,
                  evidence |-> evidence]
           a4 == [a3 EXCEPT !.artifacts.manifest = mf]
<1>4. goldens \in GoldenSet
  BY <1>2 DEF RunSet, GoldenSet
<1>5. Kept(a1) /\ Old(a1)
  BY <1>2 DEF RunSet, ArtifactSet
<1>6. Kept(a2) /\ Old(a2)
  <2> HIDE DEF a1
  <2> QED BY <1>2, <1>5 DEF RunSet, ArtifactSet
<1>7. Kept(a3) /\ Old(a3)
  <2> HIDE DEF a2, goldens
  <2> QED BY <1>4, <1>6 DEF RunSet, ArtifactSet
<1>8. eligible \in BOOLEAN
  BY <1>2, ZenonT(60) DEF ReleaseChecks, CrossRuntime, RunSet, EvaluationSet
<1>9. evidence \in EvidenceSet
  <2> HIDE DEF eligible
  <2>1. [trained |-> dir.trained, evaluation |-> dir.evaluation,
         backends |-> given.backends] \in EvidenceSet
    BY <1>2, <1>3 DEF EvidenceSet, RunSet, ReportSet
  <2> QED BY <2>1, NothingTypes
<1>10. mf \in ManifestSet
  <2> HIDE DEF eligible, evidence, goldens
  <2> QED BY <1>2, <1>4, <1>8, <1>9 DEF ManifestSet, RunSet
<1>11. Kept(a4) /\ a4.artifacts.manifest = mf
  <2> HIDE DEF a3, mf
  <2> QED BY <1>7, <1>10 DEF RunSet, ArtifactSet
<1>12. eligible => /\ dir.evaluation.passed
                   /\ given.model = dir.final
                   /\ \A b \in Backends : BackendPassed(b, given.backends[b])
  BY DEF ReleaseChecks, CrossRuntime
<1>13. mf.release_eligible =>
         /\ mf.evidence.trained = run.trained
         /\ mf.evidence.evaluation = run.evaluation
         /\ run.evaluation.passed
  <2> HIDE DEF eligible
  <2> QED BY <1>2, <1>12
<1>14. Parity(mf)
  <2>1. \A b \in Backends : BackendPassed(b, given.backends[b]) =>
          given.backends[b].status # "none"
    BY DEF BackendPassed
  <2> HIDE DEF eligible
  <2> QED BY <1>3, <1>12, <2>1 DEF Parity
<1>15. \/ run' \in {dir, a1, a2, a3}
       \/ run' = a4 /\ dir.final # 0
  <2>1. CASE dir.final = 0
    BY <1>1, <2>1 DEF Exported
  <2>2. CASE dir.final # 0
    <3> DEFINE Passes == <<dir, a1, a2, a3, a4>>
    <3>1. Exported(dir, given, loss, quick, license) \in
            {<<dir>>, <<dir, a1>>, <<dir, a1, a2>>, <<dir, a1, a2, a3>>, Passes}
      <4>1. CASE dir.thresholds = 0
        BY <2>2, <4>1 DEF Exported
      <4>2. CASE dir.thresholds # 0 /\ dir.data = "none"
        BY <2>2, <4>2 DEF Exported
      <4>3. CASE dir.thresholds # 0 /\ dir.data # "none"
        BY <2>2, <4>3 DEF Exported
      <4> QED BY <4>1, <4>2, <4>3
    <3> HIDE DEF a1, a2, a3, a4
    <3>2. run' \in {dir, a1, a2, a3, a4}
      BY <1>1, <3>1
    <3> QED BY <2>2, <3>2
  <2> QED BY <2>1, <2>2
<1>16. CASE run' \in {dir, a1, a2, a3}
  <2> HIDE DEF Kept, Old, a1, a2, a3
  <2>1. Kept(run') /\ Old(run')
    BY <1>2, <1>5, <1>6, <1>7, <1>16
  <2> QED BY <2>1 DEF Kept, Old
<1>17. CASE run' = a4 /\ dir.final # 0
  <2>1. mf.int8 = run.final /\ mf.thresholds = run.thresholds /\ run.final # 0
    BY <1>2, <1>17
  <2> HIDE DEF mf, a4
  <2> QED BY <1>11, <1>13, <1>14, <1>17, <2>1
<1> QED BY <1>15, <1>16, <1>17

-----------------------------------------------------------------------------
(* The invariant holds and is kept *)

ManifestsTrue ==
  \A mf \in Manifests : OwnEvaluation(mf, broken) /\ Parity(mf)

VolumeInv == Past /\ RunIsOfOneModel
IInv == TypeOK /\ VolumeInv /\ ReportIsOfOneModel /\ ManifestsTrue
          /\ PublishesOne /\ LockIsTrue

(* A manifest that does not say release eligible claims nothing.           *)
LEMMA NoManifestClaimsNothing ==
  \A bad : OwnEvaluation(NoManifest, bad) /\ Parity(NoManifest)
BY DEF OwnEvaluation, Parity, NoManifest

(* If the manifests are old ones or true ones, and no model becomes sound  *)
(* again, all are true.                                                    *)
LEMMA ManifestsStayTrue ==
  ASSUME ManifestsTrue, NEW new, broken \subseteq broken',
         Manifests' \subseteq Manifests \cup {NoManifest, new},
         OwnEvaluation(new, broken') /\ Parity(new)
  PROVE  ManifestsTrue'
<1> SUFFICES ASSUME NEW mf \in Manifests'
             PROVE  OwnEvaluation(mf, broken') /\ Parity(mf)
  BY DEF ManifestsTrue, OwnEvaluation, Parity, BackendPassed
<1>1. CASE mf \in Manifests
  BY <1>1 DEF ManifestsTrue, OwnEvaluation
<1>2. CASE mf \in {NoManifest, new}
  BY <1>2, NoManifestClaimsNothing
<1> QED BY <1>1, <1>2

(* A stage on the volume keeps the invariant if it keeps its own part.     *)
LEMMA StageKeeps ==
  ASSUME IInv, NEW new,
         UNCHANGED <<local, report, hub, lock, pub>>,
         run' \in RunSet, stages' \in Nat, models' \in Nat, broken' \subseteq Nat,
         VolumeInv', broken \subseteq broken',
         run'.artifacts.manifest \in {run.artifacts.manifest, NoManifest, new},
         OwnEvaluation(new, broken') /\ Parity(new)
  PROVE  IInv'
<1>1. TypeOK'
  BY DEF IInv, TypeOK
<1>2. ReportIsOfOneModel' /\ PublishesOne' /\ LockIsTrue'
  BY DEF IInv, ReportIsOfOneModel, PublishesOne, LockIsTrue
<1>3. Manifests' \subseteq Manifests \cup {NoManifest, new}
  BY DEF Manifests
<1>4. ManifestsTrue'
  BY <1>3, ManifestsStayTrue DEF IInv
<1> QED BY <1>1, <1>2, <1>4 DEF IInv

LEMMA StagesKeep ==
  ASSUME IInv, ModalStage
  PROVE  IInv'
<1>1. stages' \in Nat /\ run \in RunSet /\ models \in Nat /\ broken \subseteq Nat
  BY DEF IInv, TypeOK, ModalStage
<1>2. Past /\ RunIsOfOneModel
  BY DEF IInv, VolumeInv
<1>3. CASE BaselineStage \/ PrepareStage
  <2>1. /\ run' \in RunSet /\ run'.artifacts = run.artifacts
        /\ run'.final = run.final /\ run'.trained = run.trained
        /\ run'.thresholds = run.thresholds /\ run'.evaluation = run.evaluation
    BY <1>1, <1>3, BaselineLeaves, PrepareLeaves
  <2>2. UNCHANGED <<models, broken, local, report, hub, lock, pub>>
    BY <1>3 DEF BaselineStage, PrepareStage
  <2>3. VolumeInv'
    BY <1>2, <2>1, <2>2 DEF VolumeInv, Past, RunIsOfOneModel
  <2> QED BY <1>1, <2>1, <2>2, <2>3, StageKeeps, NoManifestClaimsNothing
<1>4. CASE TrainStage
  <2> DEFINE m == models + 1
  <2>1. UNCHANGED <<local, report, hub, lock, pub>>
    BY <1>4 DEF TrainStage
  <2>2. /\ models' = IF run'.final = m THEN m ELSE models
        /\ broken' = IF run'.final = m /\ run'.evaluation.of # m
                     THEN broken \cup {m} ELSE broken
    BY <1>4 DEF TrainStage
  <2>3. run' \in RunSet /\ run'.artifacts = run.artifacts
    BY <1>1, <1>4, TrainLeaves
  <2>4. models' \in Nat /\ models <= models'
        /\ broken' \subseteq Nat /\ broken \subseteq broken'
    BY <1>1, <2>2
  <2>5. NoEvaluation.of = 0 /\ run.evaluation.of \in Nat /\ run.final \in Nat
    BY <1>1 DEF NoEvaluation, RunSet, EvaluationSet
  <2>6. VolumeInv'
    <3>1. CASE /\ run'.final \in {0, run.final}
               /\ run'.evaluation \in {NoEvaluation, run.evaluation}
               /\ run'.final = 0 \/ /\ run'.trained = run.trained
                                    /\ run'.thresholds = run.thresholds
                                    /\ run'.evaluation = run.evaluation
      <4>1. models' = models /\ broken' = broken
        BY <1>1, <1>2, <2>2, <2>5, <3>1 DEF Past
      <4> QED BY <1>1, <1>2, <2>5, <3>1, <4>1 DEF VolumeInv, Past, RunIsOfOneModel
    <3>2. CASE /\ run'.final = models + 1
               /\ run'.evaluation \in {NoEvaluation, run.evaluation}
      <4>1. run'.evaluation.of <= models /\ run'.evaluation.of \in Nat
        BY <1>1, <1>2, <2>5, <3>2 DEF Past
      <4>2. models' = m /\ m \in broken'
        BY <1>1, <2>2, <3>2, <4>1
      <4> QED BY <1>1, <3>2, <4>1, <4>2 DEF VolumeInv, Past, RunIsOfOneModel
    <3>3. CASE /\ run'.final = models + 1 /\ run'.evaluation.of = models + 1
               /\ run'.thresholds = models + 1 /\ run'.trained = models + 1
      <4>1. models' = m
        BY <2>2, <3>3
      <4> QED BY <1>1, <3>3, <4>1 DEF VolumeInv, Past, RunIsOfOneModel
    <3> QED BY <1>1, <1>4, <3>1, <3>2, <3>3, TrainLeaves
  <2> HIDE DEF m
  <2> QED BY <1>1, <2>1, <2>3, <2>4, <2>6, StageKeeps, NoManifestClaimsNothing
<1>5. CASE ExportStage
  <2> DEFINE mf == run'.artifacts.manifest
  <2>1. /\ run' \in RunSet
        /\ run'.final = run.final /\ run'.trained = run.trained
        /\ run'.thresholds = run.thresholds /\ run'.evaluation = run.evaluation
        /\ \/ mf \in {run.artifacts.manifest, NoManifest}
           \/ /\ run.final # 0 /\ mf.int8 = run.final
              /\ mf.thresholds = run.thresholds
              /\ mf.release_eligible => /\ mf.evidence.trained = run.trained
                                        /\ mf.evidence.evaluation = run.evaluation
                                        /\ run.evaluation.passed
              /\ Parity(mf)
    BY <1>5, ExportLeaves DEF IInv, TypeOK
  <2>2. UNCHANGED <<models, broken, local, report, hub, lock, pub>>
    BY <1>5 DEF ExportStage
  <2>3. VolumeInv'
    BY <1>2, <2>1, <2>2 DEF VolumeInv, Past, RunIsOfOneModel
  <2>4. CASE mf \in {run.artifacts.manifest, NoManifest}
    BY <1>1, <2>1, <2>2, <2>3, <2>4, StageKeeps, NoManifestClaimsNothing
  <2>5. CASE mf \notin {run.artifacts.manifest, NoManifest}
    <3>1. OwnEvaluation(mf, broken)
      <4> SUFFICES ASSUME mf.release_eligible, mf.int8 \notin broken
                   PROVE  /\ mf.evidence.evaluation = [of |-> mf.int8, passed |-> TRUE]
                          /\ mf.thresholds = mf.int8
                          /\ mf.evidence.trained = mf.int8
        BY DEF OwnEvaluation
      <4>1. /\ run.evaluation.of = run.final /\ run.thresholds = run.final
            /\ run.trained = run.final
        BY <1>2, <2>1, <2>5 DEF RunIsOfOneModel
      <4>2. run.evaluation.passed /\ run.evaluation \in EvaluationSet
        BY <1>1, <2>1, <2>5 DEF RunSet
      <4>3. run.evaluation = [of |-> run.final, passed |-> TRUE]
        BY <4>1, <4>2 DEF EvaluationSet
      <4> QED BY <2>1, <2>5, <4>1, <4>3
    <3> HIDE DEF mf
    <3>2. mf = run'.artifacts.manifest
      BY DEF mf
    <3>3. Parity(mf) /\ OwnEvaluation(mf, broken')
      BY <2>1, <2>2, <2>5, <3>1
    <3> QED BY <1>1, <2>1, <2>2, <2>3, <3>2, <3>3, StageKeeps
  <2> QED BY <2>4, <2>5
<1> QED BY <1>3, <1>4, <1>5 DEF ModalStage

(* sync writes an entry that is not published.                             *)
LEMMA SyncedEntry ==
  ASSUME NEW artifacts \in ArtifactSet
  PROVE  /\ Synced(artifacts) \in LockSet
         /\ Synced(artifacts).status # "published"
         /\ Synced(artifacts).sha256 = artifacts.manifest.int8
BY DEF Synced, LockSet, ArtifactSet, ManifestSet

(* The lock stays true if it does not become published and the commits     *)
(* stay.                                                                   *)
LEMMA LockStaysTrue ==
  ASSUME TypeOK, LockIsTrue, lock' = lock \/ lock'.status # "published",
         hub' = hub \/ \E commit \in ArtifactSet : hub' = Append(hub, commit)
  PROVE  /\ LockIsTrue' /\ hub' \in Seq(ArtifactSet)
         /\ \A i \in DOMAIN hub : i \in DOMAIN hub' /\ hub'[i] = hub[i]
<1>1. hub \in Seq(ArtifactSet)
  BY DEF TypeOK
<1>2. /\ hub' \in Seq(ArtifactSet)
      /\ \A i \in DOMAIN hub : i \in DOMAIN hub' /\ hub'[i] = hub[i]
  BY <1>1
<1> QED BY <1>2 DEF LockIsTrue, Lists

LEMMA DownloadKeeps ==
  ASSUME IInv, Download
  PROVE  IInv'
<1> USE DEF IInv
<1>0. TypeOK /\ local \in ArtifactSet /\ run.artifacts \in ArtifactSet
  BY DEF TypeOK, RunSet
<1>1. PICK skipped \in SUBSET DOMAIN local :
        LET remote == run.artifacts
            now == [f \in DOMAIN local |->
                      IF f \in skipped \/ remote[f] = NoArtifacts[f]
                      THEN local[f] ELSE remote[f]] IN
        /\ local' = now
        /\ lock' = IF now.manifest # NoManifest THEN Synced(now) ELSE lock
  BY DEF Download
<1>2. /\ pub' = IF pub.at # "idle" THEN [pub EXCEPT !.touched = TRUE] ELSE pub
      /\ UNCHANGED <<run, stages, models, broken, report, hub>>
  BY DEF Download
<1>3. local' \in ArtifactSet
      /\ local'.manifest \in {local.manifest, run.artifacts.manifest}
  BY <1>0, <1>1 DEF ArtifactSet
<1>4. lock' = lock \/ lock' = Synced(local')
  BY <1>1
<1>5. lock' \in LockSet /\ (lock' = lock \/ lock'.status # "published")
  BY <1>0, <1>3, <1>4, SyncedEntry DEF TypeOK
<1>6. /\ pub' \in PubSet /\ pub'.at = pub.at /\ pub'.manifest = pub.manifest
      /\ pub'.revision = pub.revision
      /\ pub.at # "idle" => pub'.touched
  BY <1>0, <1>2 DEF TypeOK, PubSet
<1>7. TypeOK'
  BY <1>0, <1>2, <1>3, <1>5, <1>6 DEF TypeOK
<1>8. VolumeInv' /\ ReportIsOfOneModel'
  BY <1>2 DEF VolumeInv, Past, RunIsOfOneModel, ReportIsOfOneModel
<1>9. Manifests' \subseteq Manifests \cup {NoManifest, NoManifest}
  BY <1>2, <1>3, <1>6 DEF Manifests
<1>10. ManifestsTrue'
  BY <1>2, <1>9, ManifestsStayTrue, NoManifestClaimsNothing
<1>11. PublishesOne'
  BY <1>2, <1>6 DEF PublishesOne
<1>12. LockIsTrue'
  BY <1>0, <1>2, <1>5, LockStaysTrue
<1> QED BY <1>7, <1>8, <1>10, <1>11, <1>12

(* The steps on the report keep the invariant if they keep its own part.   *)
LEMMA ReportsKeep ==
  ASSUME IInv, UNCHANGED <<run, stages, models, broken, local, hub, lock, pub>>,
         report' \in ReportSet, ReportIsOfOneModel'
  PROVE  IInv'
<1>1. TypeOK' /\ VolumeInv' /\ PublishesOne' /\ LockIsTrue'
  BY DEF IInv, TypeOK, VolumeInv, Past, RunIsOfOneModel, PublishesOne, LockIsTrue
<1>2. Manifests' \subseteq Manifests \cup {NoManifest, NoManifest}
  BY DEF Manifests
<1>3. ManifestsTrue'
  BY <1>2, ManifestsStayTrue, NoManifestClaimsNothing DEF IInv
<1> QED BY <1>1, <1>3 DEF IInv

LEMMA VerifyParityKeeps ==
  ASSUME IInv, NEW b \in Backends, VerifyParity(b)
  PROVE  IInv'
<1>1. PICK status \in {"passed", "none"} :
        /\ local.int8 # 0
        /\ local.goldens.of = local.int8
        /\ SameReport(report, local.int8)
        /\ report' = [model |-> local.int8, goldens |-> local.goldens,
                      backends |-> [report.backends EXCEPT ![b] =
                                      [status |-> status, on |-> local.goldens]]]
        /\ UNCHANGED <<run, stages, models, broken, local, hub, lock, pub>>
  BY DEF VerifyParity
<1>2. local \in ArtifactSet /\ report \in ReportSet
  BY DEF IInv, TypeOK
<1>3. [status |-> status, on |-> local.goldens] \in OutcomeSet
  BY <1>2 DEF OutcomeSet, ArtifactSet
<1>4. report'.backends \in [Backends -> OutcomeSet]
  BY <1>1, <1>2, <1>3 DEF ReportSet
<1>5. report' \in ReportSet
  BY <1>1, <1>2, <1>4 DEF ReportSet, ArtifactSet
<1>6. ReportIsOfOneModel'
  <2> SUFFICES ASSUME NEW c \in Backends, report'.backends[c].status # "none"
               PROVE  report'.model # 0 /\ report'.backends[c].on.of = report'.model
    BY DEF ReportIsOfOneModel
  <2>1. report'.model = local.int8 /\ local.int8 # 0
    BY <1>1
  <2>2. CASE c = b
    <3>1. report'.backends[c].on = local.goldens
      BY <1>1, <1>2, <2>2 DEF ReportSet
    <3> QED BY <1>1, <2>1, <3>1
  <2>3. CASE c # b
    <3>1. report'.backends[c] = report.backends[c]
      BY <1>1, <1>2, <2>3 DEF ReportSet
    <3>2. report.model # 0 /\ report.backends[c].on.of = report.model
      BY <3>1 DEF IInv, ReportIsOfOneModel
    <3> QED BY <1>1, <2>1, <3>1, <3>2 DEF SameReport
  <2> QED BY <2>2, <2>3
<1> QED BY <1>1, <1>5, <1>6, ReportsKeep

LEMMA AttachTraceKeeps ==
  ASSUME IInv, NEW b \in Backends, AttachTrace(b)
  PROVE  IInv'
<1>1. /\ report.backends[b].status = "passed"
      /\ report' = [report EXCEPT !.backends[b].status = "traced"]
      /\ UNCHANGED <<run, stages, models, broken, local, hub, lock, pub>>
  BY DEF AttachTrace
<1>2. report \in ReportSet
  BY DEF IInv, TypeOK
<1>3. /\ report'.model = report.model /\ report'.goldens = report.goldens
      /\ report'.backends = [report.backends EXCEPT ![b] =
                               [report.backends[b] EXCEPT !.status = "traced"]]
  BY <1>1, <1>2 DEF ReportSet
<1>4. [report.backends[b] EXCEPT !.status = "traced"] \in OutcomeSet
      /\ [report.backends[b] EXCEPT !.status = "traced"].on = report.backends[b].on
  BY <1>2 DEF ReportSet, OutcomeSet
<1>5. report' \in ReportSet
  <2>1. report'.backends \in [Backends -> OutcomeSet]
    BY <1>2, <1>3, <1>4 DEF ReportSet
  <2>2. report' = [model |-> report'.model, goldens |-> report'.goldens,
                   backends |-> report'.backends]
    BY <1>1, <1>2 DEF ReportSet
  <2> QED BY <1>2, <1>3, <2>1, <2>2 DEF ReportSet
<1>6. ReportIsOfOneModel'
  <2> SUFFICES ASSUME NEW c \in Backends, report'.backends[c].status # "none"
               PROVE  report'.model # 0 /\ report'.backends[c].on.of = report'.model
    BY DEF ReportIsOfOneModel
  <2>1. report.backends[c].status # "none" /\ report'.backends[c].on = report.backends[c].on
    BY <1>1, <1>2, <1>3, <1>4 DEF ReportSet
  <2> QED BY <1>3, <2>1 DEF IInv, ReportIsOfOneModel
<1> QED BY <1>1, <1>5, <1>6, ReportsKeep

LEMMA NewReportKeeps ==
  ASSUME IInv, NewReport
  PROVE  IInv'
<1>1. report' = NoReport
      /\ UNCHANGED <<run, stages, models, broken, local, hub, lock, pub>>
  BY DEF NewReport
<1>2. report' \in ReportSet
  BY <1>1, NothingTypes
<1>3. ReportIsOfOneModel'
  BY <1>1 DEF ReportIsOfOneModel, NoReport, NoBackends, NotRun
<1> QED BY <1>1, <1>2, <1>3, ReportsKeep

(* A step of publishing, or of somebody else on the branch, keeps the      *)
(* invariant if it keeps what is said of publishing and of the lock.       *)
LEMMA PublishingKeeps ==
  ASSUME IInv, UNCHANGED <<run, stages, models, broken, local, report>>,
         \/ hub' = hub
         \/ \E commit \in ArtifactSet :
              /\ hub' = Append(hub, commit)
              /\ commit.manifest \in Manifests \cup {NoManifest},
         pub' \in PubSet, pub'.manifest \in Manifests \cup {NoManifest},
         lock' \in LockSet, PublishesOne', LockIsTrue'
  PROVE  IInv'
<1>1. hub \in Seq(ArtifactSet) /\ hub # <<>> /\ TypeOK
  BY DEF IInv, TypeOK
<1>2. /\ hub' \in Seq(ArtifactSet) /\ hub' # <<>>
      /\ \A i \in DOMAIN hub' : hub'[i].manifest \in Manifests \cup {NoManifest}
  <2>1. CASE hub' = hub
    BY <1>1, <2>1 DEF Manifests
  <2>2. CASE hub' # hub
    <3>1. PICK commit \in ArtifactSet :
            /\ hub' = Append(hub, commit)
            /\ commit.manifest \in Manifests \cup {NoManifest}
      BY <2>2
    <3>2. hub' \in Seq(ArtifactSet) /\ DOMAIN hub' = 1..(Len(hub) + 1)
      BY <1>1, <3>1
    <3>3. \A i \in DOMAIN hub' : hub'[i] = commit \/ (i \in DOMAIN hub /\ hub'[i] = hub[i])
      BY <1>1, <3>1, <3>2
    <3>4. \A i \in DOMAIN hub : hub[i].manifest \in Manifests
      BY DEF Manifests
    <3> QED BY <3>1, <3>2, <3>3, <3>4
  <2> QED BY <2>1, <2>2
<1>3. TypeOK' /\ VolumeInv' /\ ReportIsOfOneModel'
  BY <1>1, <1>2 DEF IInv, TypeOK, VolumeInv, Past, RunIsOfOneModel,
                    ReportIsOfOneModel
<1>4. Manifests' \subseteq Manifests \cup {NoManifest, NoManifest}
  <2>1. {run.artifacts.manifest, local.manifest} \subseteq Manifests
    BY DEF Manifests
  <2>2. Manifests' = {run.artifacts.manifest, local.manifest, pub'.manifest}
                       \cup {hub'[i].manifest : i \in DOMAIN hub'}
    BY DEF Manifests
  <2> QED BY <1>2, <2>1, <2>2
<1>5. ManifestsTrue'
  BY <1>4, ManifestsStayTrue, NoManifestClaimsNothing DEF IInv
<1> QED BY <1>3, <1>5 DEF IInv

LEMMA PublishStepsKeep ==
  ASSUME IInv,
         \/ PublishValidates \/ PublishUploads \/ PublishVerifies
         \/ PublishSyncs \/ PublishMarks \/ PublishFails \/ ForeignPush
  PROVE  IInv'
<1>1. /\ TypeOK /\ hub \in Seq(ArtifactSet) /\ pub \in PubSet /\ lock \in LockSet
      /\ local \in ArtifactSet /\ LockIsTrue /\ PublishesOne
  BY DEF IInv, TypeOK
<1>2. /\ local.manifest \in Manifests /\ pub.manifest \in Manifests
      /\ local.manifest \in ManifestSet
  BY <1>1 DEF Manifests, ArtifactSet
<1>3. CASE PublishValidates
  <2>1. /\ pub' = [at |-> "upload", manifest |-> local.manifest, revision |-> 0,
                   touched |-> FALSE]
        /\ local.manifest.release_eligible
        /\ UNCHANGED <<run, stages, models, broken, local, report, hub, lock>>
    BY <1>3 DEF PublishValidates, Validated
  <2>2. pub' \in PubSet
    BY <1>2, <2>1 DEF PubSet
  <2>3. PublishesOne' /\ LockIsTrue'
    BY <1>1, <2>1 DEF PublishesOne, LockIsTrue
  <2> QED BY <1>1, <1>2, <2>1, <2>2, <2>3, PublishingKeeps
<1>4. CASE PublishUploads
  <2>1. /\ pub.at = "upload" /\ hub' = Append(hub, local)
        /\ pub' = [pub EXCEPT !.at = "verify"]
        /\ UNCHANGED <<run, stages, models, broken, local, report, lock>>
    BY <1>4 DEF PublishUploads
  <2>2. /\ pub' \in PubSet /\ pub'.at = "verify" /\ pub'.manifest = pub.manifest
        /\ pub'.touched = pub.touched
    BY <1>1, <2>1 DEF PubSet
  <2>3. PublishesOne'
    BY <1>1, <2>1, <2>2 DEF PublishesOne
  <2>4. LockIsTrue'
    BY <1>1, <2>1, LockStaysTrue
  <2> QED BY <1>1, <1>2, <2>1, <2>2, <2>3, <2>4, PublishingKeeps
<1>5. CASE PublishVerifies
  <2> DEFINE commit == hub[Len(hub)]
  <2>1. /\ pub.at = "verify" /\ commit.manifest = local.manifest
        /\ Lists(pub.manifest, commit)
        /\ pub' = [pub EXCEPT !.at = "sync", !.revision = Len(hub)]
        /\ UNCHANGED <<run, stages, models, broken, local, report, hub, lock>>
    BY <1>5 DEF PublishVerifies, RemoteVerified
  <2>2. Len(hub) \in Nat
    BY <1>1
  <2>3. /\ pub' \in PubSet /\ pub'.at = "sync" /\ pub'.manifest = pub.manifest
        /\ pub'.touched = pub.touched /\ pub'.revision = Len(hub)
    BY <1>1, <2>1, <2>2 DEF PubSet
  <2>4. PublishesOne'
    <3>1. Len(hub) \in DOMAIN hub
      <4>1. hub # <<>>
        BY <1>1 DEF TypeOK
      <4> QED BY <1>1, <4>1
    <3>2. /\ pub.manifest.release_eligible
          /\ ~pub.touched => local.manifest = pub.manifest
      BY <1>1, <2>1 DEF PublishesOne
    <3> QED BY <2>1, <2>3, <3>1, <3>2 DEF PublishesOne, Lists
  <2>5. LockIsTrue'
    BY <1>1, <2>1 DEF LockIsTrue
  <2> QED BY <1>1, <1>2, <2>1, <2>3, <2>4, <2>5, PublishingKeeps
<1>6. CASE PublishSyncs
  <2>1. /\ pub.at = "sync" /\ lock' = Synced(local)
        /\ pub' = [pub EXCEPT !.at = "mark"]
        /\ UNCHANGED <<run, stages, models, broken, local, report, hub>>
    BY <1>6 DEF PublishSyncs
  <2>2. /\ pub' \in PubSet /\ pub'.at = "mark" /\ pub'.manifest = pub.manifest
        /\ pub'.touched = pub.touched /\ pub'.revision = pub.revision
    BY <1>1, <2>1 DEF PubSet
  <2>3. /\ lock' \in LockSet /\ lock'.status # "published"
        /\ lock'.sha256 = local.manifest.int8
    BY <1>1, <2>1, SyncedEntry
  <2>4. PublishesOne'
    BY <1>1, <2>1, <2>2, <2>3 DEF PublishesOne
  <2>5. LockIsTrue'
    BY <2>3 DEF LockIsTrue
  <2> QED BY <1>1, <1>2, <2>1, <2>2, <2>3, <2>4, <2>5, PublishingKeeps
<1>7. CASE PublishMarks
  <2>1. /\ pub.at = "mark" /\ pub' = Idle
        /\ lock' = [lock EXCEPT !.status = "published", !.revision = pub.revision,
                                !.touched = pub.touched]
        /\ UNCHANGED <<run, stages, models, broken, local, report, hub>>
    BY <1>7 DEF PublishMarks
  <2>2. /\ lock' \in LockSet /\ lock'.sha256 = lock.sha256
        /\ lock'.revision = pub.revision /\ lock'.touched = pub.touched
    BY <1>1, <2>1 DEF LockSet, PubSet
  <2>3. PublishesOne'
    BY <2>1 DEF PublishesOne, Idle
  <2>4. LockIsTrue'
    <3>1. pub.revision \in DOMAIN hub /\ pub.manifest.release_eligible
      BY <1>1, <2>1 DEF PublishesOne
    <3>2. ~pub.touched => /\ hub[pub.revision].manifest = pub.manifest
                          /\ Lists(pub.manifest, hub[pub.revision])
                          /\ lock.sha256 = pub.manifest.int8
      BY <1>1, <2>1 DEF PublishesOne
    <3>3. ~pub.touched =>
            /\ Lists(hub[pub.revision].manifest, hub[pub.revision])
            /\ hub[pub.revision].manifest.release_eligible
            /\ lock.sha256 = hub[pub.revision].int8
      BY <3>1, <3>2 DEF Lists
    <3> QED BY <2>1, <2>2, <3>1, <3>3 DEF LockIsTrue, Lists
  <2>5. pub' \in PubSet /\ pub'.manifest = NoManifest
    BY <2>1, NothingTypes DEF Idle
  <2> QED BY <1>1, <2>1, <2>2, <2>3, <2>4, <2>5, PublishingKeeps
<1>8. CASE PublishFails
  <2>1. /\ pub' = Idle
        /\ UNCHANGED <<run, stages, models, broken, local, report, hub, lock>>
    BY <1>8 DEF PublishFails
  <2>2. PublishesOne' /\ LockIsTrue'
    BY <1>1, <2>1 DEF PublishesOne, Idle, LockIsTrue
  <2>3. pub' \in PubSet /\ pub'.manifest = NoManifest
    BY <2>1, NothingTypes DEF Idle
  <2> QED BY <1>1, <2>1, <2>2, <2>3, PublishingKeeps
<1>9. CASE ForeignPush
  <2> DEFINE head == hub[Len(hub)]
  <2>1. PICK commit \in {[head EXCEPT !.int8 = Foreign],
                         [head EXCEPT !.manifest = NoManifest], head} :
          hub' = Append(hub, commit)
    BY <1>9 DEF ForeignPush
  <2>2. /\ UNCHANGED <<run, stages, models, broken, local, report, lock, pub>>
        /\ Len(hub) > 1
    BY <1>9 DEF ForeignPush
  <2>3. head \in ArtifactSet /\ head.manifest \in Manifests
    <3>1. Len(hub) \in DOMAIN hub
      BY <1>1, <2>2
    <3> QED BY <1>1, <3>1 DEF Manifests
  <2>4. Foreign \in Nat
    BY ReleaseAssumption DEF Foreign
  <2>5. /\ commit \in ArtifactSet
        /\ commit.manifest \in Manifests \cup {NoManifest}
    <3> HIDE DEF head
    <3> QED BY <2>1, <2>3, <2>4, NothingTypes DEF ArtifactSet
  <2>6. LockIsTrue' /\ \A i \in DOMAIN hub : i \in DOMAIN hub' /\ hub'[i] = hub[i]
    BY <1>1, <2>1, <2>2, <2>5, LockStaysTrue
  <2>7. PublishesOne'
    BY <1>1, <2>2, <2>6 DEF PublishesOne
  <2> QED BY <1>1, <1>2, <2>1, <2>2, <2>5, <2>6, <2>7, PublishingKeeps
<1> QED BY <1>3, <1>4, <1>5, <1>6, <1>7, <1>8, <1>9

LEMMA ReleaseBegins ==
  ASSUME Init
  PROVE  IInv
<1> USE DEF Init, StartsFrom
<1>1. TypeOK
  BY NothingTypes DEF TypeOK, LockSet
<1>2. VolumeInv /\ ReportIsOfOneModel
  BY DEF VolumeInv, Past, RunIsOfOneModel, ReportIsOfOneModel, EmptyRun,
         NoEvaluation, NoReport, NoBackends, NotRun
<1>3. Manifests \subseteq {NoManifest}
  <2>1. run.artifacts.manifest = NoManifest /\ local.manifest = NoManifest
        /\ pub.manifest = NoManifest
    BY DEF EmptyRun, NoArtifacts, Idle
  <2>2. \A i \in DOMAIN hub : hub[i].manifest = NoManifest
    BY DEF NoArtifacts
  <2> QED BY <2>1, <2>2 DEF Manifests
<1>4. ManifestsTrue
  BY <1>3, NoManifestClaimsNothing DEF ManifestsTrue
<1>5. PublishesOne /\ LockIsTrue
  BY DEF PublishesOne, LockIsTrue, Idle
<1> QED BY <1>1, <1>2, <1>4, <1>5 DEF IInv

LEMMA ReleaseStays ==
  ASSUME IInv, [Next]_vars
  PROVE  IInv'
<1>1. CASE UNCHANGED vars
  BY <1>1 DEF vars, IInv, TypeOK, VolumeInv, Past, RunIsOfOneModel,
              ReportIsOfOneModel, ManifestsTrue, Manifests, OwnEvaluation,
              Parity, BackendPassed, PublishesOne, LockIsTrue, Lists
<1>2. CASE Next
  BY <1>2, StagesKeep, DownloadKeeps, VerifyParityKeeps, AttachTraceKeeps,
     NewReportKeeps, PublishStepsKeep DEF Next
<1> QED BY <1>1, <1>2

-----------------------------------------------------------------------------
(* The theorems *)

(* The records of the release chain keep their types, whatever stages are  *)
(* run, forced or broken off (modal_app.py, export_onnx.py, publish.py).   *)
THEOREM ReleaseTypeCorrect == Spec => []TypeOK
<1>1. Init => IInv
  BY ReleaseBegins
<1>2. IInv /\ [Next]_vars => IInv'
  BY ReleaseStays
<1>3. IInv => TypeOK
  BY DEF IInv
<1> QED BY <1>1, <1>2, <1>3, PTL DEF Spec

(* A release-eligible manifest rests on the passed evaluation, the         *)
(* thresholds and the training record of its own model, unless the train   *)
(* stage of that model broke off (modal_app.py train_remote,               *)
(* export_onnx.py release_checks).                                         *)
THEOREM EligibleIsEvaluated == Spec => []ReleasedIsEvaluated
<1>1. Init => IInv
  BY ReleaseBegins
<1>2. IInv /\ [Next]_vars => IInv'
  BY ReleaseStays
<1>3. IInv => ReleasedIsEvaluated
  BY DEF IInv, ManifestsTrue, OwnEvaluation, ReleasedIsEvaluated
<1> QED BY <1>1, <1>2, <1>3, PTL DEF Spec

(* Every backend of a release-eligible manifest passed on vectors of the   *)
(* model it ships, however reports were made, reused and begun again       *)
(* (verify.mjs, export_onnx.py cross_runtime_status).                      *)
THEOREM EligibleIsVerified == Spec => []ParityIsOfModel
<1>1. Init => IInv
  BY ReleaseBegins
<1>2. IInv /\ [Next]_vars => IInv'
  BY ReleaseStays
<1>3. IInv => ParityIsOfModel
  BY DEF IInv, ManifestsTrue, Parity, ParityIsOfModel
<1> QED BY <1>1, <1>2, <1>3, PTL DEF Spec

(* A published lock pins a commit that holds the files of one eligible     *)
(* manifest and names its model, whoever else pushes to the branch, unless *)
(* the directory was replaced while it was being published (publish.py,    *)
(* sync_model_lock.py).                                                    *)
THEOREM PublishedLockIsTrue == Spec => []LockIsTrue
<1>1. Init => IInv
  BY ReleaseBegins
<1>2. IInv /\ [Next]_vars => IInv'
  BY ReleaseStays
<1>3. IInv => LockIsTrue
  BY DEF IInv
<1> QED BY <1>1, <1>2, <1>3, PTL DEF Spec

-----------------------------------------------------------------------------
(* The data of the detector.  A tree that is verified was converted from    *)
(* rows that were accepted, and keeps that wherever it is copied.          *)

TreeOK(t) ==
  /\ t \in Trees
  /\ t.verified => MarkersApart(t.manifest) /\ \A s \in t.manifest : FullyLabelled(s)

MaybeTree(t) == t = None \/ TreeOK(t)

Rendered(g) ==
  /\ g \in Renderings
  /\ g.train.templates \intersect g.validation.templates = {}

VolumeOK(v) ==
  /\ v \in Volumes
  /\ MaybeTree(v.input) /\ MaybeTree(v.supplemental)
  /\ v.synthetic # None => Rendered(v.synthetic)
  /\ v.composed # None => Rendered(v.composed.synthetic)

\* What a stage is to be: the copy of what its contract describes, with
\* nothing held out among what is trained on.
Parted(screens) ==
  \A s \in Of("train", screens), t \in Of("test", screens) :
     s.identity # t.identity /\ s.marker # t.marker

StageOK(d) ==
  /\ d \in Stages
  /\ d.contract \in Contracts /\ Rendered(d.synthetic)
  /\ d.webpii = d.contract.webpii /\ d.synthetic = d.contract.synthetic
  /\ d.supplemental = IF d.contract.supplemental = None THEN {} ELSE d.contract.supplemental
  /\ Parted(d.supplemental) /\ \A s \in d.supplemental : FullyLabelled(s)

MaybeStage(d) == d = None \/ StageOK(d)

PrepOK ==
  /\ prep \in {IdlePrep} \cup Preparing
  /\ prep.pc # "idle" => MaybeTree(prep.temporary) /\ MaybeTree(prep.backup)
  /\ prep.pc = "supplement" => view.input # None
  /\ prep.pc = "moving" => prep.temporary # None
  /\ prep.pc \in {"clearing", "webpii", "synthetic", "composing", "describing"} =>
       (view.input # None => view.supplemental # None)
  /\ prep.pc \in {"composing", "describing"} => Rendered(view.synthetic)

\* The former stage is kept until the new one is verified.
CopyingOK(t) ==
  /\ VolumeOK(t.source) /\ SourceContract(t.source) /\ MaybeStage(t.had)
  /\ t.pc \in {"copied", "moving"} =>
       StageOK(t.temporary) /\ t.temporary.contract = t.source.composed
  /\ t.pc \in {"copying", "copied"} => disk = t.had
  /\ t.pc \in {"moving", "verifying"} => t.backup = t.had
  /\ t.pc = "verifying" => StageOK(disk)

TrainerOK ==
  /\ trainer \in {IdleTrainer} \cup [pc : {"staged"}, using : Contracts] \cup Staging
  /\ trainer.pc \in {"copying", "copied", "moving", "verifying"} => CopyingOK(trainer)
  /\ Training => StageOK(disk) /\ disk.contract = trainer.using

DataInv ==
  /\ published \in Publications
  /\ audit \in Optional([unmapped : SUBSET Keys])
  /\ VolumeOK(volume) /\ VolumeOK(view) /\ PrepOK
  /\ MaybeStage(disk) /\ TrainerOK
  /\ uploads \in 0..MaxUploads /\ containers \in 0..MaxContainers

LEMMA AcceptedIsLabelled ==
  ASSUME NEW rows \in Supplies, NEW r \in rows, RowAccepted(r)
  PROVE  FullyLabelled(Screen(r))
<1>1. ASSUME NEW e \in r.elements, InImage(e), Mapped(e.key)
      PROVE  Disposition[e.key] \in Screen(r).labels
  <2>1. e.visible /\ Consistent(e)
    BY <1>1 DEF RowAccepted, Consistent
  <2>2. e \in {f \in r.elements : f.visible /\ InImage(f) /\ Mapped(f.key)}
    BY <1>1, <2>1
  <2>3. Disposition[e.key] \in Labels(r)
    BY <2>2 DEF Labels
  <2>4. QED
    BY <2>3 DEF Screen
<1>2. QED
  BY <1>1 DEF FullyLabelled

\* What the adapter writes.
LEMMA ConvertedIsOK ==
  ASSUME NEW rows \in Supplies, NEW lost
  PROVE  TreeOK(Tree(Accepted(rows), {Screen(r) : r \in rows}, {Screen(r) : r \in rows} \ lost))
<1> DEFINE screens == {Screen(r) : r \in rows}
           tree == Tree(Accepted(rows), screens, screens \ lost)
<1>1. screens \subseteq Screens
  BY DEF Screens
<1>2. Accepted(rows) \in BOOLEAN
  BY DEF Accepted, IdentitiesApart, MarkersApart
<1>3. tree = [verified |-> Accepted(rows), manifest |-> screens, files |-> screens \ lost]
  BY DEF Tree
<1>4. [verified |-> Accepted(rows), manifest |-> screens, files |-> screens \ lost] \in Trees
  <2> HIDE DEF screens
  <2>1. screens \ lost \subseteq Screens
    BY <1>1
  <2>2. QED
    BY <1>1, <1>2, <2>1 DEF Trees
<1>5. ASSUME Accepted(rows)
      PROVE  MarkersApart(screens) /\ \A s \in screens : FullyLabelled(s)
  <2>1. MarkersApart(screens)
    BY <1>5 DEF Accepted, MarkersApart, Screen
  <2>2. \A s \in screens : FullyLabelled(s)
    BY <1>5, AcceptedIsLabelled DEF Accepted
  <2>3. QED
    BY <2>1, <2>2
<1> HIDE DEF screens
<1>6. tree.verified = Accepted(rows) /\ tree.manifest = screens
  BY <1>3
<1> HIDE DEF tree
<1>7. TreeOK(tree)
  BY <1>3, <1>4, <1>5, <1>6 DEF TreeOK
<1>8. QED
  BY <1>7 DEF tree, screens

\* A tree that is validated may be trained on.
LEMMA ValidIsParted ==
  ASSUME NEW t, TreeOK(t), Valid(t)
  PROVE  /\ t.files = t.manifest /\ t.files \in SUBSET Screens
         /\ Parted(t.files) /\ \A s \in t.files : FullyLabelled(s)
<1>1. t.files = t.manifest /\ t.files \in SUBSET Screens
  BY DEF TreeOK, Valid, Trees
<1>2. MarkersApart(t.files) /\ IdentitiesApart(t.files)
  BY <1>1 DEF TreeOK, Valid
<1>3. Parted(t.files)
  BY <1>2 DEF Parted, MarkersApart, IdentitiesApart, Of
<1>4. QED
  BY <1>1, <1>3 DEF TreeOK, Valid

\* The volume, field by field.
LEMMA VolumeShape ==
  ASSUME NEW v \in Volumes
  PROVE  v = [input |-> v.input, supplemental |-> v.supplemental, webpii |-> v.webpii,
              synthetic |-> v.synthetic, yaml |-> v.yaml, composed |-> v.composed]
BY DEF Volumes

LEMMA VolumeBuilt ==
  ASSUME NEW v \in Volumes, VolumeOK(v), NEW w,
         NEW i, NEW s, NEW b, NEW g, NEW y, NEW c,
         w = [input |-> i, supplemental |-> s, webpii |-> b, synthetic |-> g,
              yaml |-> y, composed |-> c],
         MaybeTree(i), MaybeTree(s),
         b \in Optional(SUBSET Screens), g = None \/ Rendered(g),
         y \in Optional(SUBSET {"webpii", "synthetic", "supplemental"}),
         c = None \/ (c \in Contracts /\ Rendered(c.synthetic))
  PROVE  VolumeOK(w)
<1>1. i \in Optional(Trees) /\ s \in Optional(Trees) /\ g \in Optional(Renderings)
      /\ c \in Optional(Contracts)
  BY DEF MaybeTree, TreeOK, Optional, Rendered
<1>2. w \in Volumes
  BY <1>1 DEF Volumes
<1>3. w.input = i /\ w.supplemental = s /\ w.synthetic = g /\ w.composed = c
  OBVIOUS
<1>4. QED
  BY <1>2, <1>3 DEF VolumeOK

LEMMA VolumeFields ==
  ASSUME NEW v, VolumeOK(v)
  PROVE  /\ v \in Volumes /\ MaybeTree(v.input) /\ MaybeTree(v.supplemental)
         /\ v.webpii \in Optional(SUBSET Screens)
         /\ v.synthetic = None \/ Rendered(v.synthetic)
         /\ v.yaml \in Optional(SUBSET {"webpii", "synthetic", "supplemental"})
         /\ v.composed = None \/ (v.composed \in Contracts /\ Rendered(v.composed.synthetic))
BY DEF VolumeOK, Volumes, Optional

Counters ==
  /\ published \in Publications
  /\ audit \in Optional([unmapped : SUBSET Keys])
  /\ uploads \in 0..MaxUploads /\ containers \in 0..MaxContainers

LEMMA DataStart == ASSUME DataInit PROVE DataInv
<1> USE DEF DataInit
<1>1. VolumeOK(volume)
  <2>1. volume \in Volumes
    BY DEF Volumes, Optional
  <2>2. QED
    BY <2>1 DEF VolumeOK, MaybeTree
<1>2. PrepOK
  BY DEF PrepOK, IdlePrep
<1>3. TrainerOK /\ MaybeStage(disk)
  BY DEF TrainerOK, IdleTrainer, Training, MaybeStage
<1>4. MaxUploads \in Nat /\ MaxContainers \in Nat
  BY DataAssumption
<1>5. QED
  BY <1>1, <1>2, <1>3, <1>4 DEF DataInv, Optional

\* The preparing container and the uploads leave the training container alone.
TrainerPart == MaybeStage(disk) /\ TrainerOK

LEMMA TrainerKept ==
  ASSUME TrainerPart, UNCHANGED <<disk, trainer>>
  PROVE  TrainerPart'
BY DEF TrainerPart, TrainerOK, CopyingOK, Training

LEMMA UploadKeeps ==
  ASSUME DataInv, NEW rows \in Supplies, NEW lost, Upload(rows, lost)
  PROVE  DataInv'
<1> DEFINE screens == {Screen(r) : r \in rows}
           tree == Tree(Accepted(rows), screens, screens \ lost)
<1>1. TreeOK(tree)
  BY ConvertedIsOK
<1>2. volume' = [volume EXCEPT !.input = tree]
  BY DEF Upload
<1> HIDE DEF screens, tree
<1>3. VolumeOK(volume')
  <2>1. volume \in Volumes /\ VolumeOK(volume)
    BY DEF DataInv, VolumeOK
  <2>2. volume' = [input |-> tree, supplemental |-> volume.supplemental,
                   webpii |-> volume.webpii, synthetic |-> volume.synthetic,
                   yaml |-> volume.yaml, composed |-> volume.composed]
    BY <1>2, <2>1, VolumeShape
  <2>3. QED
    BY <1>1, <2>1, <2>2, VolumeBuilt, VolumeFields DEF MaybeTree
<1>4. view' = volume' /\ prep' = prep /\ prep.pc = "idle" /\ UNCHANGED <<published, audit, disk, trainer, containers>>
  BY DEF Upload
<1>5. PrepOK'
  BY <1>4 DEF DataInv, PrepOK, IdlePrep, Preparing
<1>6. uploads' \in 0..MaxUploads
  BY DataAssumption DEF DataInv, Upload
<1>7. TrainerPart'
  BY <1>4, TrainerKept DEF DataInv, TrainerPart
<1>8. QED
  BY <1>3, <1>4, <1>5, <1>6, <1>7 DEF DataInv, TrainerPart

LEMMA AuditKeeps ==
  ASSUME DataInv, Audit
  PROVE  DataInv'
<1>1. Unmapped(Elements(published)) \subseteq Keys
  BY DEF Unmapped, Elements, Keys, DataInv
<1>2. TrainerPart'
  BY TrainerKept DEF DataInv, TrainerPart, Audit
<1>3. audit' \in Optional([unmapped : SUBSET Keys])
  BY <1>1 DEF Audit, Optional
<1>4. QED
  BY <1>2, <1>3 DEF DataInv, TrainerPart, Audit, PrepOK

-----------------------------------------------------------------------------
(* The preparation.                                                        *)

\* A step of the preparation changes its own state, the view and the volume.
LEMMA PrepareFrame ==
  ASSUME DataInv, UNCHANGED <<published, audit, disk, trainer, uploads>>,
         containers' \in 0..MaxContainers,
         VolumeOK(volume'), VolumeOK(view'), PrepOK'
  PROVE  DataInv'
<1>1. TrainerPart'
  BY TrainerKept DEF DataInv, TrainerPart
<1>2. QED
  BY <1>1 DEF DataInv, TrainerPart

LEMMA PrepareStartKeeps ==
  ASSUME DataInv, NEW force \in BOOLEAN, NEW required \in BOOLEAN, PrepareStart(force, required)
  PROVE  DataInv'
<1> USE DEF PrepareStart
<1>1. containers' \in 0..MaxContainers
  BY DataAssumption DEF DataInv
<1>2. VolumeOK(volume') /\ VolumeOK(view')
  BY DEF DataInv
<1>3. prep' \in Preparing
  BY DEF Preparing, Optional
<1>4. PrepOK'
  BY <1>3 DEF PrepOK, MaybeTree
<1>5. QED
  BY <1>1, <1>2, <1>4, PrepareFrame

LEMMA ReuseSupplementKeeps ==
  ASSUME DataInv, ReuseSupplement
  PROVE  DataInv'
<1> USE DEF ReuseSupplement
<1>1. prep \in Preparing
  BY DEF DataInv, PrepOK, IdlePrep
<1>2. prep' \in Preparing /\ prep'.pc = "clearing" /\ prep'.temporary = prep.temporary
      /\ prep'.backup = prep.backup
  BY <1>1 DEF Preparing
<1>3. PrepOK'
  BY <1>1, <1>2 DEF DataInv, PrepOK
<1>4. QED
  BY <1>3, PrepareFrame DEF DataInv

LEMMA CopySupplementKeeps ==
  ASSUME DataInv, CopySupplement
  PROVE  DataInv'
<1> USE DEF CopySupplement
<1>1. prep \in Preparing /\ VolumeOK(view) /\ view \in Volumes
  BY DEF DataInv, PrepOK, IdlePrep, VolumeOK
<1>2. VolumeOK(view')
  <2>1. view' = [input |-> view.input, supplemental |-> None, webpii |-> view.webpii,
                 synthetic |-> view.synthetic, yaml |-> view.yaml, composed |-> view.composed]
    BY <1>1, VolumeShape
  <2>2. QED
    BY <1>1, <2>1, VolumeBuilt, VolumeFields DEF MaybeTree
<1>3. view.input # None /\ MaybeTree(view.input) /\ MaybeTree(view.supplemental)
  BY <1>1, VolumeFields DEF DataInv, PrepOK
<1>4. view.input \in Optional(Trees) /\ view.supplemental \in Optional(Trees)
  BY <1>3 DEF MaybeTree, TreeOK, Optional
<1>5. /\ prep' \in Preparing /\ prep'.pc = "moving"
      /\ prep'.temporary = view.input /\ prep'.backup = view.supplemental
  BY <1>1, <1>4 DEF Preparing
<1>6. PrepOK'
  BY <1>3, <1>5 DEF PrepOK
<1>7. QED
  BY <1>2, <1>6, PrepareFrame DEF DataInv

LEMMA MoveSupplementKeeps ==
  ASSUME DataInv, MoveSupplement
  PROVE  DataInv'
<1> USE DEF MoveSupplement
<1>1. prep \in Preparing /\ VolumeOK(view) /\ view \in Volumes
  BY DEF DataInv, PrepOK, IdlePrep, VolumeOK
<1>2. prep.temporary # None /\ MaybeTree(prep.temporary)
  BY <1>1 DEF DataInv, PrepOK
<1>3. view' = [input |-> view.input, supplemental |-> prep.temporary, webpii |-> view.webpii,
               synthetic |-> view.synthetic, yaml |-> view.yaml, composed |-> view.composed]
  BY <1>1, VolumeShape
<1>4. VolumeOK(view')
  BY <1>1, <1>2, <1>3, VolumeBuilt, VolumeFields
<1>5. /\ prep' \in Preparing /\ prep'.pc = "clearing"
      /\ prep'.temporary = None /\ prep'.backup = None
  BY <1>1 DEF Preparing, Optional
<1>6. PrepOK'
  BY <1>2, <1>3, <1>5 DEF PrepOK, MaybeTree
<1>7. QED
  BY <1>4, <1>6, PrepareFrame DEF DataInv

LEMMA ClearedIsOK ==
  ASSUME NEW v, v \in Volumes, VolumeOK(v)
  PROVE  /\ VolumeOK(Cleared(v))
         /\ Cleared(v).input = v.input /\ Cleared(v).supplemental = v.supplemental
<1> DEFINE Rebuilt(b, g, y, c) ==
      [input |-> v.input, supplemental |-> v.supplemental, webpii |-> b,
       synthetic |-> g, yaml |-> y, composed |-> c]
<1>1. v = Rebuilt(v.webpii, v.synthetic, v.yaml, v.composed)
  BY VolumeShape
<1>2. \/ Cleared(v) = Rebuilt(None, v.synthetic, v.yaml, v.composed)
      \/ Cleared(v) = Rebuilt(v.webpii, None, v.yaml, v.composed)
      \/ Cleared(v) = Rebuilt(v.webpii, v.synthetic, None, None)
  BY <1>1 DEF Cleared
<1>3. CASE Cleared(v) = Rebuilt(None, v.synthetic, v.yaml, v.composed)
  BY <1>3, VolumeBuilt, VolumeFields DEF Optional
<1>4. CASE Cleared(v) = Rebuilt(v.webpii, None, v.yaml, v.composed)
  BY <1>4, VolumeBuilt, VolumeFields DEF Optional
<1>5. CASE Cleared(v) = Rebuilt(v.webpii, v.synthetic, None, None)
  BY <1>5, VolumeBuilt, VolumeFields DEF Optional
<1>6. QED
  BY <1>2, <1>3, <1>4, <1>5

LEMMA ClearForcedKeeps ==
  ASSUME DataInv, ClearForced
  PROVE  DataInv'
<1> USE DEF ClearForced
<1>1. prep \in Preparing /\ VolumeOK(view) /\ view \in Volumes
  BY DEF DataInv, PrepOK, IdlePrep, VolumeOK
<1>2. /\ prep' \in Preparing /\ prep'.pc \in {"clearing", "webpii"}
      /\ prep'.temporary = prep.temporary /\ prep'.backup = prep.backup
  BY <1>1 DEF Preparing
<1>3. VolumeOK(view') /\ view'.input = view.input /\ view'.supplemental = view.supplemental
  BY <1>1, ClearedIsOK
<1>4. PrepOK'
  BY <1>1, <1>2, <1>3 DEF DataInv, PrepOK
<1>5. QED
  BY <1>3, <1>4, PrepareFrame DEF DataInv

LEMMA PrepareWebPIIKeeps ==
  ASSUME DataInv, NEW rows \in SUBSET published, PrepareWebPII(rows)
  PROVE  DataInv'
<1> USE DEF PrepareWebPII
<1>1. prep \in Preparing /\ VolumeOK(view) /\ view \in Volumes
  BY DEF DataInv, PrepOK, IdlePrep, VolumeOK
<1>2. {Screen(r) : r \in rows} \in SUBSET Screens
  <2>1. published \in Publications
    BY DEF DataInv
  <2> HIDE DEF PrepareWebPII
  <2>2. ASSUME NEW r \in rows PROVE r \in (UNION Supplies) \cup UNION Publications
    <3>1. r \in published
      OBVIOUS
    <3>2. r \in UNION Publications
      BY <2>1, <3>1
    <3>3. QED
      BY <3>2
  <2>3. QED
    BY <2>2 DEF Screens
<1>3. view' = [input |-> view.input, supplemental |-> view.supplemental,
               webpii |-> {Screen(r) : r \in rows}, synthetic |-> view.synthetic,
               yaml |-> view.yaml, composed |-> view.composed]
  BY <1>1, VolumeShape
<1>4. VolumeOK(view')
  <2>1. {Screen(r) : r \in rows} \in Optional(SUBSET Screens)
    BY <1>2 DEF Optional
  <2> HIDE DEF PrepareWebPII
  <2>2. QED
    BY <1>1, <1>3, <2>1, VolumeBuilt, VolumeFields
<1>5. /\ prep' \in Preparing /\ prep'.pc = "synthetic"
      /\ prep'.temporary = prep.temporary /\ prep'.backup = prep.backup
  BY <1>1 DEF Preparing
<1>6. PrepOK'
  BY <1>1, <1>3, <1>5 DEF DataInv, PrepOK
<1>7. QED
  BY <1>4, <1>6, PrepareFrame DEF DataInv

LEMMA PrepareSyntheticKeeps ==
  ASSUME DataInv, NEW rendering \in Renderings, PrepareSynthetic(rendering)
  PROVE  DataInv'
<1> USE DEF PrepareSynthetic
<1>1. prep \in Preparing /\ VolumeOK(view) /\ view \in Volumes
  BY DEF DataInv, PrepOK, IdlePrep, VolumeOK
<1>2. Rendered(rendering)
  BY DEF Rendered
<1>3. view' = [input |-> view.input, supplemental |-> view.supplemental,
               webpii |-> view.webpii, synthetic |-> rendering,
               yaml |-> view.yaml, composed |-> view.composed]
  BY <1>1, VolumeShape
<1>4. VolumeOK(view')
  BY <1>1, <1>2, <1>3, VolumeBuilt, VolumeFields
<1>5. /\ prep' \in Preparing /\ prep'.pc = "composing"
      /\ prep'.temporary = prep.temporary /\ prep'.backup = prep.backup
  BY <1>1 DEF Preparing
<1>6. PrepOK'
  BY <1>1, <1>2, <1>3, <1>5 DEF DataInv, PrepOK
<1>7. QED
  BY <1>4, <1>6, PrepareFrame DEF DataInv

LEMMA WriteYamlKeeps ==
  ASSUME DataInv, WriteYaml
  PROVE  DataInv'
<1> USE DEF WriteYaml
<1>1. prep \in Preparing /\ VolumeOK(view) /\ view \in Volumes
  BY DEF DataInv, PrepOK, IdlePrep, VolumeOK
<1>2. YamlOf(view) \in Optional(SUBSET {"webpii", "synthetic", "supplemental"})
  BY DEF YamlOf, Optional
<1>3. view' = [input |-> view.input, supplemental |-> view.supplemental,
               webpii |-> view.webpii, synthetic |-> view.synthetic,
               yaml |-> YamlOf(view), composed |-> view.composed]
  BY <1>1, VolumeShape
<1>4. VolumeOK(view')
  BY <1>1, <1>2, <1>3, VolumeBuilt, VolumeFields
<1>5. /\ prep' \in Preparing /\ prep'.pc = "describing"
      /\ prep'.temporary = prep.temporary /\ prep'.backup = prep.backup
  BY <1>1 DEF Preparing
<1>6. PrepOK'
  BY <1>1, <1>3, <1>5 DEF DataInv, PrepOK
<1>7. QED
  BY <1>4, <1>6, PrepareFrame DEF DataInv

LEMMA ComposeKeeps ==
  ASSUME DataInv, Compose
  PROVE  DataInv'
<1> USE DEF Compose
<1> DEFINE tree == IF view.input = None THEN None ELSE view.supplemental.manifest
           composed == [yaml |-> view.yaml, webpii |-> view.webpii,
                        synthetic |-> view.synthetic, supplemental |-> tree]
<1>1. prep \in Preparing /\ VolumeOK(view) /\ view \in Volumes
  BY DEF DataInv, PrepOK, IdlePrep, VolumeOK
<1>2. Rendered(view.synthetic)
  BY DEF DataInv, PrepOK
<1>3. tree \in Optional(SUBSET Screens)
  <2>1. CASE view.input = None
    BY <2>1 DEF Optional
  <2>2. CASE view.input # None
    <3>1. view.supplemental # None /\ MaybeTree(view.supplemental)
      BY <1>1, <2>2, VolumeFields DEF DataInv, PrepOK
    <3>2. QED
      BY <2>2, <3>1 DEF MaybeTree, TreeOK, Trees, Optional
  <2>3. QED
    BY <2>1, <2>2
<1>4. view' = [view EXCEPT !.composed = composed]
  OBVIOUS
<1> HIDE DEF tree
<1>5. composed \in Contracts /\ Rendered(composed.synthetic)
  <2>1. /\ view.yaml \in Optional(SUBSET {"webpii", "synthetic", "supplemental"})
        /\ view.webpii \in Optional(SUBSET Screens)
        /\ view.synthetic \in Optional(Renderings)
    BY <1>1, VolumeFields DEF Optional, Rendered
  <2>2. composed \in Contracts
    BY <1>3, <2>1 DEF Contracts
  <2>3. QED
    BY <1>2, <2>2
<1> HIDE DEF composed
<1>6. view' = [input |-> view.input, supplemental |-> view.supplemental,
               webpii |-> view.webpii, synthetic |-> view.synthetic,
               yaml |-> view.yaml, composed |-> composed]
  BY <1>1, <1>4, VolumeShape
<1>7. VolumeOK(view')
  BY <1>1, <1>5, <1>6, VolumeBuilt, VolumeFields
<1>8. VolumeOK(volume')
  BY <1>7
<1>9. PrepOK'
  BY DEF PrepOK, IdlePrep
<1>10. QED
  BY <1>7, <1>8, <1>9, PrepareFrame DEF DataInv

LEMMA PrepareStopKeeps ==
  ASSUME DataInv, NEW killed \in BOOLEAN, PrepareStop(killed)
  PROVE  DataInv'
<1> USE DEF PrepareStop
<1>1. prep \in Preparing /\ VolumeOK(view) /\ view \in Volumes
  BY DEF DataInv, PrepOK, IdlePrep, VolumeOK
<1>2. VolumeOK(view')
  <2>1. CASE ~killed /\ prep.pc = "moving"
    <3>1. view' = [view EXCEPT !.supplemental = prep.backup]
      BY <2>1
    <3>2. view' = [input |-> view.input, supplemental |-> prep.backup,
                   webpii |-> view.webpii, synthetic |-> view.synthetic,
                   yaml |-> view.yaml, composed |-> view.composed]
      BY <1>1, <3>1, VolumeShape
    <3>3. MaybeTree(prep.backup)
      BY DEF DataInv, PrepOK
    <3> HIDE DEF PrepareStop
    <3>4. QED
      BY <1>1, <3>2, <3>3, VolumeBuilt, VolumeFields
  <2>2. CASE ~(~killed /\ prep.pc = "moving")
    BY <1>1, <2>2
  <2>3. QED
    BY <2>1, <2>2
<1>3. VolumeOK(volume')
  BY <1>2 DEF DataInv
<1>4. PrepOK'
  BY DEF PrepOK, IdlePrep
<1>5. QED
  BY <1>2, <1>3, <1>4, PrepareFrame DEF DataInv

-----------------------------------------------------------------------------
(* The stage.                                                              *)

\* A step of the training container leaves the volume alone.
LEMMA StageFrame ==
  ASSUME DataInv, UNCHANGED <<published, audit, volume, view, prep, uploads>>,
         containers' \in 0..MaxContainers, MaybeStage(disk'), TrainerOK'
  PROVE  DataInv'
BY DEF DataInv, PrepOK

LEMMA StagingFields ==
  ASSUME NEW t \in Staging
  PROVE  /\ t.pc \in {"copying", "copied", "moving", "verifying"} /\ t.using = None
         /\ t.source \in Volumes /\ t.had \in Optional(Stages)
         /\ t.temporary \in Optional(Stages) /\ t.backup \in Optional(Stages)
BY DEF Staging

LEMMA StagingIs ==
  ASSUME TrainerOK, trainer.pc \in {"copying", "copied", "moving", "verifying"}
  PROVE  trainer \in Staging /\ CopyingOK(trainer)
BY DEF TrainerOK, IdleTrainer, Staging

LEMMA ContractNamed ==
  ASSUME NEW v, VolumeOK(v), SourceContract(v)
  PROVE  v.composed \in Contracts /\ Rendered(v.composed.synthetic)
BY VolumeFields DEF SourceContract

LEMMA StageBeginKeeps ==
  ASSUME DataInv, NEW force \in BOOLEAN, StageBegin(force)
  PROVE  DataInv'
<1> USE DEF StageBegin
<1>1. containers' \in 0..MaxContainers
  BY DataAssumption DEF DataInv
<1>2. /\ VolumeOK(volume) /\ SourceContract(volume) /\ MaybeStage(disk)
      /\ volume.composed \in Contracts /\ volume \in Volumes
  BY ContractNamed DEF DataInv, VolumeOK
<1>3. TrainerOK'
  <2>1. CASE disk # None /\ ~force
    <3>1. /\ trainer' = [pc |-> "staged", using |-> volume.composed]
          /\ disk' = disk /\ disk.contract = volume.composed
      BY <2>1 DEF Verified
    <3>2. StageOK(disk)
      BY <1>2, <2>1 DEF MaybeStage
    <3>3. QED
      BY <1>2, <3>1, <3>2 DEF TrainerOK, Training
  <2>2. CASE ~(disk # None /\ ~force)
    <3>1. trainer' = [pc |-> "copying", using |-> None, source |-> volume,
                      had |-> disk, temporary |-> None, backup |-> None]
      BY <2>2
    <3>2. disk \in Optional(Stages) /\ None \in Optional(Stages)
      BY <1>2 DEF MaybeStage, StageOK, Optional
    <3>3. trainer' \in Staging
      BY <1>2, <3>1, <3>2 DEF Staging
    <3>4. CopyingOK(trainer)'
      BY <1>2, <3>1 DEF CopyingOK
    <3>5. QED
      BY <3>1, <3>3, <3>4 DEF TrainerOK, Training
  <2>3. QED
    BY <2>1, <2>2
<1>4. QED
  BY <1>1, <1>2, <1>3, StageFrame

\* The copy of a volume whose contract holds is what the contract describes.
LEMMA CopyIsContract ==
  ASSUME NEW v, VolumeOK(v), SourceContract(v),
         v.supplemental # None => Valid(v.supplemental)
  PROVE  StageOK(CopyOf(v)) /\ CopyOf(v).contract = v.composed
<1> DEFINE tree == IF v.supplemental = None THEN {} ELSE v.supplemental.files
<1>1. CopyOf(v) = [contract |-> v.composed, webpii |-> v.webpii,
                   synthetic |-> v.synthetic, supplemental |-> tree]
  BY DEF CopyOf
<1>2. v.composed \in Contracts /\ Rendered(v.composed.synthetic)
  BY ContractNamed
<1>3. v.composed.webpii = v.webpii /\ v.composed.synthetic = v.synthetic
  BY DEF SourceContract
<1>4. /\ tree = IF v.composed.supplemental = None THEN {} ELSE v.composed.supplemental
      /\ tree \in SUBSET Screens
      /\ Parted(tree) /\ \A s \in tree : FullyLabelled(s)
  <2>1. CASE v.supplemental = None
    <3>1. v.composed.supplemental = None
      BY <2>1 DEF SourceContract, Sources, Roots
    <3>2. QED
      BY <2>1, <3>1 DEF Parted, Of
  <2>2. CASE v.supplemental # None
    <3>1. v.composed.supplemental # None
      BY <2>2 DEF SourceContract, Sources, Roots
    <3>2. v.composed.supplemental = v.supplemental.manifest
      BY <2>2 DEF SourceContract
    <3>3. TreeOK(v.supplemental) /\ Valid(v.supplemental)
      BY <2>2 DEF VolumeOK, MaybeTree
    <3>4. QED
      BY <2>2, <3>1, <3>2, <3>3, ValidIsParted
  <2>3. QED
    BY <2>1, <2>2
<1>5. v.webpii \in Optional(SUBSET Screens)
  BY VolumeFields
<1> HIDE DEF tree
<1>6. CopyOf(v) \in Stages
  BY <1>1, <1>2, <1>3, <1>4, <1>5 DEF Stages, Optional, Rendered
<1>7. QED
  BY <1>1, <1>2, <1>3, <1>4, <1>6 DEF StageOK

LEMMA CopyKeeps ==
  ASSUME DataInv, Copy
  PROVE  DataInv'
<1> USE DEF Copy
<1>1. trainer \in Staging /\ CopyingOK(trainer)
  BY StagingIs DEF DataInv
<1> DEFINE copy == CopyOf(trainer.source)
<1>2. StageOK(copy) /\ copy.contract = trainer.source.composed
  BY <1>1, CopyIsContract DEF CopyingOK
<1>3. trainer' = [trainer EXCEPT !.pc = "copied", !.temporary = copy]
  OBVIOUS
<1> HIDE DEF copy
<1>4. /\ trainer' \in Staging /\ trainer'.pc = "copied" /\ trainer'.temporary = copy
      /\ trainer'.source = trainer.source /\ trainer'.had = trainer.had
  BY <1>1, <1>2, <1>3 DEF Staging, StageOK, Optional
<1>5. CopyingOK(trainer)'
  BY <1>1, <1>2, <1>4 DEF CopyingOK
<1>6. TrainerOK'
  BY <1>4, <1>5 DEF TrainerOK, Training
<1>7. QED
  BY <1>6, StageFrame DEF DataInv

LEMMA SetAsideKeeps ==
  ASSUME DataInv, SetAside
  PROVE  DataInv'
<1> USE DEF SetAside
<1>1. trainer \in Staging /\ CopyingOK(trainer)
  BY StagingIs DEF DataInv
<1>2. disk = trainer.had
  BY <1>1 DEF CopyingOK
<1>3. /\ trainer' \in Staging /\ trainer'.pc = "moving" /\ trainer'.temporary = trainer.temporary
      /\ trainer'.source = trainer.source /\ trainer'.had = trainer.had
      /\ trainer'.backup = trainer.had
  BY <1>1, <1>2 DEF Staging
<1>4. CopyingOK(trainer)'
  BY <1>1, <1>3 DEF CopyingOK
<1>5. TrainerOK' /\ MaybeStage(disk')
  BY <1>3, <1>4 DEF TrainerOK, Training, MaybeStage
<1>6. QED
  BY <1>5, StageFrame DEF DataInv

LEMMA MoveInKeeps ==
  ASSUME DataInv, MoveIn
  PROVE  DataInv'
<1> USE DEF MoveIn
<1>1. trainer \in Staging /\ CopyingOK(trainer)
  BY StagingIs DEF DataInv
<1>2. StageOK(disk')
  BY <1>1 DEF CopyingOK
<1>3. /\ trainer' \in Staging /\ trainer'.pc = "verifying"
      /\ trainer'.source = trainer.source /\ trainer'.had = trainer.had
      /\ trainer'.backup = trainer.backup
  BY <1>1 DEF Staging, Optional
<1>4. CopyingOK(trainer)'
  BY <1>1, <1>2, <1>3 DEF CopyingOK
<1>5. TrainerOK' /\ MaybeStage(disk')
  BY <1>2, <1>3, <1>4 DEF TrainerOK, Training, MaybeStage
<1>6. QED
  BY <1>5, StageFrame DEF DataInv

LEMMA VerifyStageKeeps ==
  ASSUME DataInv, VerifyStage
  PROVE  DataInv'
<1> USE DEF VerifyStage
<1>1. trainer \in Staging /\ CopyingOK(trainer)
  BY StagingIs DEF DataInv
<1>2. StageOK(disk) /\ disk.contract = trainer.source.composed
  BY <1>1 DEF CopyingOK, Verified
<1>3. trainer.source.composed \in Contracts
  BY <1>1, ContractNamed DEF CopyingOK
<1>4. TrainerOK'
  BY <1>2, <1>3 DEF TrainerOK, Training
<1>5. QED
  BY <1>4, StageFrame DEF DataInv

LEMMA StageFailKeeps ==
  ASSUME DataInv, StageFail
  PROVE  DataInv' /\ disk' = trainer.had
<1> USE DEF StageFail
<1>1. trainer \in Staging /\ CopyingOK(trainer)
  BY StagingIs DEF DataInv
<1>2. disk' = trainer.had
  BY <1>1 DEF CopyingOK, CleanedUp
<1>3. MaybeStage(disk')
  BY <1>1, <1>2 DEF CopyingOK
<1>4. TrainerOK'
  BY DEF TrainerOK, IdleTrainer, Training
<1>5. QED
  BY <1>2, <1>3, <1>4, StageFrame DEF DataInv

LEMMA TrainerEndsKeeps ==
  ASSUME DataInv, TrainerEnds
  PROVE  DataInv'
<1> USE DEF TrainerEnds
<1>1. MaybeStage(disk')
  BY DEF DataInv, MaybeStage
<1>2. TrainerOK'
  BY DEF TrainerOK, IdleTrainer, Training
<1>3. QED
  BY <1>1, <1>2, StageFrame DEF DataInv

-----------------------------------------------------------------------------
(* The theorems about the data.                                            *)

LEMMA DataStutters ==
  ASSUME DataInv, UNCHANGED dataVars
  PROVE  DataInv'
<1> USE DEF dataVars
<1>1. PrepOK' /\ VolumeOK(volume') /\ VolumeOK(view')
  BY DEF DataInv, PrepOK
<1>2. QED
  BY <1>1, PrepareFrame DEF DataInv

LEMMA DataStep == DataInv /\ [DataNext]_dataVars => DataInv'
<1> SUFFICES ASSUME DataInv, [DataNext]_dataVars PROVE DataInv'
  OBVIOUS
<1>1. ASSUME NEW rows \in Supplies, NEW lost, Upload(rows, lost) PROVE DataInv'
  BY <1>1, UploadKeeps
<1>2. ASSUME NEW force \in BOOLEAN, NEW required \in BOOLEAN, PrepareStart(force, required)
      PROVE  DataInv'
  BY <1>2, PrepareStartKeeps
<1>3. ASSUME NEW rows \in SUBSET published, PrepareWebPII(rows) PROVE DataInv'
  BY <1>3, PrepareWebPIIKeeps
<1>4. ASSUME NEW rendering \in Renderings, PrepareSynthetic(rendering) PROVE DataInv'
  BY <1>4, PrepareSyntheticKeeps
<1>5. ASSUME NEW killed \in BOOLEAN, PrepareStop(killed) PROVE DataInv'
  BY <1>5, PrepareStopKeeps
<1>6. ASSUME NEW force \in BOOLEAN, StageBegin(force) PROVE DataInv'
  BY <1>6, StageBeginKeeps
<1>7. CASE Audit \/ ReuseSupplement \/ CopySupplement \/ MoveSupplement \/ ClearForced
  BY <1>7, AuditKeeps, ReuseSupplementKeeps, CopySupplementKeeps, MoveSupplementKeeps,
     ClearForcedKeeps
<1>8. CASE WriteYaml \/ Compose
  BY <1>8, WriteYamlKeeps, ComposeKeeps
<1>9. CASE Copy \/ SetAside \/ MoveIn \/ VerifyStage \/ StageFail \/ TrainerEnds
  BY <1>9, CopyKeeps, SetAsideKeeps, MoveInKeeps, VerifyStageKeeps, StageFailKeeps,
     TrainerEndsKeeps
<1>10. CASE UNCHANGED dataVars
  BY <1>10, DataStutters
<1>11. QED
  BY <1>1, <1>2, <1>3, <1>4, <1>5, <1>6, <1>7, <1>8, <1>9, <1>10 DEF DataNext

LEMMA DataInductive == DataSpec => []DataInv
BY DataStart, DataStep, PTL DEF DataSpec

\* The values of the containers, the volume and the disk (DataTypeOK).
THEOREM DataTypeCorrect == DataSpec => []DataTypeOK
<1>1. DataInv => DataTypeOK
  <2> SUFFICES ASSUME DataInv PROVE DataTypeOK
    OBVIOUS
  <2>1. volume \in Volumes /\ view \in Volumes
    BY DEF DataInv, VolumeOK
  <2>2. disk \in Optional(Stages)
    BY DEF DataInv, MaybeStage, StageOK, Optional
  <2>3. QED
    BY <2>1, <2>2 DEF DataInv, PrepOK, TrainerOK, DataTypeOK
<1>2. QED
  BY <1>1, DataInductive, PTL

\* Nothing held out is trained or selected on (HeldOut): a tree that was
\* accepted keeps its splits apart by persons and markers in every copy.
THEOREM HeldOutStaysOut == DataSpec => []HeldOut
<1>1. DataInv => HeldOut
  BY DEF DataInv, TrainerOK, StageOK, Rendered, Parted, HeldOut
<1>2. QED
  BY <1>1, DataInductive, PTL

\* What a container trains on is complete, labelled, and what it was launched
\* for (TrainsOnContract), however stages are reused, broken off and forced.
THEOREM StagesAreContracts == DataSpec => []TrainsOnContract
<1>1. DataInv => TrainsOnContract
  BY DEF DataInv, TrainerOK, StageOK, TrainsOnContract, StageIsContract, LabelsComplete
<1>2. QED
  BY <1>1, DataInductive, PTL

\* A staging that fails leaves the stage it found (FailureKeepsStage).
THEOREM FailuresKeepStages == DataSpec => FailureKeepsStage
<1>1. DataInv /\ [DataNext]_dataVars => [StageFail => disk' = trainer.had]_dataVars
  BY StageFailKeeps
<1>2. QED
  BY <1>1, DataInductive, PTL DEF DataSpec, FailureKeepsStage
=============================================================================
