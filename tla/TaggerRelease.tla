---------------------------- MODULE TaggerRelease ----------------------------
(***************************************************************************)
(* The release chain of the compact text tagger: the stages that run one   *)
(* at a time against a run directory on the Modal volume (training/        *)
(* modal_app.py: baseline, prepare, train, export), the local directory    *)
(* the artifacts are downloaded to, the cross-runtime report made from it, *)
(* the model hub they are published on and the lock file that pins what    *)
(* was published (publish.py, sync_model_lock.py).                         *)
(*                                                                         *)
(* A stage writes its files one after the other and may break off after    *)
(* any of them, by a failed gate or with its container; what it wrote by   *)
(* then is kept, or nothing of it is.  A stage is therefore the sequence   *)
(* of the directories it passes through, and leaves one of them.           *)
(*                                                                         *)
(* A file is what it was made from: the weights and the quantized model    *)
(* are a model number, thresholds the model they were calibrated on,       *)
(* golden vectors a model and the data their texts come from.  0 and       *)
(* "none" are files that are not there; a hash comparison is an equality.  *)
(***************************************************************************)
EXTENDS Naturals, Sequences

CONSTANTS Backends,    \* REQUIRED_CROSS_RUNTIME_BACKENDS
          Traced,      \* the backends that need a verified provider trace
          Sizes,       \* how much data is prepared: quick or full
          MaxStages,   \* bound: stages run on the volume
          MaxModels,   \* bound: trainings that save a model
          MaxCommits   \* bound: commits on the hub branch

ASSUME ReleaseAssumption ==
  /\ Traced \subseteq Backends
  /\ Sizes \subseteq {"quick", "full"}
  /\ MaxStages \in Nat
  /\ MaxModels \in Nat \ {0}
  /\ MaxCommits \in Nat \ {0}

Models == 1..MaxModels
Foreign == MaxModels + 1     \* a model that somebody else pushed

NoGoldens == [of |-> 0, data |-> "none"]
NoEvaluation == [of |-> 0, passed |-> FALSE]
NotRun == [status |-> "none", on |-> NoGoldens]
NoBackends == [b \in Backends |-> NotRun]
NoReport == [model |-> 0, goldens |-> NoGoldens, backends |-> NoBackends]
NoEvidence == [trained |-> 0, evaluation |-> NoEvaluation,
               backends |-> NoBackends]
NoManifest == [int8 |-> 0, thresholds |-> 0, goldens |-> NoGoldens,
               release_eligible |-> FALSE, evidence |-> NoEvidence]
NoArtifacts == [int8 |-> 0, thresholds |-> 0, goldens |-> NoGoldens,
                manifest |-> NoManifest]
EmptyRun == [baseline |-> "none",
             data |-> "none", ready |-> FALSE, ocr |-> FALSE,
             tokenizer |-> FALSE,
             final |-> 0, trained |-> 0, thresholds |-> 0,
             evaluation |-> NoEvaluation, artifacts |-> NoArtifacts]

VARIABLES run,      \* the run directory on the volume
          stages,   \* the number of stages run so far
          models,   \* the number of models trained so far
          broken,   \* history: the models whose train stage did not finish
          local,    \* the local artifact directory
          report,   \* the cross-runtime report beside it
          hub,      \* the commits of the hub branch, the head last
          lock,     \* the semantic_replacement entry of models.lock.json
          pub       \* the running publish command
vars == <<run, stages, models, broken, local, report, hub, lock, pub>>

Idle == [at |-> "idle", manifest |-> NoManifest, revision |-> 0,
         touched |-> FALSE]

StartsFrom(dir, n) ==
  /\ run = dir /\ stages = 0 /\ models = n /\ broken = {}
  /\ local = NoArtifacts /\ report = NoReport
  /\ hub = <<NoArtifacts>>
  /\ lock = [status |-> "bootstrap", sha256 |-> 0, revision |-> 0,
             touched |-> FALSE]
  /\ pub = Idle

Init == StartsFrom(EmptyRun, 0)

-----------------------------------------------------------------------------
(* The stages on the volume.                                               *)

\* A stage that goes through the directories of one of `paths`.
Leaves(paths) == run' \in UNION {{path[k] : k \in DOMAIN path} : path \in paths}

\* freeze with the evaluation that was supplied, if one was: a manifest is
\* written unless an evaluation was supplied whose gates fail.
Freeze(dir, evaluation) ==
  CASE evaluation = "missing" -> [dir EXCEPT !.baseline = "contract_verified"]
    [] evaluation = "passed" -> [dir EXCEPT !.baseline = "frozen"]
    [] evaluation = "failed" -> dir

BaselineStage ==
  LET starts == {run, [run EXCEPT !.baseline = "none"]} IN    \* force
  /\ Leaves({<<dir, Freeze(dir, evaluation)>> :
               dir \in starts, evaluation \in {"missing", "passed", "failed"}})
  /\ UNCHANGED <<models, broken, local, report, hub, lock, pub>>

\* prepare: the splits, then the verified holdout if one was given, then the
\* manifest that says the data is complete.
Prepared(dir, size, holdout) ==
  LET split == [dir EXCEPT !.data = size]
      kept == [split EXCEPT !.ocr = @ \/ holdout = "verified"] IN
  IF holdout = "refused" THEN <<split>>
  ELSE <<split, kept, [kept EXCEPT !.ready = TRUE]>>

\* Data with a manifest is used again; the tokenizer is built every time,
\* and building it may fail after its directory was written to.
PrepareFrom(dir, size, holdout) ==
  LET data == IF dir.ready THEN <<dir>> ELSE Prepared(dir, size, holdout)
      last == data[Len(data)] IN
  <<dir>> \o data \o
  IF last.ready THEN <<[last EXCEPT !.tokenizer = TRUE]>> ELSE <<>>

PrepareStage ==
  LET starts == {run, [run EXCEPT !.data = "none", !.ready = FALSE,
                                  !.ocr = FALSE, !.tokenizer = FALSE]} IN
  /\ Leaves({PrepareFrom(dir, size, holdout) :
               dir \in starts, size \in Sizes,
               holdout \in {"missing", "verified", "refused"}})
  /\ UNCHANGED <<models, broken, local, report, hub, lock, pub>>

\* require_frozen_rampart_baseline
BaselineFrozen(dir) == dir.baseline = "frozen"

\* train.run: the model first, the record of its training last.
Trained(dir, m) ==
  <<[dir EXCEPT !.final = m], [dir EXCEPT !.final = m, !.trained = m]>>

\* Mutant: thresholds that are there are used again.
CalibratedIfMissing(dir) ==
  IF dir.thresholds = 0 THEN [dir EXCEPT !.thresholds = dir.final] ELSE dir

\* calibrate: thresholds for the model in final/.
Calibrated(dir) == [dir EXCEPT !.thresholds = dir.final]

\* gate_results: whether a slice supports and finds enough of every entity
\* class, the secret ones without a miss, and its aggregate; a run without
\* an OCR slice does not pass.
SliceResults == [classes : BOOLEAN, aggregate : BOOLEAN]
SlicePasses(slice) == slice.classes /\ slice.aggregate
GateResults(holdout, present, ocr) ==
  /\ SlicePasses(holdout)
  /\ present
  /\ SlicePasses(ocr)

\* evaluate: the result is written before failed gates are raised.
Evaluated(dir, holdout, ocr) ==
  [dir EXCEPT !.evaluation =
     [of |-> dir.final,
      passed |-> GateResults(holdout, dir.ocr, ocr)]]

MayTrain(dir) ==
  /\ dir.ready
  /\ dir.ocr
  /\ BaselineFrozen(dir)
  /\ dir.tokenizer

\* The files a forced run deletes are gone before the stage looks at what it
\* needs.
TrainFrom(dir, m, holdout, ocr) ==
  IF ~MayTrain(dir) THEN <<dir>>
  ELSE LET trained == Trained(dir, m)
           calibrated == Calibrated(trained[2]) IN
       <<dir>> \o trained \o
       <<calibrated, Evaluated(calibrated, holdout, ocr)>>

\* `broken` keeps the models whose stage left no evaluation of them.
TrainStage ==
  LET m == models + 1
      starts == {run, [run EXCEPT !.final = 0, !.trained = 0, !.thresholds = 0,
                                  !.evaluation = NoEvaluation]} IN
  /\ m \in Models
  /\ Leaves({TrainFrom(dir, m, holdout, ocr) :
               dir \in starts, holdout \in SliceResults, ocr \in SliceResults})
  /\ models' = IF run'.final = m THEN m ELSE models
  /\ broken' = IF run'.final = m /\ run'.evaluation.of # m
               THEN broken \union {m}
               ELSE broken
  /\ UNCHANGED <<local, report, hub, lock, pub>>

\* cross_runtime_status: the report is of these bytes and every backend
\* passed; the vectors a backend was run on are only counted.
BackendPassed(b, item) ==
  item.status = IF b \in Traced THEN "traced" ELSE "passed"
CrossRuntime(given, int8, goldens) ==
  /\ given.model = int8
  /\ given.goldens = goldens
  /\ \A b \in Backends : BackendPassed(b, given.backends[b])

\* release_checks: 0 is within the release policy for quantization.
ReleaseChecks(dir, given, int8, goldens, loss, license) ==
  /\ dir.trained # 0                      \* run() only trains on a frozen one
  /\ dir.evaluation.passed
  /\ loss = 0
  /\ CrossRuntime(given, int8, goldens)
  /\ license = "approved"

\* The limits a stage enforces itself: a quick one allows a little more.
Quantized(loss, quick) == loss <= IF quick THEN 1 ELSE 0

\* export: model, thresholds, golden vectors, the limits, then the manifest.
\* What the release checks looked at is kept of an eligible one only.
Exported(dir, given, loss, quick, license) ==
  LET goldens == [of |-> dir.final, data |-> dir.data]
      eligible == ReleaseChecks(dir, given, dir.final, goldens, loss, license)
      a1 == [dir EXCEPT !.artifacts.int8 = dir.final]
      a2 == [a1 EXCEPT !.artifacts.thresholds = dir.thresholds]
      a3 == [a2 EXCEPT !.artifacts.goldens = goldens]
      a4 == [a3 EXCEPT !.artifacts.manifest =
               [int8 |-> dir.final, thresholds |-> dir.thresholds,
                goldens |-> goldens, release_eligible |-> eligible,
                evidence |-> IF eligible
                             THEN [trained |-> dir.trained,
                                   evaluation |-> dir.evaluation,
                                   backends |-> given.backends]
                             ELSE NoEvidence]] IN
  CASE dir.final = 0 -> <<dir>>
    [] dir.final # 0 /\ dir.thresholds = 0 -> <<dir, a1>>
    [] dir.final # 0 /\ dir.thresholds # 0 /\ dir.data = "none" ->
         <<dir, a1, a2>>
    [] dir.final # 0 /\ dir.thresholds # 0 /\ dir.data # "none" ->
         IF Quantized(loss, quick) THEN <<dir, a1, a2, a3, a4>>
         ELSE <<dir, a1, a2, a3>>

ExportStage ==
  LET starts == {run, [run EXCEPT !.artifacts = NoArtifacts]} IN
  /\ Leaves({Exported(dir, given, loss, quick, license) :
               dir \in starts, given \in {NoReport, report}, loss \in 0..2,
               quick \in BOOLEAN, license \in {"pending", "approved"}})
  /\ UNCHANGED <<models, broken, local, report, hub, lock, pub>>

-----------------------------------------------------------------------------
(* The local directory, the report and the lock.                           *)

\* sync: the lock entry of the manifest that lies there.
Synced(artifacts) ==
  [status |-> IF artifacts.manifest.release_eligible
              THEN "release_candidate_local" ELSE "development_candidate_local",
   sha256 |-> artifacts.manifest.int8, revision |-> 0, touched |-> FALSE]

\* download_run: a file that cannot be read is skipped, the one that lay
\* there stays, and the lock is synced with what there is now.  One that is
\* broken off before the sync, which leaves the lock as it was, is left out.
Download ==
  \E skipped \in SUBSET DOMAIN local :
    LET remote == run.artifacts
        now == [f \in DOMAIN local |->
                  IF f \in skipped \/ remote[f] = NoArtifacts[f]
                  THEN local[f] ELSE remote[f]] IN
    /\ remote.manifest # NoManifest
    /\ local' = now
    /\ lock' = IF now.manifest # NoManifest THEN Synced(now) ELSE lock
    /\ pub' = IF pub.at # "idle" THEN [pub EXCEPT !.touched = TRUE] ELSE pub
    /\ UNCHANGED <<run, stages, models, broken, report, hub>>

\* Mutant: results are added to whatever report is there.
SameReportOrNot(given, int8) == TRUE

\* verify.mjs refuses a report of another model.
SameReport(given, int8) == given.model \in {0, int8}

\* verify.mjs for one backend: the goldens are of the model at hand, the
\* other backends keep their results.  A failure is no better than no run.
VerifyParity(b) ==
  \E status \in {"passed", "none"} :
    /\ local.int8 # 0
    /\ local.goldens.of = local.int8
    /\ SameReport(report, local.int8)
    /\ report' = [model |-> local.int8, goldens |-> local.goldens,
                  backends |-> [report.backends EXCEPT ![b] =
                                  [status |-> status, on |-> local.goldens]]]
    /\ UNCHANGED <<run, stages, models, broken, local, hub, lock, pub>>

\* "Attach an ONNX Runtime provider trace before release"
AttachTrace(b) ==
  /\ b \in Traced
  /\ report.backends[b].status = "passed"
  /\ report' = [report EXCEPT !.backends[b].status = "traced"]
  /\ UNCHANGED <<run, stages, models, broken, local, hub, lock, pub>>

\* A new report is begun under another name.
NewReport ==
  /\ report # NoReport
  /\ report' = NoReport
  /\ UNCHANGED <<run, stages, models, broken, local, hub, lock, pub>>

-----------------------------------------------------------------------------
(* Publishing.                                                             *)

\* The files of a directory are those its manifest lists.
Lists(manifest, artifacts) ==
  /\ artifacts.int8 = manifest.int8
  /\ artifacts.thresholds = manifest.thresholds
  /\ artifacts.goldens = manifest.goldens

\* validate(release=True)
Validated(artifacts) ==
  /\ artifacts.manifest # NoManifest
  /\ Lists(artifacts.manifest, artifacts)
  /\ artifacts.manifest.release_eligible
  /\ artifacts.goldens.of = artifacts.int8

PublishValidates ==
  /\ pub.at = "idle"
  /\ Validated(local)
  /\ pub' = [at |-> "upload", manifest |-> local.manifest, revision |-> 0,
             touched |-> FALSE]
  /\ UNCHANGED <<run, stages, models, broken, local, report, hub, lock>>

PublishUploads ==
  /\ pub.at = "upload"
  /\ Len(hub) < MaxCommits
  /\ hub' = Append(hub, local)
  /\ pub' = [pub EXCEPT !.at = "verify"]
  /\ UNCHANGED <<run, stages, models, broken, local, report, lock>>

\* Mutant: only the manifest is compared.
RemoteVerifiedManifest(commit) == commit.manifest = local.manifest

\* The head of the branch holds the manifest that lies there now and the
\* files of the manifest that was read before the upload.
RemoteVerified(commit) ==
  /\ commit.manifest = local.manifest
  /\ Lists(pub.manifest, commit)

PublishVerifies ==
  /\ pub.at = "verify"
  /\ RemoteVerified(hub[Len(hub)])
  /\ pub' = [pub EXCEPT !.at = "sync", !.revision = Len(hub)]
  /\ UNCHANGED <<run, stages, models, broken, local, report, hub, lock>>

PublishSyncs ==
  /\ pub.at = "sync"
  /\ lock' = Synced(local)
  /\ pub' = [pub EXCEPT !.at = "mark"]
  /\ UNCHANGED <<run, stages, models, broken, local, report, hub>>

PublishMarks ==
  /\ pub.at = "mark"
  /\ lock' = [lock EXCEPT !.status = "published", !.revision = pub.revision,
                          !.touched = pub.touched]
  /\ pub' = Idle
  /\ UNCHANGED <<run, stages, models, broken, local, report, hub>>

\* A check or a request fails, the tag exists, the command is stopped.
PublishFails ==
  /\ pub.at # "idle"
  /\ pub' = Idle
  /\ UNCHANGED <<run, stages, models, broken, local, report, hub, lock>>

\* Somebody else's commit on the branch: another model, another manifest, or
\* a file that is no artifact.  Before the first upload, which writes every
\* artifact, it makes no difference.
ForeignPush ==
  /\ Len(hub) > 1
  /\ Len(hub) < MaxCommits
  /\ \E commit \in {[hub[Len(hub)] EXCEPT !.int8 = Foreign],
                    [hub[Len(hub)] EXCEPT !.manifest = NoManifest],
                    hub[Len(hub)]} : hub' = Append(hub, commit)
  /\ UNCHANGED <<run, stages, models, broken, local, report, lock, pub>>

ModalStage ==
  /\ stages < MaxStages
  /\ stages' = stages + 1
  /\ \/ BaselineStage
     \/ PrepareStage
     \/ TrainStage
     \/ ExportStage

Next ==
  \/ ModalStage
  \/ Download
  \/ \E b \in Backends : VerifyParity(b) \/ AttachTrace(b)
  \/ NewReport
  \/ PublishValidates \/ PublishUploads \/ PublishVerifies
  \/ PublishSyncs \/ PublishMarks \/ PublishFails
  \/ ForeignPush

Spec == Init /\ [][Next]_vars

-----------------------------------------------------------------------------
(* The manifests that lie anywhere.                                        *)
Manifests ==
  {run.artifacts.manifest, local.manifest, pub.manifest}
    \union {hub[i].manifest : i \in DOMAIN hub}

(* A release-eligible manifest rests on an evaluation of the very model it *)
(* ships that passed its gates, with the thresholds calibrated on it and   *)
(* the training record of it, whatever stages were forced, repeated or     *)
(* skipped in between (modal_app.py train_remote, export_onnx.py           *)
(* release_checks); only a model whose train stage broke off can borrow    *)
(* the evaluation of the model before it.                                  *)
ReleasedIsEvaluated ==
  \A mf \in Manifests :
    mf.release_eligible /\ mf.int8 \notin broken =>
      /\ mf.evidence.evaluation = [of |-> mf.int8, passed |-> TRUE]
      /\ mf.thresholds = mf.int8
      /\ mf.evidence.trained = mf.int8

(* A release-eligible manifest has a pass of every backend, the traced ones*)
(* with their trace, and each was a run of the very model it ships         *)
(* (verify.mjs, export_onnx.py cross_runtime_status).                      *)
ParityIsOfModel ==
  \A mf \in Manifests : mf.release_eligible =>
    \A b \in Backends :
      /\ BackendPassed(b, mf.evidence.backends[b])
      /\ mf.evidence.backends[b].on.of = mf.int8

(* The lock says "published" of a commit that holds exactly the files of   *)
(* one release-eligible manifest, and pins that commit's model, whatever   *)
(* was downloaded before, however partly, and whoever else pushes to the   *)
(* branch (publish.py, sync_model_lock.py).  A directory that is replaced  *)
(* while it is being published may leave another pin.                      *)
LockIsTrue ==
  lock.status = "published" =>
    /\ lock.revision \in DOMAIN hub
    /\ LET commit == hub[lock.revision] IN
       ~lock.touched =>
         /\ Lists(commit.manifest, commit)
         /\ commit.manifest.release_eligible
         /\ lock.sha256 = commit.int8
=============================================================================
