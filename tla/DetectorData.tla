---------------------------- MODULE DetectorData ----------------------------
(***************************************************************************)
(* The data of the visual detector: the supplemental screens a user        *)
(* converts and uploads (prepare_supplemental.py), the volume on which one *)
(* container prepares and composes them with WebPII and synthetic screens  *)
(* (modal_app.py visual_prepare_remote), and the copy a training container *)
(* stages on its own disk (stage_training_dataset.py).                     *)
(*                                                                         *)
(* A file's hash is the file.  A tree is what its manifest lists and what  *)
(* is there; a screen is known by its id, the person it shows, the e-mail  *)
(* or phone number on it and the labels of its boxes.                      *)
(***************************************************************************)
EXTENDS Naturals, FiniteSets

CONSTANTS Supplies,    \* metadata a user may convert: sets of rows
          Publications,\* what WebPII may have published: sets of rows
          Renderings,  \* what the synthetic generator may render
          Disposition, \* [key -> "hard-negative", "unmapped" or a class]
          MinimumSupport,
          MaxUploads, MaxContainers,  \* bounds
          None

ASSUME DataAssumption == MaxUploads \in Nat /\ MaxContainers \in Nat

VARIABLES
    published, audit,  \* WebPII, and the audit of its labels
    volume, view,      \* the last commit, and the preparing container's view
    prep,              \* that container
    disk,              \* the training container's disk
    trainer,           \* that container
    uploads, containers

dataVars == <<published, audit, volume, view, prep, disk, trainer, uploads, containers>>

Of(split, screens) == {s \in screens : s.split = split}

----------------------------------------------------------------------------
(* Labels.  A box that lies outside the image is dropped.                  *)

InImage(e) == e.place # "outside"

\* The source's flags must agree with its boxes.
Consistent(e) ==
    /\ e.visible = InImage(e)
    /\ e.clipped = (e.place = "edge")

Mapped(key) == Disposition[key] \notin {"hard-negative", "unmapped"}

Labels(row) ==
    {Disposition[e.key] :
       e \in {f \in row.elements : f.visible /\ InImage(f) /\ Mapped(f.key)}}

Screen(row) ==
    [id |-> row.id, identity |-> row.identity, marker |-> row.marker,
     split |-> row.split, labels |-> Labels(row)]

Unmapped(elements) ==
    {e.key : e \in {f \in elements : f.visible /\ Disposition[f.key] = "unmapped"}}

Elements(rows) == UNION {r.elements : r \in rows}

----------------------------------------------------------------------------
(* The conversion of a supplement, on the user's machine.                  *)

RowAccepted(row) ==
    \A e \in row.elements : Disposition[e.key] # "unmapped" /\ Consistent(e)

IdentitiesApart(screens) ==
    \A s, t \in screens : s.identity = t.identity => s.split = t.split

\* An e-mail address or phone number may not be in both splits either, not
\* even off screen.  (Mutant: names alone are compared.)
MarkersApartTrusting(rows) == TRUE

MarkersApart(rows) == \A r, s \in rows : r.marker = s.marker => r.split = s.split

Accepted(rows) ==
    /\ \A r \in rows : RowAccepted(r)
    /\ IdentitiesApart(rows)
    /\ MarkersApart(rows)
    /\ Of("train", rows) # {} /\ Of("test", rows) # {}

\* The upload of a converted supplement may be cut short; a tree that the
\* adapter did not write, or an older one wrote, is not verified.
Tree(verified, screens, files) ==
    [verified |-> verified, manifest |-> screens, files |-> files]

Upload(rows, lost) ==
    /\ uploads < MaxUploads /\ prep.pc = "idle"
    /\ LET screens == {Screen(r) : r \in rows}
       IN  volume' = [volume EXCEPT !.input = Tree(Accepted(rows), screens, screens \ lost)]
    /\ view' = volume'
    /\ uploads' = uploads + 1
    /\ UNCHANGED <<published, audit, prep, disk, trainer, containers>>

\* The adapter leaves a count of nothing out of the manifest, and staging looks
\* there for its zero: a split in which every screen has a label is refused.
CountsAgree(tree) ==
    \A split \in {"train", "test"} : \E s \in Of(split, tree.manifest) : s.labels = {}

\* Every file is hashed again: a manifest alone does not show that an upload
\* completed.
Valid(tree) ==
    /\ tree.verified
    /\ tree.files = tree.manifest
    /\ CountsAgree(tree)
    /\ IdentitiesApart(tree.files)
    /\ Of("train", tree.files) # {} /\ Of("test", tree.files) # {}

----------------------------------------------------------------------------
(* The preparation.                                                        *)

IdlePrep == [pc |-> "idle"]

\* The label vocabulary of all of WebPII is audited first.
Audit ==
    /\ audit = None
    /\ audit' = [unmapped |-> Unmapped(Elements(published))]
    /\ UNCHANGED <<published, volume, view, prep, disk, trainer, uploads, containers>>

PrepareStart(force, required) ==
    /\ prep.pc = "idle" /\ containers < MaxContainers
    /\ audit # None /\ audit.unmapped = {}
    /\ required => volume.input # None
    /\ volume.supplemental # None => volume.input # None
    /\ prep' = [pc |-> IF volume.input = None THEN "clearing" ELSE "supplement",
                force |-> force, temporary |-> None, backup |-> None]
    /\ view' = volume
    /\ containers' = containers + 1
    /\ UNCHANGED <<published, audit, volume, disk, trainer, uploads>>

\* A staged supplement is used again when it is the uploaded one.
ReuseSupplement ==
    /\ prep.pc = "supplement" /\ Valid(view.input)
    /\ view.supplemental # None /\ ~prep.force
    /\ Valid(view.supplemental)
    /\ view.supplemental.manifest = view.input.manifest
    /\ prep' = [prep EXCEPT !.pc = "clearing"]
    /\ UNCHANGED <<published, audit, volume, view, disk, trainer, uploads, containers>>

CopySupplement ==
    /\ prep.pc = "supplement" /\ Valid(view.input)
    /\ view.supplemental = None \/ prep.force
    /\ prep' = [prep EXCEPT !.pc = "moving", !.temporary = view.input,
                            !.backup = view.supplemental]
    /\ view' = [view EXCEPT !.supplemental = None]
    /\ UNCHANGED <<published, audit, volume, disk, trainer, uploads, containers>>

MoveSupplement ==
    /\ prep.pc = "moving"
    /\ view' = [view EXCEPT !.supplemental = prep.temporary]
    /\ prep' = [prep EXCEPT !.pc = "clearing", !.temporary = None, !.backup = None]
    /\ UNCHANGED <<published, audit, volume, disk, trainer, uploads, containers>>

\* Force deletes the three trees that the preparation writes, one after the
\* other, and a container may be killed between them; without it the next step
\* finds a directory that is not empty (PrepareStop).
Cleared(v) ==
    IF v.webpii # None THEN [v EXCEPT !.webpii = None]
    ELSE IF v.synthetic # None THEN [v EXCEPT !.synthetic = None]
    ELSE [v EXCEPT !.yaml = None, !.composed = None]

ClearForced ==
    /\ prep.pc = "clearing"
    /\ view' = IF prep.force THEN Cleared(view) ELSE view
    /\ prep' = IF view' = view THEN [prep EXCEPT !.pc = "webpii"] ELSE prep
    /\ UNCHANGED <<published, audit, volume, disk, trainer, uploads, containers>>

\* The published splits are kept; the first rows of each when quick.  A box
\* off the image is dropped before its key is looked at.
PrepareWebPII(rows) ==
    /\ prep.pc = "webpii" /\ view.webpii = None
    /\ Unmapped({e \in Elements(rows) : InImage(e)}) = {}
    /\ view' = [view EXCEPT !.webpii = {Screen(r) : r \in rows}]
    /\ prep' = [prep EXCEPT !.pc = "synthetic"]
    /\ UNCHANGED <<published, audit, volume, disk, trainer, uploads, containers>>

\* Every class must be rendered often enough, unless the set is tiny.
Supported(split) == split.records >= MinimumSupport => split.rarest * 20 >= split.records

PrepareSynthetic(rendering) ==
    /\ prep.pc = "synthetic" /\ view.synthetic = None
    /\ Supported(rendering.train) /\ Supported(rendering.validation)
    /\ rendering.train.templates \intersect rendering.validation.templates = {}
    /\ view' = [view EXCEPT !.synthetic = rendering]
    /\ prep' = [prep EXCEPT !.pc = "composing"]
    /\ UNCHANGED <<published, audit, volume, disk, trainer, uploads, containers>>

\* The supplement takes part when this run staged one; the YAML is written
\* before the manifest that names its hash.
Composable(v) == v.input # None => v.supplemental.verified

YamlOf(v) == IF v.input = None THEN {"webpii", "synthetic"}
             ELSE {"webpii", "synthetic", "supplemental"}

WriteYaml ==
    /\ prep.pc = "composing" /\ Composable(view)
    /\ view' = [view EXCEPT !.yaml = YamlOf(view)]
    /\ prep' = [prep EXCEPT !.pc = "describing"]
    /\ UNCHANGED <<published, audit, volume, disk, trainer, uploads, containers>>

Compose ==
    /\ prep.pc = "describing"
    /\ view' = [view EXCEPT !.composed =
                  [yaml |-> view.yaml, webpii |-> view.webpii,
                   synthetic |-> view.synthetic,
                   supplemental |-> IF view.input = None THEN None
                                    ELSE view.supplemental.manifest]]
    /\ volume' = view'
    /\ prep' = IdlePrep
    /\ UNCHANGED <<published, audit, disk, trainer, uploads, containers>>

\* A check refuses, or the network fails: an exception puts back the staged
\* supplement.  A container that is killed puts back nothing.  What it wrote
\* may have been committed in the background.
PrepareStop(killed) ==
    /\ prep.pc # "idle"
    /\ view' = IF ~killed /\ prep.pc = "moving"
               THEN [view EXCEPT !.supplemental = prep.backup] ELSE view
    /\ volume' \in {volume, view'}
    /\ prep' = IdlePrep
    /\ UNCHANGED <<published, audit, disk, trainer, uploads, containers>>

----------------------------------------------------------------------------
(* The stage of a training container.  Its disk outlives a call when the   *)
(* container is used again; the directories it sets aside carry its pid.   *)

IdleTrainer == [pc |-> "idle", using |-> None]

Sources(c) ==
    {"webpii", "synthetic"} \union (IF c.supplemental = None THEN {} ELSE {"supplemental"})

Roots(v) ==
    {"webpii", "synthetic"} \union (IF v.supplemental = None THEN {} ELSE {"supplemental"})

\* The composed manifest must describe the directories that are there now.
SourceContract(v) ==
    /\ v.yaml # None /\ v.composed # None
    /\ v.composed.yaml = v.yaml
    /\ Sources(v.composed) = Roots(v) /\ v.composed.yaml = Roots(v)
    /\ v.composed.webpii = v.webpii
    /\ v.composed.synthetic = v.synthetic
    /\ v.supplemental # None => v.composed.supplemental = v.supplemental.manifest

\* An existing stage is used again only for the same contract.  (Mutant: for
\* any.)
VerifiedAny(stage, contract) == TRUE

Verified(stage, contract) == stage.contract = contract

StageBegin(force) ==
    /\ trainer.pc = "idle" /\ containers < MaxContainers
    /\ SourceContract(volume)
    /\ IF disk # None /\ ~force
       THEN /\ Verified(disk, volume.composed)
            /\ trainer' = [pc |-> "staged", using |-> volume.composed]
       ELSE trainer' = [pc |-> "copying", using |-> None, source |-> volume,
                        had |-> disk, temporary |-> None, backup |-> None]
    /\ containers' = containers + 1
    /\ UNCHANGED <<published, audit, volume, view, prep, disk, uploads>>

\* The copies of the trees are complete, file by file.
CopyOf(v) ==
    [contract |-> v.composed, webpii |-> v.webpii, synthetic |-> v.synthetic,
     supplemental |-> IF v.supplemental = None THEN {} ELSE v.supplemental.files]

\* A supplement is validated once more.
Copy ==
    /\ trainer.pc = "copying"
    /\ LET v == trainer.source
       IN  /\ v.supplemental # None => Valid(v.supplemental)
           /\ trainer' = [trainer EXCEPT !.pc = "copied", !.temporary = CopyOf(v)]
    /\ UNCHANGED <<published, audit, volume, view, prep, disk, uploads, containers>>

SetAside ==
    /\ trainer.pc = "copied"
    /\ trainer' = [trainer EXCEPT !.pc = "moving", !.backup = disk]
    /\ disk' = None
    /\ UNCHANGED <<published, audit, volume, view, prep, uploads, containers>>

MoveIn ==
    /\ trainer.pc = "moving"
    /\ disk' = trainer.temporary
    /\ trainer' = [trainer EXCEPT !.pc = "verifying", !.temporary = None]
    /\ UNCHANGED <<published, audit, volume, view, prep, uploads, containers>>

VerifyStage ==
    /\ trainer.pc = "verifying"
    /\ Verified(disk, trainer.source.composed)
    /\ trainer' = [pc |-> "staged", using |-> trainer.source.composed]
    /\ UNCHANGED <<published, audit, volume, view, prep, disk, uploads, containers>>

\* What a failed staging leaves.  (Mutant: it removes the new copy alone.)
CleanedUpForgetting(t) == IF t.pc = "verifying" THEN None ELSE disk

CleanedUp(t) ==
    IF t.pc = "moving" THEN t.backup
    ELSE IF t.pc = "verifying" THEN t.backup
    ELSE disk

StageFail ==
    /\ trainer.pc \in {"copying", "copied", "moving", "verifying"}
    /\ disk' = CleanedUp(trainer)
    /\ trainer' = IdleTrainer
    /\ UNCHANGED <<published, audit, volume, view, prep, uploads, containers>>

\* The container ends, with its disk or without it.
TrainerEnds ==
    /\ trainer.pc # "idle"
    /\ disk' \in {disk, None}
    /\ trainer' = IdleTrainer
    /\ UNCHANGED <<published, audit, volume, view, prep, uploads, containers>>

DataInit ==
    /\ published \in Publications
    /\ audit = None
    /\ volume = [input |-> None, supplemental |-> None, webpii |-> None,
                 synthetic |-> None, yaml |-> None, composed |-> None]
    /\ view = volume
    /\ prep = IdlePrep
    /\ disk = None
    /\ trainer = IdleTrainer
    /\ uploads = 0 /\ containers = 0

DataNext ==
    \/ \E rows \in Supplies, lost \in BOOLEAN :
          Upload(rows, IF lost THEN {Screen(r) : r \in Of("train", rows)} ELSE {})
    \/ Audit
    \/ \E force, required \in BOOLEAN : PrepareStart(force, required)
    \/ ReuseSupplement \/ CopySupplement \/ MoveSupplement \/ ClearForced
    \/ \E rows \in SUBSET published : PrepareWebPII(rows)
    \/ \E rendering \in Renderings : PrepareSynthetic(rendering)
    \/ WriteYaml \/ Compose
    \/ \E killed \in BOOLEAN : PrepareStop(killed)
    \/ \E force \in BOOLEAN : StageBegin(force)
    \/ Copy \/ SetAside \/ MoveIn \/ VerifyStage \/ StageFail \/ TrainerEnds

DataSpec == DataInit /\ [][DataNext]_dataVars

----------------------------------------------------------------------------
(* Types.                                                                  *)

Screens == {Screen(r) : r \in (UNION Supplies) \cup UNION Publications}

Keys == {e.key : e \in UNION {r.elements : r \in UNION Publications}}

Optional(S) == S \cup {None}

Trees == [verified : BOOLEAN, manifest : SUBSET Screens, files : SUBSET Screens]

Contracts ==
    [yaml : Optional(SUBSET {"webpii", "synthetic", "supplemental"}),
     webpii : Optional(SUBSET Screens), synthetic : Optional(Renderings),
     supplemental : Optional(SUBSET Screens)]

Volumes ==
    [input : Optional(Trees), supplemental : Optional(Trees),
     webpii : Optional(SUBSET Screens), synthetic : Optional(Renderings),
     yaml : Optional(SUBSET {"webpii", "synthetic", "supplemental"}),
     composed : Optional(Contracts)]

Stages ==
    [contract : Optional(Contracts), webpii : Optional(SUBSET Screens),
     synthetic : Optional(Renderings), supplemental : SUBSET Screens]

Preparing ==
    [pc : {"supplement", "moving", "clearing", "webpii", "synthetic",
           "composing", "describing"},
     force : BOOLEAN, temporary : Optional(Trees), backup : Optional(Trees)]

Staging ==
    [pc : {"copying", "copied", "moving", "verifying"}, using : {None},
     source : Volumes, had : Optional(Stages), temporary : Optional(Stages),
     backup : Optional(Stages)]

DataTypeOK ==
    /\ published \in Publications
    /\ audit \in Optional([unmapped : SUBSET Keys])
    /\ volume \in Volumes /\ view \in Volumes
    /\ prep \in {IdlePrep} \cup Preparing
    /\ disk \in Optional(Stages)
    /\ trainer \in {IdleTrainer} \cup [pc : {"staged"}, using : Contracts] \cup Staging
    /\ uploads \in 0..MaxUploads /\ containers \in 0..MaxContainers

----------------------------------------------------------------------------
(* Properties.                                                             *)

Training == trainer.pc = "staged"

\* Nothing of a held-out split is trained or selected on: no person, e-mail
\* address or phone number of the supplement's test screens is on one of its
\* training screens, and no template of the training screens renders those
\* the checkpoints are selected by, whatever was uploaded, cut short,
\* interrupted, staged again or forced before.
HeldOut ==
    Training =>
      /\ \A s \in Of("train", disk.supplemental), t \in Of("test", disk.supplemental) :
            s.identity # t.identity /\ s.marker # t.marker
      /\ disk.synthetic.train.templates
           \intersect disk.synthetic.validation.templates = {}

\* What a container trains on is complete and is what the composed manifest it
\* was launched with describes.
StageIsContract ==
    Training =>
      /\ disk.webpii = trainer.using.webpii
      /\ disk.synthetic = trainer.using.synthetic
      /\ disk.supplemental = IF trainer.using.supplemental = None THEN {}
                             ELSE trainer.using.supplemental

\* A staging that fails leaves the stage that was there before it.
FailureKeepsStage ==
    [][StageFail => disk' = trainer.had]_dataVars

\* A screen was converted from a row all of whose elements in the image are
\* labelled if they have a class, however the source flagged them.
FullyLabelled(s) ==
    \E rows \in Supplies : \E r \in rows :
       /\ s = Screen(r)
       /\ \A e \in r.elements :
            InImage(e) /\ Mapped(e.key) => Disposition[e.key] \in s.labels

\* Every screen of the supplement that a container trains on is fully labelled.
LabelsComplete == Training => \A s \in disk.supplemental : FullyLabelled(s)

\* A container trains on complete, completely labelled data: those it was
\* launched for.
TrainsOnContract == StageIsContract /\ LabelsComplete

=============================================================================
