--------------------------- MODULE MCTaggerRelease ---------------------------
(***************************************************************************)
(* The release chain with two trained models, one backend that only has to *)
(* pass and one that needs a provider trace, and three commits on the hub. *)
(***************************************************************************)
EXTENDS TaggerRelease

MCBackends == {"wasm", "webgpu"}
MCTraced == {"webgpu"}

\* A run directory that went through baseline, prepare and train.
TrainedRun ==
  [EmptyRun EXCEPT !.baseline = "frozen", !.data = "full", !.ready = TRUE,
                   !.ocr = TRUE, !.tokenizer = TRUE,
                   !.final = 1, !.trained = 1, !.thresholds = 1,
                   !.evaluation = [of |-> 1, passed |-> TRUE]]

MCInit == Init \/ StartsFrom(TrainedRun, 1)
MCSpec == MCInit /\ [][Next]_vars

(* A release-eligible manifest never rests on the evaluation of another    *)
(* model, not even after a train stage that broke off.  evaluation.json    *)
(* does not name the model it is of, so the code does not promise this.    *)
EvaluationIsOfModel ==
  \A mf \in Manifests :
    mf.release_eligible => mf.evidence.evaluation.of = mf.int8
=============================================================================
