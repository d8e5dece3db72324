# A verification of PLVA

PLVA is a local, fail-closed proxy between a computer-use agent and its model provider: it redacts
what goes out and fills real values into the actions that come back. Around it the repository has
a launcher with an egress monitor, a demo, and the training and release chains of its detectors.
This directory holds TLA+ models of the parts that keep state, run concurrently or can break off
half-way, TLC configurations that check them on small instances, and theorems that TLAPS proves for
every value of the constants.

`PROJECT.json` lists components, runs, the source lines behind every definition (`map`), for each
property a plausible bug that breaks it (`mutants`), the hazards of the code with the properties
that cover them, and the theorems.

    tlc -workers 2 -config MCVault.cfg MCVault.tla      # a run
    tlapm ActionHookProofs.tla                          # the proofs of a module

## 1. The system

`src/src/plva_proxy` is one process, FastAPI on one event loop, plus worker processes.
`src/run_agent.sh` starts it, the agent and a monitor. `src/plvas-v3/training` runs on Modal
containers, on volumes that are committed, and on the operator's machine.

| Component | State | Operations | Talks to |
| --- | --- | --- | --- |
| `SessionVault`, `SafetyPolicy` (`privacy.py`) | placeholder maps, counters, approval grants; one `RLock` | store, grant, revoke, list, resolve an action, dispose | called by everything below |
| response hook (`privacy_response_hook`) | the completion being rewritten | resolve each executed call, consult the mediator once, retry once | vault, tool channel |
| `ToolChannel`, `Mediator` | pending texts, ids seen, event trace, step, last review, halt | scan markers, run operations, consult, review, drain | vault, local model |
| semantic executor, local model client | format that worked | ask, repair, parse, validate | a model on the machine |
| request hook (`privacy_request_hook`) | none of its own | review, halt check, scrub, manifest, drain | channel, scrubber, vault |
| `HistoryScrubber` | cache of texts classified as safe, diagnostics | scrub by known values, classify, vault and replace | vault, redactor |
| `VaultRedactor`, frame hook, `FrameStore` | painted-frame cache, ring of audited frames | redact, vault, paint, mark sent or failed | redactor, vault |
| `AcceleratedRedactor` (`redactor.py`) and its workers | process, response queue, reader thread, idle timer, two caches; one `RLock` | redact a frame, classify texts, start, close, expire | worker process over pipes |
| relay (`proxy.py`) | the request under way, call history | hooks, upstream call, SSE, tool loop | all hooks, upstream |
| demo controller (`demo.py`) | settings, policy, run state, child processes, history on disk | configure, start, stop, clear; reader and monitor threads | script, proxy |
| launch (`demo.py`, `run_agent.sh`, `proxy.py` main, `credentials.py`) | environment, arguments, keys, files | check, export, parse, install hooks, probe | everything above |
| egress (`egress_verify.py`, `stopped_exec.py`, `run_agent.sh`) | process table, sockets, artifacts, skill file | stop before exec, gate, sample, verdict, sweep, clean up | agent, its runtime |
| detector data (`visual/prepare_*.py`, `compose_dataset.py`, `stage_*.py`) | volume, container disk, manifests | convert, upload, prepare, compose, stage | training |
| detector training (`visual/train_detector.py`, `training_attempt.py`) | attempt directory, progress, selection state | seed, train, select, commit, resume, finish, export | volume |
| tagger release (`training/*.py`, `runtime-parity/verify.mjs`) | run directory, local artifacts, report, lock file | baseline, prepare, train, export, download, verify, publish | volume, model hub |

What is hard about it:

- The request hook runs in a pool of worker threads, the response hook **synchronously on the event
  loop**. Completions are therefore serialised, and the viewer is not served while one is treated;
  the worker threads go on all the time.
- Approvals expire by the clock, are consumed by calls, replaced by the mediator, revoked by the
  user, and pruned by whoever comes along.
- The tool channel reads a flag or a step under its lock and uses it after releasing it.
- The redactor serialises calls by a lock that timers also want, over workers that may be silent.
- A setting passes through four programs with defaults of their own before it protects a request.
- The agent daemonizes a runtime out of its process group; signals reach the script at any line.
- Containers are preempted between any two writes, and the next one resumes from what was committed.
- A release is assembled in stages that may break off, on two machines, with others pushing to the
  hub.

## 2. Modules

| Module | What it is |
| --- | --- |
| `Dicts` | Python dictionaries as partial functions |
| `ApprovalLedger` | abstract: credit per capability is minted, spent within credit, or lapses |
| `Vault` | `SessionVault` and `SafetyPolicy`; implements `ApprovalLedger` |
| `ActionHook` | the response hook, the consultation and the viewer's approval requests, composed with `Vault`; implements `Vault!Spec` |
| `ToolChannel` | `tool_channel.py` and the watchdog, over the life of concurrent requests |
| `LocalModel` | `local_llm.py`, `semantic_executor.py` and the answers the mediator accepts |
| `RedactorWorker` | `AcceleratedRedactor`, its worker processes, reader threads and timers |
| `ModelView` | what the model is shown: `VaultRedactor`, `HistoryScrubber`, manifest, in concurrent request hooks |
| `Relay` | a relayed request from arrival to answer, with `FrameStore`, `CallStore` and the tool loop; extends `ModelView` |
| `DemoController` | the demo's controller, its history of runs, and the two threads of each run |
| `Launch` | from settings or a hand-written environment to the hooks that are installed |
| `EgressGate` | `run_agent.sh` with its monitor, proxy, agent and runtime, under signals |
| `DetectorData` | supplement, preparation, composition and staging of the detector's data |
| `SafetySelection` | the rule by which an epoch becomes the incumbent, as operators |
| `SelectionLog` | abstract: one uninterrupted run that judges seed and epochs in order |
| `DetectorTraining` | a training attempt over preempted launches; implements `SelectionLog` |
| `TaggerRelease` | the release chain of the text tagger |
| `*Proofs` | lemmas and theorems: `ActionHookProofs` (with `Vault` and `ApprovalLedger`), `RelayProofs` (with `ModelView`), `ToolChannelProofs` (with `LocalModel`), `RedactorWorkerProofs`, `DemoProofs` (with `Launch`), `EgressGateProofs`, `DetectorTrainingProofs` (with `SelectionLog`), `PipelineProofs` (`DetectorData` and `TaggerRelease`) |
| `MC*` | instances for TLC |

### Vault

A placeholder `CLASS_n_nonce` is the pair `<<class, n>>`; the nonce is fixed. The four dictionaries
and `_approval_grants` are partial functions, and every method that takes the lock is one action,
pruning included. Texts are model strings; what the code does to them is kept as constants: `Canon`
(`_canonical_value`: identity for credential classes, folding for the rest), `Blank`, `Scannable`,
`NormPath` (`_normalize_approval_component`, with a value for what it refuses). `resolve_action` is
`Resolve` when every reference is authorised and every capability covers what the action needs of
it, and `Refuse` otherwise, whose only effect is the pruning. The history variables `minted` and
`spent` count uses per capability over the whole session.

### ActionHook

`phase` says what the event loop is doing. `Arrive` takes a completion, reduced to the calls its
choices execute; each call is resolved (`Execute`), refused (`Deny`, `Misplace`, `Nameless`), or
found unapproved once (`BeginConsult`), in which case its references are judged one by one and the
call is retried if any grant was minted; a verdict or a grant that raises ends the consultation
(`AbortConsult`). A refusal at any point loses the whole completion
(`Raise`), and charges stay. `ViewerGrant` and `ViewerRevoke` need an idle loop;
`RequestHookStores`, `RequestHookPrunes` and `Clock` do not. The mediator's answer is arbitrary,
within what `_parse_approval` lets through (`LocalModel` has that part). The viewer's list of
approvals prunes like `RequestHookPrunes`, which may happen at any time, and the shutdown is left out.

### ToolChannel

Each request has a stage, from the window test of `maybe_review` to the answer of the upstream. The
two critical sections of `maybe_review`, the model call between them, the halt check and the drain
are separate steps. A review ends with a verdict (`EndReview`) or with an exception
(`ReviewRaises`): the latter halts nothing, although the window is noted. On the event loop a completion runs its markers (an id is taken first, the
result is queued when the operation, perhaps a model call, has ended), then its calls, which here
only resolve, are denied, or fail. `POST /viewer/tools` runs in a worker thread at any time. Of a
queued text the model keeps whether it is the result of a marker, and of which.

### LocalModel

One conversation at a time, since callers share nothing: the formats tried in order, what is taken
as the JSON of a reply, the second chance after an invalid answer, the checks on the values, tokens
and counts it lists, and the parsing of approvals and reviews. A question (`Question`) and its
tokens are any that the named assumption admits: tokens are numbers, `ValueOf` gives their values,
and what the model may list (`Objects`) does not include the missing value. A judgement may also
raise (`Raises`): its word is a list or an object, which cannot be looked up in a frozenset, or a
limit is too large for a float; the outcome is then "raised", neither a grant nor a refusal. The sort that needs no
model is stated by what it returns, the sequence in the order of `Before`. Prompts, schemas, the scan of the
prompt for cleartext and the loading of criteria are left out.

### RedactorWorker

A call enters (cancelling the timer), is a hit or a miss, ensures a worker, sends, waits for a line
of the response queue or a timeout, and leaves (rearming the timer). `pc[t] = "send"` is the write
to the worker's pipe, which has no timeout: `Send` is its end, and need never come while the worker
lives. The worker gets ready, reads, answers, refuses, gives up or dies when it likes, and may do
none of it. Its output is read by a
reader thread of its own, which goes on after the worker was stopped, and ends at the end of the
pipe or at a line that is no JSON (`ReaderEnds`). Timers that fired wait for the
lock like calls. `config` is one of the configurations given and never changes. A worker whose
process was replaced is dead, so only the latest one has a state.

### ModelView

The hooks of each request run in a thread of their own. A frame is a sequence of lines, a line the
values in it and those recognised as such; a text is the values in it and those the classifier
finds. Painting holds `VaultRedactor._lock` from `PaintBegin` over one `PaintLine` per finding to
`PaintEnd`, or is one step if the frame is in the cache (`PaintAgain`); the vault, which has a lock
of its own, may grow between any two of them by the texts of other requests. The vault is only the
set of known values here; module `Vault` has the rest. Each screenshot is in a message of its own,
so that the visible placeholders are those of the last one. Texts are scrubbed one by one by what
the vault knows then (`ScrubPlain`), then rewritten one by one by the findings of the classifier
(`ApplyClassification`). Left out: matching of clipped fragments and short names (a line shows a
value or not), the shutdown. Which parts of the hook are switched on is `Launch`'s subject.

### Relay

`Audit` stores the frame just painted together with the analysis the redactor has *now*; the two
come from separate acquisitions of its lock. After `Send` the relay is a coroutine on the event
loop, and what happens between two awaits is one step: marking the frames and recording the call
when the upstream fails or answers, reading the body, the rounds of the tool loop, the final
completion. What the response hook makes of that completion is `ActionHook`'s subject; here it
returns or raises. `ids` are the frame ids the hook handed to the relay. Left out: exceptions the
relay does not expect, and a client that goes away.

### DemoController

The API handlers of the demo run on the event loop, one at a time, and are one step each. The two
threads of a run step from request to request: a mirror pass reads the index of the calls
(`MirrorIndex`), then which of them are known (`MirrorKnown`), then fetches each record
(`MirrorFetch`, `MirrorSkip`), stores it in memory while reading `_run_id` (`MirrorStore`) and
writes it to that directory (`MirrorSave`). The requests go to a port, so they are answered by
whichever run's proxy listens there. `process`, `status` and `runId` are the controller's fields;
that `_require_idle` asks the process and not the status is what lets a new run begin while the
reader of the last one is still sweeping. `lingering[n]` is a history variable: the runs whose
proxy still answered, or one of whose records a thread held, when run `n` began. Left out: uploads, the frame and the tables that are
mirrored beside the calls, traces and events, the bound of 48 calls in memory, disk failures.

### Launch

An environment is a function from the variables that are set to words; a switch has the word "on",
"off" or "odd". `Exported` is what `demo.py` puts on top of what it inherited, `Arguments` what
`run_agent.sh` makes of it, `Combined` what `proxy.py` accepts and `RequestHooks`, `ReplyHooks` what
it installs; keys are told apart by the layer they come from. A request goes through the hooks in
the order of `Outgoing`: the image takes the place of the screenshot (`Substituted`), the screenshot
is painted (`Painted`), the texts are scrubbed (`Scrubbed`); any hook that works on it may fail.
`ChangeFile` and `ChangeKey` happen at any time, so that what was checked may be gone when it is
used. The first request is the script's own probe. Left out: model names and URLs, a second
provider, two launches at once, which of several reasons for a refusal comes first.

### EgressGate

Program counters for the script (with its traps), the monitor, the proxy and the stub that stops
itself before it becomes the agent; a process table with the command line and the runtime it
daemonizes. A signal may arrive at any step of the script, and a second one in its trap. The monitor
samples, judges and strikes in separate steps. A process that was sent TERM may end or go on as
before, for ever; a stopped one keeps the signal pending; only a KILL is certain, and the code sends
one to runtimes alone (`CleanSweep`). `term` and `late` are history variables: which process was sent
TERM, which runtime was started after its script's sweep. A runtime appears under its name at once,
and a command line daemonizes one. Left out: KILL of the script, the parsing of `ps` and `lsof`,
other ports.

### DetectorData

A screen is its id, person, marker (e-mail or phone number), split and elements. A supplement is
converted, uploaded (whole or cut short), and staged from the volume; `prepare` and `compose` write
tree and manifest in the order of the code, and a container may be killed between any two writes
and between any two of the trees that `--force` deletes. `stage_training_dataset` copies to a
disk that outlives the call, with the former stage set aside. Left out: rendering, record formats,
volume snapshots, network retries.

### DetectorTraining, SafetySelection, SelectionLog

Recalls and precisions are hundredths, means are totals over classes, so that every bound of the
rule is an integer. `disk` is what the container sees, `volume` the last commit; a container that
ends early leaves either (Modal, or a local directory). `Resume` re-reads progress, checks contract
and hashes of the checkpoints, and restores the incumbent. The refinement maps the durable selection to `SelectionLog`,
which has no containers and no files. Left out: checkpoint formats and classes, the ultralytics
run directory, licences and provenance, early stopping by patience (the launcher sets it to the
number of epochs), two containers on one attempt.

### TaggerRelease

A file is what it was made from; a hash comparison is an equality. A stage on the volume is the
sequence of directories it passes through and leaves any of them (`Leaves`), which covers failed
gates, containers that end and forced stages that delete first. Quantization loss is the worst of
the three measures as a level. Publishing is five steps, with downloads and foreign pushes between
any two. Left out: the networks, tokenizer goldens, timestamps, the model card, stages in parallel.

## 3. Runs

| Run | Question | Bounds, and why they are enough |
| --- | --- | --- |
| `vault` | do the maps agree, does a placeholder keep its meaning, is every use backed, is the ledger kept | a class per safety level, two spellings and a blank, scoped and aliased capabilities; two tokens per class, two uses, clock 2: a grant can be used in part, expire, be replaced |
| `hook` | consultation and retry against viewer, threads, clock; is the loop always freed | two calls or two references, aliased and repeated references, calls without a name; three minted uses per capability, clock 2: a grant can expire between the verdict and the retry |
| `channel` | are results delivered once, are halts final, with two requests in flight | two ids, two markers a completion, a queue of two that overflows, a window of two: two reviews overlap, an id repeats |
| `redactor` | answers, leftovers, timers, for each kind of worker and of idle timeout; does every call end unless a worker does not read, is the worker released | two threads, two calls, two frames and a text in caches of one, two processes, two timers: a late answer, a late timer and an eviction all happen |
| `relay` | is what leaves free of known values, are the records true, does every request end | two requests that share values across frames and texts, one blocked value; one painted frame, two stored frames, one call: each ring overflows; two tool rounds |
| `demo` | can the threads of one run spoil the next, is the recorded end of a run true | two runs, one call per proxy, one sweep; the proxy answers the reader of the first run, which goes on after its runner has ended, and the monitor of the second: enough for a record fetched in one run and stored in the next |
| `training` | one seed and data per checkpoint, no regression, true manifests, resume like an uninterrupted run | three launches, two seeds and data versions, schedules of one and three epochs, four evaluations: an epoch that trades, one that trades beyond the high water, one without a class; symmetric seeds and versions |
| `data` | is held-out data held out, is a stage what its launch asked for | seven supplements: two that may be used, the others share a person or number, hide or mislabel an element, or have no screen free of labels; two uploads and four containers: one prepares, one composes, two stage |
| `egress` | does nothing run unwatched, is a verdict true, what is left, is a runtime that was seen ended though it ignores SIGTERM | one launch, the leftover of another, two signals: the second one hits the trap |
| `local_model` | are answers the request's tokens, does nothing pass but by the word for it | seven tokens, two of equal value, four the vault cannot give; replies of up to three entries, one draft before the last; numbers below, in and above their range, and above `MaxFloat` |
| `launch` | is a run what was chosen, does a mistyped switch ever weaken it | seven settings, five inherited environments, twelve written by hand, each combination of hook and engine that the checks tell apart; one change of keys or files |
| `release` | do eligible manifests rest on their own evaluation and parity, is the lock true | from an empty directory and from a trained one, four stages, two models, a plain and a traced backend, three commits: an export may break off between two others, a foreign push comes before and after the verification |

Deadlock is checked in `local_model` and `launch`, which end in states that loop. The others say
`CHECK_DEADLOCK FALSE`: a session may simply stop, at a bound on clock, calls or steps or because
nobody calls any more.

**Fairness.** `FairHookSpec`: the hook's own steps are weakly fair, as plain code on the event loop
whose model call has a timeout; arrivals, viewer, threads and the clock are not. `FairSpec` of
`RedactorWorker`: the redactor's threads and timers are weakly fair in the steps that do not wait
for the worker to read (`OwnStep`); nothing is assumed of worker processes, not even that they read,
or of reader threads. `FairSpec` of `Relay`: threads and event loop are weakly fair, and
detector, classifier, tools and upstream, all waited for with timeouts, answer or fail (that the
redactor's worker reads is assumed here: `RequestsEnd` is as good as `CallsEnd`); a hook need not
fail, so that a thread that waits for the redactor's lock must get it. `Spec` of `EgressGate`: the
script, the monitor and the proxy go on, and the stub stops itself; nothing is assumed of
the agent's processes, not even that they heed SIGTERM. The other specifications need none: nothing they promise says "eventually".

Three modules have diagnostic configurations beside those of the runs; they show the sequences
behind section 5 and are not part of the runs: `MCActionHookPaired`, `MCToolChannelWindow`,
`MCToolChannelResults`, `MCToolChannelMoves`, `MCRelayAnalysis`, `MCLaunchGrammar`,
`MCEgressGateArtifacts`, `MCDetectorTrainingResume`, `MCTaggerReleaseStale`.

## 4. Proofs

TLAPS proves, for every value of the constants that satisfies the named assumptions of the modules:

- **Vault** (`PolicyAssumption`, `ActionAssumption`, `BoundAssumption`): `TypeCorrect`;
  `MapsStayAgreed`, where the three agreements (by key, by placeholder, by
  variant) are inductive only together, and need that a fresh number is above every issued one;
  `ApprovalsStayBacked`, which needs `MapsStayAgreed` for the class of a placeholder;
  `UsesStayBacked`, from `spent + left <= minted` and the all-or-nothing charge; `MeaningIsKept`;
  and `VaultImplementsLedger`, where an operation is a mint, a spend within credit, a lapse, or a
  stutter of the credits of unexpired grants. `LedgerWithinApproval` is what implementing the ledger
  is worth.
- **ActionHook**: `HookKeepsVault` (each step is a vault step), so that every vault theorem carries
  over; `HookTypeCorrect`; `DeliveredWithinCharges` and, with `UsesStayBacked`,
  `DeliveredWithinApproval`: the agent runtime gets a gated value at most as often as it was
  approved, per token, tool, path and destination; `ApprovedCallsGoThrough`, from the invariant that
  during a consultation and the retry every grant minted for the call is in force until the first of
  them expires: threads may prune but cannot revoke, and the viewer is not served.
- **ToolChannel**: `ChannelTypeCorrect`, `HaltsAreFinal`, and `ResultsOnce`, from the invariant that
  an id is in the list of ids seen from the moment its marker is taken, occurs at most once in the
  queue, and that queue, requests in flight, the marker at work and the deliveries hold it together
  at most once; dropping the oldest texts of a full queue keeps it.
- **LocalModel** (`LocalModelAssumption`), for any questions, tokens, values and replies:
  `LocalTypeCorrect`, `AnswersAreRequested`, `OnlyTheWordPasses`. The invariant (`LocalInv`) ties each
  outcome to the question and the reply it was made of. `OnlyTheWordPasses` is what holds of the
  mediator's promise to fail closed: nothing passes without the word, but some answers raise instead
  of refusing (section 5, item 7). That the sort exists which the model states
  by its result is a lemma of its own (`BeforeIsOrder`, then the rank of each token in the order).
- **RedactorWorker**, for any threads, frames, texts, configurations, cache sizes and numbers of
  workers, timers and calls: `RedactorTypeCorrect`; `OneCallInside`; `AnswersAreOwn`, from the
  invariant that all the worker in use owes, in its input, its output and the queue of its reader
  together, is one answer, to the call that waits (`LinesSound`), and that a Vision worker, which
  reports ready once and never gives up, owes no other line outside the boot: that is why a call
  for texts may keep the worker after a line that is no answer; `ExpiryOnlyWhenIdle`, from the
  current timer never being a stale one.
- **ModelView** and **Relay**, for any requests, frames, texts, values, cache and ring sizes:
  `RelayTypeCorrect`; `NothingKnownLeaves`, where every frame and text of a request leaves in its
  order, each frame hides what the vault knew when it was painted and each text what it knew when it
  was scrubbed (`ViewInv`: the painted part of a frame under way, and every frame in the cache, hide
  what they must, and the vault only grows); `ManifestsAreComplete`; `RecordsStayTrue`, from
  `RecordInv`: an id belongs to one request, and a frame still in the ring tells what became of
  the request it belongs to.
- **DemoController**, for any number of runs, calls and sweeps: `DemoTypeCorrect`,
  `RunnerStaysHeld`, `EndsStayTrue`, `RunsGetClosed`, `RunsStayRecorded`. The first four are
  inductive only together with four facts (`DemoInv`): runs not begun have no runner and no reader;
  a reader past its output has a runner that has ended; what is recorded, if it was started, is what
  is held; the latest run is held until its reader is done. That is why the reader's test of
  `_process` is enough, although a failed start leaves `_process` with a run that is not the
  recorded one. `RunsStayRecorded` needs `RecordsHeld` besides: only the latest run has a living
  runner or is recorded, and what its proxy or a thread holds is of that run or of one that was
  `lingering` when it began.
- **Launch** (`LaunchAssumption`), for any settings, policies, environments and changes:
  `LaunchTypeCorrect`; `RunsAreAsChosen`, `NothingRawIsSent` and `AcceptedSettingsStart`. The
  invariant (`LaunchInv`) says where the environment of a run comes from: from a launch by hand, or
  from the settings that *still* hold, since they change only between runs, and from a key that was
  there then (`Origin`); and what has been read of it so far (`Read`, `Paid`). The words a hook may
  have are never "odd" from the script on (`SwitchesAreRead`), which is what makes a mistyped switch
  refuse and not weaken.
- **EgressGate** (`GateAssumption`), for any launches, processes and signals, although the run has
  one launch: `GuardComesFirst`, `SuccessMeansGone`, `NothingIsLeft`, from one invariant (`GateInv`)
  that relates the program counters of script, monitor and stub to the process table. Of a
  process that ignores SIGTERM it keeps that it was told (`term`), of a runtime found after the
  cleanup that it was started after the sweep (`late`).
- **DetectorData**, for any uploads, rows, containers and kills: `DataTypeCorrect`,
  `HeldOutStaysOut`, `StagesAreContracts`, `FailuresKeepStages`. The invariant (`DataInv`) says that a
  tree that passes verification keeps its splits apart and its labels whole wherever it was copied,
  and that the former stage is held until the new one is verified. Nothing is assumed of the rows.
- **DetectorTraining**, for any seeds, data, evaluations, schedules and number of launches:
  `TrainingTypeCorrect`; `SelectionNeverRegresses`, where one application of the rule keeps the
  incumbent above the seed and within the allowance of the *high water*, so that any number of
  applications do; `SafetyBestAgrees`, which needs that what was committed (`FileSound`) and what
  the process holds (`ProcSound`) are sound together, since a crash turns the one into the other;
  `ManifestsAreTrue`; `CheckpointsHaveOneOrigin` (`OneContract`): everything in an attempt's
  directory, on disk, on the volume and in the process, is of the seed and the data it was begun
  with; and `TrainingImplementsSelectionLog`: each step takes the durable selection to that of an
  uninterrupted run that has judged one epoch more (`Advances`), leaves it, or discards it as
  `--force` does; a crash takes it nowhere, since a trainer is never more than one epoch ahead of
  the last commit (`Durable`).
- **TaggerRelease**, for any backends, stages, trainings and commits: `ReleaseTypeCorrect`;
  `EligibleIsEvaluated`, from the invariant that the records beside `final/` are of the model in it
  unless its train stage broke off (`RunIsOfOneModel`), which needs that no record is of a model
  still to come (`Past`); `EligibleIsVerified`, from `ReportIsOfOneModel`; `PublishedLockIsTrue`,
  from `PublishesOne`: while a directory is published untouched, the local manifest is the validated
  one, and from the verification on the commit to be pinned holds its files.

Only model-checked: liveness (`LoopIsFreed`, `CallsEnd`, `WorkerReleased`, `RequestsEnd`,
`SeenIsEnded`), for the provers handle neither fairness nor `ENABLED`. Every invariant and every
other action property of the runs is a theorem.

The assumptions are on the shape of the constants and hold of the code: bounds are numbers, a null
value is none of the values it stands beside, an environment maps a switch to one of its three
words. `LaunchAssumption` says besides that the demo writes no policy the proxy could not read.
TLC evaluates all of them in the runs.

## 5. Where code and documentation disagree

Of the session:

1. `privacy.py:374` says collector and resolver of references are paired; an argument name with
   surrounding blanks is authorised and charged under its stripped form, then looked up under the
   raw one, and refused (`privacy.py:1420`; `MCActionHookPaired.cfg`).
2. "At most one `review_trace` per window" (`docs/local-llm-runbook.md:121`) does not hold for two
   requests in flight, whose threads may both pass the window test (`tool_channel.py:248`;
   `MCToolChannelWindow.cfg`).
3. "The halt state [ends] in 'no real value moves'" (`tool_channel.py:22`) does not hold for a
   completion whose request was forwarded before the halt: the response hook does not look at the
   flag (`privacy.py:1277`; `MCToolChannelMoves.cfg`).
4. "The answer arrives in your next observation" (`tool_channel.py:63`) does not hold when the
   upstream call of the request that carries it fails (`privacy.py:1012`; `MCToolChannelResults.cfg`).
5. The viewer's ledger promises pixels and mask count of the same frame (`README.md:70`); two
   requests that paint at once may get each other's analysis (`proxy.py:744`; `MCRelayAnalysis.cfg`).
6. "The vault maps one value to one placeholder" (`semantic_executor.py:169`) is false for the same
   text in two classes; the executor fails closed there.
7. "Every failure path returns the fail-closed verdict (deny / halt) instead of raising"
   (`mediator.py:7`): a verdict that is a JSON list or object raises `TypeError` at the membership
   test (`mediator.py:287`, `336`), and a limit too large for a float raises `OverflowError`
   (`mediator.py:368`). Neither `tool_channel.py:234` nor `proxy.py:1073` and `1170` catch these. The
   request or completion at hand ends with an internal error, so that it moves nothing; but a review
   that raises has noted its window (`tool_channel.py:257`) and halts nothing, and later requests in
   the window go on without a "continue". `NeverRaises`, put among the invariants of
   `MCLocalModel.cfg`, has the reply; `ToolChannel.ReviewRaises` is what it does to the channel.

A painted frame is sent again as it was (`docs/usage.md:164`), although a value visible in it may
have been vaulted since: documented, and therefore `KnownStaysHidden` speaks of what the vault knew
when the frame was painted.

Of the launch:

8. "Snapshot the first request's action grammar" (`proxy.py:290`): the first request is the script's
   own probe (`run_agent.sh:364`), so that the grammar captured is the probe's
   (`MCLaunchGrammar.cfg`).
9. `PLVA_HOOK_IMAGE` is documented (`run_agent.sh:102`) but makes the probe fail (`proxy.py:281`);
   `PLVA_HOOK=test` refuses the probe's reply, which is no JSON.
10. Connecting the Holo CLI sets the source to "auto", so that a key of the environment is used,
   although the demo says "Using the API key saved by holo login." (`demo.py:412`).
11. The script accepts a key of any layer (`run_agent.sh:66`) where the proxy requires one of the
    chosen source; it refuses `export KEY=` lines that `credentials.py` accepts.
12. With protection off and the skill on, the placeholder skill is still installed
    (`run_agent.sh:246`, against `docs/usage.md:134`). The channel is taught but its results never
    delivered when manifest or chips are off (`privacy.py:1011`), and its markers never scanned when
    resolution is off. An inherited `PLVA_VISUAL_MODEL` overrides the detector chosen in the demo,
    and the demo's batch redactor keeps the settings of its first use (`demo.py:587`).

Of the script and monitor: "Frame-bearing artifacts must never survive, including on signals"
(`run_agent.sh:289`) does not hold for two signals, the second of which cuts the cleanup
(`MCEgressGateArtifacts.cfg`). A refused agent that is still stopped keeps its TERM pending, so that
the script's `wait` does not return. "Any non-loopback remote kills the runtime group"
(`run_agent.sh:396`): the monitor sends SIGTERM and ends (`egress_verify.py:160`), and the cleanup
sends KILL to runtimes by name, never to the command line's group. A command line that ignores
SIGTERM keeps the script waiting without a limit, so that a runtime whose connection was seen is
swept only when it ends or the user interrupts; after the sweep such a one may live on and
daemonize a runtime (`NothingLeft` and `SeenIsEnded` except both). A CONT sent before the stub has stopped itself is lost. Samples
are 100 ms apart, so that a shorter connection is not seen; `VerifiedMeansGone` says what a verdict
does promise. A signal between the start of the proxy and the setting of the trap leaves the proxy.

Of the demo controller, where no document promises otherwise: a start that cannot spawn its runner
leaves `_process` as it was, so that the reader of the former run closes the record of the failed
one; a "ready" line read after a stop turns "stopping" back into "running", and the stopped run is
recorded as failed; a record fetched while a run began is stored with that run's calls. The
properties of `DemoController` say what holds around these.

Of training and release: a trainer stopped after its last epoch and before its manifest resumes only if nothing else
changed (`MCDetectorTrainingResume.cfg` has the sequence); `evaluation.json` does not name its model,
so that a train stage that broke off lets an export borrow the evaluation of the model before it
(`MCTaggerReleaseStale.cfg`), which is why `ReleasedIsEvaluated` excepts those; `verify.mjs` keeps the
passes of other backends under a new golden hash, whose vectors the release checks only count; a
directory downloaded again while it is published may be pinned with the revision of the former one,
which is why `LockIsTrue` excepts it.

## 6. Hazards without a property

- Results drained into a request that is not delivered are lost (`privacy.py:1012`), two requests
  may review in one window (`tool_channel.py:248`), a completion in flight moves values after a halt
  (`privacy.py:956`), pixels and analysis may be of two frames (`proxy.py:744`): the code does this,
  and section 5 has the sequences.
- `redactor.py:213`: `close()` while a call waits for the lock lets the call start a worker again.
  The shutdown of the process is not modelled. The write of a request (`redactor.py:173`, `251`)
  blocks without a timeout when the worker does not read, and with it every frame: `CallsEnd` excepts
  just that. The size of a pipe is not modelled: any write may block.
- `redactor.py:383`: a line of a living worker that is JSON but no object counts as an end of its
  output while its reader goes on; no worker of the repository prints one. A completion nested too
  deep for the JSON decoder raises `RecursionError` in the local model client.
- `privacy.py:530`: `close()` stops redactor, vault and painted frames one after the other while
  hooks may run; `privacy.py:984`: the task context is shared by all request threads. The shutdown
  and the text of the task are not modelled.
- `prepare_supplemental.py:498`: the adapter leaves the count of label-free screens out of the
  manifest when there is none, and `stage_supplemental.py:374` looks for a zero: a supplement with a
  split in which every screen has a label is converted and uploaded, and refused at staging
  (`CountsAgree`).
- Within `DetectorData`, `rmtree` removes a tree in one step. Within `TaggerRelease`, the forced
  deletions of training and evaluation (`modal_app.py:259`, `180`) are one step, a download broken
  off before the lock file is synchronised (`modal_app.py:913`) is left out, for it multiplies the
  states beyond the run and only leaves a lock that was true before, and the
  validation of an artifact and the second reading of its manifest (`publish.py:17`) are one step.
- `demo.py:544`, `demo.py:798`: see the demo controller in section 5.

## 7. Not modelled

- The detectors (`hybrid.py`, `semantics.py`, `worker.js`, `runner.js`): numerical code; they are the
  environment of `RedactorWorker` and `ModelView`, which lets them answer anything.
- Quantization, goldens and evaluation of the visual detector, OCR and semantic experiments:
  one-shot numerical scripts without state between calls.
- Runtime capture, providers, probes, benchmark, live view: command-line utilities without
  concurrent state. The HTML and JavaScript user interfaces.
- Within modelled components: the shutdown of the proxy, the cache of texts classified as safe, the
  re-assembly of event streams and the cancellation of a request by its client, the memory of the
  tool loop, uploads and traces of the demo. They are what could come next.
