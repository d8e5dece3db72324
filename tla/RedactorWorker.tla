--------------------------- MODULE RedactorWorker ---------------------------
(***************************************************************************)
(* AcceleratedRedactor (src/src/plva_proxy/redactor.py): one worker        *)
(* process, started on demand, that redacts frames and classifies history  *)
(* texts for the request-hook threads, and that an idle timer releases.    *)
(*                                                                         *)
(* Every operation runs under the redactor's lock, but it waits there for  *)
(* a worker that answers, refuses, stays silent or dies at any time, while *)
(* a reader thread moves what the worker printed to the response queue of  *)
(* that worker and timers that have fired wait for the lock.  A request is *)
(* written to the worker's pipe without a time-out: a worker that lives    *)
(* and does not read holds the call, and the lock, as long as it likes.    *)
(***************************************************************************)
EXTENDS Naturals, Sequences, FiniteSets, Functions

CONSTANTS
  Thread,        \* threads that use the redactor
  Nobody,        \* no thread
  Frame,         \* frames, by content
  Texts,         \* history texts to classify, by content
  Warm,          \* the job of start(): nothing but a running worker
  Refused,       \* the content of an answer that is not ok
  Failed,        \* the outcome of a call that raises
  Config,        \* the configurations: kind of worker, idle timeout
  CacheEntries,  \* frames kept (32 in the code)
  MaxWorker,     \* bound: worker processes started
  MaxTimer,      \* bound: timers alive at a time
  MaxCalls       \* bound: calls

Job     == Frame \cup Texts \cup {Warm}
Outcome == Job \cup {Failed}
Worker  == 1..MaxWorker
Timer   == 1..MaxTimer
NoTimer == 0
NoWorker == 0

(* What a worker prints: that it is ready, that it gives up, or the answer *)
(* to a request.  The reader adds the end: nothing comes any more, or      *)
(* nothing that is valid.                                                  *)
Ready == [type |-> "ready", id |-> 0, of |-> Warm]
Fatal == [type |-> "fatal", id |-> 0, of |-> Warm]
End   == [type |-> "end", id |-> 0, of |-> Warm]
Answer(id, of) == [type |-> "answer", id |-> id, of |-> of]
Request(id, job) == [id |-> id, of |-> job]

(* worker_kind, and idle_timeout_s as far as the code tells values apart.  *)
Configs == [kind : {"browser", "vision"}, idle : {"none", "zero", "timed"}]

ASSUME ConfigAssumption == Config \subseteq Configs
ASSUME ThreadAssumption == Nobody \notin Thread
ASSUME BoundAssumption == {MaxWorker, MaxTimer, CacheEntries} \subseteq Nat

VARIABLES
  config,      \* _config
  owner,       \* the holder of _lock
  pc,          \* pc[t]: idle, wants, ensure, boot, send (writing), await or leave
  job,         \* job[t]: what the call of t is for
  outcome,     \* outcome[t]: how the latest call of t ended
  frames,      \* _cache, least recently used first
  texts,       \* _text_cache
  process,     \* _process
  started,     \* processes started so far
  status,      \* of the latest worker: booting, ready, closing or dead
  input,       \* requests written to it and not read
  responses,   \* _responses: the queue of its reader thread
  output,      \* output[w]: lines printed by worker w and not read
  reading,     \* reading[w]: the reader thread of w runs
  nextId,      \* _ids: the latest request id
  timer,       \* _idle_timer
  timers,      \* timers[i]: off, ticking, or fired and waiting for the lock
  calls,       \* bound: calls begun
  stale        \* history: timers armed before the latest use of the redactor

threadVars == <<config, owner, pc, job, outcome, calls>>
cacheVars  == <<frames, texts>>
workerVars == <<status, input, responses, output, reading>>
timerVars  == <<timer, timers, stale>>
vars == <<config, owner, pc, job, outcome, calls, frames, texts, process, started, status, input,
          responses, output, reading, nextId, timer, timers, stale>>

Init ==
  /\ config \in Config
  /\ owner = Nobody /\ calls = 0
  /\ pc = [t \in Thread |-> "idle"]
  /\ job = [t \in Thread |-> Warm] /\ outcome = [t \in Thread |-> Failed]
  /\ frames = << >> /\ texts = << >>
  /\ process = NoWorker /\ started = 0
  /\ status = "dead" /\ input = << >> /\ responses = << >>
  /\ output = [w \in Worker |-> << >>] /\ reading = [w \in Worker |-> FALSE]
  /\ nextId = 0
  /\ timer = NoTimer /\ timers = [i \in Timer |-> "off"] /\ stale = {}

-----------------------------------------------------------------------------
(* The idle timer and the process *)

(* A timer that has fired cannot be cancelled any more.                    *)
Cancelled == [i \in Timer |-> IF i = timer /\ timers[i] = "ticking" THEN "off" ELSE timers[i]]

Cancel == timer' = NoTimer /\ timers' = Cancelled

Arm == \E i \in Timer : /\ Cancelled[i] = "off"
                        /\ timers' = [Cancelled EXCEPT ![i] = "ticking"]
                        /\ timer' = i
                        /\ stale' = stale \ {i}

(* _stop_process returns once the process is gone.                         *)
Stop == process' = NoWorker /\ status' = "dead"

Running == process # NoWorker /\ status # "dead"

-----------------------------------------------------------------------------
(* Calls *)

Begin(t, j) ==
  /\ pc[t] = "idle" /\ calls < MaxCalls
  /\ j \in Texts => config.kind = "vision"
  /\ calls' = calls + 1
  /\ pc' = [pc EXCEPT ![t] = "wants"] /\ job' = [job EXCEPT ![t] = j]
  /\ UNCHANGED <<config, owner, outcome, cacheVars, process, started, workerVars, nextId,
                 timerVars>>

Entry(k, v) == [key |-> k, value |-> v]
Keys(c) == {e.key : e \in Range(c)}

(* A cache has one entry per key.                                          *)
Without(c, k) ==
  IF k \notin Keys(c) THEN c
  ELSE LET at == CHOOSE i \in DOMAIN c : c[i].key = k IN
       [i \in 1..(Len(c) - 1) |-> IF i < at THEN c[i] ELSE c[i + 1]]
Newest(c, n) == IF Len(c) <= n THEN c ELSE SubSeq(c, Len(c) - n + 1, Len(c))

(* The call has its outcome; the finally clause is still to run.           *)
Ends(t, o) == /\ pc' = [pc EXCEPT ![t] = "leave"]
              /\ outcome' = [outcome EXCEPT ![t] = o]
              /\ UNCHANGED <<config, owner, job, calls>>

Goes(t, label) == /\ pc' = [pc EXCEPT ![t] = label]
                  /\ UNCHANGED <<config, owner, job, outcome, calls>>

Enters(t) ==
  /\ pc[t] = "wants" /\ owner = Nobody
  /\ owner' = t
  /\ Cancel
  /\ stale' = {i \in Timer : timers[i] = "fired"}
  /\ UNCHANGED <<config, job, calls, process, started, workerVars, nextId>>

Hit(t) ==
  /\ Enters(t)
  /\ \E e \in Range(frames) \cup Range(texts) :
        /\ e.key = job[t]
        /\ outcome' = [outcome EXCEPT ![t] = e.value]
        /\ IF job[t] \in Frame
           THEN frames' = Append(Without(frames, job[t]), e) /\ UNCHANGED texts
           ELSE texts' = Append(Without(texts, job[t]), e) /\ UNCHANGED frames
  /\ pc' = [pc EXCEPT ![t] = "leave"]

Miss(t) ==
  /\ Enters(t)
  /\ \A e \in Range(frames) \cup Range(texts) : e.key # job[t]
  /\ pc' = [pc EXCEPT ![t] = "ensure"]
  /\ UNCHANGED <<outcome, cacheVars>>

Ensured(t) ==
  /\ pc[t] = "ensure"
  /\ Running
  /\ IF job[t] = Warm THEN Ends(t, Warm) ELSE Goes(t, "send")
  /\ UNCHANGED <<cacheVars, process, started, workerVars, nextId, timerVars>>

(* A new process, with a response queue and a reader thread of its own.    *)
Spawn(t) ==
  /\ pc[t] = "ensure" /\ ~Running /\ started < MaxWorker
  /\ started' = started + 1 /\ process' = started + 1
  /\ status' = "booting" /\ input' = << >> /\ responses' = << >>
  /\ reading' = [reading EXCEPT ![started + 1] = TRUE]
  /\ Goes(t, "boot")
  /\ UNCHANGED <<cacheVars, output, nextId, timerVars>>

(* Missing assets leave _process as it was; Popen that fails clears it.    *)
SpawnFails(t) ==
  /\ pc[t] = "ensure" /\ ~Running
  /\ process' \in {process, NoWorker}
  /\ Ends(t, Failed)
  /\ UNCHANGED <<cacheVars, started, workerVars, nextId, timerVars>>

(* The write to the worker's pipe is over: the worker has read it, or there *)
(* was room for it.  A frame is larger than a pipe.                        *)
Send(t) ==
  /\ pc[t] = "send"
  /\ Running
  /\ nextId' = nextId + 1
  /\ input' = Append(input, Request(nextId + 1, job[t]))
  /\ Goes(t, "await")
  /\ UNCHANGED <<cacheVars, process, started, status, output, responses, reading, timerVars>>

(* BrokenPipeError, before or while it is written.                         *)
SendFails(t) ==
  /\ pc[t] = "send"
  /\ ~Running
  /\ nextId' = nextId + 1
  /\ Stop
  /\ Ends(t, Failed)
  /\ UNCHANGED <<cacheVars, started, input, output, responses, reading, timerVars>>

(* Mutant of TimesOut: only the wait for a new worker is bounded.           *)
TimesOutAtBoot(t) ==
  /\ pc[t] = "boot"
  /\ responses = << >>
  /\ Stop
  /\ Ends(t, Failed)
  /\ UNCHANGED <<cacheVars, started, input, output, responses, reading, nextId, timerVars>>

TimesOut(t) ==
  /\ pc[t] \in {"boot", "await"}
  /\ responses = << >>
  /\ Stop
  /\ Ends(t, Failed)
  /\ UNCHANGED <<cacheVars, started, input, output, responses, reading, nextId, timerVars>>

(* The line a waiting call takes off the response queue of its worker.     *)
Takes(t, label) ==
  /\ pc[t] = label
  /\ responses # << >>
  /\ responses' = Tail(responses)
  /\ UNCHANGED <<started, input, output, reading, nextId, timerVars>>

Line == Head(responses)

Boots(t) ==
  /\ Takes(t, "boot")
  /\ Line.type = "ready"
  /\ IF job[t] = Warm THEN Ends(t, Warm) ELSE Goes(t, "send")
  /\ UNCHANGED <<cacheVars, process, status>>

BootFails(t) ==
  /\ Takes(t, "boot")
  /\ Line.type # "ready"
  /\ Stop
  /\ Ends(t, Failed)
  /\ UNCHANGED cacheVars

Answers(t) == Line.type = "answer" /\ Line.id = nextId

(* Mutant of TakesFrame: the answer is remembered before it is looked at.   *)
TakesFrameUnseen(t) ==
  /\ Takes(t, "await") /\ Answers(t) /\ job[t] \in Frame
  /\ frames' = Newest(Append(Without(frames, job[t]), Entry(job[t], Line.of)), CacheEntries)
  /\ Ends(t, IF Line.of = Refused THEN Failed ELSE Line.of)
  /\ UNCHANGED <<texts, process, status>>

TakesFrame(t) ==
  /\ Takes(t, "await") /\ Answers(t) /\ job[t] \in Frame
  /\ IF Line.of = Refused
     THEN Ends(t, Failed) /\ UNCHANGED frames
     ELSE /\ Ends(t, Line.of)
          /\ frames' = Newest(Append(Without(frames, job[t]), Entry(job[t], Line.of)),
                              CacheEntries)
  /\ UNCHANGED <<texts, process, status>>

TakesTexts(t) ==
  /\ Takes(t, "await") /\ Answers(t) /\ job[t] \in Texts
  /\ IF Line.of = Refused
     THEN Ends(t, Failed) /\ UNCHANGED texts
     ELSE /\ Ends(t, Line.of)
          /\ texts' = Newest(Append(Without(texts, job[t]), Entry(job[t], Line.of)),
                             IF CacheEntries = 0 THEN 1 ELSE CacheEntries)
  /\ UNCHANGED <<frames, process, status>>

(* An answer whose image is missing or no PNG.                             *)
TakesNoImage(t) ==
  /\ Takes(t, "await") /\ Answers(t) /\ job[t] \in Frame /\ Line.of = Refused
  /\ Stop
  /\ Ends(t, Failed)
  /\ UNCHANGED cacheVars

(* The end of the protocol, or a line that answers something else: a call  *)
(* for texts that sees the latter keeps the worker.                        *)
TakesNoAnswer(t) ==
  /\ Takes(t, "await") /\ ~Answers(t)
  /\ IF job[t] \in Texts /\ Line.type # "end" THEN UNCHANGED <<process, status>> ELSE Stop
  /\ Ends(t, Failed)
  /\ UNCHANGED cacheVars

(* The finally clause, and the release of the lock; a start() that raises  *)
(* skips the former.  Mutant of Rearms: so does every call that raises.     *)
RearmsOnSuccess(t) == process # NoWorker /\ outcome[t] # Failed

Rearms(t) == process # NoWorker /\ ~(job[t] = Warm /\ outcome[t] = Failed)

Leave(t) ==
  /\ pc[t] = "leave"
  /\ owner' = Nobody /\ pc' = [pc EXCEPT ![t] = "idle"]
  /\ job' = [job EXCEPT ![t] = Warm] /\ outcome' = [outcome EXCEPT ![t] = Failed]
  /\ \/ Rearms(t) /\ config.idle = "zero" /\ Stop /\ UNCHANGED timerVars
     \/ Rearms(t) /\ config.idle = "timed" /\ Arm /\ UNCHANGED <<process, status>>
     \/ /\ ~Rearms(t) \/ config.idle = "none"
        /\ UNCHANGED <<process, status, timerVars>>
  /\ UNCHANGED <<config, calls, cacheVars, started, input, responses, output, reading, nextId>>

Close ==
  /\ owner = Nobody
  /\ frames' = << >> /\ texts' = << >>
  /\ Cancel /\ Stop
  /\ UNCHANGED <<threadVars, started, input, output, responses, reading, nextId, stale>>

-----------------------------------------------------------------------------
(* Timers *)

TimerFires(i) ==
  /\ timers[i] = "ticking"
  /\ Cardinality({j \in Timer : timers[j] = "fired"}) < MaxTimer - 1
  /\ timers' = [timers EXCEPT ![i] = "fired"]
  /\ UNCHANGED <<threadVars, cacheVars, process, started, workerVars, nextId, timer, stale>>

(* Mutant of Expire: whichever timer fires stops the worker.                *)
ExpireAnyTimer(i) ==
  /\ timers[i] = "fired" /\ owner = Nobody
  /\ timer' = NoTimer /\ timers' = [Cancelled EXCEPT ![i] = "off"]
  /\ Stop
  /\ UNCHANGED <<threadVars, cacheVars, started, input, output, responses, reading, nextId,
                 stale>>

(* A timer that is not the current one any more does nothing.              *)
Expire(i) ==
  /\ timers[i] = "fired" /\ owner = Nobody
  /\ timers' = [timers EXCEPT ![i] = "off"]
  /\ IF timer = i
     THEN timer' = NoTimer /\ Stop
     ELSE UNCHANGED <<timer, process, status>>
  /\ UNCHANGED <<threadVars, cacheVars, started, input, output, responses, reading, nextId,
                 stale>>

-----------------------------------------------------------------------------
(* The worker processes and their reader threads *)

Prints(line) == output' = [output EXCEPT ![started] = Append(@, line)]

Reported == {output[started][i] : i \in DOMAIN output[started]} \cup Range(responses)

WorkerReady ==
  /\ status = "booting" \/ (status = "ready" /\ config.kind = "browser")
  /\ Ready \notin Reported                              \* bound: one at a time
  /\ status' = "ready"
  /\ Prints(Ready)
  /\ UNCHANGED <<threadVars, cacheVars, process, started, input, responses, reading, nextId,
                 timerVars>>

(* fatal(): the report, then a shutdown that takes its time.               *)
WorkerGivesUp ==
  /\ config.kind = "browser" /\ status \in {"booting", "ready"}
  /\ status' = "closing"
  /\ Prints(Fatal)
  /\ UNCHANGED <<threadVars, cacheVars, process, started, input, responses, reading, nextId,
                 timerVars>>

WorkerAnswers ==
  /\ status = "ready" /\ input # << >>
  /\ \E of \in {Head(input).of, Refused} : Prints(Answer(Head(input).id, of))
  /\ input' = Tail(input)
  /\ UNCHANGED <<threadVars, cacheVars, process, started, status, responses, reading, nextId,
                 timerVars>>

WorkerDies ==
  /\ status # "dead"
  /\ status' = "dead"
  /\ UNCHANGED <<threadVars, cacheVars, process, started, input, responses, output, reading,
                 nextId, timerVars>>

(* Each reader has the queue of its own worker; nobody reads that of a       *)
(* former one.                                                             *)
Queued(w, line) ==
  IF w = started THEN responses' = Append(responses, line) ELSE UNCHANGED responses

Reads(w) ==
  /\ reading[w] /\ output[w] # << >>
  /\ output' = [output EXCEPT ![w] = Tail(@)]
  /\ Queued(w, Head(output[w]))
  /\ UNCHANGED <<threadVars, cacheVars, process, started, status, input, reading, nextId,
                 timerVars>>

(* The pipe is at its end, or closed by _stop_process with lines in it, or *)
(* the next line is not JSON: then the worker lives, and nothing that it    *)
(* prints is read any more.                                                *)
ReaderEnds(w) ==
  /\ reading[w]
  /\ output[w] = << >> \/ process # w
  /\ reading' = [reading EXCEPT ![w] = FALSE]
  /\ output' = [output EXCEPT ![w] = << >>]
  /\ Queued(w, End)
  /\ UNCHANGED <<threadVars, cacheVars, process, started, status, input, nextId, timerVars>>

-----------------------------------------------------------------------------
(* The steps that do not wait for the worker to read.                      *)
OwnStep(t) ==
  \/ Hit(t) \/ Miss(t) \/ Ensured(t) \/ Spawn(t) \/ SpawnFails(t)
  \/ SendFails(t) \/ TimesOut(t) \/ Boots(t) \/ BootFails(t)
  \/ TakesFrame(t) \/ TakesTexts(t) \/ TakesNoImage(t) \/ TakesNoAnswer(t)
  \/ Leave(t)

Step(t) == OwnStep(t) \/ Send(t)

Next ==
  \/ \E t \in Thread : Step(t) \/ \E j \in Job : Begin(t, j)
  \/ Close
  \/ \E i \in Timer : TimerFires(i) \/ Expire(i)
  \/ WorkerReady \/ WorkerGivesUp \/ WorkerAnswers \/ WorkerDies
  \/ \E w \in Worker : Reads(w) \/ ReaderEnds(w)

Spec == Init /\ [][Next]_vars

(* The threads of the redactor and its timers run, and every wait for an   *)
(* answer has a timeout; nothing is assumed of the worker, not even that it *)
(* reads: a write that has begun may hang.  The bound on the calls makes   *)
(* the lock free in the end, so that no call has to be assumed to win it    *)
(* against an endless row of others.                                       *)
FairSpec ==
  /\ Spec
  /\ \A t \in Thread : WF_vars(OwnStep(t))
  /\ \A i \in Timer : WF_vars(TimerFires(i)) /\ WF_vars(Expire(i))

-----------------------------------------------------------------------------
(* Properties *)

(* Types and sizes of the redactor's state; a cache has one entry per key.  *)
TypeOK ==
  /\ config \in Config
  /\ owner \in Thread \cup {Nobody}
  /\ pc \in [Thread -> {"idle", "wants", "ensure", "boot", "send", "await", "leave"}]
  /\ job \in [Thread -> Job] /\ outcome \in [Thread -> Outcome]
  /\ Keys(frames) \subseteq Frame /\ Len(frames) <= CacheEntries
  /\ Keys(texts) \subseteq Texts /\ Len(texts) <= CacheEntries + 1
  /\ Cardinality(Keys(frames)) = Len(frames) /\ Cardinality(Keys(texts)) = Len(texts)
  /\ process \in Worker \cup {NoWorker} /\ started \in 0..MaxWorker
  /\ status \in {"booting", "ready", "closing", "dead"}
  /\ reading \in [Worker -> BOOLEAN]
  /\ nextId \in 0..MaxCalls /\ calls \in 0..MaxCalls
  /\ timer \in Timer \cup {NoTimer}
  /\ timers \in [Timer -> {"off", "ticking", "fired"}]
  /\ stale \subseteq Timer

(* A call that returns returns what a worker made of its own frame or      *)
(* texts, and so does every later call that finds it in the cache, however *)
(* many workers were stopped, timed out or died in between.                *)
AnswersMatch ==
  /\ \A t \in Thread : pc[t] = "leave" => outcome[t] \in {job[t], Failed}
  /\ \A e \in Range(frames) \cup Range(texts) : e.value = e.key

(* No worker in use owes an answer to an earlier call, and the queue a      *)
(* call waits at never ends as long as its own worker prints: what a former *)
(* worker left behind, late answer or end of its output, does not reach    *)
(* the calls that the next one serves.                                     *)
Owed == {input[i].id : i \in DOMAIN input}
          \cup {line.id : line \in {l \in Reported : l.type = "answer"}}
OwnLines ==
  process # NoWorker =>
     /\ \A id \in Owed : id = nextId /\ \E t \in Thread : pc[t] = "await"
     /\ reading[process] => End \notin Range(responses)

(* A call is answered with what was made of its own input, by the worker    *)
(* that it waited for or by one whose answer was cached.                   *)
OwnAnswers == AnswersMatch /\ OwnLines

(* A timer only ever releases a worker that has been idle since the timer  *)
(* was armed, even if it fired just before a call took the lock.           *)
ExpiryIsIdle ==
  [][\A i \in Timer : timers[i] = "fired" /\ timers'[i] = "off" /\ process' # process
                         => i \notin stale]_vars

(* A call is writing to a worker that lives and has not read.              *)
Writing == Running /\ \E t \in Thread : pc[t] = "send"

(* One thing alone holds a call for ever: a worker that lives and never     *)
(* reads what is being written to it, which nothing bounds (redactor.py:173 *)
(* and 251); the call then keeps the lock, and all others with it.  Short  *)
(* of that every call ends, it answers or it raises, whether the worker    *)
(* starts, answers, dies, prints nonsense or falls silent.                 *)
CallsEnd == <>[]Writing \/ \A t \in Thread : pc[t] = "wants" ~> pc[t] = "idle"

(* A redactor that is not used any more gives up its worker, unless it is  *)
(* told to keep it warm.                                                   *)
WorkerReleased ==
  config.idle # "none" /\ <>[](\A t \in Thread : pc[t] = "idle") => <>[]~Running
=============================================================================
