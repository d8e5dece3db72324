----------------------------- MODULE ToolChannel ----------------------------
(***************************************************************************)
(* The bridge between the proxy's hooks and the local model                *)
(* (tool_channel.py, with the trigger of mediator.py): tool markers and    *)
(* their results, the value-free event trace, and the watchdog that may    *)
(* halt the agent.                                                         *)
(*                                                                         *)
(* The request hook of a model request runs in a worker thread, so two     *)
(* requests interleave between any two acquisitions of the channel's lock. *)
(* The response hook runs on the event loop, one completion at a time.     *)
(* What an action resolves to is left to the environment here (module      *)
(* ActionHook): a call moves real values, or is denied.  A completion has  *)
(* one choice, and an entry of the trace and the text queued right after   *)
(* it are one step: no other step of the program reads both lists.         *)
(***************************************************************************)
EXTENDS Integers, Sequences, FiniteSets, Functions

CONSTANTS
  Request,       \* requests that may be in flight together
  Nobody,        \* no request
  Id,            \* ids of tool markers
  Markers,       \* the marker sequences a completion may carry
  Notice,        \* any queued text that is not the result of a marker
  Window,        \* criteria.window_steps (8 in the code)
  Threshold,     \* criteria.denied_resolution_threshold (3 in the code)
  MaxMarkers,    \* markers honoured per completion (2 in the code)
  MaxPending,    \* texts kept for the next observation (8 in the code)
  MaxEvents,     \* events kept in the trace (200 in the code)
  MaxStep        \* bound: completions

ASSUME ChannelAssumption ==
  /\ Window \in Nat \ {0} /\ Threshold \in Nat \ {0}
  /\ MaxMarkers \in Nat /\ MaxPending \in Nat \ {0} /\ MaxEvents \in Nat \ {0}
  /\ MaxStep \in Nat
  /\ Markers \subseteq Seq(Id)
  /\ Notice \notin Id /\ Nobody \notin Request

LongAgo    == -Window                    \* -(10**9): any window has passed
Kinds      == {"tool", "approval_granted", "approval_denied", "resolution_denied"}
Suspicious == {"approval_denied", "resolution_denied"}
Event      == [step : 0..MaxStep, kind : Kinds]
Stages     == {"idle", "triggered", "reviewing", "checking", "passed", "sent", "answered"}

VARIABLES
  pending,       \* _pending: texts for the next observation
  seen,          \* _seen_ids
  events,        \* _events
  step,          \* _step
  lastReview,    \* _last_review_step
  halted,        \* _halted is set
  stage,         \* stage[r]: how far request r is
  snapshot,      \* snapshot[r]: the step maybe_review read
  carried,       \* carried[r]: texts drained into request r
  loop,          \* the request whose completion the event loop treats
  markers,       \* its markers still to be honoured
  running,       \* the first of them is being run
  resolved,      \* it has an action with real values in it
  reviewedAt,    \* history: the step at which the latest review began
  tooSoon,       \* history: a review began within the window of another
  delivered,     \* history: ids whose result reached the model
  lateStart      \* history: requests that started on a halted channel

channel == <<pending, seen, events, step, lastReview, halted>>
leg     == <<loop, markers, running, resolved>>
history == <<reviewedAt, tooSoon, delivered, lateStart>>
vars    == <<pending, seen, events, step, lastReview, halted, stage, snapshot, carried,
             loop, markers, running, resolved,
             reviewedAt, tooSoon, delivered, lateStart>>

Init ==
  /\ pending = << >> /\ seen = {} /\ events = << >>
  /\ step = 0 /\ lastReview = LongAgo /\ halted = FALSE
  /\ stage = [r \in Request |-> "idle"]
  /\ snapshot = [r \in Request |-> 0]
  /\ carried = [r \in Request |-> << >>]
  /\ loop = Nobody /\ markers = << >> /\ running = FALSE /\ resolved = FALSE
  /\ reviewedAt = LongAgo /\ tooSoon = FALSE /\ delivered = {} /\ lateStart = {}

(* The last n elements of s: del s[:-n].                                   *)
Newest(s, n) == IF Len(s) <= n THEN s ELSE SubSeq(s, Len(s) - n + 1, Len(s))

Queue(text) == pending' = Newest(Append(pending, text), MaxPending)

Record(kind) == events' = Newest(Append(events, [step |-> step, kind |-> kind]), MaxEvents)

-----------------------------------------------------------------------------
(* The request leg *)

(* Mediator.should_review: enough suspicious events in the recent window.  *)
Latest == CHOOSE s \in {events[i].step : i \in DOMAIN events} :
             \A i \in DOMAIN events : events[i].step <= s
ShouldReview ==
  /\ events # << >>
  /\ Threshold <= Cardinality({i \in DOMAIN events :
                                 /\ events[i].step >= Latest - Window + 1
                                 /\ events[i].kind \in Suspicious})

(* maybe_review up to the release of the lock, and the trigger, which reads *)
(* only the copy of the events taken under it.                              *)
Start(r) ==
  /\ stage[r] = "idle"
  /\ LET due == ~halted /\ step - lastReview >= Window IN
     stage' = [stage EXCEPT ![r] = IF due /\ ShouldReview THEN "triggered" ELSE "checking"]
  /\ snapshot' = [snapshot EXCEPT ![r] = step]
  /\ lateStart' = IF halted THEN lateStart \cup {r} ELSE lateStart \ {r}
  /\ UNCHANGED <<channel, carried, leg, reviewedAt, tooSoon, delivered>>

BeginReview(r) ==
  /\ stage[r] = "triggered"
  /\ stage' = [stage EXCEPT ![r] = "reviewing"]
  /\ lastReview' = snapshot[r]
  /\ reviewedAt' = step
  /\ tooSoon' = (tooSoon \/ step - reviewedAt < Window)
  /\ UNCHANGED <<pending, seen, events, step, halted, snapshot, carried, leg,
                 delivered, lateStart>>

(* Mutant of EndReview: the verdict replaces the state of the channel.      *)
EndReviewOverwriting(r, action) ==
  /\ stage[r] = "reviewing"
  /\ stage' = [stage EXCEPT ![r] = "checking"]
  /\ halted' = (action = "halt")
  /\ IF action = "warn" THEN Queue(Notice) ELSE UNCHANGED pending
  /\ UNCHANGED <<seen, events, step, lastReview, snapshot, carried, leg, history>>

(* The verdict of the local model; a model that fails, or a word that is    *)
(* none of the verdicts, is a halt.                                        *)
EndReview(r, action) ==
  /\ stage[r] = "reviewing"
  /\ stage' = [stage EXCEPT ![r] = "checking"]
  /\ halted' = (halted \/ action = "halt")
  /\ IF action = "warn" THEN Queue(Notice) ELSE UNCHANGED pending
  /\ UNCHANGED <<seen, events, step, lastReview, snapshot, carried, leg, history>>

(* A verdict that is a JSON list or object cannot be looked up among the    *)
(* verdicts: the exception ends the request, and nothing is halted although *)
(* the review is on record.                                                *)
ReviewRaises(r) ==
  /\ stage[r] = "reviewing"
  /\ stage' = [stage EXCEPT ![r] = "idle"]
  /\ UNCHANGED <<channel, snapshot, carried, leg, history>>

Check(r) ==
  /\ stage[r] = "checking"
  /\ stage' = [stage EXCEPT ![r] = IF halted THEN "idle" ELSE "passed"]
  /\ UNCHANGED <<channel, snapshot, carried, leg, history>>

(* The rest of the request hook fails closed (scrub, manifest, a frame).   *)
HookFails(r) ==
  /\ stage[r] = "passed"
  /\ stage' = [stage EXCEPT ![r] = "idle"]
  /\ UNCHANGED <<channel, snapshot, carried, leg, history>>

(* Mutant of Forward: the texts are read but not taken off the queue.       *)
ForwardKeepingTexts(r, observation) ==
  /\ stage[r] = "passed"
  /\ stage' = [stage EXCEPT ![r] = "sent"]
  /\ carried' = [carried EXCEPT ![r] = IF observation THEN pending ELSE @]
  /\ UNCHANGED <<channel, snapshot, leg, history>>

(* Only a request with an observation to attach texts to drains them.      *)
Forward(r, observation) ==
  /\ stage[r] = "passed"
  /\ stage' = [stage EXCEPT ![r] = "sent"]
  /\ IF observation
     THEN carried' = [carried EXCEPT ![r] = pending] /\ pending' = << >>
     ELSE UNCHANGED <<carried, pending>>
  /\ UNCHANGED <<seen, events, step, lastReview, halted, snapshot, leg, history>>

UpstreamFails(r) ==
  /\ stage[r] = "sent"
  /\ stage' = [stage EXCEPT ![r] = "idle"]
  /\ carried' = [carried EXCEPT ![r] = << >>]
  /\ UNCHANGED <<channel, snapshot, leg, history>>

UpstreamAnswers(r) ==
  /\ stage[r] = "sent"
  /\ stage' = [stage EXCEPT ![r] = "answered"]
  /\ delivered' = delivered \cup (Range(carried[r]) \ {Notice})
  /\ carried' = [carried EXCEPT ![r] = << >>]
  /\ UNCHANGED <<channel, snapshot, leg, reviewedAt, tooSoon, lateStart>>

(* The hook is not applied: not a 200, or a body that is no completion.    *)
Discard(r) ==
  /\ stage[r] = "answered" /\ loop # r
  /\ stage' = [stage EXCEPT ![r] = "idle"]
  /\ UNCHANGED <<channel, snapshot, carried, leg, history>>

-----------------------------------------------------------------------------
(* The response leg, on the event loop *)

(* note_step, and the completion's markers: those past the limit are       *)
(* ignored.                                                                *)
Respond(r, found) ==
  /\ stage[r] = "answered" /\ loop = Nobody
  /\ loop' = r
  /\ step < MaxStep
  /\ step' = step + 1
  /\ markers' = SubSeq(found, 1, IF Len(found) < MaxMarkers THEN Len(found) ELSE MaxMarkers)
  /\ UNCHANGED <<pending, seen, events, lastReview, halted, stage, snapshot, carried,
                 running, resolved, reviewedAt, tooSoon, delivered, lateStart>>

RepeatedMarker ==
  /\ markers # << >> /\ ~running /\ Head(markers) \in seen
  /\ markers' = Tail(markers)
  /\ UNCHANGED <<channel, stage, snapshot, carried, loop, running, resolved, history>>

(* An id is taken before its operation runs, which may ask the local model. *)
ClaimMarker ==
  /\ markers # << >> /\ ~running /\ Head(markers) \notin seen
  /\ seen' = seen \cup {Head(markers)}
  /\ running' = TRUE
  /\ UNCHANGED <<pending, events, step, lastReview, halted, stage, snapshot, carried,
                 loop, markers, resolved, history>>

(* An operation that fails queues a denial notice in the place of a result. *)
AnswerMarker ==
  /\ running
  /\ Record("tool")
  /\ Queue(Head(markers))
  /\ running' = FALSE /\ markers' = Tail(markers)
  /\ UNCHANGED <<seen, step, lastReview, halted, stage, snapshot, carried, loop, resolved,
                 history>>

(* One verdict of a consultation, with or without steering.                *)
Verdict(kind, steering) ==
  /\ loop # Nobody /\ markers = << >>
  /\ Record(kind)
  /\ IF steering THEN Queue(Notice) ELSE UNCHANGED pending
  /\ UNCHANGED <<seen, step, lastReview, halted, stage, snapshot, carried, leg, history>>

ResolveCall ==
  /\ loop # Nobody /\ markers = << >>
  /\ resolved' = TRUE
  /\ UNCHANGED <<channel, stage, snapshot, carried, loop, markers, running, history>>

Finish ==
  /\ stage' = [stage EXCEPT ![loop] = "idle"]
  /\ loop' = Nobody /\ resolved' = FALSE
  /\ UNCHANGED <<seen, step, lastReview, halted, snapshot, carried, markers, running, history>>

DenyCall ==
  /\ loop # Nobody /\ markers = << >>
  /\ Record("resolution_denied")
  /\ UNCHANGED pending
  /\ Finish

(* The hook raises without a denial on record: a call without a name, a     *)
(* path that is refused, a mediator's decision that cannot be looked up.   *)
Fail ==
  /\ loop # Nobody /\ markers = << >>
  /\ UNCHANGED <<events, pending>>
  /\ Finish

(* The completion goes back to the runtime, with real values in the calls  *)
(* that were resolved.                                                     *)
Return ==
  /\ loop # Nobody /\ markers = << >>
  /\ UNCHANGED <<events, pending>>
  /\ Finish

-----------------------------------------------------------------------------
(* POST /viewer/tools runs an operation in a worker thread at any time.    *)
DirectOperation ==
  /\ Record("tool")
  /\ Queue(Notice)
  /\ UNCHANGED <<seen, step, lastReview, halted, stage, snapshot, carried, leg, history>>

Next ==
  \/ \E r \in Request :
       \/ Start(r) \/ BeginReview(r) \/ ReviewRaises(r) \/ Check(r) \/ HookFails(r)
       \/ \E action \in {"continue", "warn", "halt"} : EndReview(r, action)
       \/ \E observation \in BOOLEAN : Forward(r, observation)
       \/ UpstreamFails(r) \/ UpstreamAnswers(r) \/ Discard(r)
       \/ \E found \in Markers : Respond(r, found)
  \/ RepeatedMarker \/ ClaimMarker \/ AnswerMarker
  \/ \E kind \in {"approval_granted", "approval_denied"}, steering \in BOOLEAN :
        Verdict(kind, steering)
  \/ ResolveCall \/ DenyCall \/ Fail \/ Return
  \/ DirectOperation

Spec == Init /\ [][Next]_vars

-----------------------------------------------------------------------------
(* Properties *)

(* Types and sizes of the channel's state.                                 *)
TypeOK ==
  /\ pending \in Seq(Id \cup {Notice}) /\ Len(pending) <= MaxPending
  /\ seen \subseteq Id
  /\ events \in Seq(Event) /\ Len(events) <= MaxEvents
  /\ step \in 0..MaxStep
  /\ lastReview \in {LongAgo} \cup 0..MaxStep
  /\ halted \in BOOLEAN
  /\ stage \in [Request -> Stages]
  /\ snapshot \in [Request -> 0..MaxStep]
  /\ carried \in [Request -> Seq(Id \cup {Notice})]
  /\ loop \in Request \cup {Nobody} /\ markers \in Seq(Id)
  /\ running \in BOOLEAN /\ resolved \in BOOLEAN
  /\ running => markers # << >>
  /\ loop \in Request => stage[loop] = "answered"

(* A result is queued once and drained once: between the queue, the         *)
(* requests that carry it and the model that has read it, it is in one     *)
(* place at a time, so that the model never sees it twice.                 *)
Copies(s, i) == {j \in DOMAIN s : s[j] = i}
ResultsNotDuplicated ==
  \A i \in Id :
     /\ Cardinality(Copies(pending, i))
          + Cardinality({r \in Request : Copies(carried[r], i) # {}})
          + (IF i \in delivered THEN 1 ELSE 0) <= 1
     /\ i \notin seen => Copies(pending, i) = {}

(* No verdict undoes a halt: a request that starts on a halted channel is  *)
(* never forwarded, whatever reviews were under way when it was halted.    *)
HaltIsFinal == \A r \in lateStart : stage[r] \in {"idle", "checking"}

(* The trigger fires at most once per window: two reviews are at least     *)
(* Window completions apart.                                               *)
OneReviewPerWindow == ~tooSoon

(* "the halt state ... end[s] in 'no real value moves'": no completion with *)
(* real values in it reaches the runtime once the channel is halted.       *)
NoValueMovesAfterHalt == [][Return /\ resolved => ~halted]_vars

(* "The answer arrives in your next observation": a marker that was taken   *)
(* is being run, or its result is waiting, under way, or has reached the   *)
(* model.                                                                  *)
ResultsArrive ==
  \A i \in seen : \/ Copies(pending, i) # {} \/ i \in delivered
                  \/ running /\ i = Head(markers)
                  \/ \E r \in Request : Copies(carried[r], i) # {}
=============================================================================
