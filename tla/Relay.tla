-------------------------------- MODULE Relay -------------------------------
(***************************************************************************)
(* One relayed request from its arrival to its answer (proxy._relay), with *)
(* the two rings the viewer shows: FrameStore, the redacted frames and     *)
(* whether they were delivered, and CallStore, the model calls and what    *)
(* became of them.  The hooks of the request are those of ModelView; what  *)
(* the response hook makes of a completion (module ActionHook) is left to  *)
(* the environment: it returns or it raises.                               *)
(*                                                                         *)
(* _relay is a coroutine: what happens between two awaits is one step.     *)
(* Every request comes through the hooks, and a hook raises one of the     *)
(* exceptions the relay expects.                                           *)
(***************************************************************************)
EXTENDS ModelView

CONSTANTS
  FrameCapacity,   \* frames kept (--audit-capacity)
  CallCapacity,    \* calls kept (the same option)
  MaxRounds        \* ToolLoop.max_rounds

ASSUME RelayAssumption ==
  /\ FrameCapacity \in Nat \ {0} /\ CallCapacity \in Nat \ {0}
  /\ MaxRounds \in Nat \ {0}

VARIABLES
  frames,     \* FrameStore._frames, oldest first
  added,      \* FrameStore._total
  calls,      \* CallStore._calls, oldest first
  recorded,   \* CallStore._total
  stage,      \* stage[r]: hook, sent, body, loop, follow or over
  ids,        \* ids[r]: the frame ids of r
  rounds,     \* rounds[r]: tool rounds of r
  fate        \* history: none, failed, or the status r was answered with

relayVars == <<frames, added, calls, recorded, stage, ids, rounds, fate>>
vars == <<known, painter, canvas, left, painted, latest, pc, content, at, shots, hidden,
          manifest, knew, frames, added, calls, recorded, stage, ids, rounds, fate>>

Statuses == {"ok", "error"}
Stages   == {"hook", "sent", "body", "loop", "follow", "over"}
Frame == [id : Nat, image : Image, analysis : Image, state : {"prepared", "sent", "failed"},
          status : Statuses \cup {"none"}]
CallRecord == [of : Request, status : Statuses \cup {"none"},
               state : {"sent", "streamed", "failed", "hook_failed"}]

Init ==
  /\ ViewInit
  /\ frames = << >> /\ added = 0 /\ calls = << >> /\ recorded = 0
  /\ stage = [r \in Request |-> "hook"]
  /\ ids = [r \in Request |-> {}]
  /\ rounds = [r \in Request |-> 0]
  /\ fate = [r \in Request |-> "none"]

-----------------------------------------------------------------------------
(* The request leg *)

(* The frame just painted is stored with the analysis the redactor has now. *)
Audit(r) ==
  /\ Audited(r)
  /\ added' = added + 1
  /\ frames' = Newest(Append(frames, [id |-> added + 1, image |-> Screenshot(r),
                                      analysis |-> latest[1], state |-> "prepared",
                                      status |-> "none"]), FrameCapacity)
  /\ ids' = [ids EXCEPT ![r] = @ \cup {added + 1}]
  /\ UNCHANGED <<calls, recorded, stage, rounds, fate>>

Send(r) ==
  /\ Dispatch(r)
  /\ stage' = [stage EXCEPT ![r] = "sent"]
  /\ UNCHANGED <<frames, added, calls, recorded, ids, rounds, fate>>

HookFails(r) ==
  /\ Fails(r)
  /\ stage' = [stage EXCEPT ![r] = "over"]
  /\ UNCHANGED <<frames, added, calls, recorded, ids, rounds, fate>>

-----------------------------------------------------------------------------
(* The rings *)

Marked(r, state, status) ==
  [i \in DOMAIN frames |->
     IF frames[i].id \in ids[r]
     THEN [frames[i] EXCEPT !.state = state, !.status = status]
     ELSE frames[i]]

Record(r, status, state) ==
  /\ calls' = Newest(Append(calls, [of |-> r, status |-> status, state |-> state]),
                     CallCapacity)
  /\ recorded' = recorded + 1

Over(r) == stage' = [stage EXCEPT ![r] = "over"]

-----------------------------------------------------------------------------
(* The response leg *)

UpstreamFails(r) ==
  /\ stage[r] = "sent"
  /\ frames' = Marked(r, "failed", "none")
  /\ Record(r, "none", "failed")
  /\ fate' = [fate EXCEPT ![r] = "failed"]
  /\ Over(r)
  /\ UNCHANGED <<viewVars, added, ids, rounds>>

(* The headers are there.  An event stream that no hook will look at is     *)
(* passed on as it comes; anything else is read first.                     *)
UpstreamAnswers(r, status) ==
  /\ stage[r] = "sent"
  /\ frames' = Marked(r, "sent", status)
  /\ fate' = [fate EXCEPT ![r] = status]
  /\ \/ /\ status # "ok"
        /\ Record(r, status, "streamed")
        /\ Over(r)
     \/ /\ stage' = [stage EXCEPT ![r] = "body"]
        /\ UNCHANGED <<calls, recorded>>
  /\ UNCHANGED <<viewVars, added, ids, rounds>>

ReadFails(r) ==
  /\ stage[r] = "body"
  /\ Record(r, fate[r], "failed")
  /\ Over(r)
  /\ UNCHANGED <<viewVars, frames, added, ids, rounds, fate>>

PassOn(r) ==
  /\ stage[r] = "body" /\ fate[r] # "ok"
  /\ Record(r, fate[r], "sent")
  /\ Over(r)
  /\ UNCHANGED <<viewVars, frames, added, ids, rounds, fate>>

Completing(r) == stage[r] = "loop" \/ (stage[r] = "body" /\ fate[r] = "ok")

(* No completion, a tool call that cannot be parsed, a round too many, a    *)
(* continuation that fails: nothing is returned.                           *)
LoopFails(r) ==
  /\ Completing(r) \/ stage[r] = "follow"
  /\ Record(r, "ok", "hook_failed")
  /\ Over(r)
  /\ UNCHANGED <<viewVars, frames, added, ids, rounds, fate>>

(* The completion is a tool call, which a worker thread executes.          *)
ToolRuns(r) ==
  /\ Completing(r) /\ rounds[r] < MaxRounds
  /\ rounds' = [rounds EXCEPT ![r] = @ + 1]
  /\ stage' = [stage EXCEPT ![r] = "follow"]
  /\ UNCHANGED <<viewVars, frames, added, calls, recorded, ids, fate>>

Continues(r) ==
  /\ stage[r] = "follow"
  /\ stage' = [stage EXCEPT ![r] = "loop"]
  /\ UNCHANGED <<viewVars, frames, added, calls, recorded, ids, rounds, fate>>

(* Mutant of Return: the handler of a response hook that raises does not    *)
(* remember that the call is on record.                                    *)
ReturnForgetting(r, raises) ==
  /\ Completing(r)
  /\ calls' = Newest(calls \o (IF raises
                               THEN << [of |-> r, status |-> "ok", state |-> "sent"],
                                       [of |-> r, status |-> "ok", state |-> "hook_failed"] >>
                               ELSE << [of |-> r, status |-> "ok", state |-> "sent"] >>),
                     CallCapacity)
  /\ recorded' = recorded + IF raises THEN 2 ELSE 1
  /\ Over(r)
  /\ UNCHANGED <<viewVars, frames, added, ids, rounds, fate>>

(* The final completion is recorded, then the response hook looks at it: a  *)
(* refusal does not change the record.                                     *)
Return(r, raises) ==
  /\ Completing(r)
  /\ Record(r, "ok", "sent")
  /\ Over(r)
  /\ UNCHANGED <<viewVars, frames, added, ids, rounds, fate>>

-----------------------------------------------------------------------------
RelayStep(r) ==
  \/ HookStep(r) /\ UNCHANGED relayVars
  \/ Audit(r) \/ Send(r)
  \/ UpstreamFails(r) \/ \E status \in Statuses : UpstreamAnswers(r, status)
  \/ ReadFails(r) \/ PassOn(r) \/ LoopFails(r) \/ ToolRuns(r) \/ Continues(r)
  \/ \E raises \in BOOLEAN : Return(r, raises)

Next ==
  \E r \in Request : \/ \E c \in Content : Arrive(r, c) /\ UNCHANGED relayVars
                     \/ HookFails(r) \/ RelayStep(r)

Spec == Init /\ [][Next]_vars

(* Threads and event loop run; detector, classifier, tools and upstream     *)
(* answer or fail, for all of them are waited for with a timeout (that the  *)
(* detector's worker reads its requests is assumed).  A hook need not fail: *)
(* a thread that waits for the lock must get it.                           *)
FairSpec == Spec /\ \A r \in Request : WF_vars(RelayStep(r))

-----------------------------------------------------------------------------
(* Properties *)

(* Types and sizes of the relay's state.                                   *)
TypeOK ==
  /\ ViewTypeOK
  /\ frames \in Seq(Frame) /\ Len(frames) <= FrameCapacity
  /\ calls \in Seq(CallRecord) /\ Len(calls) <= CallCapacity
  /\ added \in Nat /\ recorded \in Nat
  /\ stage \in [Request -> Stages]
  /\ ids \in [Request -> SUBSET (1..added)]
  /\ rounds \in [Request -> 0..MaxRounds]
  /\ fate \in [Request -> Statuses \cup {"none", "failed"}]

(* The ledger of frames tells the truth while requests overlap: a frame is  *)
(* marked sent, with the status, exactly if its own request was answered,  *)
(* failed exactly if that could not be sent, and it is prepared otherwise. *)
LedgerTrue ==
  \A f \in Range(frames) : \A r \in Request :
     f.id \in ids[r] =>
        CASE fate[r] = "none"   -> f.state = "prepared"
          [] fate[r] = "failed" -> f.state = "failed"
          [] OTHER              -> f.state = "sent" /\ f.status = fate[r]

(* The history of calls has one record per request that left the proxy and *)
(* is over, however it ended, and none of any other, until the ring drops  *)
(* it; what it says of the answer is what happened.                        *)
Ended == {r \in Request : pc[r] = "out" /\ stage[r] = "over"}
CallsRecorded ==
  /\ recorded = Cardinality(Ended)
  /\ \A i, j \in DOMAIN calls : calls[i].of = calls[j].of => i = j
  /\ \A i \in DOMAIN calls :
        /\ calls[i].of \in Ended
        /\ calls[i].status = IF fate[calls[i].of] = "failed" THEN "none" ELSE fate[calls[i].of]

(* What the viewer shows of frames and calls is what happened to them.      *)
RecordsTrue == LedgerTrue /\ CallsRecorded

(* "a ledger of the exact redacted pixels sent in each upstream request:    *)
(* frame number, SHA-256 prefix, mask count": a frame in the ledger has the *)
(* analysis, and so the mask count, of its own pixels.                     *)
AnalysisMatches == \A f \in Range(frames) : f.analysis = f.image

(* Every request that arrives is answered or refused, provided the calls of *)
(* the redactor end: they wait for an answer no longer than their time-outs, *)
(* but nothing bounds the write to a worker that does not read (see         *)
(* RedactorWorker.CallsEnd).                                               *)
RequestsEnd == \A r \in Request : pc[r] # "new" ~> stage[r] = "over"
=============================================================================
