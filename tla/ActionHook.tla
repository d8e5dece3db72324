----------------------------- MODULE ActionHook -----------------------------
(***************************************************************************)
(* The response leg of the proxy (privacy_response_hook in privacy.py with *)
(* ToolChannel.consult_approval and Mediator.decide_approval behind it),   *)
(* composed with the vault it draws on.                                    *)
(*                                                                         *)
(* proxy._relay calls the response hook directly on the event loop: while  *)
(* one completion is treated no other is, and no viewer request is served, *)
(* not even while the mediator's model thinks.  The worker threads that    *)
(* run request hooks are not stopped by that: they vault values and prune  *)
(* approvals at any time, and the clock advances.                          *)
(*                                                                         *)
(* A completion is the sequence of the calls its choices execute.  The     *)
(* shutdown of the proxy, which disposes of the vault, is left out.        *)
(***************************************************************************)
EXTENDS Vault

CONSTANTS
  Completion,   \* the completions that arrive
  Guided        \* classes the user wrote mediator criteria for

(* How a call spells its name: the hook accepts tool_name, name, action,   *)
(* type and function.name, the mediator's consultation only the first      *)
(* three ("named").  The calls named answer or final_answer run nothing.   *)
Forms == {"named", "function", "nameless", "answer"}

Call == [form : Forms, tool : Tool, target : Target, refs : References]

ASSUME CompletionAssumption == Completion \subseteq Seq(Call)

VARIABLES
  phase,      \* what the event loop is doing: idle, resolve, consult or retry
  calls,      \* the calls of the completion still to treat, current one first
  manifest,   \* consult: the tokens active when the consultation began
  judged,     \* consult: how many references have their verdict
  approved,   \* consult: the references a grant was minted for
  deadline,   \* history: the first expiry among the grants minted for the call
  staged,     \* history: gated uses rewritten into the completion so far
  delivered   \* history: gated uses handed to the agent runtime

vaultVars   == vars
consultVars == <<manifest, judged, approved, deadline>>
hookVars    == <<phase, calls, manifest, judged, approved, deadline, staged, delivered>>
allVars     == <<byKey, byPlaceholder, variants, counters, grants, now, minted, spent,
                 phase, calls, manifest, judged, approved, deadline, staged, delivered>>

HookInit ==
  /\ Init
  /\ phase = "idle" /\ calls = << >>
  /\ manifest = {} /\ judged = 0 /\ approved = {} /\ deadline = 0
  /\ staged = [k \in GrantKey |-> 0]
  /\ delivered = [k \in GrantKey |-> 0]

-----------------------------------------------------------------------------
(* The event loop *)

Arrive(completion) ==
  /\ phase = "idle"
  /\ phase' = "resolve" /\ calls' = completion
  /\ UNCHANGED <<vaultVars, consultVars, staged, delivered>>

call == Head(calls)

NextCall ==
  /\ phase' = "resolve" /\ calls' = Tail(calls)
  /\ manifest' = {} /\ judged' = 0 /\ approved' = {} /\ deadline' = 0

(* The hook raises and the proxy answers 502: nothing that was rewritten   *)
(* reaches the runtime, and no use that was charged is given back.         *)
Raise ==
  /\ phase' = "idle" /\ calls' = << >>
  /\ manifest' = {} /\ judged' = 0 /\ approved' = {} /\ deadline' = 0
  /\ staged' = [k \in GrantKey |-> 0]
  /\ UNCHANGED delivered

Return ==
  /\ phase = "resolve" /\ calls = << >>
  /\ delivered' = [k \in GrantKey |-> delivered[k] + staged[k]]
  /\ staged' = [k \in GrantKey |-> 0]
  /\ phase' = "idle"
  /\ UNCHANGED <<vaultVars, calls, consultVars>>

SkipAnswer ==
  /\ phase = "resolve" /\ calls # << >> /\ call.form = "answer"
  /\ NextCall
  /\ UNCHANGED <<vaultVars, staged, delivered>>

Nameless ==
  /\ phase = "resolve" /\ calls # << >> /\ call.form = "nameless"
  /\ Raise
  /\ UNCHANGED vaultVars

-----------------------------------------------------------------------------
(* Resolving the current call *)

(* The rewriter looks each reference up under the path as it is spelled,   *)
(* the vault answers under normalized paths.                               *)
Paired(refs) ==
  \A r \in Range(refs) : \E q \in Range(refs) : q[1] = r[1] /\ NormPath[q[2]] = r[2]

Trying == /\ phase \in {"resolve", "retry"}
          /\ calls # << >>
          /\ call.form \in {"named", "function"}

(* Mutant of Execute: after an approval the values are filled in without    *)
(* another authorization.                                                  *)
ExecuteTrustingVerdict ==
  /\ Trying
  /\ Paired(call.refs)
  /\ IF phase = "retry" THEN UNCHANGED vaultVars
     ELSE Resolve(call.refs, call.tool, call.target)
  /\ staged' = [k \in GrantKey |->
                  staged[k] + IF k \in LiveKeys
                              THEN Need(call.refs, call.tool, call.target, k)
                              ELSE 0]
  /\ NextCall
  /\ UNCHANGED delivered

Execute ==
  /\ Trying
  /\ Paired(call.refs)
  /\ Resolve(call.refs, call.tool, call.target)
  /\ staged' = [k \in GrantKey |->
                  staged[k] + IF k \in LiveKeys
                              THEN Need(call.refs, call.tool, call.target, k)
                              ELSE 0]
  /\ NextCall
  /\ UNCHANGED delivered

(* The vault authorizes and charges, then the rewriter misses a value.     *)
Misplace ==
  /\ Trying
  /\ ~Paired(call.refs)
  /\ Resolve(call.refs, call.tool, call.target)
  /\ Raise

Deny ==
  /\ Trying
  /\ \/ phase = "retry"
     \/ Refusal(call.refs, call.tool, call.target) # "unapproved"
  /\ Refuse(call.refs, call.tool, call.target)
  /\ Raise

(* Mutant of BeginConsult: a retry that is denied consults again.           *)
BeginConsultAgain ==
  /\ Trying
  /\ Refusal(call.refs, call.tool, call.target) = "unapproved"
  /\ Refuse(call.refs, call.tool, call.target)
  /\ phase' = "consult"
  /\ manifest' = DOMAIN byPlaceholder
  /\ UNCHANGED <<calls, judged, approved, deadline, staged, delivered>>

BeginConsult ==
  /\ Trying /\ phase = "resolve"
  /\ Refusal(call.refs, call.tool, call.target) = "unapproved"
  /\ Refuse(call.refs, call.tool, call.target)
  /\ phase' = "consult"
  /\ manifest' = DOMAIN byPlaceholder
  /\ UNCHANGED <<calls, judged, approved, deadline, staged, delivered>>

-----------------------------------------------------------------------------
(* Consulting the mediator about the current call *)

Consulting(r) ==
  /\ phase = "consult"
  /\ judged < Len(call.refs)
  /\ r = call.refs[judged + 1]

Judgeable(r) == r[1] \in manifest /\ LevelOf(r[1]) = "approval"

SkipReference(r) ==
  /\ Consulting(r) /\ ~Judgeable(r)
  /\ judged' = judged + 1
  /\ UNCHANGED <<vaultVars, phase, calls, manifest, approved, deadline, staged, delivered>>

(* The grant an approval asks for names the tool as the consultation reads *)
(* it; an empty name and a path that is refused make grant_approval raise. *)
Grantable(r) == call.form = "named" /\ NormPath[r[2]] # InvalidPath

MintedKey(r) == <<r[1], call.tool, NormPath[r[2]], call.target>>

(* Mutant of ApproveReference: the uses are added to those of the grant     *)
(* that is there already.                                                  *)
ApproveToppingUp(r, ttl, uses) ==
  LET k   == MintedKey(r)
      old == IF k \in LiveKeys THEN grants[k].uses ELSE 0 IN
  /\ Consulting(r) /\ Judgeable(r) /\ Grantable(r)
  /\ byPlaceholder[r[1]].cls \in Guided
  /\ minted[k] + uses <= MaxMinted
  /\ grants' = Put(Live, k, [expires |-> now + ttl, uses |-> old + uses])
  /\ minted' = [minted EXCEPT ![k] = @ + uses]
  /\ judged' = judged + 1
  /\ approved' = approved \cup {r}
  /\ deadline' = IF approved = {} \/ now + ttl < deadline THEN now + ttl ELSE deadline
  /\ UNCHANGED <<entryVars, now, spent, phase, calls, manifest, staged, delivered>>

ApproveReference(r, ttl, uses) ==
  /\ Consulting(r) /\ Judgeable(r) /\ Grantable(r)
  /\ byPlaceholder[r[1]].cls \in Guided
  /\ GrantApproval(MintedKey(r), ttl, uses)
  /\ judged' = judged + 1
  /\ approved' = approved \cup {r}
  /\ deadline' = IF approved = {} \/ now + ttl < deadline THEN now + ttl ELSE deadline
  /\ UNCHANGED <<phase, calls, manifest, staged, delivered>>

(* A deny, a class without criteria, a model that fails, a word that is no *)
(* verdict.                                                                *)
DenyReference(r) ==
  /\ Consulting(r) /\ Judgeable(r)
  /\ judged' = judged + 1
  /\ UNCHANGED <<vaultVars, phase, calls, manifest, approved, deadline, staged, delivered>>

(* grant_approval raises, or the verdict does, being no word (a JSON list): *)
(* the consultation ends without a retry, and the grants it has minted so  *)
(* far stay.                                                               *)
AbortConsult(r) ==
  /\ Consulting(r) /\ Judgeable(r)
  /\ byPlaceholder[r[1]].cls \in Guided
  /\ Raise
  /\ UNCHANGED vaultVars

EndConsult ==
  /\ phase = "consult" /\ judged = Len(call.refs)
  /\ IF approved = {}
     THEN Raise
     ELSE /\ phase' = "retry"
          /\ UNCHANGED <<calls, consultVars, staged, delivered>>
  /\ UNCHANGED vaultVars

-----------------------------------------------------------------------------
(* The viewer's requests are served by the event loop between hooks.       *)
ViewerGrant(k, ttl, uses) ==
  phase = "idle" /\ GrantApproval(k, ttl, uses) /\ UNCHANGED hookVars

(* Mutant of ViewerRevoke: revocations are served by a worker thread.       *)
ViewerRevokeInThread(k) == RevokeApproval(k) /\ UNCHANGED hookVars

ViewerRevoke(k) == phase = "idle" /\ RevokeApproval(k) /\ UNCHANGED hookVars

(* The request hooks run in worker threads, whatever the event loop does.  *)
RequestHookStores(c, t) == (StoreKnown(c, t) \/ StoreNew(c, t)) /\ UNCHANGED hookVars

RequestHookPrunes == Approvals /\ UNCHANGED hookVars

Clock == Tick /\ UNCHANGED hookVars

HookStep ==
  \/ Return \/ SkipAnswer \/ Nameless
  \/ Execute \/ Misplace \/ Deny \/ BeginConsult \/ EndConsult
  \/ \E r \in Reference :
       \/ SkipReference(r) \/ DenyReference(r) \/ AbortConsult(r)
       \/ \E ttl \in Ttl, uses \in 1..MaxUses : ApproveReference(r, ttl, uses)

HookNext ==
  \/ \E completion \in Completion : Arrive(completion)
  \/ HookStep
  \/ \E k \in GrantKey, ttl \in Ttl, uses \in 1..MaxUses : ViewerGrant(k, ttl, uses)
  \/ \E k \in GrantKey : ViewerRevoke(k)
  \/ \E c \in Class, t \in Text : RequestHookStores(c, t)
  \/ RequestHookPrunes
  \/ Clock

HookSpec == HookInit /\ [][HookNext]_allVars

(* The hook is plain code on the event loop; the model call inside it ends *)
(* with a timeout at the latest (LoopbackLLMClient), and worker threads    *)
(* hold the vault's lock only for the length of an operation.              *)
FairHookSpec == HookSpec /\ WF_allVars(HookStep)

-----------------------------------------------------------------------------
(* Properties *)

(* Types of the hook's state.                                              *)
LoopTypeOK ==
  /\ phase \in {"idle", "resolve", "consult", "retry"}
  /\ calls \in Seq(Call)
  /\ phase \in {"consult", "retry"} => calls # << >>
HookTypeOK ==
  /\ TypeOK
  /\ LoopTypeOK
  /\ manifest \subseteq Token
  /\ judged \in Nat
  /\ approved \subseteq Reference
  /\ deadline \in Nat
  /\ staged \in [GrantKey -> Nat]
  /\ delivered \in [GrantKey -> Nat]

(* Over the session the runtime never receives an approval-gated value     *)
(* more often, per token, tool, path and destination, than uses were       *)
(* charged for it, whatever mixture of viewer grants, mediator verdicts,   *)
(* retries and refused completions led there.                              *)
DeliveredIsCharged == \A k \in GrantKey : staged[k] + delivered[k] <= spent[k]

(* A call every gated reference of which the mediator has approved goes    *)
(* through on the retry, unless one of the new grants has expired: nothing *)
(* that runs meanwhile takes a grant away again.                           *)
Unaliased(refs) == \A r, q \in Range(refs) : NormPath[r[2]] = NormPath[q[2]] /\ r[1] = q[1]
                                               => r = q
ApprovedGoesThrough ==
  /\ phase = "retry"
  /\ now < deadline
  /\ Unaliased(call.refs)
  /\ \A r \in Range(call.refs) : /\ NormPath[r[2]] # InvalidPath
                                 /\ r[1] \in DOMAIN byPlaceholder
                                 /\ LevelOf(r[1]) = "approval" => r \in approved
  => Authorized(call.refs, call.tool, call.target)

(* The composition keeps the vault to its specification: every step of the *)
(* hook, of the viewer and of the request threads is a vault operation or  *)
(* leaves the vault alone.                                                 *)
ImplementsVault == Spec

(* The event loop is never held for ever: a completion is treated, with at *)
(* most one consultation and one retry per call.                           *)
LoopIsFreed == phase # "idle" ~> phase = "idle"

(* What the comment "collector and resolver are paired" in                 *)
(* _resolve_structure says: a call the vault authorizes, and charges for,  *)
(* is never refused by the rewriter.                                       *)
CollectorAndResolverPaired ==
  [][Trying /\ Authorized(call.refs, call.tool, call.target) => phase' # "idle"]_allVars
=============================================================================
