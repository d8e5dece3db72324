----------------------------- MODULE LocalModel -----------------------------
(***************************************************************************)
(* The conversation with the model on the local machine (local_llm.py) and *)
(* what is made of its answers: results of tool markers                    *)
(* (semantic_executor.py, the operations of tool_channel.py), approvals    *)
(* and reviews (mediator.py).  A caller waits for its answer and shares    *)
(* nothing with the others, so one conversation at a time is followed.     *)
(*                                                                         *)
(* Tokens are numbered in the order of their texts, values in the order of *)
(* their case-folded texts.  An entry of a reply that is no item of the    *)
(* request, or no text, is Junk.                                           *)
(***************************************************************************)
EXTENDS Integers, Sequences, FiniteSets, Functions, SequencesExt

CONSTANTS
  Token,         \* tokens a request may name, a subset of Nat
  WellFormed,    \* those of the right shape
  ValueOf,       \* what the vault resolves a token to: a value, or Refused
  Unusable,      \* the values that are empty, or too long to reason about
  Refused,       \* the vault raises its policy error
  Junk,
  Guided,        \* the classes the user wrote a rule for
  Class,
  Question,      \* bound: the requests made
  Entries,       \* bound: the answers the local model may list
  Drafts,        \* bound: the sequences of objects it may give before its last
  Number,        \* bound: the numbers it may give for a limit
  MinTokens, MaxTokens,               \* 2 and 40 in the code
  MaxTtl, DefaultTtl, MaxUses,        \* 3600, 60 and 100 in the code
  MaxFloat,      \* the largest integer that can be a float
  None

(* A verdict, some other text or number, or a JSON list or object.         *)
Word == {"approve", "modify", "deny", "continue", "warn", "halt", "other", "structure"}

(* The JSON objects the local model may give, as far as they matter.       *)
Objects == [answer : Entries \cup {None}, word : Word,
            ttl : Number \cup {0}, uses : Number \cup {0}]

Operations == [kind : {"operation"}, verb : STRING, instruction : BOOLEAN,
               count : Nat \cup {None}, class : {None}, tokens : Seq(Token)]
Judgements == [kind : {"approval"}, class : Class] \cup [kind : {"review"}, class : {None}]

ASSUME LocalModelAssumption ==
  /\ Token \subseteq Nat /\ WellFormed \subseteq Token /\ Guided \subseteq Class
  /\ MaxTtl \in Nat /\ DefaultTtl \in 1..MaxTtl /\ MaxUses \in Nat \ {0}
  /\ MinTokens \in Nat /\ MaxTokens \in Nat /\ MaxFloat \in Nat
  /\ \A t \in Token : ValueOf[t] \in Nat \cup {Refused}
  /\ \A q \in Question : q \in Operations \cup Judgements
  /\ \A e \in Entries : e \in Seq(Nat \cup {Junk})
  /\ \A d \in Drafts : d \in Seq(Objects)
  /\ None \notin Objects

VARIABLES
  request,   \* the request whose answer is awaited, or None
  format,    \* the response format it asked for last
  nudged,    \* it has asked once more for a JSON object
  retried,   \* it has sent back an answer that is not valid
  said,      \* history: the object the answer was taken from
  outcome    \* what the last request came to

localVars == <<request, format, nudged, retried, said, outcome>>

Formats == <<"json_schema", "json_object", "text">>

IsOperation(q) == q.kind = "operation"

-----------------------------------------------------------------------------
(* Requests *)

(* An operation over tokens that is refused before anything is resolved.   *)
Malformed(q) ==
  \/ q.verb \notin {"sort", "select"}
  \/ q.verb = "select" /\ ~q.instruction
  \/ Len(q.tokens) \notin MinTokens..MaxTokens
  \/ ~IsInjective(q.tokens)
  \/ q.instruction /\ \/ ~(Range(q.tokens) \subseteq WellFormed)
                      \/ q.count # None /\ (q.verb # "select" \/ q.count \notin 0..Len(q.tokens))

Resolved(q) == \A t \in Range(q.tokens) : ValueOf[t] # Refused

(* Without an instruction a sort needs no model.                           *)
Deterministic(q) == q.verb = "sort" /\ ~q.instruction

Values(q) == [i \in DOMAIN q.tokens |-> ValueOf[q.tokens[i]]]

(* Two tokens of one value would make its token ambiguous.                 *)
Reasonable(q) == IsInjective(Values(q)) /\ Range(Values(q)) \cap Unusable = {}

(* Values in order, and tokens of the same value in the order of their texts. *)
Before(s, t) == ValueOf[s] < ValueOf[t] \/ (ValueOf[s] = ValueOf[t] /\ s < t)

Sorted(q) ==
  CHOOSE sorted \in [DOMAIN q.tokens -> Range(q.tokens)] :
    \A i, j \in DOMAIN q.tokens : i < j => Before(sorted[i], sorted[j])

-----------------------------------------------------------------------------
(* Answers *)

(* Mutant of ValidAnswer: an item may be listed twice.                     *)
ValidAnswerRepeating(q, answer) ==
  /\ answer # None
  /\ Range(answer) \subseteq Range(Values(q))
  /\ q.verb = "sort" => Len(answer) = Len(q.tokens)
  /\ q.verb = "select" /\ q.count # None => Len(answer) = q.count

ValidAnswer(q, answer) ==
  /\ answer # None
  /\ Range(answer) \subseteq Range(Values(q))
  /\ IsInjective(answer)
  /\ q.verb = "sort" => Len(answer) = Len(q.tokens)
  /\ q.verb = "select" /\ q.count # None => Len(answer) = q.count

TokenByValue(q, v) == CHOOSE t \in Range(q.tokens) : ValueOf[t] = v

Answered(q, answer) == [i \in DOMAIN answer |-> TokenByValue(q, answer[i])]

(* A limit that is no number, or out of its range, is the default one.     *)
Bounded(n, high, fallback) == IF n \in 1..high THEN n ELSE fallback

Outcome(verdict, tokens, ttl, uses) ==
  [of |-> request, verdict |-> verdict, tokens |-> tokens, ttl |-> ttl, uses |-> uses]

Refusal(q) ==
  [of |-> q, tokens |-> << >>, ttl |-> 0, uses |-> 0,
   verdict |-> CASE q.kind = "operation" -> "denied"
                 [] q.kind = "approval"  -> "deny"
                 [] q.kind = "review"    -> "halt"]

(* What raises in the judgement, where nothing catches it: the membership   *)
(* test of a list or object in the set of verdicts, and the conversion of a *)
(* limit that is too large for a float.                                    *)
Raises(q, object) ==
  \/ object.word = "structure"
  \/ /\ q.kind = "approval" /\ object.word \in {"approve", "modify"}
     /\ ~({object.ttl, object.uses} \subseteq -MaxFloat..MaxFloat)

(* Mutant of Judged: a word that is not among the verdicts is let pass.     *)
JudgedLeniently(q, object) ==
  IF Raises(q, object) THEN Outcome("raised", << >>, 0, 0) ELSE
  CASE q.kind = "approval" /\ object.word # "deny" ->
         Outcome("grant", << >>, Bounded(object.ttl, MaxTtl, DefaultTtl),
                 Bounded(object.uses, MaxUses, 1))
    [] q.kind = "review" /\ object.word \in {"continue", "warn"} ->
         Outcome(object.word, << >>, 0, 0)
    [] OTHER -> Refusal(q)

(* An approval is a grant within limits; any other text refuses.           *)
Judged(q, object) ==
  IF Raises(q, object) THEN Outcome("raised", << >>, 0, 0) ELSE
  CASE q.kind = "approval" /\ object.word \in {"approve", "modify"} ->
         Outcome("grant", << >>, Bounded(object.ttl, MaxTtl, DefaultTtl),
                 Bounded(object.uses, MaxUses, 1))
    [] q.kind = "review" /\ object.word \in {"continue", "warn"} ->
         Outcome(object.word, << >>, 0, 0)
    [] OTHER -> Refusal(q)

-----------------------------------------------------------------------------
(* Actions *)

(* Refused or answered at once, or sent to the model with its first format. *)
Ask(q) ==
  /\ request = None
  /\ LET local == /\ IsOperation(q)
                  /\ Malformed(q) \/ ~Resolved(q) \/ Deterministic(q) \/ ~Reasonable(q)
         unruled == q.kind = "approval" /\ q.class \notin Guided
     IN  IF local \/ unruled
         THEN /\ outcome' = IF local /\ ~Malformed(q) /\ Resolved(q) /\ Deterministic(q)
                            THEN [Refusal(q) EXCEPT !.verdict = "tokens", !.tokens = Sorted(q)]
                            ELSE Refusal(q)
              /\ UNCHANGED request
         ELSE request' = q /\ outcome' = None
  /\ format' = 1 /\ nudged' = FALSE /\ retried' = FALSE /\ said' = None

Fails ==
  /\ request' = None /\ outcome' = Refusal(request)
  /\ UNCHANGED <<format, nudged, retried, said>>

(* Status 400: the server does not know the format.  The next one is tried, *)
(* and the last one fails like any other error.                            *)
FormatRefused ==
  /\ request # None
  /\ IF format < Len(Formats)
     THEN format' = format + 1 /\ UNCHANGED <<request, nudged, retried, said, outcome>>
     ELSE Fails

(* The endpoint times out or fails, or answers with something that is no    *)
(* completion, or an empty one.                                            *)
Unreachable == request # None /\ Fails

(* No JSON object is in the completion: it is asked for once more.         *)
Prose ==
  /\ request # None
  /\ IF ~nudged
     THEN nudged' = TRUE /\ format' = 1 /\ UNCHANGED <<request, retried, said, outcome>>
     ELSE Fails

(* The last JSON object of the completion counts.                          *)
Reply(objects) ==
  /\ request # None
  /\ LET object == Last(objects)
     IN  /\ said' = object
         /\ IF ~IsOperation(request)
            THEN /\ request' = None /\ outcome' = Judged(request, object)
                 /\ UNCHANGED <<format, nudged, retried>>
            ELSE IF ValidAnswer(request, object.answer)
            THEN /\ request' = None
                 /\ outcome' = Outcome("tokens", Answered(request, object.answer), 0, 0)
                 /\ UNCHANGED <<format, nudged, retried>>
            ELSE IF ~retried
            THEN /\ retried' = TRUE /\ nudged' = FALSE /\ format' = 1
                 /\ UNCHANGED <<request, outcome>>
            ELSE /\ request' = None /\ outcome' = Refusal(request)
                 /\ UNCHANGED <<format, nudged, retried>>

Answering == [answer : Entries \cup {None}, word : {"other"}, ttl : {0}, uses : {0}]
Judging == [answer : {None}, word : Word, ttl : Number, uses : Number]

(* What a completion may hold: objects that look like answers, then one.    *)
Completions(q) == {earlier \o <<object>> : earlier \in Drafts,
                     object \in IF IsOperation(q) THEN Answering ELSE Judging}

LocalInit ==
  /\ request = None /\ outcome = None /\ said = None
  /\ format = 1 /\ nudged = FALSE /\ retried = FALSE

React ==
  \/ FormatRefused \/ Unreachable \/ Prose
  \/ request # None /\ \E objects \in Completions(request) : Reply(objects)

LocalNext == React \/ \E q \in Question : Ask(q)

LocalSpec == LocalInit /\ [][LocalNext]_localVars

Outcomes ==
  [of : Question, tokens : Seq(Token), ttl : 0..MaxTtl, uses : 0..MaxUses,
   verdict : {"tokens", "denied", "grant", "deny", "continue", "warn", "halt", "raised"}]

LocalTypeOK ==
  /\ request \in Question \cup {None} /\ format \in DOMAIN Formats
  /\ nudged \in BOOLEAN /\ retried \in BOOLEAN
  /\ said \in Objects \cup {None} /\ outcome \in Outcomes \cup {None}

-----------------------------------------------------------------------------
(* Properties *)

(* A sort returns the request's tokens, each once, and a selection some of  *)
(* them, each at most once and as many as were asked for; they are those   *)
(* of the values the model listed last, in its order, and an operation that *)
(* needs no model puts no value after a larger one.                        *)
AnswersAreTokens ==
  outcome # None /\ outcome.verdict = "tokens" =>
    LET q == outcome.of IN
    /\ IsInjective(outcome.tokens) /\ Range(outcome.tokens) \subseteq Range(q.tokens)
    /\ q.verb = "sort" => Len(outcome.tokens) = Len(q.tokens)
    /\ q.count # None /\ q.instruction => Len(outcome.tokens) = q.count
    /\ IF Deterministic(q)
       THEN \A i, j \in DOMAIN outcome.tokens :
               i < j => ValueOf[outcome.tokens[i]] <= ValueOf[outcome.tokens[j]]
       ELSE [i \in DOMAIN outcome.tokens |-> ValueOf[outcome.tokens[i]]] = said.answer

(* A value is only granted under a rule of the user's and by the word       *)
(* "approve" or "modify", for a bounded time and number of uses, and a      *)
(* review only lets the agent go on by the word for it.  Where the endpoint *)
(* gave no object to judge, refused every format, fell silent or talked,    *)
(* there is a verdict, and it refuses.  This is less than "fail-closed":    *)
(* an object that cannot be judged raises, and whoever waited gets neither  *)
(* a grant nor a refusal nor a halt (see ToolChannel.ReviewRaises).        *)
OnlyByTheWord ==
  outcome # None =>
    /\ outcome.verdict = "grant" =>
         /\ outcome.of.kind = "approval" /\ outcome.of.class \in Guided
         /\ said.word \in {"approve", "modify"}
         /\ outcome.ttl \in 1..MaxTtl /\ outcome.uses \in 1..MaxUses
    /\ outcome.of.kind = "review" =>
         \/ outcome.verdict \in {"halt", "raised"}
         \/ said # None /\ outcome.verdict = said.word
    /\ said = None /\ ~IsOperation(outcome.of) => outcome.verdict \in {"deny", "halt"}

(* What the docstring of mediator.py says of approvals and reviews: "Every   *)
(* failure path returns the fail-closed verdict (deny / halt) instead of    *)
(* raising".  An object that cannot be judged refutes it.                  *)
NeverRaises == outcome # None => outcome.verdict # "raised"

=============================================================================
