------------------------------ MODULE ModelView -----------------------------
(***************************************************************************)
(* What the model is shown: the request hooks of the proxy.                *)
(* frame_redaction_hook sends every screenshot of a request through        *)
(* VaultRedactor, which vaults what the detector recognised, paints chips  *)
(* over it and over what the vault already knows, and keeps painted        *)
(* frames; privacy_request_hook then scrubs the texts and attaches the     *)
(* manifest of placeholders.                                               *)
(*                                                                         *)
(* Each request runs its hooks in a worker thread of its own; the threads  *)
(* meet at the lock of VaultRedactor and at that of the vault.  The vault  *)
(* is the set of the values it knows here (module Vault has the rest): it  *)
(* only grows before the shutdown.  Every value is long enough to be       *)
(* matched, and spelled as it was vaulted.  What the detector and the      *)
(* classifier recognise is fixed per frame and per text, so that the       *)
(* cache of texts found safe changes nothing but time.                     *)
(***************************************************************************)
EXTENDS Naturals, Sequences, FiniteSets, Functions

CONSTANTS
  Request,       \* requests
  Nobody,        \* no request
  Image,         \* screenshots, by content
  Value,         \* sensitive values
  Blocked,       \* those of a blocked class: hidden, never vaulted
  Lines,         \* Lines[image]: the lines of text the detector read in it
  Text,          \* history texts, by content
  Holds,         \* Holds[text]: the values in it
  Recognises,    \* Recognises[text]: those the classifier finds, if it is asked
  Content,       \* what requests may carry: images and texts
  PaintEntries   \* painted frames kept (32 in the code)

(* A line of a frame: the values in it, and those recognised as such.      *)
Line == [reads : SUBSET Value, found : SUBSET Value]

ASSUME ViewAssumption ==
  /\ Nobody \notin Request
  /\ Blocked \subseteq Value
  /\ Lines \in [Image -> Seq(Line)]
  /\ \A m \in Image : \A l \in Range(Lines[m]) : l.found \subseteq l.reads
  /\ Holds \in [Text -> SUBSET Value]
  /\ \A x \in Text : Recognises[x] \subseteq Holds[x]
  /\ Content \subseteq [images : Seq(Image), texts : Seq(Text)]
  /\ PaintEntries \in Nat

VARIABLES
  known,      \* the values in the vault
  painter,    \* the holder of VaultRedactor._lock
  canvas,     \* the frame it is painting
  left,       \* the lines it has not looked at
  painted,    \* _cache: painted frames, least recently used first
  latest,     \* _analysis: the frame the latest analysis is of
  pc,         \* pc[r]: new, frame, audit, plain, apply, ready, out or failed
  content,    \* content[r]: what request r carries
  at,         \* at[r]: how many of its frames or texts are done
  shots,      \* shots[r]: its frames as they will be sent
  hidden,     \* hidden[r]: the values replaced in each of its texts
  manifest,   \* manifest[r]: the placeholders it tells the model of
  knew        \* history: the values the vault knew when r arrived

paintVars == <<painter, canvas, left, painted, latest>>
viewVars  == <<known, painter, canvas, left, painted, latest, pc, content, at, shots, hidden,
               manifest, knew>>

(* A painted frame: the values it hides, the placeholders it shows, and,    *)
(* as history, what the vault knew when it was painted.                    *)
Shot == [image : Image, hides : SUBSET Value, tokens : SUBSET Value, knew : SUBSET Value]

Blank(m) == [image |-> m, hides |-> {}, tokens |-> {}, knew |-> known]
Empty == [images |-> << >>, texts |-> << >>]

ViewInit ==
  /\ known = {}
  /\ painter = Nobody /\ canvas = << >> /\ left = << >>
  /\ painted = << >> /\ latest = << >>
  /\ pc = [r \in Request |-> "new"] /\ content = [r \in Request |-> Empty]
  /\ at = [r \in Request |-> 0]
  /\ shots = [r \in Request |-> << >>] /\ hidden = [r \in Request |-> << >>]
  /\ manifest = [r \in Request |-> {}]
  /\ knew = [r \in Request |-> {}]

(* Request r has done one more of n pieces; after the last one it turns to  *)
(* those of the next stage.                                                *)
Passes(r, n, again, next) ==
  /\ at' = [at EXCEPT ![r] = IF @ + 1 < n THEN @ + 1 ELSE 0]
  /\ pc' = [pc EXCEPT ![r] = IF at[r] + 1 < n THEN again ELSE next]

AfterFrames(c) == IF c.texts = << >> THEN "ready" ELSE "plain"

Arrive(r, c) ==
  /\ pc[r] = "new"
  /\ pc' = [pc EXCEPT ![r] = IF c.images = << >> THEN AfterFrames(c) ELSE "frame"]
  /\ content' = [content EXCEPT ![r] = c]
  /\ knew' = [knew EXCEPT ![r] = known]
  /\ UNCHANGED <<known, paintVars, at, shots, hidden, manifest>>

-----------------------------------------------------------------------------
(* Frames *)

Screenshot(r) == content[r].images[at[r] + 1]

Newest(s, n) == IF Len(s) <= n THEN s ELSE SubSeq(s, Len(s) - n + 1, Len(s))

(* A frame is painted once; the cache has one painting of it.              *)
Without(s, m) ==
  IF \A i \in DOMAIN s : s[i].image # m THEN s
  ELSE LET k == CHOOSE i \in DOMAIN s : s[i].image = m IN
       [i \in 1..(Len(s) - 1) |-> IF i < k THEN s[i] ELSE s[i + 1]]

(* The lock is free and r is next to paint: a frame that was painted before *)
(* is used again as it is.                                                 *)
PaintAgain(r) ==
  /\ pc[r] = "frame" /\ painter = Nobody
  /\ \E shot \in Range(painted) :
        /\ shot.image = Screenshot(r)
        /\ shots' = [shots EXCEPT ![r] = Append(@, shot)]
        /\ painted' = Append(Without(painted, shot.image), shot)
        /\ latest' = <<shot.image>>
  /\ pc' = [pc EXCEPT ![r] = "audit"]
  /\ UNCHANGED <<known, painter, canvas, left, content, at, hidden, manifest, knew>>

PaintBegin(r) ==
  /\ pc[r] = "frame" /\ painter = Nobody
  /\ \A shot \in Range(painted) : shot.image # Screenshot(r)
  /\ painter' = r
  /\ canvas' = Blank(Screenshot(r))
  /\ left' = Lines[Screenshot(r)]
  /\ UNCHANGED <<known, painted, latest, pc, content, at, shots, hidden, manifest, knew>>

(* A chip covers the whole line; so does the mask of the detector.          *)
Chips(line, vault) == (line.found \ Blocked) \cup (line.reads \cap vault)

PaintLine(r) ==
  /\ pc[r] = "frame" /\ painter = r /\ left # << >>
  /\ left' = Tail(left)
  /\ LET line == Head(left)
         chips == Chips(line, known') IN
     /\ known' = known \cup (line.found \ Blocked)
     /\ canvas' = [canvas EXCEPT
                     !.hides = @ \cup (IF line.found \cup chips # {} THEN line.reads ELSE {}),
                     !.tokens = @ \cup chips]
  /\ UNCHANGED <<painter, painted, latest, pc, content, at, shots, hidden, manifest, knew>>

PaintEnd(r) ==
  /\ pc[r] = "frame" /\ painter = r /\ left = << >>
  /\ shots' = [shots EXCEPT ![r] = Append(@, canvas)]
  /\ painted' = Newest(Append(Without(painted, canvas.image), canvas), PaintEntries)
  /\ latest' = <<canvas.image>>
  /\ painter' = Nobody /\ canvas' = << >>
  /\ pc' = [pc EXCEPT ![r] = "audit"]
  /\ UNCHANGED <<known, left, content, at, hidden, manifest, knew>>

(* The frame is painted and the lock released; the hook takes it again to   *)
(* ask for the latest analysis, and goes on with the next frame.           *)
Audited(r) ==
  /\ pc[r] = "audit" /\ painter = Nobody
  /\ Passes(r, Len(content[r].images), "frame", AfterFrames(content[r]))
  /\ UNCHANGED <<known, paintVars, content, shots, hidden, manifest, knew>>

-----------------------------------------------------------------------------
(* Texts and manifest *)

History(r) == content[r].texts[at[r] + 1]

(* Mutant of Replaced: the vault is read once, when the request arrives.    *)
ReplacedOfArrival(r) == Holds[History(r)] \cap knew[r]

Replaced(r) == Holds[History(r)] \cap known

ScrubPlain(r) ==
  /\ pc[r] = "plain"
  /\ hidden' = [hidden EXCEPT ![r] = Append(@, Replaced(r))]
  /\ Passes(r, Len(content[r].texts), "plain", "apply")
  /\ UNCHANGED <<known, paintVars, content, shots, manifest, knew>>

(* The classifier was asked about what the first pass had left of all the   *)
(* texts; its findings are vaulted and replaced text by text.              *)
ApplyClassification(r) ==
  /\ pc[r] = "apply"
  /\ LET i == at[r] + 1
         found == Recognises[History(r)] \ hidden[r][i] IN
     /\ hidden' = [hidden EXCEPT ![r][i] = @ \cup found]
     /\ known' = known \cup (found \ Blocked)
  /\ Passes(r, Len(content[r].texts), "apply", "ready")
  /\ UNCHANGED <<paintVars, content, shots, manifest, knew>>

(* The manifest names what the current screenshot shows and whatever else   *)
(* the vault has issued; without a screenshot there is none.  Mutant of     *)
(* Named: the vault's part is what it had when the request arrived.         *)
Visible(r) == shots[r][Len(shots[r])].tokens
NamedOfArrival(r) == Visible(r) \cup knew[r]

Named(r) == Visible(r) \cup known

Dispatch(r) ==
  /\ pc[r] = "ready"
  /\ manifest' = [manifest EXCEPT ![r] = IF shots[r] = << >> THEN {} ELSE Named(r)]
  /\ pc' = [pc EXCEPT ![r] = "out"]
  /\ UNCHANGED <<known, paintVars, content, at, shots, hidden, knew>>

-----------------------------------------------------------------------------
(* Any part of the hooks may raise: a frame that is no image, a detector or *)
(* classifier that fails, a finding without a box.  What was vaulted stays. *)
(* Mutant of Fails: the lock is not released.                               *)
FailsHolding(r) ==
  /\ pc[r] \in {"frame", "plain", "apply", "ready"}
  /\ pc' = [pc EXCEPT ![r] = "failed"]
  /\ UNCHANGED <<known, paintVars, content, at, shots, hidden, manifest, knew>>

Fails(r) ==
  /\ pc[r] \in {"frame", "plain", "apply", "ready"}
  /\ pc' = [pc EXCEPT ![r] = "failed"]
  /\ IF painter = r
     THEN painter' = Nobody /\ canvas' = << >> /\ left' = << >>
     ELSE UNCHANGED <<painter, canvas, left>>
  /\ UNCHANGED <<known, painted, latest, content, at, shots, hidden, manifest, knew>>

(* Everything the hooks do without a look at the frame store.              *)
HookStep(r) ==
  \/ PaintAgain(r) \/ PaintBegin(r) \/ PaintLine(r) \/ PaintEnd(r)
  \/ ScrubPlain(r) \/ ApplyClassification(r)

-----------------------------------------------------------------------------
(* Properties *)

(* Types of the hooks' state; the cache has one painting per frame.        *)
ViewTypeOK ==
  /\ known \subseteq Value \ Blocked
  /\ painter \in Request \cup {Nobody}
  /\ canvas \in Shot \cup {<< >>} /\ (canvas = << >>) = (painter = Nobody)
  /\ left \in Seq(Line)
  /\ painted \in Seq(Shot) /\ Len(painted) <= PaintEntries
  /\ \A i, j \in DOMAIN painted : painted[i].image = painted[j].image => i = j
  /\ latest \in {<<m>> : m \in Image} \cup {<< >>}
  /\ pc \in [Request -> {"new", "frame", "audit", "plain", "apply", "ready", "out", "failed"}]
  /\ content \in [Request -> Content \cup {Empty}]
  /\ at \in [Request -> Nat]
  /\ shots \in [Request -> Seq(Shot)]
  /\ hidden \in [Request -> Seq(SUBSET Value)]
  /\ manifest \in [Request -> SUBSET Value]
  /\ knew \in [Request -> SUBSET Value]

Out == {r \in Request : pc[r] = "out"}

(* Every text leaves, and hides every value it holds that the vault knew    *)
(* when the request arrived, every one a screenshot of the same request     *)
(* showed, and every one the classifier recognised in it, whatever the      *)
(* threads of other requests vault meanwhile.                               *)
OnScreen(r) == UNION {s.tokens : s \in Range(shots[r])}
TextHides(r, i) ==
  LET x == content[r].texts[i] IN
  (Holds[x] \cap (knew[r] \cup OnScreen(r))) \cup Recognises[x] \subseteq hidden[r][i]
TextsHideKnown ==
  \A r \in Out : /\ Len(hidden[r]) = Len(content[r].texts)
                 /\ \A i \in DOMAIN hidden[r] : TextHides(r, i)

(* A painting hides all that was recognised in its frame and all it shows   *)
(* of what the vault knew when it was painted.                             *)
LineHidden(l, s) == l.found \cup (l.reads \cap s.knew) \subseteq s.hides
Covers(s) == \A l \in Range(Lines[s.image]) : LineHidden(l, s)

(* Every frame leaves as such a painting of it, made for this request or    *)
(* for an earlier one.                                                     *)
FramesHideKnown ==
  \A r \in Out :
     /\ Len(shots[r]) = Len(content[r].images)
     /\ \A i \in DOMAIN shots[r] : /\ shots[r][i].image = content[r].images[i]
                                  /\ Covers(shots[r][i])

(* Whatever leaves for the model, pixels or text, hides what was known.     *)
KnownStaysHidden == TextsHideKnown /\ FramesHideKnown

(* A request with a screenshot tells the model of every placeholder that    *)
(* occurs in it, in a frame or in a text.                                  *)
ManifestComplete ==
  \A r \in Out :
     shots[r] # << >> =>
        OnScreen(r) \cup UNION {hidden[r][i] \ Blocked : i \in DOMAIN hidden[r]}
           \subseteq manifest[r]
=============================================================================
