------------------------ MODULE RedactorWorkerProofs ------------------------
(***************************************************************************)
(* Proofs about the redactor: a call is answered with what a worker made   *)
(* of its own input, and an idle timer never stops a worker that was used  *)
(* since it was armed, for any threads, frames, texts, configurations,     *)
(* sizes of the cache and numbers of workers, timers and calls.            *)
(***************************************************************************)
EXTENDS RedactorWorker, TLAPS

-----------------------------------------------------------------------------
(* Lines in a queue *)

NoneOf(s, type) == \A i \in DOMAIN s : s[i].type # type
OneOf(s, type) ==
  \A i, j \in DOMAIN s : s[i].type = type /\ s[j].type = type => i = j

(* At most one line of a type in the two queues together.                  *)
Single(s, r, type) ==
  OneOf(s, type) /\ OneOf(r, type) /\ (NoneOf(s, type) \/ NoneOf(r, type))

LEMMA EmptyQueue ==
  \A type : NoneOf(<< >>, type) /\ OneOf(<< >>, type)
BY DEF NoneOf, OneOf

LEMMA NoneIsOne ==
  ASSUME NEW s, NEW type, NoneOf(s, type)
  PROVE  OneOf(s, type)
BY DEF NoneOf, OneOf

(* A line at the end of a queue.                                           *)
LEMMA Added ==
  ASSUME NEW S, NEW s \in Seq(S), NEW line \in S, NEW type
  PROVE  /\ Append(s, line) \in Seq(S)
         /\ \A i \in DOMAIN Append(s, line) :
               Append(s, line)[i] = line
                 \/ (i \in DOMAIN s /\ Append(s, line)[i] = s[i])
         /\ NoneOf(s, type) /\ line.type # type => NoneOf(Append(s, line), type)
         /\ NoneOf(s, type) => OneOf(Append(s, line), type)
         /\ OneOf(s, type) /\ line.type # type => OneOf(Append(s, line), type)
<1> DEFINE q == Append(s, line)
<1>1. /\ q \in Seq(S) /\ DOMAIN q = 1..(Len(s) + 1) /\ DOMAIN s = 1..Len(s)
      /\ Len(s) \in Nat /\ q[Len(s) + 1] = line
      /\ \A i \in DOMAIN s : q[i] = s[i]
  OBVIOUS
<1> HIDE DEF q
<1>2. \A i \in DOMAIN q : (i \in DOMAIN s /\ q[i] = s[i]) \/ (i = Len(s) + 1 /\ q[i] = line)
  BY <1>1
<1>3. /\ NoneOf(s, type) /\ line.type # type => NoneOf(q, type)
      /\ NoneOf(s, type) => OneOf(q, type)
      /\ OneOf(s, type) /\ line.type # type => OneOf(q, type)
  BY <1>2 DEF NoneOf, OneOf
<1>4. \A i \in DOMAIN q : q[i] = line \/ (i \in DOMAIN s /\ q[i] = s[i])
  BY <1>2
<1>5. q \in Seq(S)
  BY <1>1
<1> QED BY <1>3, <1>4, <1>5 DEF q

(* The first line taken off a queue.                                       *)
LEMMA Taken ==
  ASSUME NEW S, NEW s \in Seq(S), s # << >>, NEW type
  PROVE  /\ Tail(s) \in Seq(S) /\ Head(s) \in S /\ Head(s) = s[1] /\ 1 \in DOMAIN s
         /\ \A i \in DOMAIN Tail(s) : i + 1 \in DOMAIN s /\ Tail(s)[i] = s[i + 1]
         /\ NoneOf(s, type) => NoneOf(Tail(s), type) /\ Head(s).type # type
         /\ OneOf(s, type) => OneOf(Tail(s), type)
         /\ OneOf(s, type) /\ Head(s).type = type => NoneOf(Tail(s), type)
<1> DEFINE q == Tail(s)
<1>1. /\ q \in Seq(S) /\ Head(s) \in S /\ Head(s) = s[1] /\ 1 \in DOMAIN s
      /\ DOMAIN q \subseteq Nat \ {0}
      /\ \A i \in DOMAIN q : i + 1 \in DOMAIN s /\ q[i] = s[i + 1]
  OBVIOUS
<1> HIDE DEF q
<1>2. NoneOf(s, type) => NoneOf(q, type) /\ Head(s).type # type
  BY <1>1 DEF NoneOf
<1>3. OneOf(s, type) => OneOf(q, type)
  BY <1>1 DEF OneOf
<1>4. OneOf(s, type) /\ Head(s).type = type => NoneOf(q, type)
  <2> SUFFICES ASSUME OneOf(s, type), Head(s).type = type,
                      NEW i \in DOMAIN q, q[i].type = type
               PROVE  FALSE
    BY DEF NoneOf
  <2>1. i + 1 \in DOMAIN s /\ s[i + 1].type = type /\ i + 1 # 1
    BY <1>1
  <2> QED BY <1>1, <2>1 DEF OneOf
<1> QED BY <1>1, <1>2, <1>3, <1>4 DEF q

(* The reader moves a line from one queue to the other.                    *)
LEMMA Moved ==
  ASSUME NEW S, NEW s \in Seq(S), NEW r \in Seq(S), s # << >>, NEW type
  PROVE  /\ NoneOf(s, type) /\ NoneOf(r, type) =>
              NoneOf(Tail(s), type) /\ NoneOf(Append(r, Head(s)), type)
         /\ Single(s, r, type) => Single(Tail(s), Append(r, Head(s)), type)
<1>1. /\ NoneOf(s, type) => NoneOf(Tail(s), type) /\ Head(s).type # type
      /\ OneOf(s, type) => OneOf(Tail(s), type)
      /\ OneOf(s, type) /\ Head(s).type = type => NoneOf(Tail(s), type)
      /\ Head(s) \in S
  BY Taken
<1>2. /\ NoneOf(r, type) /\ Head(s).type # type => NoneOf(Append(r, Head(s)), type)
      /\ NoneOf(r, type) => OneOf(Append(r, Head(s)), type)
      /\ OneOf(r, type) /\ Head(s).type # type => OneOf(Append(r, Head(s)), type)
  BY <1>1, Added
<1>3. Head(s).type = type => ~NoneOf(s, type)
  BY <1>1
<1> QED BY <1>1, <1>2, <1>3 DEF Single

-----------------------------------------------------------------------------
(* Caches *)

LEMMA WithoutType ==
  ASSUME NEW S, NEW c \in Seq(S), NEW k
  PROVE  Without(c, k) \in Seq(S)
<1>1. CASE k \notin Keys(c)
  BY <1>1 DEF Without
<1>2. CASE k \in Keys(c)
  <2> DEFINE at == CHOOSE i \in DOMAIN c : c[i].key = k
             q == [i \in 1..(Len(c) - 1) |-> IF i < at THEN c[i] ELSE c[i + 1]]
  <2>1. at \in DOMAIN c
    BY <1>2 DEF Keys, Range
  <2>2. Len(c) - 1 \in Nat
    BY <2>1
  <2>3. \A i \in 1..(Len(c) - 1) : (IF i < at THEN c[i] ELSE c[i + 1]) \in S
    BY <2>1
  <2>4. q \in Seq(S)
    <3> HIDE DEF at
    <3> QED BY <2>2, <2>3
  <2> QED BY <1>2, <2>4 DEF Without
<1> QED BY <1>1, <1>2

LEMMA NewestType ==
  ASSUME NEW S, NEW c \in Seq(S), NEW n \in Nat
  PROVE  Newest(c, n) \in Seq(S)
<1>1. CASE Len(c) <= n
  BY <1>1 DEF Newest
<1>2. CASE ~(Len(c) <= n)
  <2>1. Newest(c, n) = SubSeq(c, Len(c) - n + 1, Len(c))
    BY <1>2 DEF Newest
  <2>2. Len(c) - n + 1 \in 1..(Len(c) + 1)
    BY <1>2
  <2> QED BY <2>1, <2>2
<1> QED BY <1>1, <1>2

(* What is kept of a cache when an entry is made the newest one.           *)
LEMMA RememberedType ==
  ASSUME NEW S, NEW c \in Seq(S), NEW k, NEW e \in S, NEW n \in Nat
  PROVE  /\ Append(Without(c, k), e) \in Seq(S)
         /\ Newest(Append(Without(c, k), e), n) \in Seq(S)
<1>1. Append(Without(c, k), e) \in Seq(S)
  BY WithoutType
<1> QED BY <1>1, NewestType

-----------------------------------------------------------------------------
(* The inductive invariant *)

Lines == [type : {"ready", "fatal", "end", "answer"}, id : Nat,
          of : Job \cup {Refused}]
Printed == {line \in Lines : line.type # "end"}
Entries == {e \in [key : Job, value : Job] : e.value = e.key}
Requests == [id : Nat, of : Job]

(* The types of the state but for the timers.                              *)
Shape ==
  /\ config \in Configs
  /\ owner \in Thread \cup {Nobody}
  /\ pc \in [Thread -> {"idle", "wants", "ensure", "boot", "send", "await", "leave"}]
  /\ job \in [Thread -> Job] /\ outcome \in [Thread -> Outcome]
  /\ frames \in Seq(Entries) /\ texts \in Seq(Entries)
  /\ process \in 0..MaxWorker /\ started \in 0..MaxWorker
  /\ status \in {"booting", "ready", "closing", "dead"}
  /\ input \in Seq(Requests) /\ responses \in Seq(Lines)
  /\ output \in [Worker -> Seq(Printed)] /\ reading \in [Worker -> BOOLEAN]
  /\ nextId \in Nat

(* The lock is held by the one thread that is inside a call.               *)
Locked == \A t \in Thread : pc[t] \notin {"idle", "wants"} <=> owner = t

(* The worker in use is the latest one; no other prints any more.          *)
Latest ==
  /\ process # NoWorker => process = started
  /\ process = NoWorker => status = "dead"
  /\ \A w \in Worker : w > started => output[w] = << >>

(* What the calls have come to.                                            *)
CallsSound ==
  \A t \in Thread :
    /\ job[t] \in Texts \ {Warm} => config.kind = "vision"
    /\ pc[t] \in {"send", "await"} => job[t] # Warm
    /\ pc[t] \in {"boot", "send", "await"} => process # NoWorker
    /\ pc[t] = "leave" => outcome[t] \in {job[t], Failed}

Inside(label) == owner \in Thread /\ pc[owner] = label

(* A request or an answer is that of the call that waits.                  *)
Asked(request) == request = Request(nextId, job[owner])
Fits(line) == line.id = nextId /\ line.of \in {job[owner], Refused}
AllFit(s) == \A i \in DOMAIN s : s[i].type = "answer" => Fits(s[i])

(* What the worker in use has read, printed and had read: all that it owes *)
(* is one answer, to the call that waits; a Vision worker says that it is  *)
(* ready once, to the call that started it, and never gives up.            *)
LinesOf(out) ==
  /\ Single(out, responses, "answer")
  /\ Len(input) <= 1
  /\ input # << >> => /\ NoneOf(out, "answer") /\ NoneOf(responses, "answer")
                      /\ Inside("await") /\ Asked(input[1])
  /\ ~NoneOf(out, "answer") \/ ~NoneOf(responses, "answer") => Inside("await")
  /\ AllFit(out) /\ AllFit(responses)
  /\ reading[started] => NoneOf(responses, "end")
  /\ config.kind = "vision" =>
       /\ NoneOf(out, "fatal") /\ NoneOf(responses, "fatal")
       /\ Single(out, responses, "ready")
       /\ status = "booting" => NoneOf(out, "ready") /\ NoneOf(responses, "ready")
       /\ (\/ status = "booting"
           \/ ~NoneOf(out, "ready")
           \/ ~NoneOf(responses, "ready")) => Inside("boot")
LinesSound == process # NoWorker => LinesOf(output[started])

IInv == Shape /\ Locked /\ Latest /\ CallsSound /\ LinesSound

-----------------------------------------------------------------------------
(* What the invariant says of the moments of a call *)

(* Outside a wait for a worker nothing is owed, and a Vision worker is     *)
(* past its start.                                                         *)
Quiet(out) ==
  /\ input = << >> /\ NoneOf(out, "answer") /\ NoneOf(responses, "answer")
  /\ config.kind = "vision" =>
       /\ status # "booting"
       /\ NoneOf(out, "ready") /\ NoneOf(responses, "ready")

LEMMA QuietOutside ==
  ASSUME IInv, process # NoWorker, ~Inside("await"), ~Inside("boot")
  PROVE  Quiet(output[started])
<1>1. LinesOf(output[started])
  BY DEF IInv, LinesSound
<1> QED BY <1>1 DEF LinesOf, Quiet

(* While its call waits for a new worker, nothing is owed.                 *)
LEMMA NothingOwedAtBoot ==
  ASSUME IInv, process # NoWorker, ~Inside("await")
  PROVE  input = << >> /\ NoneOf(output[started], "answer")
           /\ NoneOf(responses, "answer")
<1>1. LinesOf(output[started])
  BY DEF IInv, LinesSound
<1> QED BY <1>1 DEF LinesOf

(* Who is inside a call is the one that holds the lock.                    *)
LEMMA InsideOwns ==
  ASSUME IInv, NEW t \in Thread, NEW label,
         label \in {"ensure", "boot", "send", "await", "leave"}, pc[t] = label
  PROVE  /\ owner = t /\ Inside(label)
         /\ \A other : other # label => ~Inside(other)
BY DEF IInv, Locked, Inside, Shape

(* Whoever takes the lock finds nothing owed.                              *)
LEMMA FreeIsOutside ==
  ASSUME owner = Nobody
  PROVE  \A label : ~Inside(label)
BY ThreadAssumption DEF Inside

(* A worker that owes nothing, after a step.                               *)
LEMMA QuietIsSound ==
  ASSUME Quiet(output[started])',
         (reading[started] => NoneOf(responses, "end"))',
         (config.kind = "vision" =>
            NoneOf(output[started], "fatal") /\ NoneOf(responses, "fatal"))'
  PROVE  LinesSound'
<1>1. LinesOf(output[started])'
  <2>1. AllFit(output[started])' /\ AllFit(responses)'
    BY DEF Quiet, AllFit, NoneOf
  <2>2. Len(input') <= 1
    BY DEF Quiet
  <2> QED BY <2>1, <2>2, NoneIsOne DEF Quiet, LinesOf, Single
<1> QED BY <1>1 DEF LinesSound

(* A step that leaves a quiet worker and its lines alone keeps them sound. *)
LEMMA QuietStays ==
  ASSUME IInv, process # NoWorker => Quiet(output[started]),
         UNCHANGED <<config, started, input, output, responses, reading>>,
         process' # NoWorker => process # NoWorker /\ status' = status
  PROVE  LinesSound'
<1>1. CASE process' = NoWorker
  BY <1>1 DEF LinesSound
<1>2. CASE process' # NoWorker
  <2>1. LinesOf(output[started]) /\ Quiet(output[started]) /\ status' = status
    BY <1>2 DEF IInv, LinesSound
  <2>2. Quiet(output[started])'
    BY <2>1 DEF Quiet
  <2> QED BY <2>1, <2>2, QuietIsSound DEF LinesOf
<1> QED BY <1>1, <1>2

(* A step that leaves the holder of the lock, its call and the lines of    *)
(* the worker alone keeps them sound, even if the worker dies.             *)
LEMMA SameLinesStay ==
  ASSUME LinesSound, status' \in {status, "dead"},
         UNCHANGED <<config, owner, process, started, input, responses, nextId>>,
         output'[started] = output[started], reading'[started] = reading[started],
         owner \in Thread => pc'[owner] = pc[owner] /\ job'[owner] = job[owner]
  PROVE  LinesSound'
<1>1. /\ \A label : Inside(label)' <=> Inside(label)
      /\ Inside("await") => job'[owner] = job[owner]
  BY DEF Inside
<1>2. \A line : Inside("await") => (Fits(line)' <=> Fits(line))
  BY <1>1 DEF Fits
<1>3. SUFFICES ASSUME process # NoWorker PROVE LinesOf(output[started])'
  BY DEF LinesSound
<1>4. LinesOf(output[started])
  BY <1>3 DEF LinesSound
<1>5. AllFit(output[started])' /\ AllFit(responses)'
  BY <1>2, <1>4 DEF LinesOf, AllFit, NoneOf
<1>6. input # << >> => Inside("await")' /\ Asked(input[1])'
  BY <1>1, <1>4 DEF LinesOf, Asked, Request
<1>7. output'[started'] = output[started] /\ reading'[started'] = reading[started]
  OBVIOUS
<1> QED BY <1>1, <1>4, <1>5, <1>6, <1>7 DEF LinesOf

-----------------------------------------------------------------------------
(* The types *)

LEMMA LineTypes ==
  /\ Ready \in Printed /\ Fatal \in Printed /\ End \in Lines
  /\ \A id \in Nat, of \in Job \cup {Refused} : Answer(id, of) \in Printed
BY DEF Ready, Fatal, End, Answer, Printed, Lines, Job

(* The answer a call takes is of its own input.                            *)
LEMMA OwnAnswer ==
  ASSUME IInv, NEW t \in Thread, Takes(t, "await"), Answers(t)
  PROVE  /\ process # NoWorker /\ Line \in Lines
         /\ Line.type = "answer" /\ Line.of \in {job[t], Refused}
<1>1. responses \in Seq(Lines) /\ responses # << >>
  BY DEF Takes, IInv, Shape
<1>2. Line = responses[1] /\ 1 \in DOMAIN responses /\ Line \in Lines
  BY <1>1, Taken DEF Line
<1>3. owner = t
  BY InsideOwns DEF Takes
<1>4. process # NoWorker
  BY DEF IInv, CallsSound, Takes
<1>5. AllFit(responses)
  BY <1>4 DEF IInv, LinesSound, LinesOf
<1> QED BY <1>2, <1>3, <1>4, <1>5 DEF Answers, AllFit, Fits

(* The caches keep their entries and what is remembered of a call.         *)
LEMMA CachesStay ==
  ASSUME IInv, Next
  PROVE  frames' \in Seq(Entries) /\ texts' \in Seq(Entries)
<1>1. frames \in Seq(Entries) /\ texts \in Seq(Entries) /\ job \in [Thread -> Job]
  BY DEF IInv, Shape
<1>2. ASSUME NEW t \in Thread, Hit(t)
      PROVE  frames' \in Seq(Entries) /\ texts' \in Seq(Entries)
  <2>1. PICK e \in Range(frames) \cup Range(texts) :
          IF job[t] \in Frame
          THEN frames' = Append(Without(frames, job[t]), e) /\ UNCHANGED texts
          ELSE texts' = Append(Without(texts, job[t]), e) /\ UNCHANGED frames
    BY <1>2 DEF Hit
  <2>2. e \in Entries
    BY <1>1, <2>1 DEF Range
  <2> QED BY <1>1, <2>1, <2>2, RememberedType, BoundAssumption
<1>3. ASSUME NEW t \in Thread, TakesFrame(t) \/ TakesTexts(t)
      PROVE  frames' \in Seq(Entries) /\ texts' \in Seq(Entries)
  <2>1. Takes(t, "await") /\ Answers(t)
    BY <1>3 DEF TakesFrame, TakesTexts
  <2>2. Line.of # Refused => Entry(job[t], Line.of) \in Entries
    BY <1>1, <2>1, OwnAnswer DEF Entry, Entries
  <2>3. (IF CacheEntries = 0 THEN 1 ELSE CacheEntries) \in Nat /\ CacheEntries \in Nat
    BY BoundAssumption
  <2>4. CASE TakesFrame(t)
    BY <1>1, <2>2, <2>3, <2>4, RememberedType DEF TakesFrame
  <2>5. CASE TakesTexts(t)
    BY <1>1, <2>2, <2>3, <2>5, RememberedType DEF TakesTexts
  <2> QED BY <1>3, <2>4, <2>5
<1>4. CASE Close
  BY <1>4 DEF Close
<1>5. CASE UNCHANGED cacheVars
  BY <1>1, <1>5 DEF cacheVars
<1>6. \/ UNCHANGED cacheVars \/ Close
      \/ \E t \in Thread : Hit(t) \/ TakesFrame(t) \/ TakesTexts(t)
  BY Zenon DEF Next, Step, OwnStep, Begin, Miss, Ensured, Spawn, SpawnFails, Send, SendFails,
     TimesOut, Boots, BootFails, TakesNoImage, TakesNoAnswer, Leave, TimerFires,
     Expire, WorkerReady, WorkerGivesUp, WorkerAnswers, WorkerDies, Reads, ReaderEnds,
     cacheVars
<1> QED BY <1>2, <1>3, <1>4, <1>5, <1>6

WorkerTyped ==
  /\ process \in 0..MaxWorker /\ started \in 0..MaxWorker
  /\ status \in {"booting", "ready", "closing", "dead"}
  /\ input \in Seq(Requests) /\ responses \in Seq(Lines)
  /\ output \in [Worker -> Seq(Printed)] /\ reading \in [Worker -> BOOLEAN]
  /\ nextId \in Nat

(* The calls stop, start and use the latest worker alone.                  *)
LEMMA WorkerTypesByCalls ==
  ASSUME IInv, NEW t \in Thread, Step(t)
  PROVE  WorkerTyped' /\ Latest'
<1>1. WorkerTyped /\ Latest /\ job \in [Thread -> Job]
  BY DEF IInv, Shape, WorkerTyped
<1>2. 0 \in 0..MaxWorker /\ MaxWorker \in Nat
  BY BoundAssumption
<1>3. CASE Hit(t) \/ Miss(t)
  <2>1. UNCHANGED <<process, started, workerVars, nextId>>
    BY <1>3 DEF Hit, Miss, Enters
  <2> QED BY <1>1, <2>1 DEF WorkerTyped, Latest, workerVars
<1>4. CASE Ensured(t)
  BY <1>1, <1>4 DEF Ensured, WorkerTyped, Latest, workerVars
<1>5. CASE SpawnFails(t)
  BY <1>1, <1>2, <1>5 DEF SpawnFails, WorkerTyped, Latest, workerVars, Running, NoWorker
<1>6. CASE Spawn(t)
  <2>1. /\ started < MaxWorker
        /\ started' = started + 1 /\ process' = started + 1
        /\ status' = "booting" /\ input' = << >> /\ responses' = << >>
        /\ reading' = [reading EXCEPT ![started + 1] = TRUE]
        /\ UNCHANGED <<output, nextId>>
    BY <1>6 DEF Spawn
  <2>2. WorkerTyped'
    <3>1. << >> \in Seq(Requests) /\ << >> \in Seq(Lines)
      OBVIOUS
    <3>2. started' \in 0..MaxWorker /\ process' \in 0..MaxWorker
      BY <1>1, <1>2, <2>1 DEF WorkerTyped
    <3>3. reading' \in [Worker -> BOOLEAN]
      BY <1>1, <2>1 DEF WorkerTyped
    <3> QED BY <1>1, <2>1, <3>1, <3>2, <3>3 DEF WorkerTyped
  <2>3. Latest'
    BY <1>1, <1>2, <2>1 DEF WorkerTyped, Latest, NoWorker, Worker
  <2> QED BY <2>2, <2>3
<1>7. CASE Send(t)
  <2>1. /\ nextId' = nextId + 1
        /\ input' = Append(input, Request(nextId + 1, job[t]))
        /\ UNCHANGED <<process, started, status, output, responses, reading>>
    BY <1>7 DEF Send
  <2>2. Request(nextId + 1, job[t]) \in Requests
    BY <1>1 DEF Request, Requests, WorkerTyped
  <2>3. WorkerTyped'
    BY <1>1, <2>1, <2>2 DEF WorkerTyped
  <2> QED BY <1>1, <2>1, <2>3 DEF Latest
<1>8. CASE SendFails(t)
  BY <1>1, <1>2, <1>8 DEF SendFails, Stop, WorkerTyped, Latest, NoWorker
<1>9. CASE TimesOut(t)
  BY <1>1, <1>2, <1>9 DEF TimesOut, Stop, WorkerTyped, Latest, NoWorker
<1>10. CASE Boots(t) \/ BootFails(t) \/ TakesFrame(t) \/ TakesTexts(t)
             \/ TakesNoImage(t) \/ TakesNoAnswer(t)
  <2>1. /\ responses # << >> /\ responses' = Tail(responses)
        /\ UNCHANGED <<started, input, output, reading, nextId>>
    BY <1>10 DEF Boots, BootFails, TakesFrame, TakesTexts, TakesNoImage,
                 TakesNoAnswer, Takes
  <2>2. Stop \/ UNCHANGED <<process, status>>
    BY <1>10 DEF Boots, BootFails, TakesFrame, TakesTexts, TakesNoImage,
                 TakesNoAnswer
  <2>3. responses' \in Seq(Lines)
    BY <1>1, <2>1 DEF WorkerTyped
  <2> QED BY <1>1, <1>2, <2>1, <2>2, <2>3 DEF Stop, WorkerTyped, Latest, NoWorker
<1>11. CASE Leave(t)
  <2>1. UNCHANGED <<started, input, responses, output, reading, nextId>>
    BY <1>11 DEF Leave
  <2>2. Stop \/ UNCHANGED <<process, status>>
    BY <1>11 DEF Leave
  <2> QED BY <1>1, <1>2, <2>1, <2>2 DEF Stop, WorkerTyped, Latest, NoWorker
<1> QED BY <1>3, <1>4, <1>5, <1>6, <1>7, <1>8, <1>9, <1>10, <1>11 DEF Step, OwnStep

LEMMA WorkerTypesByOthers ==
  ASSUME IInv, Next, ~\E t \in Thread : Step(t)
  PROVE  WorkerTyped' /\ Latest'
<1>1. WorkerTyped /\ Latest
  BY DEF IInv, Shape, WorkerTyped
<1>2. 0 \in 0..MaxWorker /\ MaxWorker \in Nat
  BY BoundAssumption
<1>3. ASSUME NEW t \in Thread, NEW j \in Job, Begin(t, j)
      PROVE  WorkerTyped' /\ Latest'
  BY <1>1, <1>3 DEF Begin, WorkerTyped, Latest, workerVars
<1>4. CASE Close
  BY <1>1, <1>2, <1>4 DEF Close, Stop, WorkerTyped, Latest, NoWorker
<1>5. ASSUME NEW i \in Timer, TimerFires(i)
      PROVE  WorkerTyped' /\ Latest'
  BY <1>1, <1>5 DEF TimerFires, WorkerTyped, Latest, workerVars
<1>6. ASSUME NEW i \in Timer, Expire(i)
      PROVE  WorkerTyped' /\ Latest'
  <2>1. UNCHANGED <<started, input, responses, output, reading, nextId>>
    BY <1>6 DEF Expire
  <2>2. Stop \/ UNCHANGED <<process, status>>
    BY <1>6 DEF Expire
  <2> QED BY <1>1, <1>2, <2>1, <2>2 DEF Stop, WorkerTyped, Latest, NoWorker
<1>7. ASSUME NEW line \in Printed, Prints(line), status # "dead",
             UNCHANGED <<process, started, responses, reading, nextId>>,
             input' \in Seq(Requests), status' \in {"ready", "closing"}
      PROVE  WorkerTyped' /\ Latest'
  <2>1. started \in Worker /\ process = started
    BY <1>1, <1>2, <1>7 DEF WorkerTyped, Latest, NoWorker, Worker
  <2>2. output' = [output EXCEPT ![started] = Append(output[started], line)]
    BY <1>7 DEF Prints
  <2>3. output' \in [Worker -> Seq(Printed)]
    BY <1>1, <1>7, <2>1, <2>2 DEF WorkerTyped
  <2>4. \A w \in Worker : w > started => output'[w] = output[w]
    BY <1>1, <2>1, <2>2 DEF WorkerTyped, Worker
  <2>5. Latest'
    BY <1>1, <1>7, <2>1, <2>4 DEF Latest, NoWorker, Worker, WorkerTyped
  <2> QED BY <1>1, <1>7, <2>3, <2>5 DEF WorkerTyped
<1>8. CASE WorkerReady
  BY <1>1, <1>7, <1>8, LineTypes DEF WorkerReady, WorkerTyped
<1>9. CASE WorkerGivesUp
  BY <1>1, <1>7, <1>9, LineTypes DEF WorkerGivesUp, WorkerTyped
<1>10. CASE WorkerAnswers
  <2>1. /\ status = "ready" /\ input # << >> /\ input' = Tail(input)
        /\ UNCHANGED <<process, started, status, responses, reading, nextId>>
    BY <1>10 DEF WorkerAnswers
  <2>2. PICK of \in {Head(input).of, Refused} : Prints(Answer(Head(input).id, of))
    BY <1>10 DEF WorkerAnswers
  <2>3. Head(input) \in Requests /\ input' \in Seq(Requests)
    BY <1>1, <2>1 DEF WorkerTyped
  <2>4. Answer(Head(input).id, of) \in Printed
    BY <2>2, <2>3, LineTypes DEF Requests
  <2> QED BY <1>7, <2>1, <2>2, <2>3, <2>4
<1>11. CASE WorkerDies
  BY <1>1, <1>11 DEF WorkerDies, WorkerTyped, Latest
<1>12. ASSUME NEW w \in Worker, Reads(w)
       PROVE  WorkerTyped' /\ Latest'
  <2>1. /\ output[w] # << >> /\ output' = [output EXCEPT ![w] = Tail(output[w])]
        /\ UNCHANGED <<process, started, status, input, reading, nextId>>
    BY <1>12 DEF Reads
  <2>2. responses' = responses \/ responses' = Append(responses, Head(output[w]))
    BY <1>12 DEF Reads, Queued
  <2>3. /\ output[w] \in Seq(Printed) /\ Tail(output[w]) \in Seq(Printed)
        /\ Head(output[w]) \in Lines
    BY <1>1, <2>1 DEF WorkerTyped, Printed
  <2>4. responses' \in Seq(Lines)
    <3>1. responses \in Seq(Lines)
      BY <1>1 DEF WorkerTyped
    <3> QED BY <2>2, <2>3, <3>1
  <2>5. output' \in [Worker -> Seq(Printed)]
    BY <1>1, <2>1, <2>3 DEF WorkerTyped
  <2>6. Latest'
    BY <1>1, <2>1 DEF Latest, WorkerTyped
  <2> QED BY <1>1, <2>1, <2>4, <2>5, <2>6 DEF WorkerTyped
<1>13. ASSUME NEW w \in Worker, ReaderEnds(w)
       PROVE  WorkerTyped' /\ Latest'
  <2>1. /\ output' = [output EXCEPT ![w] = << >>]
        /\ reading' = [reading EXCEPT ![w] = FALSE]
        /\ UNCHANGED <<process, started, status, input, nextId>>
    BY <1>13 DEF ReaderEnds
  <2>2. responses' = responses \/ responses' = Append(responses, End)
    BY <1>13 DEF ReaderEnds, Queued
  <2>3. responses' \in Seq(Lines)
    <3>1. responses \in Seq(Lines) /\ End \in Lines
      BY <1>1, LineTypes DEF WorkerTyped
    <3> QED BY <2>2, <3>1
  <2>4. output' \in [Worker -> Seq(Printed)] /\ reading' \in [Worker -> BOOLEAN]
    BY <1>1, <2>1 DEF WorkerTyped
  <2>5. Latest'
    BY <1>1, <2>1 DEF Latest, WorkerTyped
  <2> QED BY <1>1, <2>1, <2>3, <2>4, <2>5 DEF WorkerTyped
<1> QED BY <1>3, <1>4, <1>5, <1>6, <1>8, <1>9, <1>10, <1>11, <1>12, <1>13 DEF Next

ControlTyped ==
  /\ config \in Configs
  /\ owner \in Thread \cup {Nobody}
  /\ pc \in [Thread -> {"idle", "wants", "ensure", "boot", "send", "await", "leave"}]
  /\ job \in [Thread -> Job] /\ outcome \in [Thread -> Outcome]

(* A thread only moves itself, and holds the lock from its entry to its    *)
(* leave; what a call for a frame or texts waits for is the worker in use. *)
LEMMA ControlStays ==
  ASSUME IInv, Next
  PROVE  ControlTyped' /\ Locked' /\ CallsSound'
<1>1. ControlTyped /\ Locked /\ CallsSound
  BY DEF IInv, Shape, ControlTyped
<1>2. Job \subseteq Outcome /\ Failed \in Outcome /\ Warm \in Job /\ Nobody \notin Thread
  BY ThreadAssumption DEF Outcome, Job
<1>3. ASSUME NEW t \in Thread, NEW label \in {"ensure", "boot", "send", "await", "leave"},
             pc[t] \notin {"idle", "wants"}, pc' = [pc EXCEPT ![t] = label],
             UNCHANGED <<config, owner, job>>
      PROVE  /\ pc' \in [Thread -> {"idle", "wants", "ensure", "boot", "send", "await", "leave"}]
             /\ Locked' /\ owner = t /\ pc'[t] = label
             /\ \A u \in Thread \ {t} : pc'[u] = pc[u] /\ pc[u] \in {"idle", "wants"}
  BY <1>1, <1>3 DEF ControlTyped, Locked
\* a call goes on inside
<1>4. ASSUME NEW t \in Thread, NEW label \in {"boot", "send", "await"}, Goes(t, label),
             pc[t] \notin {"idle", "wants"}, process' # NoWorker,
             label \in {"send", "await"} => job[t] # Warm
      PROVE  ControlTyped' /\ Locked' /\ CallsSound'
  <2>1. UNCHANGED <<config, owner, job, outcome>> /\ pc' = [pc EXCEPT ![t] = label]
    BY <1>4 DEF Goes
  <2>2. /\ pc' \in [Thread -> {"idle", "wants", "ensure", "boot", "send", "await", "leave"}]
        /\ Locked' /\ pc'[t] = label
        /\ \A u \in Thread \ {t} : pc'[u] \in {"idle", "wants"}
    BY <1>3, <1>4, <2>1
  <2>3. CallsSound'
    BY <1>1, <1>4, <2>1, <2>2 DEF CallsSound
  <2> QED BY <1>1, <2>1, <2>2, <2>3 DEF ControlTyped
\* a call has its outcome
<1>5. ASSUME NEW t \in Thread, NEW o \in {job[t], Failed}, Ends(t, o),
             pc[t] \notin {"idle", "wants"}
      PROVE  ControlTyped' /\ Locked' /\ CallsSound'
  <2>1. /\ UNCHANGED <<config, owner, job>> /\ pc' = [pc EXCEPT ![t] = "leave"]
        /\ outcome' = [outcome EXCEPT ![t] = o]
    BY <1>5 DEF Ends
  <2>2. /\ pc' \in [Thread -> {"idle", "wants", "ensure", "boot", "send", "await", "leave"}]
        /\ Locked' /\ pc'[t] = "leave"
        /\ \A u \in Thread \ {t} : pc'[u] \in {"idle", "wants"}
    BY <1>3, <1>5, <2>1
  <2>3. outcome' \in [Thread -> Outcome] /\ outcome'[t] = o
    BY <1>1, <1>2, <1>5, <2>1 DEF ControlTyped
  <2>4. CallsSound'
    BY <1>1, <1>5, <2>1, <2>2, <2>3 DEF CallsSound
  <2> QED BY <1>1, <2>1, <2>2, <2>3, <2>4 DEF ControlTyped
\* a call begins and enters
<1>6. ASSUME NEW t \in Thread, NEW j \in Job, Begin(t, j)
      PROVE  ControlTyped' /\ Locked' /\ CallsSound'
  <2>1. /\ pc[t] = "idle"
        /\ j \in Texts => config.kind = "vision"
        /\ pc' = [pc EXCEPT ![t] = "wants"] /\ job' = [job EXCEPT ![t] = j]
        /\ UNCHANGED <<config, owner, outcome, process>>
    BY <1>6 DEF Begin
  <2>2. /\ pc' \in [Thread -> {"idle", "wants", "ensure", "boot", "send", "await", "leave"}]
        /\ pc'[t] = "wants" /\ \A u \in Thread \ {t} : pc'[u] = pc[u]
    BY <1>1, <2>1 DEF ControlTyped
  <2>3. /\ job' \in [Thread -> Job] /\ job'[t] = j
        /\ \A u \in Thread \ {t} : job'[u] = job[u]
    BY <1>1, <2>1 DEF ControlTyped
  <2>4. Locked'
    <3>1. owner # t
      BY <1>1, <2>1 DEF Locked
    <3>2. ASSUME NEW u \in Thread
          PROVE  pc'[u] \notin {"idle", "wants"} <=> owner' = u
      <4>1. CASE u = t
        BY <2>1, <2>2, <3>1, <4>1
      <4>2. CASE u # t
        <5>1. pc'[u] = pc[u] /\ owner' = owner
          BY <2>1, <2>2, <4>2
        <5> QED BY <1>1, <5>1 DEF Locked
      <4> QED BY <4>1, <4>2
    <3> QED BY <3>2 DEF Locked
  <2>5. CallsSound'
    <3>1. ASSUME NEW u \in Thread, u # t
          PROVE  /\ pc'[u] = pc[u] /\ job'[u] = job[u] /\ outcome'[u] = outcome[u]
                 /\ process' = process /\ config' = config
      BY <2>1, <2>2, <2>3, <3>1
    <3>2. /\ pc'[t] = "wants" /\ job'[t] = j /\ config' = config
          /\ j \in Texts => config.kind = "vision"
      BY <2>1, <2>2, <2>3
    <3> QED BY <1>1, <3>1, <3>2 DEF CallsSound
  <2> QED BY <1>1, <2>1, <2>2, <2>3, <2>4, <2>5 DEF ControlTyped
<1>7. ASSUME NEW t \in Thread, Hit(t) \/ Miss(t)
      PROVE  ControlTyped' /\ Locked' /\ CallsSound'
  <2>1. /\ pc[t] = "wants" /\ owner = Nobody /\ owner' = t
        /\ UNCHANGED <<config, job, process>>
    BY <1>7 DEF Hit, Miss, Enters
  <2>2. \/ pc' = [pc EXCEPT ![t] = "ensure"] /\ outcome' = outcome
        \/ pc' = [pc EXCEPT ![t] = "leave"] /\ outcome' = [outcome EXCEPT ![t] = job[t]]
    <3>1. CASE Miss(t)
      BY <3>1 DEF Miss
    <3>2. CASE Hit(t)
      <4>1. PICK e \in Range(frames) \cup Range(texts) :
              e.key = job[t] /\ outcome' = [outcome EXCEPT ![t] = e.value]
        BY <3>2 DEF Hit
      <4>2. e \in Entries
        BY <4>1 DEF Range, IInv, Shape
      <4> QED BY <3>2, <4>1, <4>2 DEF Hit, Entries
    <3> QED BY <1>7, <3>1, <3>2
  <2>3. /\ pc' \in [Thread -> {"idle", "wants", "ensure", "boot", "send", "await", "leave"}]
        /\ pc'[t] \in {"ensure", "leave"} /\ \A u \in Thread \ {t} : pc'[u] = pc[u]
    BY <1>1, <2>2 DEF ControlTyped
  <2>4. outcome' \in [Thread -> Outcome] /\ (pc'[t] = "leave" => outcome'[t] = job[t])
    BY <1>1, <1>2, <2>2, <2>3 DEF ControlTyped
  <2>5. Locked'
    BY <1>1, <1>2, <2>1, <2>3 DEF Locked
  <2>6. \A u \in Thread \ {t} : pc'[u] \in {"idle", "wants"}
    BY <1>1, <1>2, <2>1, <2>3 DEF Locked
  <2>7. CallsSound'
    BY <1>1, <2>1, <2>3, <2>4, <2>6 DEF CallsSound
  <2> QED BY <1>1, <2>1, <2>3, <2>4, <2>5, <2>7 DEF ControlTyped
<1>8. ASSUME NEW t \in Thread, Leave(t)
      PROVE  ControlTyped' /\ Locked' /\ CallsSound'
  <2>1. /\ pc[t] = "leave" /\ owner' = Nobody /\ pc' = [pc EXCEPT ![t] = "idle"]
        /\ job' = [job EXCEPT ![t] = Warm]
        /\ outcome' = [outcome EXCEPT ![t] = Failed] /\ config' = config
    BY <1>8 DEF Leave
  <2>2. /\ pc' \in [Thread -> {"idle", "wants", "ensure", "boot", "send", "await", "leave"}]
        /\ pc'[t] = "idle" /\ \A u \in Thread \ {t} : pc'[u] = pc[u]
        /\ job' \in [Thread -> Job] /\ job'[t] = Warm
        /\ \A u \in Thread \ {t} : job'[u] = job[u]
        /\ outcome' \in [Thread -> Outcome]
    BY <1>1, <1>2, <2>1 DEF ControlTyped
  <2>3. \A u \in Thread : pc'[u] \in {"idle", "wants"}
    BY <1>1, <2>1, <2>2 DEF Locked, ControlTyped
  <2>4. Locked' /\ CallsSound'
    BY <1>1, <1>2, <2>1, <2>2, <2>3 DEF Locked, CallsSound
  <2> QED BY <1>1, <2>1, <2>2, <2>4 DEF ControlTyped
\* everybody else
<1>9. ASSUME UNCHANGED <<config, owner, pc, job, outcome>>,
             process' = process \/ owner = Nobody
      PROVE  ControlTyped' /\ Locked' /\ CallsSound'
  <2>1. ControlTyped' /\ Locked'
    BY <1>1, <1>9 DEF ControlTyped, Locked
  <2>2. process' # process => \A t \in Thread : pc[t] \in {"idle", "wants"}
    BY <1>1, <1>2, <1>9 DEF Locked
  <2> QED BY <1>1, <1>9, <2>1, <2>2 DEF CallsSound
<1>10. ASSUME ~\E t \in Thread : Step(t) \/ \E j \in Job : Begin(t, j)
       PROVE  /\ UNCHANGED <<config, owner, pc, job, outcome>>
              /\ process' = process \/ owner = Nobody
  BY <1>10 DEF Next, Close, TimerFires, Expire, WorkerReady, WorkerGivesUp,
     WorkerAnswers, WorkerDies, Reads, ReaderEnds, threadVars
<1>11. ASSUME NEW t \in Thread, Step(t), ~Hit(t), ~Miss(t), ~Leave(t)
       PROVE  /\ pc[t] \notin {"idle", "wants"}
              /\ \/ \E o \in {job[t], Failed} : Ends(t, o)
                 \/ \E label \in {"boot", "send", "await"} :
                      /\ Goes(t, label) /\ process' # NoWorker
                      /\ label \in {"send", "await"} => job[t] # Warm
  <2>1. CASE Ensured(t)
    BY <2>1 DEF Ensured, Running
  <2>2. CASE Spawn(t)
    BY <1>1, <2>2, BoundAssumption DEF Spawn, NoWorker, IInv, Shape
  <2>3. CASE SpawnFails(t) \/ SendFails(t) \/ TimesOut(t) \/ BootFails(t)
              \/ TakesNoImage(t) \/ TakesNoAnswer(t)
    BY <2>3 DEF SpawnFails, SendFails, TimesOut, BootFails, TakesNoImage,
                TakesNoAnswer, Takes
  <2>4. CASE Send(t)
    BY <1>1, <2>4 DEF Send, Running, CallsSound
  <2>5. CASE Boots(t)
    BY <1>1, <2>5 DEF Boots, Takes, CallsSound
  <2>6. CASE TakesFrame(t) \/ TakesTexts(t)
    <3>1. Takes(t, "await") /\ Answers(t) /\ pc[t] = "await"
      BY <2>6 DEF TakesFrame, TakesTexts, Takes
    <3>2. Line.of \in {job[t], Refused}
      BY <3>1, OwnAnswer
    <3>3. Ends(t, Failed) \/ (Ends(t, Line.of) /\ Line.of # Refused)
      BY <2>6 DEF TakesFrame, TakesTexts
    <3> QED BY <3>1, <3>2, <3>3
  <2> QED BY <1>11, <2>1, <2>2, <2>3, <2>4, <2>5, <2>6 DEF Step, OwnStep
<1> QED BY <1>4, <1>5, <1>6, <1>7, <1>8, <1>9, <1>10, <1>11

-----------------------------------------------------------------------------
(* The lines *)

(* What a call does to the lines of the worker in use.                     *)
LEMMA LinesByCalls ==
  ASSUME IInv, NEW t \in Thread, Step(t)
  PROVE  LinesSound'
<1>1. WorkerTyped /\ Latest /\ CallsSound /\ LinesSound
  BY DEF IInv, Shape, WorkerTyped
<1>2. process' = NoWorker => LinesSound'
  BY DEF LinesSound
<1>3. CASE Hit(t) \/ Miss(t)
  <2>1. /\ owner = Nobody
        /\ UNCHANGED <<config, process, started, status, input, output, responses, reading>>
    BY <1>3 DEF Hit, Miss, Enters, workerVars
  <2>2. ~Inside("await") /\ ~Inside("boot")
    BY <2>1, FreeIsOutside
  <2> QED BY <2>1, <2>2, QuietOutside, QuietStays
<1>4. CASE Ensured(t) \/ SpawnFails(t)
  <2>1. /\ pc[t] = "ensure" /\ process' \in {process, NoWorker}
        /\ UNCHANGED <<config, started, status, input, output, responses, reading>>
    BY <1>4 DEF Ensured, SpawnFails, Ends, Goes, workerVars
  <2>2. ~Inside("await") /\ ~Inside("boot")
    BY <2>1, InsideOwns
  <2> QED BY <2>1, <2>2, QuietOutside, QuietStays
<1>5. CASE Leave(t)
  <2>1. /\ pc[t] = "leave" /\ (process' = NoWorker \/ UNCHANGED <<process, status>>)
        /\ UNCHANGED <<config, started, input, output, responses, reading>>
    BY <1>5 DEF Leave, Stop
  <2>2. ~Inside("await") /\ ~Inside("boot")
    BY <2>1, InsideOwns
  <2> QED BY <2>1, <2>2, QuietOutside, QuietStays
<1>6. CASE Spawn(t)
  <2>1. /\ pc[t] = "ensure" /\ started < MaxWorker /\ started' = started + 1
        /\ input' = << >> /\ responses' = << >> /\ status' = "booting"
        /\ UNCHANGED <<output, owner>> /\ pc' = [pc EXCEPT ![t] = "boot"]
    BY <1>6 DEF Spawn, Goes
  <2>2. output'[started'] = << >>
    BY <1>1, <2>1, BoundAssumption DEF Latest, WorkerTyped, Worker
  <2>3. Inside("boot")'
    BY <2>1, InsideOwns DEF Inside, IInv, Shape
  <2>4. AllFit(output[started])' /\ AllFit(responses)'
    BY <2>1, <2>2 DEF AllFit
  <2>5. LinesOf(output[started])'
    BY <2>1, <2>2, <2>3, <2>4, EmptyQueue DEF LinesOf, Single
  <2> QED BY <2>5 DEF LinesSound
<1>7. CASE Send(t)
  <2>1. /\ pc[t] = "send" /\ process # NoWorker /\ nextId' = nextId + 1
        /\ input' = Append(input, Request(nextId + 1, job[t]))
        /\ UNCHANGED <<config, process, started, status, output, responses, reading, owner, job>>
        /\ pc' = [pc EXCEPT ![t] = "await"]
    BY <1>7 DEF Send, Goes, Running
  <2>2. LinesOf(output[started]) /\ Quiet(output[started])
    BY <1>1, <2>1, InsideOwns, QuietOutside DEF LinesSound
  <2>3. owner = t /\ Inside("await")'
    BY <2>1, InsideOwns DEF Inside, IInv, Shape
  <2>4. /\ Len(input') = 1 /\ input'[1] = Request(nextId + 1, job[t])
    BY <2>1, <2>2 DEF Quiet
  <2>5. Asked(input[1])'
    BY <2>1, <2>3, <2>4 DEF Asked
  <2>6. AllFit(output[started])' /\ AllFit(responses)'
    BY <2>1, <2>2 DEF AllFit, NoneOf, Quiet
  <2>7. LinesOf(output[started])'
    BY <2>1, <2>2, <2>3, <2>4, <2>5, <2>6 DEF LinesOf, Quiet
  <2> QED BY <2>7 DEF LinesSound
<1>8. CASE SendFails(t) \/ TimesOut(t) \/ BootFails(t) \/ TakesNoImage(t)
  BY <1>2, <1>8 DEF SendFails, TimesOut, BootFails, TakesNoImage, Stop
<1>9. ASSUME NEW label \in {"boot", "await"}, Takes(t, label),
             UNCHANGED <<config, process, status>>
      PROVE  /\ process # NoWorker /\ LinesOf(output[started]) /\ Line \in Lines
             /\ output'[started'] = output[started]
             /\ UNCHANGED <<config, status, input, reading, started>>
             /\ \A type :
                  /\ NoneOf(responses, type) => NoneOf(responses', type) /\ Line.type # type
                  /\ OneOf(responses, type) /\ Line.type = type => NoneOf(responses', type)
  <2>1. /\ pc[t] = label /\ responses # << >> /\ responses' = Tail(responses)
        /\ UNCHANGED <<started, input, output, reading>>
    BY <1>9 DEF Takes
  <2>2. process # NoWorker
    BY <1>1, <2>1 DEF CallsSound
  <2>3. responses \in Seq(Lines)
    BY <1>1 DEF WorkerTyped
  <2> QED BY <1>1, <1>9, <2>1, <2>2, <2>3, Taken DEF LinesSound, Line
<1>10. CASE Boots(t)
  <2>1. /\ Takes(t, "boot") /\ Line.type = "ready" /\ pc[t] = "boot"
        /\ UNCHANGED <<config, process, status>>
    BY <1>10 DEF Boots, Ends, Goes, Takes
  <2>2. /\ input = << >> /\ NoneOf(output[started], "answer") /\ NoneOf(responses, "answer")
    BY <1>9, <2>1, InsideOwns, NothingOwedAtBoot
  <2>3. ~NoneOf(responses, "ready")
    BY <1>9, <2>1
  <2>4. Quiet(output[started])'
    BY <1>9, <2>1, <2>2, <2>3 DEF Quiet, LinesOf, Single
  <2> QED BY <1>9, <2>1, <2>4, QuietIsSound DEF LinesOf
<1>11. CASE TakesFrame(t) \/ TakesTexts(t)
  <2>1. /\ Takes(t, "await") /\ Answers(t) /\ pc[t] = "await"
        /\ UNCHANGED <<config, process, status>>
    BY <1>11 DEF TakesFrame, TakesTexts, Ends, Takes
  <2>2. Line.type = "answer"
    BY <2>1 DEF Answers
  <2>3. ~NoneOf(responses, "answer") /\ ~Inside("boot")
    BY <1>9, <2>1, <2>2, InsideOwns
  <2>4. Quiet(output[started])'
    BY <1>9, <2>1, <2>2, <2>3 DEF Quiet, LinesOf, Single
  <2> QED BY <1>9, <2>1, <2>4, QuietIsSound DEF LinesOf
<1>12. CASE TakesNoAnswer(t)
  <2>1. Takes(t, "await") /\ ~Answers(t) /\ pc[t] = "await" /\ config' = config
    BY <1>12 DEF TakesNoAnswer, Takes, Ends
  <2>2. ASSUME job[t] \in Texts, Line.type # "end", UNCHANGED <<process, status>>
        PROVE  FALSE
    <3>1. config.kind = "vision"
      BY <1>1, <2>1, <2>2 DEF CallsSound
    <3>2. Line.type # "ready" /\ Line.type # "fatal"
      BY <1>9, <2>1, <2>2, <3>1, InsideOwns DEF LinesOf
    <3>3. Line.type = "answer"
      BY <1>9, <2>1, <2>2, <3>2 DEF Lines
    <3>4. Fits(Line)
      <4>1. AllFit(responses) /\ responses # << >> /\ responses \in Seq(Lines)
        BY <1>1, <1>9, <2>1, <2>2 DEF LinesOf, Takes, WorkerTyped
      <4>2. Line = responses[1] /\ 1 \in DOMAIN responses
        BY <4>1, Taken DEF Line
      <4> QED BY <3>3, <4>1, <4>2 DEF AllFit
    <3> QED BY <2>1, <3>3, <3>4 DEF Fits, Answers
  <2>3. process' = NoWorker
    BY <1>12, <2>2 DEF TakesNoAnswer, Stop
  <2> QED BY <1>2, <2>3
<1> QED BY <1>3, <1>4, <1>5, <1>6, <1>7, <1>8, <1>10, <1>11, <1>12 DEF Step, OwnStep

(* A step that leaves the holder of the lock and its call alone.           *)
LEMMA SameCall ==
  ASSUME UNCHANGED <<owner, pc, job, nextId>>
  PROVE  /\ \A label : Inside(label)' <=> Inside(label)
         /\ \A line : Fits(line)' <=> Fits(line)
BY DEF Inside, Fits

(* A line that the worker in use prints.                                   *)
LEMMA PrintedLine ==
  ASSUME IInv, NEW line \in Printed, Prints(line), process # NoWorker,
         UNCHANGED <<config, process, started, owner, pc, job, nextId, responses, reading>>,
         line.type = "answer" =>
           /\ Fits(line) /\ Inside("await")
           /\ NoneOf(output[started], "answer") /\ NoneOf(responses, "answer"),
         input' = << >> \/ (input' = input /\ line.type # "answer"),
         config.kind = "vision" =>
           /\ line.type # "fatal" /\ status' # "booting"
           /\ line.type = "ready" => status = "booting"
  PROVE  LinesSound'
<1> DEFINE out == output[started]
           new == Append(out, line)
<1>1. WorkerTyped /\ Latest /\ LinesOf(out)
  BY DEF IInv, Shape, WorkerTyped, LinesSound
<1>2. started \in Worker /\ out \in Seq(Printed)
  BY <1>1 DEF WorkerTyped, Latest, NoWorker, Worker
<1>3. output'[started'] = new
  BY <1>1, <1>2 DEF Prints, WorkerTyped
<1>4. \A type : /\ NoneOf(out, type) /\ line.type # type => NoneOf(new, type)
                /\ NoneOf(out, type) => OneOf(new, type)
                /\ OneOf(out, type) /\ line.type # type => OneOf(new, type)
  BY <1>2, Added
<1>5. \A k \in DOMAIN new : new[k] = line \/ (k \in DOMAIN out /\ new[k] = out[k])
  BY <1>2, Added
<1>6. /\ \A label : Inside(label)' <=> Inside(label)
      /\ \A l : Fits(l)' <=> Fits(l)
  BY SameCall
<1> HIDE DEF new, out
<1>7. AllFit(output[started])' /\ AllFit(responses)'
  BY <1>1, <1>3, <1>5, <1>6 DEF LinesOf, AllFit
<1>8. Single(new, responses, "answer")
  BY <1>1, <1>4 DEF LinesOf, Single, out
<1>9. /\ Len(input') <= 1
      /\ input' # << >> => /\ NoneOf(new, "answer") /\ NoneOf(responses, "answer")
                           /\ Inside("await")' /\ Asked(input[1])'
  BY <1>1, <1>4, <1>6 DEF LinesOf, Asked, Request
<1>10. ~NoneOf(new, "answer") \/ ~NoneOf(responses, "answer") => Inside("await")'
  BY <1>1, <1>4, <1>6 DEF LinesOf
<1>11. config.kind = "vision" =>
         /\ NoneOf(new, "fatal") /\ NoneOf(responses, "fatal")
         /\ Single(new, responses, "ready")
         /\ ~NoneOf(new, "ready") \/ ~NoneOf(responses, "ready") => Inside("boot")'
  BY <1>1, <1>4, <1>6 DEF LinesOf, Single
<1>12. LinesOf(output[started])'
  BY <1>1, <1>3, <1>7, <1>8, <1>9, <1>10, <1>11 DEF LinesOf
<1> QED BY <1>12 DEF LinesSound

(* What the worker processes do to the lines of the worker in use.         *)
LEMMA LinesByWorkers ==
  ASSUME IInv, WorkerReady \/ WorkerGivesUp \/ WorkerAnswers \/ WorkerDies
  PROVE  LinesSound'
<1>1. WorkerTyped /\ Latest /\ LinesSound
  BY DEF IInv, Shape, WorkerTyped
<1>2. UNCHANGED <<config, process, started, owner, pc, job, nextId, responses, reading>>
  BY DEF WorkerReady, WorkerGivesUp, WorkerAnswers, WorkerDies, threadVars
<1>3. CASE process = NoWorker
  BY <1>2, <1>3 DEF LinesSound
<1>4. CASE process # NoWorker /\ WorkerReady
  BY <1>2, <1>4, PrintedLine, LineTypes DEF WorkerReady, Ready
<1>5. CASE process # NoWorker /\ WorkerGivesUp
  BY <1>2, <1>5, PrintedLine, LineTypes DEF WorkerGivesUp, Fatal
<1>6. CASE process # NoWorker /\ WorkerAnswers
  <2>1. /\ status = "ready" /\ status' = status /\ input # << >> /\ input' = Tail(input)
    BY <1>6 DEF WorkerAnswers
  <2>2. PICK of \in {Head(input).of, Refused} : Prints(Answer(Head(input).id, of))
    BY <1>6 DEF WorkerAnswers
  <2>3. LinesOf(output[started])
    BY <1>1, <1>6 DEF LinesSound
  <2>4. /\ input \in Seq(Requests) /\ Len(input) <= 1 /\ Inside("await")
        /\ Asked(input[1])
        /\ NoneOf(output[started], "answer") /\ NoneOf(responses, "answer")
    BY <1>1, <2>1, <2>3 DEF LinesOf, WorkerTyped
  <2>5. input' = << >> /\ Head(input) = input[1] /\ Head(input) \in Requests
    BY <2>1, <2>4
  <2>6. Answer(Head(input).id, of) \in Printed
    BY <2>2, <2>5, LineTypes DEF Requests
  <2>7. /\ Answer(Head(input).id, of).type = "answer"
        /\ Fits(Answer(Head(input).id, of))
    BY <2>2, <2>4, <2>5 DEF Asked, Request, Answer, Fits
  <2> QED BY <1>2, <1>6, <2>1, <2>2, <2>4, <2>5, <2>6, <2>7, PrintedLine
<1>7. CASE WorkerDies
  BY <1>1, <1>2, <1>7, SameLinesStay DEF WorkerDies
<1> QED BY <1>3, <1>4, <1>5, <1>6, <1>7

(* What the reader of a worker does to the lines of the worker in use.     *)
LEMMA LinesByReaders ==
  ASSUME IInv, NEW w \in Worker, Reads(w) \/ ReaderEnds(w)
  PROVE  LinesSound'
<1> DEFINE out == output[started]
           new == output'[started]
<1>1. WorkerTyped /\ Latest /\ LinesSound
  BY DEF IInv, Shape, WorkerTyped
<1>2. /\ UNCHANGED <<config, process, started, owner, pc, job, nextId, status, input>>
  BY DEF Reads, ReaderEnds, threadVars
<1>3. CASE w # started /\ process # NoWorker
  <2>1. responses' = responses
    BY <1>3 DEF Reads, ReaderEnds, Queued
  <2>2. output'[started] = output[started] /\ reading'[started] = reading[started]
    <3>1. started \in Worker
      BY <1>1, <1>3 DEF WorkerTyped, Latest, NoWorker, Worker
    <3> QED BY <1>1, <1>3, <3>1 DEF Reads, ReaderEnds, WorkerTyped
  <2> QED BY <1>1, <1>2, <2>1, <2>2, SameLinesStay
<1>4. CASE process = NoWorker
  BY <1>2, <1>4 DEF LinesSound
<1>5. /\ \A label : Inside(label)' <=> Inside(label)
      /\ \A l : Fits(l)' <=> Fits(l)
  BY <1>2, SameCall
<1>6. CASE w = started /\ process # NoWorker /\ Reads(w)
  <2>1. /\ out # << >> /\ new = Tail(out) /\ responses' = Append(responses, Head(out))
        /\ reading' = reading /\ LinesOf(out)
        /\ out \in Seq(Printed) /\ out \in Seq(Lines) /\ responses \in Seq(Lines)
    BY <1>1, <1>6 DEF Reads, Queued, WorkerTyped, LinesSound, Printed
  <2> HIDE DEF out, new
  <2>2. \A type : /\ NoneOf(out, type) /\ NoneOf(responses, type) =>
                       NoneOf(new, type) /\ NoneOf(responses', type)
                  /\ Single(out, responses, type) => Single(new, responses', type)
    BY <2>1, Moved
  <2>3. /\ Head(out) \in Printed /\ Head(out) = out[1] /\ 1 \in DOMAIN out
        /\ \A i \in DOMAIN new : i + 1 \in DOMAIN out /\ new[i] = out[i + 1]
    BY <2>1, Taken
  <2>4. /\ \A i \in DOMAIN responses' :
              responses'[i] = Head(out) \/ (i \in DOMAIN responses /\ responses'[i] = responses[i])
        /\ NoneOf(responses, "end") => NoneOf(responses', "end")
    <3>1. Head(out) \in Lines /\ Head(out).type # "end"
      BY <2>3 DEF Printed
    <3> QED BY <2>1, <3>1, Added
  <2>5. AllFit(output[started])' /\ AllFit(responses)'
    BY <1>2, <1>5, <2>1, <2>3, <2>4 DEF LinesOf, AllFit, new
  <2>6. /\ Single(new, responses', "answer")
        /\ input # << >> => /\ NoneOf(new, "answer") /\ NoneOf(responses', "answer")
                            /\ Inside("await")' /\ Asked(input[1])'
        /\ ~NoneOf(new, "answer") \/ ~NoneOf(responses', "answer") => Inside("await")'
    BY <1>2, <1>5, <2>1, <2>2 DEF LinesOf, Asked, Request
  <2>7. config.kind = "vision" =>
          /\ NoneOf(new, "fatal") /\ NoneOf(responses', "fatal")
          /\ Single(new, responses', "ready")
          /\ status = "booting" => NoneOf(new, "ready") /\ NoneOf(responses', "ready")
          /\ (\/ status = "booting"
              \/ ~NoneOf(new, "ready")
              \/ ~NoneOf(responses', "ready")) => Inside("boot")'
    BY <1>5, <2>1, <2>2 DEF LinesOf
  <2>8. LinesOf(output[started])'
    BY <1>2, <2>1, <2>4, <2>5, <2>6, <2>7 DEF LinesOf, new
  <2> QED BY <2>8 DEF LinesSound
<1>7. CASE w = started /\ process # NoWorker /\ ReaderEnds(w)
  <2>1. /\ new = << >> /\ responses' = Append(responses, End) /\ ~reading'[started]
        /\ LinesOf(out) /\ responses \in Seq(Lines)
    BY <1>1, <1>7 DEF ReaderEnds, Queued, WorkerTyped, LinesSound
  <2> HIDE DEF out, new
  <2>2. /\ \A i \in DOMAIN responses' :
              responses'[i] = End \/ (i \in DOMAIN responses /\ responses'[i] = responses[i])
        /\ \A type : /\ NoneOf(responses, type) /\ End.type # type => NoneOf(responses', type)
                     /\ OneOf(responses, type) /\ End.type # type => OneOf(responses', type)
    BY <2>1, LineTypes, Added
  <2>3. End.type = "end"
    BY DEF End
  <2>4. AllFit(output[started])' /\ AllFit(responses)'
    BY <1>2, <1>5, <2>1, <2>2, <2>3 DEF LinesOf, AllFit, new
  <2>5. \A type : NoneOf(new, type) /\ OneOf(new, type)
    BY <2>1, EmptyQueue
  <2>6. ASSUME NEW type \in {"answer", "fatal", "ready"}
        PROVE  /\ NoneOf(responses, type) => NoneOf(responses', type)
               /\ Single(out, responses, type) => Single(new, responses', type)
    BY <2>2, <2>3, <2>5 DEF Single
  <2>7. /\ Single(new, responses', "answer")
        /\ input # << >> => /\ NoneOf(new, "answer") /\ NoneOf(responses', "answer")
                            /\ Inside("await")' /\ Asked(input[1])'
        /\ ~NoneOf(new, "answer") \/ ~NoneOf(responses', "answer") => Inside("await")'
    BY <1>2, <1>5, <2>1, <2>5, <2>6 DEF LinesOf, Asked, Request
  <2>8. config.kind = "vision" =>
          /\ NoneOf(new, "fatal") /\ NoneOf(responses', "fatal")
          /\ Single(new, responses', "ready")
          /\ status = "booting" => NoneOf(new, "ready") /\ NoneOf(responses', "ready")
          /\ (\/ status = "booting"
              \/ ~NoneOf(new, "ready")
              \/ ~NoneOf(responses', "ready")) => Inside("boot")'
    BY <1>5, <2>1, <2>5, <2>6 DEF LinesOf
  <2>9. LinesOf(output[started])'
    BY <1>2, <2>1, <2>4, <2>7, <2>8 DEF LinesOf, new
  <2> QED BY <2>9 DEF LinesSound
<1> QED BY <1>3, <1>4, <1>6, <1>7

(* The rest: a call begins, the redactor is closed, a timer runs out.      *)
LEMMA LinesStep ==
  ASSUME IInv, Next
  PROVE  LinesSound'
<1>1. LinesSound /\ Locked
  BY DEF IInv
<1>2. ASSUME NEW t \in Thread, NEW j \in Job, Begin(t, j)
      PROVE  LinesSound'
  <2>1. /\ pc[t] = "idle" /\ pc' = [pc EXCEPT ![t] = "wants"]
        /\ job' = [job EXCEPT ![t] = j]
        /\ UNCHANGED <<config, owner, process, started, status, input, output, responses,
                       reading, nextId>>
    BY <1>2 DEF Begin, workerVars
  <2>2. owner # t
    BY <1>1, <2>1 DEF Locked
  <2> QED BY <1>1, <2>1, <2>2, SameLinesStay DEF IInv, Shape
<1>3. CASE Close
  BY <1>3 DEF Close, Stop, LinesSound
<1>4. ASSUME NEW i \in Timer, TimerFires(i) \/ Expire(i)
      PROVE  LinesSound'
  <2>1. UNCHANGED <<config, owner, pc, job, started, input, output, responses, reading, nextId>>
    BY <1>4 DEF TimerFires, Expire, threadVars, workerVars
  <2>2. process' = NoWorker \/ UNCHANGED <<process, status>>
    BY <1>4 DEF TimerFires, Expire, workerVars, Stop
  <2>3. CASE process' = NoWorker
    BY <2>3 DEF LinesSound
  <2>4. CASE UNCHANGED <<process, status>>
    BY <1>1, <2>1, <2>4, SameLinesStay
  <2> QED BY <2>2, <2>3, <2>4
<1> QED BY <1>2, <1>3, <1>4, LinesByCalls, LinesByWorkers, LinesByReaders DEF Next

-----------------------------------------------------------------------------
(* The theorems *)

LEMMA Start == Init => IInv
<1> SUFFICES ASSUME Init PROVE IInv
  OBVIOUS
<1>1. /\ config \in Configs /\ owner = Nobody /\ pc = [t \in Thread |-> "idle"]
      /\ job = [t \in Thread |-> Warm] /\ outcome = [t \in Thread |-> Failed]
      /\ frames = << >> /\ texts = << >> /\ process = 0 /\ started = 0 /\ status = "dead"
      /\ input = << >> /\ responses = << >> /\ nextId = 0
      /\ output = [w \in Worker |-> << >>] /\ reading = [w \in Worker |-> FALSE]
  BY ConfigAssumption DEF Init, NoWorker
<1>2. << >> \in Seq(Entries) /\ << >> \in Seq(Requests) /\ << >> \in Seq(Lines)
      /\ << >> \in Seq(Printed) /\ 0 \in 0..MaxWorker
  BY BoundAssumption
<1>3. Shape
  BY <1>1, <1>2 DEF Shape, Job, Outcome
<1>4. Locked
  BY <1>1, ThreadAssumption DEF Locked
<1>5. Latest /\ LinesSound
  BY <1>1 DEF Latest, LinesSound, NoWorker
<1>6. CallsSound
  BY <1>1 DEF CallsSound
<1> QED BY <1>3, <1>4, <1>5, <1>6 DEF IInv

LEMMA Stays == IInv /\ [Next]_vars => IInv'
<1>1. ASSUME IInv, Next PROVE IInv'
  BY <1>1, ControlStays, CachesStay, LinesStep, WorkerTypesByCalls, WorkerTypesByOthers
     DEF IInv, Shape, ControlTyped, WorkerTyped
<1>2. ASSUME IInv, UNCHANGED vars PROVE IInv'
  <2>1. Shape' /\ Locked' /\ Latest' /\ CallsSound'
    BY <1>2 DEF IInv, vars, Shape, Locked, Latest, CallsSound
  <2>2. LinesSound'
    BY <1>2, SameLinesStay DEF IInv, vars
  <2> QED BY <2>1, <2>2 DEF IInv
<1> QED BY <1>1, <1>2

LEMMA Invariant == Spec => []IInv
BY Start, Stays, PTL DEF Spec

(* The state of the redactor keeps its types, whatever the workers print   *)
(* and whenever they die.                                                  *)
THEOREM RedactorTypeCorrect == Spec => []Shape
<1>1. IInv => Shape
  BY DEF IInv
<1> QED BY <1>1, Invariant, PTL

(* The lock of the redactor is held by the one thread inside a call, and a *)
(* worker in use is the latest that was started.                           *)
THEOREM OneCallInside == Spec => [](Locked /\ Latest)
<1>1. IInv => Locked /\ Latest
  BY DEF IInv
<1> QED BY <1>1, Invariant, PTL

(* A call is answered with what was made of its own input, by the worker   *)
(* that it waited for or by one whose answer was cached; no line of a      *)
(* former worker reaches it.                                               *)
THEOREM AnswersAreOwn == Spec => []OwnAnswers
<1>1. IInv => OwnAnswers
  <2> SUFFICES ASSUME IInv PROVE OwnAnswers
    OBVIOUS
  <2>1. AnswersMatch
    <3>1. \A t \in Thread : pc[t] = "leave" => outcome[t] \in {job[t], Failed}
      BY DEF IInv, CallsSound
    <3>2. \A e \in Range(frames) \cup Range(texts) : e \in Entries
      BY DEF IInv, Shape, Range
    <3> QED BY <3>1, <3>2 DEF AnswersMatch, Entries
  <2>2. ASSUME process # NoWorker
        PROVE  /\ \A id \in Owed : id = nextId /\ \E t \in Thread : pc[t] = "await"
               /\ reading[process] => End \notin Range(responses)
    <3>1. process = started /\ LinesOf(output[started]) /\ input \in Seq(Requests)
          /\ responses \in Seq(Lines)
      BY <2>2 DEF IInv, Latest, LinesSound, Shape
    <3>2. ASSUME NEW id \in Owed
          PROVE  id = nextId /\ Inside("await")
      <4>1. CASE id \in {input[i].id : i \in DOMAIN input}
        <5>1. PICK i \in DOMAIN input : id = input[i].id
          BY <4>1
        <5>2. i = 1 /\ input # << >>
          BY <3>1, <5>1 DEF LinesOf
        <5> QED BY <3>1, <5>1, <5>2 DEF LinesOf, Asked, Request
      <4>2. CASE id \in {line.id : line \in {l \in Reported : l.type = "answer"}}
        <5>1. PICK line \in Reported : line.type = "answer" /\ id = line.id
          BY <4>2
        <5>2. \/ \E i \in DOMAIN output[started] : line = output[started][i]
              \/ \E i \in DOMAIN responses : line = responses[i]
          BY <5>1 DEF Reported, Range
        <5> QED BY <3>1, <5>1, <5>2 DEF LinesOf, AllFit, Fits, NoneOf
      <4> QED BY <3>2, <4>1, <4>2 DEF Owed
    <3>3. reading[process] => End \notin Range(responses)
      BY <3>1 DEF LinesOf, NoneOf, End, Range
    <3> QED BY <3>2, <3>3 DEF Inside
  <2> QED BY <2>1, <2>2 DEF OwnAnswers, OwnLines
<1> QED BY <1>1, Invariant, PTL

-----------------------------------------------------------------------------
(* The idle timer *)

(* The current timer was armed after the latest use of the redactor.       *)
TimerInv ==
  /\ timers \in [Timer -> {"off", "ticking", "fired"}]
  /\ timer \in Timer \cup {NoTimer} /\ stale \subseteq Timer
  /\ timer \notin stale

(* Whatever else happens, a timer that has fired is off only after it ran. *)
LEMMA TimerStep ==
  ASSUME TimerInv, Next
  PROVE  /\ TimerInv'
         /\ \A i \in Timer : timers[i] = "fired" /\ timers'[i] = "off" =>
               Expire(i) \/ process' = process
<1> USE BoundAssumption
<1> DEFINE Waits == \A i \in Timer : timers[i] = "fired" => timers'[i] = "fired"
<1>1. NoTimer \notin Timer
  BY DEF NoTimer, Timer
<1>2. CASE UNCHANGED timerVars
  BY <1>2 DEF TimerInv, timerVars
<1>3. /\ Cancelled \in [Timer -> {"off", "ticking", "fired"}]
      /\ \A i \in Timer : timers[i] = "fired" => Cancelled[i] = "fired"
  BY DEF TimerInv, Cancelled
<1>4. ASSUME NEW t \in Thread, Hit(t) \/ Miss(t)
      PROVE  TimerInv' /\ Waits
  <2>1. /\ timer' = NoTimer /\ timers' = Cancelled
        /\ stale' = {i \in Timer : timers[i] = "fired"}
    BY <1>4 DEF Hit, Miss, Enters, Cancel
  <2> QED BY <1>1, <1>3, <2>1 DEF TimerInv
<1>5. CASE Close
  BY <1>1, <1>3, <1>5 DEF Close, Cancel, TimerInv
<1>6. ASSUME NEW t \in Thread, Leave(t), ~UNCHANGED timerVars
      PROVE  TimerInv' /\ Waits
  <2>1. Arm
    BY <1>6 DEF Leave
  <2>2. PICK i \in Timer : /\ Cancelled[i] = "off" /\ timer' = i
                           /\ timers' = [Cancelled EXCEPT ![i] = "ticking"]
                           /\ stale' = stale \ {i}
    BY <2>1 DEF Arm
  <2> QED BY <1>3, <2>2 DEF TimerInv
<1>7. ASSUME NEW i \in Timer, TimerFires(i)
      PROVE  TimerInv' /\ Waits
  BY <1>7 DEF TimerFires, TimerInv
<1>8. ASSUME NEW i \in Timer, Expire(i)
      PROVE  /\ TimerInv'
             /\ \A j \in Timer \ {i} : timers[j] = "fired" => timers'[j] = "fired"
  BY <1>1, <1>8 DEF Expire, TimerInv
<1>9. \/ UNCHANGED timerVars \/ Close
      \/ \E t \in Thread : Hit(t) \/ Miss(t) \/ Leave(t)
      \/ \E i \in Timer : TimerFires(i) \/ Expire(i)
  BY DEF Next, Step, OwnStep, Begin, Ensured, Spawn, SpawnFails, Send, SendFails, TimesOut, Boots,
         BootFails, TakesFrame, TakesTexts, TakesNoImage, TakesNoAnswer, Takes, WorkerReady,
         WorkerGivesUp, WorkerAnswers, WorkerDies, Reads, ReaderEnds
<1>10. Waits \/ UNCHANGED timerVars \/
         \E i \in Timer : Expire(i) /\
            \A j \in Timer \ {i} : timers[j] = "fired" => timers'[j] = "fired"
  BY <1>4, <1>5, <1>6, <1>7, <1>8, <1>9, <1>3 DEF Close, Cancel
<1>11. TimerInv'
  BY <1>2, <1>4, <1>5, <1>6, <1>7, <1>8, <1>9
<1> QED BY <1>10, <1>11 DEF timerVars

(* A timer only ever releases a worker that has been idle since the timer  *)
(* was armed, even if it fired just before a call took the lock.           *)
THEOREM ExpiryOnlyWhenIdle == Spec => ExpiryIsIdle
<1> DEFINE Idle == \A i \in Timer :
                     timers[i] = "fired" /\ timers'[i] = "off" /\ process' # process
                       => i \notin stale
<1>1. Init => TimerInv
  BY DEF Init, TimerInv
<1>2. TimerInv /\ [Next]_vars => TimerInv' /\ [Idle]_vars
  <2> SUFFICES ASSUME TimerInv, [Next]_vars PROVE TimerInv' /\ [Idle]_vars
    OBVIOUS
  <2>1. CASE UNCHANGED vars
    BY <2>1 DEF vars, TimerInv
  <2>2. CASE Next
    <3>1. ASSUME NEW i \in Timer, Expire(i), process' # process
          PROVE  timer = i
      BY <3>1 DEF Expire
    <3> QED BY <2>2, <3>1, TimerStep DEF TimerInv
  <2> QED BY <2>1, <2>2
<1> QED BY <1>1, <1>2, PTL DEF Spec, ExpiryIsIdle
=============================================================================
