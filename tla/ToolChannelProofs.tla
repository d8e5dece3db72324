-------------------------- MODULE ToolChannelProofs -------------------------
(***************************************************************************)
(* Proofs about the tool channel: no verdict undoes a halt, and a result   *)
(* of a tool is in one place at a time, for any number of requests in      *)
(* flight, markers, texts and steps; and about the model on the machine    *)
(* that answers the tools: what it answers is what was asked for, and it   *)
(* fails closed, for any questions and bounds.                             *)
(***************************************************************************)
EXTENDS ToolChannel, LocalModel, FiniteSetTheorems, TLAPS

Result == Id \cup {Notice}

-----------------------------------------------------------------------------
(* The queue *)

(* i occurs at most once in s.                                             *)
Once(s, i) == \A j, k \in DOMAIN s : s[j] = i /\ s[k] = i => j = k

(* The newest elements of a sequence are the end of it.                    *)
LEMMA NewestIsEnd ==
  ASSUME NEW T, NEW s \in Seq(T), NEW n \in Nat \ {0}
  PROVE  /\ Newest(s, n) \in Seq(T) /\ Len(Newest(s, n)) <= n
         /\ \E d \in Nat : \A j \in DOMAIN Newest(s, n) :
               j + d \in DOMAIN s /\ Newest(s, n)[j] = s[j + d]
<1>1. CASE Len(s) <= n
  <2>1. Newest(s, n) = s
    BY <1>1 DEF Newest
  <2>2. \A j \in DOMAIN s : j + 0 \in DOMAIN s /\ s[j] = s[j + 0]
    OBVIOUS
  <2> QED BY <1>1, <2>1, <2>2
<1>2. CASE ~(Len(s) <= n)
  <2> DEFINE d == Len(s) - n
  <2>1. Newest(s, n) = SubSeq(s, d + 1, Len(s))
    BY <1>2 DEF Newest
  <2>2. d \in Nat
    BY <1>2
  <2>3. /\ Newest(s, n) \in Seq(T) /\ Len(Newest(s, n)) = n
        /\ \A j \in 1..n : Newest(s, n)[j] = s[j + d]
    BY <1>2, <2>1, <2>2
  <2>4. \A j \in DOMAIN Newest(s, n) : j + d \in DOMAIN s /\ Newest(s, n)[j] = s[j + d]
    BY <1>2, <2>2, <2>3
  <2> QED BY <2>2, <2>3, <2>4
<1> QED BY <1>1, <1>2

(* Queueing a text keeps the others unique, and itself if it is new.        *)
LEMMA Queueing ==
  ASSUME NEW T, NEW s \in Seq(T), NEW t \in T, NEW n \in Nat \ {0}
  PROVE  LET q == Newest(Append(s, t), n) IN
         /\ q \in Seq(T) /\ Len(q) <= n
         /\ Range(q) \subseteq Range(s) \cup {t}
         /\ \A i : Once(s, i) /\ (i # t \/ i \notin Range(s)) => Once(q, i)
<1> DEFINE a == Append(s, t)
           q == Newest(a, n)
<1>1. /\ a \in Seq(T)
      /\ DOMAIN a = 1..(Len(s) + 1) /\ DOMAIN s = 1..Len(s)
      /\ \A j \in DOMAIN s : a[j] = s[j]
      /\ a[Len(s) + 1] = t
  OBVIOUS
<1>2. q \in Seq(T) /\ Len(q) <= n /\ DOMAIN q \subseteq Nat
  <2>1. q \in Seq(T) /\ Len(q) <= n
    BY <1>1, NewestIsEnd
  <2> QED BY <2>1
<1>3. PICK d \in Nat : \A j \in DOMAIN q : j + d \in DOMAIN a /\ q[j] = a[j + d]
  BY <1>1, NewestIsEnd
<1> HIDE DEF a, q
<1>4. \A j \in DOMAIN a : j \in DOMAIN s \/ j = Len(s) + 1
  BY <1>1
<1>5. Range(q) \subseteq Range(s) \cup {t}
  BY <1>1, <1>3, <1>4 DEF Range
<1>6. ASSUME NEW i, Once(s, i), i # t \/ i \notin Range(s),
             NEW j \in DOMAIN q, NEW k \in DOMAIN q, q[j] = i, q[k] = i
      PROVE  j = k
  <2>1. j + d \in DOMAIN a /\ k + d \in DOMAIN a /\ a[j + d] = i /\ a[k + d] = i
    BY <1>3, <1>6
  <2>2. j + d = k + d
    BY <1>1, <1>4, <1>6, <2>1 DEF Once, Range
  <2> QED BY <1>2, <2>2
<1> QED BY <1>2, <1>5, <1>6 DEF a, q, Once

LEMMA Queued ==
  ASSUME TypeOK, NEW text \in Result, Queue(text)
  PROVE  /\ pending' \in Seq(Result) /\ Len(pending') <= MaxPending
         /\ Range(pending') \subseteq Range(pending) \cup {text}
         /\ \A i : Once(pending, i) /\ (i # text \/ i \notin Range(pending))
                  => Once(pending', i)
<1>1. pending \in Seq(Result) /\ MaxPending \in Nat \ {0}
  BY ChannelAssumption DEF TypeOK, Result
<1>2. pending' = Newest(Append(pending, text), MaxPending)
  BY DEF Queue
<1> HIDE DEF Result
<1> QED BY <1>1, <1>2, Queueing

LEMMA Recorded ==
  ASSUME TypeOK, NEW kind \in Kinds, Record(kind)
  PROVE  events' \in Seq(Event) /\ Len(events') <= MaxEvents
<1> DEFINE event == [step |-> step, kind |-> kind]
<1>1. events \in Seq(Event) /\ MaxEvents \in Nat \ {0} /\ event \in Event
  BY ChannelAssumption DEF TypeOK, Event
<1>2. events' = Newest(Append(events, event), MaxEvents)
  BY DEF Record
<1> HIDE DEF event
<1> QED BY <1>1, <1>2, Queueing

-----------------------------------------------------------------------------
(* Types *)

(* Markers belong to a completion, and are only run while there is one.     *)
LegInv == loop = Nobody => markers = << >> /\ ~running

LEMMA TypesBegin == Init => TypeOK /\ LegInv
<1> SUFFICES ASSUME Init PROVE TypeOK /\ LegInv
  OBVIOUS
<1> USE ChannelAssumption DEF Init
<1>1. pending \in Seq(Id \cup {Notice}) /\ Len(pending) <= MaxPending
  OBVIOUS
<1>2. seen \subseteq Id /\ events \in Seq(Event) /\ Len(events) <= MaxEvents
  OBVIOUS
<1>3. step \in 0..MaxStep /\ lastReview \in {LongAgo} \cup 0..MaxStep
  OBVIOUS
<1>4. /\ stage \in [Request -> Stages] /\ snapshot \in [Request -> 0..MaxStep]
      /\ carried \in [Request -> Seq(Id \cup {Notice})]
  BY DEF Stages
<1>5. halted = FALSE /\ running = FALSE /\ resolved = FALSE
  OBVIOUS
<1>6. loop = Nobody /\ loop \notin Request /\ markers = << >> /\ markers \in Seq(Id)
  OBVIOUS
<1> QED BY <1>1, <1>2, <1>3, <1>4, <1>5, <1>6 DEF TypeOK, LegInv

LEMMA TypesStay == TypeOK /\ LegInv /\ [Next]_vars => TypeOK'
<1> SUFFICES ASSUME TypeOK, LegInv, [Next]_vars PROVE TypeOK'
  OBVIOUS
<1> USE ChannelAssumption
<1>1. ASSUME NEW r \in Request, Start(r) PROVE TypeOK'
  BY <1>1 DEF Start, TypeOK, Stages, channel, leg
<1>2. ASSUME NEW r \in Request, BeginReview(r) PROVE TypeOK'
  BY <1>2 DEF BeginReview, TypeOK, Stages, leg
<1>3. ASSUME NEW r \in Request, NEW action, EndReview(r, action) PROVE TypeOK'
  <2>1. pending' \in Seq(Id \cup {Notice}) /\ Len(pending') <= MaxPending
    <3>1. CASE Queue(Notice)
      BY <3>1, Queued DEF Result
    <3>2. CASE UNCHANGED pending
      BY <3>2 DEF TypeOK
    <3> QED BY <1>3, <3>1, <3>2 DEF EndReview
  <2> QED BY <1>3, <2>1 DEF EndReview, TypeOK, Stages, leg
<1>4. ASSUME NEW r \in Request,
             ReviewRaises(r) \/ Check(r) \/ HookFails(r) \/ Discard(r)
      PROVE  TypeOK'
  <2>1. stage' \in [Request -> Stages] /\ (loop \in Request => stage'[loop] = "answered")
    BY <1>4 DEF ReviewRaises, Check, HookFails, Discard, TypeOK, Stages
  <2>2. UNCHANGED <<channel, snapshot, carried, leg>>
    BY <1>4 DEF ReviewRaises, Check, HookFails, Discard
  <2> QED BY <2>1, <2>2 DEF TypeOK, channel, leg
<1>5. ASSUME NEW r \in Request, NEW observation, Forward(r, observation) PROVE TypeOK'
  <2>1. stage' \in [Request -> Stages] /\ (loop \in Request => stage'[loop] = "answered")
    BY <1>5 DEF Forward, TypeOK, Stages
  <2>2. /\ pending' \in Seq(Id \cup {Notice}) /\ Len(pending') <= MaxPending
        /\ carried' \in [Request -> Seq(Id \cup {Notice})]
    <3>1. CASE observation
      <4>1. carried' = [carried EXCEPT ![r] = pending] /\ pending' = << >>
        BY <1>5, <3>1 DEF Forward
      <4>2. pending' \in Seq(Id \cup {Notice}) /\ Len(pending') <= MaxPending
        BY <4>1
      <4> QED BY <4>1, <4>2 DEF TypeOK
    <3>2. CASE ~observation
      BY <1>5, <3>2 DEF Forward, TypeOK
    <3> QED BY <3>1, <3>2
  <2>3. UNCHANGED <<seen, events, step, lastReview, halted, snapshot, leg>>
    BY <1>5 DEF Forward
  <2> QED BY <2>1, <2>2, <2>3 DEF TypeOK, leg
<1>6. ASSUME NEW r \in Request, UpstreamFails(r) \/ UpstreamAnswers(r) PROVE TypeOK'
  <2>1. stage' \in [Request -> Stages] /\ (loop \in Request => stage'[loop] = "answered")
    BY <1>6 DEF UpstreamFails, UpstreamAnswers, TypeOK, Stages
  <2>2. carried' \in [Request -> Seq(Id \cup {Notice})]
    <3>1. carried' = [carried EXCEPT ![r] = << >>]
      BY <1>6 DEF UpstreamFails, UpstreamAnswers
    <3> QED BY <3>1 DEF TypeOK
  <2>3. UNCHANGED <<channel, snapshot, leg>>
    BY <1>6 DEF UpstreamFails, UpstreamAnswers
  <2> QED BY <2>1, <2>2, <2>3 DEF TypeOK, channel, leg
<1>7. ASSUME NEW r \in Request, NEW found \in Markers, Respond(r, found) PROVE TypeOK'
  <2> DEFINE n == IF Len(found) < MaxMarkers THEN Len(found) ELSE MaxMarkers
  <2>1. found \in Seq(Id) /\ n \in Nat /\ n <= Len(found)
    OBVIOUS
  <2>2. markers' = SubSeq(found, 1, n)
    BY <1>7 DEF Respond
  <2> HIDE DEF n
  <2>3. markers' \in Seq(Id)
    BY <2>1, <2>2
  <2>4. ~running
    BY <1>7 DEF Respond, LegInv
  <2>5. step' \in 0..MaxStep
    BY <1>7 DEF Respond, TypeOK
  <2> QED BY <1>7, <2>3, <2>4, <2>5 DEF Respond, TypeOK
<1>8. ASSUME RepeatedMarker \/ ClaimMarker PROVE TypeOK'
  <2>1. Head(markers) \in Id /\ Tail(markers) \in Seq(Id)
    BY <1>8 DEF RepeatedMarker, ClaimMarker, TypeOK
  <2>2. CASE RepeatedMarker
    BY <2>1, <2>2 DEF RepeatedMarker, TypeOK, channel
  <2>3. CASE ClaimMarker
    BY <2>1, <2>3 DEF ClaimMarker, TypeOK
  <2> QED BY <1>8, <2>2, <2>3
<1>9. ASSUME AnswerMarker PROVE TypeOK'
  <2>1. Head(markers) \in Id /\ Tail(markers) \in Seq(Id)
    BY <1>9 DEF AnswerMarker, TypeOK
  <2>2. pending' \in Seq(Id \cup {Notice}) /\ Len(pending') <= MaxPending
    BY <1>9, <2>1, Queued DEF AnswerMarker, Result
  <2>3. events' \in Seq(Event) /\ Len(events') <= MaxEvents
    BY <1>9, Recorded DEF AnswerMarker, Kinds
  <2>4. running' = FALSE /\ markers' \in Seq(Id)
    BY <1>9, <2>1 DEF AnswerMarker
  <2>5. UNCHANGED <<seen, step, lastReview, halted, stage, snapshot, carried, loop, resolved>>
    BY <1>9 DEF AnswerMarker
  <2> QED BY <2>2, <2>3, <2>4, <2>5 DEF TypeOK
<1>10. ASSUME NEW kind \in {"approval_granted", "approval_denied"}, NEW steering \in BOOLEAN,
              Verdict(kind, steering)
       PROVE  TypeOK'
  <2>1. pending' \in Seq(Id \cup {Notice}) /\ Len(pending') <= MaxPending
    <3>1. CASE Queue(Notice)
      BY <3>1, Queued DEF Result
    <3>2. CASE UNCHANGED pending
      BY <3>2 DEF TypeOK
    <3> QED BY <1>10, <3>1, <3>2 DEF Verdict
  <2>2. events' \in Seq(Event) /\ Len(events') <= MaxEvents
    BY <1>10, Recorded DEF Verdict, Kinds
  <2> QED BY <1>10, <2>1, <2>2 DEF Verdict, TypeOK, leg
<1>11. ASSUME ResolveCall PROVE TypeOK'
  BY <1>11 DEF ResolveCall, TypeOK, channel
<1>12. ASSUME DenyCall PROVE TypeOK'
  <2>1. events' \in Seq(Event) /\ Len(events') <= MaxEvents
    BY <1>12, Recorded DEF DenyCall, Kinds
  <2> QED BY <1>12, <2>1 DEF DenyCall, Finish, TypeOK, Stages
<1>13. ASSUME Fail \/ Return PROVE TypeOK'
  <2>1. Finish /\ UNCHANGED <<events, pending>>
    BY <1>13 DEF Fail, Return
  <2> QED BY <2>1 DEF Finish, TypeOK, Stages
<1>14. ASSUME DirectOperation PROVE TypeOK'
  <2>1. pending' \in Seq(Id \cup {Notice}) /\ Len(pending') <= MaxPending
    BY <1>14, Queued DEF DirectOperation, Result
  <2>2. events' \in Seq(Event) /\ Len(events') <= MaxEvents
    BY <1>14, Recorded DEF DirectOperation, Kinds
  <2> QED BY <1>14, <2>1, <2>2 DEF DirectOperation, TypeOK, leg
<1>15. CASE UNCHANGED vars
  BY <1>15 DEF vars, TypeOK
<1> QED
  BY <1>1, <1>2, <1>3, <1>4, <1>5, <1>6, <1>7, <1>8, <1>9, <1>10, <1>11, <1>12, <1>13,
     <1>14, <1>15 DEF Next

LEMMA LegStays == TypeOK /\ LegInv /\ [Next]_vars => LegInv'
<1> SUFFICES ASSUME TypeOK, LegInv, [Next]_vars PROVE LegInv'
  OBVIOUS
<1> USE ChannelAssumption DEF LegInv
<1>1. ASSUME NEW r \in Request, NEW found, Respond(r, found) PROVE LegInv'
  BY <1>1 DEF Respond
<1>2. ASSUME RepeatedMarker \/ ClaimMarker \/ AnswerMarker PROVE LegInv'
  BY <1>2 DEF RepeatedMarker, ClaimMarker, AnswerMarker, TypeOK
<1>3. ASSUME DenyCall \/ Fail \/ Return PROVE LegInv'
  BY <1>3 DEF DenyCall, Fail, Return, Finish, TypeOK
<1>4. ASSUME UNCHANGED <<loop, markers, running>> PROVE LegInv'
  BY <1>4
<1>5. CASE \E r \in Request :
              \/ Start(r) \/ BeginReview(r) \/ ReviewRaises(r) \/ Check(r) \/ HookFails(r)
              \/ \E action \in {"continue", "warn", "halt"} : EndReview(r, action)
              \/ \E observation \in BOOLEAN : Forward(r, observation)
              \/ UpstreamFails(r) \/ UpstreamAnswers(r) \/ Discard(r)
  BY <1>4, <1>5 DEF Start, BeginReview, ReviewRaises, Check, HookFails, EndReview, Forward,
                    UpstreamFails, UpstreamAnswers, Discard, leg
<1>6. CASE \/ \E kind \in {"approval_granted", "approval_denied"}, steering \in BOOLEAN :
                 Verdict(kind, steering)
           \/ ResolveCall \/ DirectOperation
  BY <1>4, <1>6 DEF Verdict, ResolveCall, DirectOperation, leg
<1>7. CASE UNCHANGED vars
  BY <1>4, <1>7 DEF vars
<1> QED BY <1>1, <1>2, <1>3, <1>5, <1>6, <1>7 DEF Next

(* The types and sizes of the channel's state, for any limits: queue and    *)
(* trace never outgrow theirs.                                             *)
THEOREM ChannelTypeCorrect == Spec => [](TypeOK /\ LegInv)
BY TypesBegin, TypesStay, LegStays, PTL DEF Spec

-----------------------------------------------------------------------------
(* Halts *)

HaltInv == HaltIsFinal /\ (lateStart # {} => halted) /\ lateStart \subseteq Request

LEMMA HaltsStay == TypeOK /\ HaltInv /\ [Next]_vars => HaltInv'
<1> SUFFICES ASSUME TypeOK, HaltInv, [Next]_vars PROVE HaltInv'
  OBVIOUS
<1> USE DEF HaltInv, HaltIsFinal
<1>1. ASSUME NEW r \in Request, Start(r) PROVE HaltInv'
  BY <1>1 DEF Start, TypeOK, channel, leg
<1>2. ASSUME NEW r \in Request, BeginReview(r) PROVE HaltInv'
  BY <1>2 DEF BeginReview, TypeOK
<1>3. ASSUME NEW r \in Request, NEW action, EndReview(r, action) PROVE HaltInv'
  BY <1>3 DEF EndReview, TypeOK, history
<1>4. ASSUME NEW r \in Request,
             ReviewRaises(r) \/ Check(r) \/ HookFails(r) \/ Discard(r)
      PROVE  HaltInv'
  <2>1. UNCHANGED <<halted, lateStart>>
    BY <1>4 DEF ReviewRaises, Check, HookFails, Discard, channel, history
  <2>2. stage' = [stage EXCEPT ![r] = "idle"] \/ (stage' = [stage EXCEPT ![r] = "passed"] /\ ~halted)
    BY <1>4 DEF ReviewRaises, Check, HookFails, Discard
  <2> QED BY <2>1, <2>2 DEF TypeOK
<1>5. ASSUME NEW r \in Request, NEW observation, Forward(r, observation) PROVE HaltInv'
  BY <1>5 DEF Forward, TypeOK, history
<1>6. ASSUME NEW r \in Request, UpstreamFails(r) \/ UpstreamAnswers(r) PROVE HaltInv'
  <2>1. UNCHANGED <<halted, lateStart>> /\ stage[r] = "sent"
    BY <1>6 DEF UpstreamFails, UpstreamAnswers, channel, history
  <2>2. \A q \in Request : q # r => stage'[q] = stage[q]
    BY <1>6 DEF UpstreamFails, UpstreamAnswers, TypeOK
  <2> QED BY <2>1, <2>2
<1>7. ASSUME NEW r \in Request, NEW found \in Markers, Respond(r, found) PROVE HaltInv'
  BY <1>7 DEF Respond
<1>8. ASSUME RepeatedMarker \/ ClaimMarker \/ AnswerMarker PROVE HaltInv'
  BY <1>8 DEF RepeatedMarker, ClaimMarker, AnswerMarker, channel, history
<1>9. ASSUME NEW kind, NEW steering, Verdict(kind, steering) PROVE HaltInv'
  BY <1>9 DEF Verdict, history
<1>10. ASSUME ResolveCall PROVE HaltInv'
  BY <1>10 DEF ResolveCall, channel, history
<1>11. ASSUME DenyCall \/ Fail \/ Return PROVE HaltInv'
  <2>1. UNCHANGED <<halted, lateStart>> /\ stage' = [stage EXCEPT ![loop] = "idle"]
    BY <1>11 DEF DenyCall, Fail, Return, Finish, history
  <2> QED BY <2>1 DEF TypeOK
<1>12. ASSUME DirectOperation PROVE HaltInv'
  BY <1>12 DEF DirectOperation, history
<1>13. CASE UNCHANGED vars
  BY <1>13 DEF vars
<1> QED
  BY <1>1, <1>2, <1>3, <1>4, <1>5, <1>6, <1>7, <1>8, <1>9, <1>10, <1>11, <1>12, <1>13
  DEF Next

(* A request that starts on a halted channel is never forwarded, however    *)
(* many reviews and requests are under way.                                *)
THEOREM HaltsAreFinal == Spec => []HaltIsFinal
<1>1. Init => HaltInv
  BY DEF Init, HaltInv, HaltIsFinal
<1>2. HaltInv => HaltIsFinal
  BY DEF HaltInv
<1> QED BY <1>1, <1>2, HaltsStay, ChannelTypeCorrect, PTL DEF Spec

-----------------------------------------------------------------------------
(* Results *)

Nowhere(i) ==
  /\ i \notin Range(pending) /\ i \notin delivered
  /\ \A r \in Request : i \notin Range(carried[r])

(* The queue, the requests under way and the model: one of them at a time.  *)
OnePlace(i) ==
  /\ Once(pending, i)
  /\ \A r, q \in Request : i \in Range(carried[r]) /\ i \in Range(carried[q]) => r = q
  /\ i \in Range(pending) => \A r \in Request : i \notin Range(carried[r])
  /\ i \in delivered => i \notin Range(pending) /\ \A r \in Request : i \notin Range(carried[r])

(* Only a request that was sent carries texts; a marker that is run has     *)
(* been claimed; its result, or one nobody asked for, is nowhere.          *)
ResultInv ==
  /\ \A r \in Request : stage[r] # "sent" => carried[r] = << >>
  /\ running => Head(markers) \in seen
  /\ \A i \in Id : OnePlace(i)
  /\ \A i \in Id : i \notin seen \/ (running /\ i = Head(markers)) => Nowhere(i)

(* A text of another kind changes nothing for the results.                 *)
LEMMA NoticeQueued ==
  ASSUME TypeOK, ResultInv, Queue(Notice) \/ UNCHANGED pending,
         UNCHANGED <<seen, carried, delivered, running, markers>>,
         \A r \in Request : stage'[r] # "sent" => stage[r] # "sent"
  PROVE  ResultInv'
<1>1. \A i \in Id : /\ Once(pending, i) => Once(pending', i)
                    /\ i \in Range(pending') => i \in Range(pending)
  <2>1. CASE Queue(Notice)
    BY <2>1, Queued, ChannelAssumption DEF Result
  <2>2. CASE UNCHANGED pending
    BY <2>2
  <2> QED BY <2>1, <2>2
<1>2. \A i \in Id : OnePlace(i)'
  BY <1>1 DEF ResultInv, OnePlace
<1>3. \A i \in Id : i \notin seen \/ (running /\ i = Head(markers)) => Nowhere(i)'
  BY <1>1 DEF ResultInv, Nowhere
<1> QED BY <1>2, <1>3 DEF ResultInv

LEMMA ResultsBegin == Init => ResultInv
<1> SUFFICES ASSUME Init PROVE ResultInv
  OBVIOUS
<1>1. /\ pending = << >> /\ delivered = {} /\ running = FALSE /\ Range(<< >>) = {}
      /\ \A r \in Request : carried[r] = << >>
  BY DEF Init, Range
<1>2. \A i : Once(<< >>, i)
  BY DEF Once
<1> QED BY <1>1, <1>2 DEF ResultInv, OnePlace, Nowhere

LEMMA ResultsStay == TypeOK /\ LegInv /\ ResultInv /\ [Next]_vars => ResultInv'
<1> SUFFICES ASSUME TypeOK, LegInv, ResultInv, [Next]_vars PROVE ResultInv'
  OBVIOUS
<1> USE ChannelAssumption
<1>0. Range(<< >>) = {} /\ \A i : Once(<< >>, i)
  BY DEF Range, Once
<1>1. ASSUME NEW r \in Request, Start(r) PROVE ResultInv'
  <2>1. \A q \in Request : stage'[q] # "sent" => stage[q] # "sent"
    BY <1>1 DEF Start, TypeOK
  <2> QED BY <1>1, <2>1, NoticeQueued DEF Start, channel, leg
<1>2. ASSUME NEW r \in Request, BeginReview(r) PROVE ResultInv'
  <2>1. \A q \in Request : stage'[q] # "sent" => stage[q] # "sent"
    BY <1>2 DEF BeginReview, TypeOK
  <2> QED BY <1>2, <2>1, NoticeQueued DEF BeginReview, leg
<1>3. ASSUME NEW r \in Request, NEW action, EndReview(r, action) PROVE ResultInv'
  <2>1. \A q \in Request : stage'[q] # "sent" => stage[q] # "sent"
    BY <1>3 DEF EndReview, TypeOK
  <2> QED BY <1>3, <2>1, NoticeQueued DEF EndReview, leg, history
<1>4. ASSUME NEW r \in Request,
             ReviewRaises(r) \/ Check(r) \/ HookFails(r) \/ Discard(r)
      PROVE  ResultInv'
  <2>1. \A q \in Request : stage'[q] # "sent" => stage[q] # "sent"
    BY <1>4 DEF ReviewRaises, Check, HookFails, Discard, TypeOK
  <2>2. UNCHANGED <<channel, carried, leg, history>>
    BY <1>4 DEF ReviewRaises, Check, HookFails, Discard
  <2> QED BY <2>1, <2>2, NoticeQueued DEF channel, leg, history
<1>5. ASSUME NEW r \in Request, NEW observation, Forward(r, observation) PROVE ResultInv'
  <2>1. /\ UNCHANGED <<seen, delivered, running, markers>>
        /\ carried[r] = << >> /\ stage'[r] = "sent"
        /\ \A q \in Request : q # r => stage'[q] = stage[q]
    BY <1>5 DEF Forward, TypeOK, ResultInv, leg, history
  <2>2. CASE ~observation
    <3>1. UNCHANGED <<pending, carried>>
      BY <1>5, <2>2 DEF Forward
    <3> QED BY <2>1, <3>1, NoticeQueued
  <2>3. CASE observation
    <3>1. /\ pending' = << >> /\ carried'[r] = pending
          /\ \A q \in Request : q # r => carried'[q] = carried[q]
      BY <1>5, <2>3 DEF Forward, TypeOK
    <3>2. \A q \in Request : stage'[q] # "sent" => carried'[q] = << >>
      BY <2>1, <3>1 DEF ResultInv
    <3>3. ASSUME NEW i \in Id PROVE OnePlace(i)'
      BY <1>0, <2>1, <3>1 DEF ResultInv, OnePlace
    <3>4. ASSUME NEW i \in Id, Nowhere(i) PROVE Nowhere(i)'
      BY <1>0, <2>1, <3>1, <3>4 DEF Nowhere
    <3> QED BY <2>1, <3>2, <3>3, <3>4 DEF ResultInv
  <2> QED BY <2>2, <2>3
<1>6. ASSUME NEW r \in Request, UpstreamFails(r) \/ UpstreamAnswers(r) PROVE ResultInv'
  <2>1. /\ UNCHANGED <<pending, seen, running, markers>>
        /\ carried'[r] = << >>
        /\ \A q \in Request : q # r => carried'[q] = carried[q] /\ stage'[q] = stage[q]
    BY <1>6 DEF UpstreamFails, UpstreamAnswers, TypeOK, channel, leg
  <2>2. \A q \in Request : stage'[q] # "sent" => carried'[q] = << >>
    BY <2>1 DEF ResultInv
  <2>3. /\ delivered \subseteq delivered'
        /\ \A i \in delivered' : i \in delivered \/ i \in Range(carried[r])
    BY <1>6 DEF UpstreamFails, UpstreamAnswers, history
  <2>4. ASSUME NEW i \in Id PROVE OnePlace(i)'
    BY <1>0, <2>1, <2>3 DEF ResultInv, OnePlace
  <2>5. ASSUME NEW i \in Id, Nowhere(i) PROVE Nowhere(i)'
    BY <1>0, <2>1, <2>3, <2>5 DEF Nowhere
  <2> QED BY <2>1, <2>2, <2>4, <2>5 DEF ResultInv
<1>7. ASSUME NEW r \in Request, NEW found, Respond(r, found) PROVE ResultInv'
  <2>1. ~running /\ UNCHANGED <<pending, seen, stage, carried, running, delivered>>
    BY <1>7 DEF Respond, LegInv
  <2> QED BY <2>1 DEF ResultInv, OnePlace, Nowhere
<1>8. ASSUME RepeatedMarker PROVE ResultInv'
  <2>1. ~running /\ UNCHANGED <<pending, seen, stage, carried, running, delivered>>
    BY <1>8 DEF RepeatedMarker, channel, history
  <2> QED BY <2>1 DEF ResultInv, OnePlace, Nowhere
<1>9. ASSUME ClaimMarker PROVE ResultInv'
  <2>1. /\ Head(markers) \in Id /\ Head(markers) \notin seen
        /\ seen' = seen \cup {Head(markers)}
        /\ UNCHANGED <<pending, stage, carried, delivered, markers>>
    BY <1>9 DEF ClaimMarker, TypeOK, history
  <2> QED BY <2>1 DEF ResultInv, OnePlace, Nowhere
<1>10. ASSUME AnswerMarker PROVE ResultInv'
  <2> DEFINE m == Head(markers)
  <2>1. /\ m \in Id /\ m \in seen /\ Nowhere(m)
        /\ running' = FALSE
        /\ UNCHANGED <<seen, stage, carried, delivered>>
    BY <1>10 DEF AnswerMarker, TypeOK, ResultInv, history
  <2>2. /\ Range(pending') \subseteq Range(pending) \cup {m}
        /\ \A i \in Id : Once(pending, i) => Once(pending', i)
    BY <1>10, <2>1, Queued DEF AnswerMarker, Result, Nowhere
  <2> HIDE DEF m
  <2>3. ASSUME NEW i \in Id PROVE OnePlace(i)'
    BY <2>1, <2>2 DEF ResultInv, OnePlace, Nowhere
  <2>4. ASSUME NEW i \in Id, i \notin seen PROVE Nowhere(i)'
    BY <2>1, <2>2, <2>4 DEF ResultInv, Nowhere
  <2> QED BY <2>1, <2>3, <2>4 DEF ResultInv
<1>11. ASSUME NEW kind, NEW steering, Verdict(kind, steering) PROVE ResultInv'
  BY <1>11, NoticeQueued DEF Verdict, leg, history
<1>12. ASSUME ResolveCall PROVE ResultInv'
  BY <1>12, NoticeQueued DEF ResolveCall, channel, history
<1>13. ASSUME DenyCall \/ Fail \/ Return PROVE ResultInv'
  <2>1. /\ UNCHANGED <<pending, seen, carried, delivered, running, markers>>
        /\ stage' = [stage EXCEPT ![loop] = "idle"] /\ loop \in Request
    BY <1>13 DEF DenyCall, Fail, Return, Finish, history, TypeOK
  <2>2. stage[loop] = "answered"
    BY <2>1 DEF TypeOK
  <2>3. \A q \in Request : stage'[q] # "sent" => stage[q] # "sent"
    BY <2>1, <2>2 DEF TypeOK
  <2> QED BY <2>1, <2>3, NoticeQueued
<1>14. ASSUME DirectOperation PROVE ResultInv'
  BY <1>14, NoticeQueued DEF DirectOperation, leg, history
<1>15. CASE UNCHANGED vars
  BY <1>15, NoticeQueued DEF vars
<1> QED
  BY <1>1, <1>2, <1>3, <1>4, <1>5, <1>6, <1>7, <1>8, <1>9, <1>10, <1>11, <1>12, <1>13,
     <1>14, <1>15 DEF Next

(* Counting the places.                                                    *)
LEMMA AtMostOne ==
  ASSUME NEW S, \A x, y \in S : x = y
  PROVE  /\ Cardinality(S) \in {0, 1}
         /\ S = {} => Cardinality(S) = 0
<1>1. CASE S = {}
  BY <1>1, FS_EmptySet
<1>2. CASE S # {}
  <2>1. PICK x : S = {x}
    BY <1>2
  <2> QED BY <2>1, FS_Singleton
<1> QED BY <1>1, <1>2

LEMMA PlacesCount == TypeOK /\ ResultInv => ResultsNotDuplicated
<1> SUFFICES ASSUME TypeOK, ResultInv, NEW i \in Id
             PROVE  /\ Cardinality(Copies(pending, i))
                          + Cardinality({r \in Request : Copies(carried[r], i) # {}})
                          + (IF i \in delivered THEN 1 ELSE 0) <= 1
                    /\ i \notin seen => Copies(pending, i) = {}
  BY DEF ResultsNotDuplicated
<1> DEFINE queue == Copies(pending, i)
           riders == {r \in Request : Copies(carried[r], i) # {}}
<1>1. \A s : Copies(s, i) # {} <=> i \in Range(s)
  BY DEF Copies, Range
<1>2. OnePlace(i) /\ (i \notin seen => Nowhere(i))
  BY DEF ResultInv
<1>3. \A x, y \in queue : x = y
  BY <1>2 DEF OnePlace, Once, Copies
<1>4. \A x, y \in riders : x = y
  BY <1>1, <1>2 DEF OnePlace
<1>5. queue # {} => riders = {}
  BY <1>1, <1>2 DEF OnePlace
<1>6. i \in delivered => queue = {} /\ riders = {}
  BY <1>1, <1>2 DEF OnePlace
<1>7. i \notin seen => queue = {}
  BY <1>1, <1>2 DEF Nowhere
<1>8. /\ Cardinality(queue) \in {0, 1} /\ Cardinality(riders) \in {0, 1}
      /\ queue = {} => Cardinality(queue) = 0
      /\ riders = {} => Cardinality(riders) = 0
  BY <1>3, <1>4, AtMostOne
<1> HIDE DEF queue, riders
<1>9. Cardinality(queue) + Cardinality(riders) + (IF i \in delivered THEN 1 ELSE 0) <= 1
  BY <1>5, <1>6, <1>8
<1> QED BY <1>7, <1>9 DEF queue, riders

(* A tool's result reaches the model at most once, for any number of        *)
(* requests that overlap, fail or are sent again.                          *)
THEOREM ResultsOnce == Spec => []ResultsNotDuplicated
BY ResultsBegin, ResultsStay, PlacesCount, ChannelTypeCorrect, PTL DEF Spec

-----------------------------------------------------------------------------
(* The model on the machine.  The tokens of an operation can be sorted:    *)
(* each has the place after those that come before it.                     *)

LEMMA BeforeIsOrder ==
  ASSUME NEW S \in SUBSET Nat, \A t \in S : ValueOf[t] \in Nat
  PROVE  /\ \A a \in S : ~Before(a, a)
         /\ \A a, b \in S : a # b => Before(a, b) \/ Before(b, a)
         /\ \A a, b, c \in S : Before(a, b) /\ Before(b, c) => Before(a, c)
BY DEF Before

LEMMA Enumerated ==
  ASSUME NEW S, NEW s \in Seq(S), IsInjective(s)
  PROVE  IsFiniteSet(Range(s)) /\ Cardinality(Range(s)) = Len(s)
<1>1. s \in [1..Len(s) -> Range(s)] /\ Len(s) \in Nat
  BY DEF Range
<1>2. s \in Bijection(1..Len(s), Range(s))
  BY <1>1 DEF Bijection, Injection, Surjection, IsInjective, Range
<1>3. ExistsBijection(1..Len(s), Range(s))
  BY <1>2 DEF ExistsBijection
<1>4. IsFiniteSet(1..Len(s)) /\ Cardinality(1..Len(s)) = Len(s)
  <2>1. \A n \in Nat : IsFiniteSet(1..n) /\ Cardinality(1..n) = n
    BY FS_Interval
  <2>2. QED
    BY <1>1, <2>1
<1>5. QED
  BY <1>3, <1>4, FS_Bijection

LEMMA Ranked ==
  ASSUME NEW S \in SUBSET Nat, IsFiniteSet(S), \A t \in S : ValueOf[t] \in Nat,
         NEW rank, rank = [t \in S |-> 1 + Cardinality({x \in S : Before(x, t)})]
  PROVE  /\ rank \in [S -> 1..Cardinality(S)]
         /\ \A a, b \in S : Before(a, b) => rank[a] < rank[b]
         /\ \A i \in 1..Cardinality(S) : \E t \in S : rank[t] = i
<1> DEFINE Below(t) == {x \in S : Before(x, t)}
<1>1. ASSUME NEW t \in S
      PROVE  /\ IsFiniteSet(Below(t)) /\ Cardinality(Below(t)) \in Nat
             /\ Cardinality(Below(t)) < Cardinality(S)
  <2>1. Below(t) \subseteq S /\ t \notin Below(t)
    BY BeforeIsOrder
  <2>2. Below(t) # S
    BY <2>1
  <2> HIDE DEF Below
  <2>3. IsFiniteSet(Below(t)) /\ Cardinality(Below(t)) <= Cardinality(S)
        /\ (Cardinality(Below(t)) = Cardinality(S) => Below(t) = S)
    BY <2>1, FS_Subset
  <2>4. Cardinality(Below(t)) \in Nat /\ Cardinality(S) \in Nat
    BY <2>3, FS_CardinalityType
  <2>5. QED
    BY <2>2, <2>3, <2>4
<1>2. ASSUME NEW t \in S PROVE rank[t] = 1 + Cardinality(Below(t))
  OBVIOUS
<1>3. ASSUME NEW a \in S, NEW b \in S, Before(a, b)
      PROVE  Cardinality(Below(a)) < Cardinality(Below(b))
  <2>1. Below(a) \subseteq Below(b) /\ a \in Below(b) /\ a \notin Below(a)
    BY <1>3, BeforeIsOrder
  <2>2. Below(a) # Below(b)
    BY <2>1
  <2> HIDE DEF Below
  <2>3. Cardinality(Below(a)) <= Cardinality(Below(b))
        /\ (Cardinality(Below(a)) = Cardinality(Below(b)) => Below(a) = Below(b))
    BY <1>1, <2>1, FS_Subset
  <2>4. Cardinality(Below(a)) \in Nat /\ Cardinality(Below(b)) \in Nat
    BY <1>1
  <2>5. QED
    BY <2>2, <2>3, <2>4
<1> HIDE DEF Below
<1>4. Cardinality(S) \in Nat
  BY FS_CardinalityType
<1>5. ASSUME NEW t \in S PROVE rank[t] \in 1..Cardinality(S)
  BY <1>1, <1>2, <1>4
<1>6. rank \in [S -> 1..Cardinality(S)]
  BY <1>5
<1>7. \A a, b \in S : Before(a, b) => rank[a] < rank[b]
  BY <1>1, <1>2, <1>3
<1>8. ASSUME NEW a \in S, NEW b \in S, rank[a] = rank[b] PROVE a = b
  <2>1. rank[a] \in Nat /\ ~(rank[a] < rank[b]) /\ ~(rank[b] < rank[a])
    BY <1>4, <1>5, <1>8
  <2>2. QED
    BY <1>7, <2>1, BeforeIsOrder
<1>9. rank \in Injection(S, 1..Cardinality(S))
  BY <1>6, <1>8 DEF Injection, IsInjective
<1>10. IsFiniteSet(1..Cardinality(S)) /\ Cardinality(1..Cardinality(S)) = Cardinality(S)
  BY <1>4, FS_Interval
<1>11. rank \in Surjection(S, 1..Cardinality(S))
  BY <1>9, <1>10, FS_Injection
<1>12. \A i \in 1..Cardinality(S) : \E t \in S : rank[t] = i
  BY <1>11 DEF Surjection
<1>13. QED
  BY <1>6, <1>7, <1>12

LEMMA SortedSorts ==
  ASSUME NEW q, q.tokens \in Seq(Token), IsInjective(q.tokens), Resolved(q)
  PROVE  /\ Sorted(q) \in [DOMAIN q.tokens -> Range(q.tokens)]
         /\ \A i, j \in DOMAIN q.tokens : i < j => Before(Sorted(q)[i], Sorted(q)[j])
<1> DEFINE S == Range(q.tokens)
           n == Len(q.tokens)
           rank == [t \in S |-> 1 + Cardinality({x \in S : Before(x, t)})]
           line == [i \in 1..n |-> CHOOSE t \in S : rank[t] = i]
<1>1. DOMAIN q.tokens = 1..n /\ n \in Nat
  OBVIOUS
<1>2. S \subseteq Token
  BY DEF Range
<1>3. S \in SUBSET Nat /\ \A t \in S : ValueOf[t] \in Nat
  BY <1>2, LocalModelAssumption DEF Resolved
<1>4. IsFiniteSet(S) /\ Cardinality(S) = n
  BY Enumerated
<1>5. /\ rank \in [S -> 1..n]
      /\ \A a, b \in S : Before(a, b) => rank[a] < rank[b]
      /\ \A i \in 1..n : \E t \in S : rank[t] = i
  <2> DEFINE r == rank
  <2>1. r = [t \in S |-> 1 + Cardinality({x \in S : Before(x, t)})]
    OBVIOUS
  <2> HIDE DEF r, S, n
  <2>2. /\ r \in [S -> 1..n]
        /\ \A a, b \in S : Before(a, b) => r[a] < r[b]
        /\ \A i \in 1..n : \E t \in S : r[t] = i
    BY <1>3, <1>4, <2>1, Ranked
  <2>3. QED
    BY <2>2 DEF r
<1> HIDE DEF rank, S, n
<1>6. ASSUME NEW i \in 1..n PROVE line[i] \in S /\ rank[line[i]] = i
  BY <1>5
<1>7. ASSUME NEW i \in 1..n, NEW j \in 1..n, i < j PROVE Before(line[i], line[j])
  <2>1. line[i] \in S /\ line[j] \in S /\ rank[line[i]] = i /\ rank[line[j]] = j
    BY <1>6
  <2> HIDE DEF line
  <2>2. line[i] # line[j]
    BY <1>1, <1>7, <2>1
  <2>3. ~Before(line[j], line[i])
    <3>1. Before(line[j], line[i]) => j < i
      BY <1>5, <2>1
    <3>2. ~(j < i)
      BY <1>1, <1>7
    <3>3. QED
      BY <3>1, <3>2
  <2>4. QED
    BY <1>3, <2>1, <2>2, <2>3, BeforeIsOrder
<1>8. line \in [1..n -> S]
  BY <1>6
<1> HIDE DEF line
<1>9. \E sorted \in [DOMAIN q.tokens -> Range(q.tokens)] :
        \A i, j \in DOMAIN q.tokens : i < j => Before(sorted[i], sorted[j])
  BY <1>1, <1>7, <1>8 DEF S
<1>10. QED
  BY <1>9 DEF Sorted

\* What the model lists, once it is valid, are values of the request.
LEMMA AnsweredIsOwn ==
  ASSUME NEW q \in Operations, NEW answer \in Entries, ValidAnswer(q, answer)
  PROVE  /\ Answered(q, answer) \in Seq(Token)
         /\ Len(Answered(q, answer)) = Len(answer)
         /\ IsInjective(Answered(q, answer))
         /\ Range(Answered(q, answer)) \subseteq Range(q.tokens)
         /\ [i \in DOMAIN Answered(q, answer) |-> ValueOf[Answered(q, answer)[i]]] = answer
<1> DEFINE tokens == Answered(q, answer)
<1>1. answer \in Seq(Nat \cup {Junk}) /\ DOMAIN answer = 1..Len(answer) /\ Len(answer) \in Nat
  BY LocalModelAssumption
<1>2. q.tokens \in Seq(Token)
  BY DEF Operations
<1>3. ASSUME NEW i \in DOMAIN answer
      PROVE  TokenByValue(q, answer[i]) \in Range(q.tokens) /\ ValueOf[TokenByValue(q, answer[i])] = answer[i]
  <2>1. answer[i] \in Range(Values(q))
    BY DEF ValidAnswer, Range
  <2>2. PICK j \in DOMAIN q.tokens : answer[i] = ValueOf[q.tokens[j]]
    BY <2>1 DEF Values, Range
  <2>3. \E t \in Range(q.tokens) : ValueOf[t] = answer[i]
    BY <2>2 DEF Range
  <2>4. QED
    BY <2>3 DEF TokenByValue
<1>4. Range(q.tokens) \subseteq Token
  BY <1>2 DEF Range
<1>5. tokens = [i \in 1..Len(answer) |-> TokenByValue(q, answer[i])]
  BY <1>1 DEF Answered
<1> HIDE DEF tokens
<1>6. \A i \in 1..Len(answer) : tokens[i] \in Range(q.tokens) /\ ValueOf[tokens[i]] = answer[i]
  BY <1>1, <1>3, <1>5
<1>7. tokens \in Seq(Token) /\ DOMAIN tokens = 1..Len(answer) /\ Len(tokens) = Len(answer)
  BY <1>1, <1>4, <1>5, <1>6
<1>8. IsInjective(tokens)
  <2>1. ASSUME NEW i \in 1..Len(answer), NEW j \in 1..Len(answer), tokens[i] = tokens[j] PROVE i = j
    <3>1. answer[i] = answer[j]
      BY <1>6, <2>1
    <3>2. QED
      BY <1>1, <3>1 DEF ValidAnswer, IsInjective
  <2>2. QED
    BY <1>7, <2>1 DEF IsInjective
<1>9. Range(tokens) \subseteq Range(q.tokens)
  BY <1>6, <1>7 DEF Range
<1>10. [i \in DOMAIN tokens |-> ValueOf[tokens[i]]] = answer
  <2>1. answer = [i \in 1..Len(answer) |-> answer[i]]
    BY <1>1
  <2>2. QED
    BY <1>6, <1>7, <2>1
<1>11. QED
  BY <1>7, <1>8, <1>9, <1>10 DEF tokens

\* What is sent to the model: anything else is refused or answered at once.
Admitted(q) ==
  /\ q \in Question
  /\ q.kind = "approval" => q.class \in Guided
  /\ IsOperation(q) => ~Malformed(q) /\ ~Deterministic(q)

\* What an answer with tokens is, and one that lets something pass.
TokensOK(o) ==
  o.verdict = "tokens" =>
    /\ o.of \in Operations
    /\ IsInjective(o.tokens) /\ Range(o.tokens) \subseteq Range(o.of.tokens)
    /\ o.of.verb = "sort" => Len(o.tokens) = Len(o.of.tokens)
    /\ o.of.count # None /\ o.of.instruction => Len(o.tokens) = o.of.count
    /\ IF Deterministic(o.of)
       THEN \A i, j \in DOMAIN o.tokens :
               i < j => ValueOf[o.tokens[i]] <= ValueOf[o.tokens[j]]
       ELSE [i \in DOMAIN o.tokens |-> ValueOf[o.tokens[i]]] = said.answer

JudgedOK(o) ==
  /\ o.verdict = "grant" =>
       /\ o.of.kind = "approval" /\ o.of.class \in Guided
       /\ said.word \in {"approve", "modify"}
       /\ o.ttl \in 1..MaxTtl /\ o.uses \in 1..MaxUses
  /\ o.of.kind = "review" =>
       o.verdict \in {"halt", "raised"} \/ (said # None /\ o.verdict = said.word)
  /\ said = None /\ ~IsOperation(o.of) => o.verdict \in {"deny", "halt"}

LocalInv ==
  /\ request # None => Admitted(request) /\ outcome = None
  /\ outcome # None => outcome \in Outcomes /\ TokensOK(outcome) /\ JudgedOK(outcome)
  /\ request \in Question \cup {None} /\ format \in DOMAIN Formats
  /\ nudged \in BOOLEAN /\ retried \in BOOLEAN
  /\ said \in Objects \cup {None}

LEMMA Questions ==
  ASSUME NEW q \in Question
  PROVE  /\ q.kind \in {"operation", "approval", "review"}
         /\ q.kind = "operation" => q \in Operations
         /\ q.kind = "approval" => q \in [kind : {"approval"}, class : Class]
         /\ q.kind = "review" => q \in [kind : {"review"}, class : {None}]
BY LocalModelAssumption DEF Operations, Judgements

LEMMA RefusalRefuses ==
  ASSUME NEW q \in Question
  PROVE  /\ Refusal(q) \in Outcomes /\ Refusal(q).of = q /\ Refusal(q).verdict \notin {"grant", "tokens"}
         /\ q.kind = "review" => Refusal(q).verdict = "halt"
         /\ ~IsOperation(q) => Refusal(q).verdict \in {"deny", "halt"}
<1>1. << >> \in Seq(Token) /\ 0 \in 0..MaxTtl /\ 0 \in 0..MaxUses
  BY LocalModelAssumption
<1>2. q.kind \in {"operation", "approval", "review"}
  BY Questions
<1>3. QED
  BY <1>1, <1>2 DEF Refusal, Outcomes, IsOperation

LEMMA RefusalIsOK ==
  ASSUME NEW q \in Question
  PROVE  Refusal(q) \in Outcomes /\ TokensOK(Refusal(q)) /\ JudgedOK(Refusal(q))
                 /\ TokensOK(Refusal(q))' /\ JudgedOK(Refusal(q))'
BY RefusalRefuses DEF TokensOK, JudgedOK

\* An operation over tokens that is sorted without the model.
LEMMA SortedIsOK ==
  ASSUME NEW q \in Question, IsOperation(q), ~Malformed(q), Resolved(q), Deterministic(q),
         NEW o, o = [Refusal(q) EXCEPT !.verdict = "tokens", !.tokens = Sorted(q)]
  PROVE  o \in Outcomes /\ TokensOK(o)' /\ JudgedOK(o)'
<1>1. q \in Operations /\ q.tokens \in Seq(Token) /\ IsInjective(q.tokens)
  BY Questions DEF IsOperation, Operations, Malformed
<1>2. /\ Sorted(q) \in [DOMAIN q.tokens -> Range(q.tokens)]
      /\ \A i, j \in DOMAIN q.tokens : i < j => Before(Sorted(q)[i], Sorted(q)[j])
  BY <1>1, SortedSorts
<1>3. PICK tokens : tokens = Sorted(q)
  OBVIOUS
<1>4. Range(q.tokens) \subseteq Token /\ DOMAIN q.tokens = 1..Len(q.tokens) /\ Len(q.tokens) \in Nat
  BY <1>1 DEF Range
<1>5. \A t \in Range(q.tokens) : t \in Nat /\ ValueOf[t] \in Nat
  BY <1>4, LocalModelAssumption DEF Resolved
<1>6. tokens \in Seq(Token) /\ Len(tokens) = Len(q.tokens) /\ DOMAIN tokens = DOMAIN q.tokens
  BY <1>2, <1>3, <1>4
<1>7. \A i \in DOMAIN tokens : tokens[i] \in Range(q.tokens) /\ tokens[i] \in Nat
                                /\ ValueOf[tokens[i]] \in Nat
  BY <1>2, <1>3, <1>5, <1>6
<1>8. \A i, j \in DOMAIN tokens : i < j => Before(tokens[i], tokens[j])
  BY <1>2, <1>3, <1>6
<1>9. \A i, j \in DOMAIN tokens : i < j => ValueOf[tokens[i]] <= ValueOf[tokens[j]]
  BY <1>7, <1>8 DEF Before
<1>10. IsInjective(tokens) /\ Range(tokens) \subseteq Range(q.tokens)
  <2>1. ASSUME NEW i \in DOMAIN tokens, NEW j \in DOMAIN tokens, i < j PROVE tokens[i] # tokens[j]
    BY <1>7, <1>8, <2>1 DEF Before
  <2>2. \A i, j \in DOMAIN tokens : i = j \/ i < j \/ j < i
    BY <1>4, <1>6
  <2>3. IsInjective(tokens)
    BY <2>1, <2>2 DEF IsInjective
  <2>4. QED
    BY <1>7, <2>3 DEF Range
<1>11. o \in Outcomes /\ o.of = q /\ o.verdict = "tokens" /\ o.tokens = tokens
  <2>1. PICK r : r = Refusal(q)
    OBVIOUS
  <2>2. r \in Outcomes /\ r.of = q
    BY <2>1, RefusalRefuses
  <2>3. o = [r EXCEPT !.verdict = "tokens", !.tokens = tokens]
    BY <1>3, <2>1
  <2> DEFINE T == Seq(Token)
  <2>5. tokens \in T
    BY <1>6
  <2> HIDE DEF T
  <2>6. Outcomes = [of : Question, tokens : T, ttl : 0..MaxTtl, uses : 0..MaxUses,
         verdict : {"tokens", "denied", "grant", "deny", "continue", "warn", "halt", "raised"}]
    BY DEF Outcomes, T
  <2>7. QED
    BY <2>2, <2>3, <2>5, <2>6
<1>12. ~q.instruction
  BY DEF Deterministic
<1>13. q.kind = "operation"
  BY DEF IsOperation
<1>14. TokensOK(o)'
  BY <1>1, <1>6, <1>9, <1>10, <1>11, <1>12 DEF TokensOK
<1>15. JudgedOK(o)'
  BY <1>11, <1>13 DEF JudgedOK
<1>16. QED
  BY <1>11, <1>14, <1>15

LEMMA AskKeeps ==
  ASSUME LocalInv, NEW q \in Question, Ask(q)
  PROVE  LocalInv'
<1> DEFINE local == /\ IsOperation(q)
                    /\ Malformed(q) \/ ~Resolved(q) \/ Deterministic(q) \/ ~Reasonable(q)
           unruled == q.kind = "approval" /\ q.class \notin Guided
           sorts == local /\ ~Malformed(q) /\ Resolved(q) /\ Deterministic(q)
<1>1. /\ format' = 1 /\ nudged' = FALSE /\ retried' = FALSE /\ said' = None
      /\ request = None
  BY DEF Ask
<1>2. /\ format' \in DOMAIN Formats /\ nudged' \in BOOLEAN /\ retried' \in BOOLEAN
      /\ said' \in Objects \cup {None}
  <2>1. 1 \in DOMAIN Formats
    BY DEF Formats
  <2>2. QED
    BY <1>1, <2>1
<1>3. CASE local \/ unruled
  <2>1. request' = None
    BY <1>1, <1>3 DEF Ask
  <2>2. outcome' \in Outcomes /\ TokensOK(outcome)' /\ JudgedOK(outcome)'
    <3>1. CASE sorts
      <4>1. outcome' = [Refusal(q) EXCEPT !.verdict = "tokens", !.tokens = Sorted(q)]
        BY <1>3, <3>1 DEF Ask
      <4>2. \A o : o = [Refusal(q) EXCEPT !.verdict = "tokens", !.tokens = Sorted(q)]
                    => o \in Outcomes /\ TokensOK(o)' /\ JudgedOK(o)'
        BY <3>1, SortedIsOK
      <4>3. QED
        BY <4>1, <4>2
    <3>2. CASE ~sorts
      <4>1. outcome' = Refusal(q)
        BY <1>3, <3>2 DEF Ask
      <4>2. QED
        BY <4>1, RefusalIsOK
    <3>3. QED
      BY <3>1, <3>2
  <2>3. QED
    BY <1>2, <2>1, <2>2 DEF LocalInv
<1>4. CASE ~(local \/ unruled)
  <2>1. request' = q /\ outcome' = None
    BY <1>4 DEF Ask
  <2>2. Admitted(q)
    BY <1>4 DEF Admitted
  <2>3. QED
    BY <1>2, <2>1, <2>2 DEF LocalInv, Admitted
<1>5. QED
  BY <1>3, <1>4

LEMMA FailsKeeps ==
  ASSUME LocalInv, request # None, Fails
  PROVE  LocalInv'
<1>1. PICK q \in Question : q = request
  BY DEF LocalInv
<1>2. request' = None /\ outcome' = Refusal(q) /\ UNCHANGED <<format, nudged, retried, said>>
  BY <1>1 DEF Fails
<1>3. outcome' \in Outcomes /\ TokensOK(outcome)' /\ JudgedOK(outcome)'
  BY <1>2, RefusalIsOK
<1>4. QED
  BY <1>2, <1>3 DEF LocalInv

\* As long as the model is asked again there is no outcome.
LEMMA AgainKeeps ==
  ASSUME LocalInv, request # None, UNCHANGED <<request, outcome>>,
         format' \in DOMAIN Formats, nudged' \in BOOLEAN, retried' \in BOOLEAN,
         said' \in Objects \cup {None}
  PROVE  LocalInv'
BY DEF LocalInv, Admitted

LEMMA FormatRefusedKeeps ==
  ASSUME LocalInv, FormatRefused
  PROVE  LocalInv'
<1>1. CASE format < Len(Formats)
  <2>1. format' = format + 1 /\ UNCHANGED <<request, nudged, retried, said, outcome>>
    BY <1>1 DEF FormatRefused
  <2>2. format' \in DOMAIN Formats
    BY <1>1, <2>1 DEF Formats, LocalInv
  <2>3. QED
    BY <2>1, <2>2, AgainKeeps DEF FormatRefused, LocalInv
<1>2. CASE ~(format < Len(Formats))
  BY <1>2, FailsKeeps DEF FormatRefused
<1>3. QED
  BY <1>1, <1>2

LEMMA ProseKeeps ==
  ASSUME LocalInv, Prose
  PROVE  LocalInv'
<1>1. CASE ~nudged
  <2>1. nudged' = TRUE /\ format' = 1 /\ UNCHANGED <<request, retried, said, outcome>>
    BY <1>1 DEF Prose
  <2>2. format' \in DOMAIN Formats
    BY <2>1 DEF Formats
  <2>3. QED
    BY <2>1, <2>2, AgainKeeps DEF Prose, LocalInv
<1>2. CASE nudged
  BY <1>2, FailsKeeps DEF Prose
<1>3. QED
  BY <1>1, <1>2

\* A limit is within its range.
LEMMA BoundedIsBounded ==
  ASSUME NEW n, NEW high \in Nat, NEW fallback \in 1..high
  PROVE  Bounded(n, high, fallback) \in 1..high
BY DEF Bounded

\* A judgement lets something pass only by the word for it.
LEMMA JudgedIsOK ==
  ASSUME NEW q \in Question, q = request, ~IsOperation(q), Admitted(q),
         NEW object \in Objects, said' = object,
         NEW o, o = Judged(q, object)
  PROVE  o \in Outcomes /\ TokensOK(o)' /\ JudgedOK(o)'
<1>1. << >> \in Seq(Token) /\ 0 \in 0..MaxTtl /\ 0 \in 0..MaxUses
  BY LocalModelAssumption
<1>2. q.kind \in {"approval", "review"}
  BY Questions DEF IsOperation
<1>3. /\ Bounded(object.ttl, MaxTtl, DefaultTtl) \in 1..MaxTtl
      /\ Bounded(object.uses, MaxUses, 1) \in 1..MaxUses
  BY LocalModelAssumption, BoundedIsBounded
<1>4. said' # None
  BY LocalModelAssumption
<1>5. 1..MaxTtl \subseteq 0..MaxTtl /\ 1..MaxUses \subseteq 0..MaxUses
  BY LocalModelAssumption
<1>6. CASE Raises(q, object)
  <2>1. o = [of |-> q, verdict |-> "raised", tokens |-> << >>, ttl |-> 0, uses |-> 0]
    BY <1>6 DEF Judged, Outcome
  <2>2. o \in Outcomes
    BY <1>1, <2>1 DEF Outcomes
  <2>3. o.of = q /\ o.verdict = "raised"
    BY <2>1
  <2>4. TokensOK(o)'
    BY <2>3 DEF TokensOK
  <2>5. JudgedOK(o)'
    BY <1>4, <2>3 DEF JudgedOK
  <2>6. QED
    BY <2>2, <2>4, <2>5
<1>7. CASE ~Raises(q, object) /\ q.kind = "approval" /\ object.word \in {"approve", "modify"}
  <2>1. o = [of |-> q, verdict |-> "grant", tokens |-> << >>,
             ttl |-> Bounded(object.ttl, MaxTtl, DefaultTtl),
             uses |-> Bounded(object.uses, MaxUses, 1)]
    BY <1>7 DEF Judged, Outcome
  <2>2. o \in Outcomes
    BY <1>1, <1>3, <1>5, <2>1 DEF Outcomes
  <2>3. o.of = q /\ o.verdict = "grant" /\ o.ttl \in 1..MaxTtl /\ o.uses \in 1..MaxUses
    BY <1>3, <2>1
  <2>4. TokensOK(o)'
    BY <2>3 DEF TokensOK
  <2>5. JudgedOK(o)'
    BY <1>4, <1>7, <2>3 DEF JudgedOK, Admitted
  <2>6. QED
    BY <2>2, <2>4, <2>5
<1>8. CASE ~Raises(q, object) /\ q.kind = "review" /\ object.word \in {"continue", "warn"}
  <2>1. o = [of |-> q, verdict |-> object.word, tokens |-> << >>, ttl |-> 0, uses |-> 0]
    BY <1>8 DEF Judged, Outcome
  <2>2. o \in Outcomes
    BY <1>1, <1>8, <2>1 DEF Outcomes
  <2>3. o.of = q /\ o.verdict = object.word
    BY <2>1
  <2>4. TokensOK(o)'
    BY <1>8, <2>3 DEF TokensOK
  <2>5. JudgedOK(o)'
    BY <1>4, <1>8, <2>3 DEF JudgedOK
  <2>6. QED
    BY <2>2, <2>4, <2>5
<1>9. CASE /\ ~Raises(q, object)
           /\ ~(q.kind = "approval" /\ object.word \in {"approve", "modify"})
           /\ ~(q.kind = "review" /\ object.word \in {"continue", "warn"})
  <2>1. o = Refusal(q)
    BY <1>9 DEF Judged
  <2>2. QED
    BY <2>1, RefusalIsOK
<1>10. QED
  BY <1>6, <1>7, <1>8, <1>9

\* A valid answer becomes the tokens of its values.
LEMMA AnsweredIsOK ==
  ASSUME NEW q \in Question, q = request, IsOperation(q), Admitted(q),
         NEW object \in Objects, ValidAnswer(q, object.answer), said' = object,
         NEW o, o = Outcome("tokens", Answered(q, object.answer), 0, 0)
  PROVE  o \in Outcomes /\ TokensOK(o)' /\ JudgedOK(o)'
<1>1. q \in Operations /\ q.kind = "operation"
  BY Questions DEF IsOperation
<1>2. PICK answer : answer = object.answer
  OBVIOUS
<1>3. answer \in Entries
  BY <1>2 DEF Objects, ValidAnswer
<1>4. PICK tokens : tokens = Answered(q, answer)
  OBVIOUS
<1>5. /\ tokens \in Seq(Token) /\ Len(tokens) = Len(answer) /\ IsInjective(tokens)
      /\ Range(tokens) \subseteq Range(q.tokens)
      /\ [i \in DOMAIN tokens |-> ValueOf[tokens[i]]] = answer
  BY <1>1, <1>2, <1>3, <1>4, AnsweredIsOwn
<1>6. o = [of |-> q, verdict |-> "tokens", tokens |-> tokens, ttl |-> 0, uses |-> 0]
  BY <1>2, <1>4 DEF Outcome
<1>7. 0 \in 0..MaxTtl /\ 0 \in 0..MaxUses
  BY LocalModelAssumption
<1>8. o \in Outcomes
  BY <1>5, <1>6, <1>7 DEF Outcomes
<1>9. o.of = q /\ o.verdict = "tokens" /\ o.tokens = tokens
  BY <1>6
<1>10. ~Malformed(q) /\ ~Deterministic(q)
  BY <1>1 DEF Admitted, IsOperation
<1>11. /\ q.verb = "sort" => Len(tokens) = Len(q.tokens)
       /\ q.count # None /\ q.instruction => Len(tokens) = q.count
  BY <1>2, <1>5, <1>10 DEF ValidAnswer, Malformed
<1>12. TokensOK(o)'
  BY <1>1, <1>2, <1>5, <1>9, <1>10, <1>11 DEF TokensOK
<1>13. JudgedOK(o)'
  BY <1>1, <1>9 DEF JudgedOK
<1>14. QED
  BY <1>8, <1>12, <1>13

LEMMA ReplyKeeps ==
  ASSUME LocalInv, request # None, NEW objects \in Completions(request), Reply(objects)
  PROVE  LocalInv'
<1>1. PICK q \in Question : q = request /\ Admitted(q)
  BY DEF LocalInv
<1>2. PICK earlier \in Drafts, object \in Answering \cup Judging : objects = earlier \o <<object>>
  <2>1. PICK earlier \in Drafts, object \in IF IsOperation(request) THEN Answering ELSE Judging :
             objects = earlier \o <<object>>
    BY DEF Completions
  <2>2. object \in Answering \cup Judging
    BY <2>1
  <2>3. QED
    BY <2>1, <2>2
<1>3. object \in Objects
  BY DEF Answering, Judging, Objects, Word
<1>4. Last(objects) = object
  <2>1. earlier \in Seq(Objects)
    BY LocalModelAssumption
  <2>2. QED
    BY <1>2, <1>3, <2>1 DEF Last
<1>5. said' = object /\ said' \in Objects \cup {None}
  BY <1>3, <1>4 DEF Reply
<1> DEFINE result == /\ request' = None
                     /\ outcome' \in Outcomes /\ TokensOK(outcome)' /\ JudgedOK(outcome)'
                     /\ UNCHANGED <<format, nudged, retried>>
<1>6. ASSUME result PROVE LocalInv'
  BY <1>5, <1>6 DEF LocalInv
<1>7. CASE ~IsOperation(q)
  <2>1. request' = None /\ outcome' = Judged(q, object) /\ UNCHANGED <<format, nudged, retried>>
    BY <1>1, <1>4, <1>7 DEF Reply
  <2>2. \A o : o = Judged(q, object) => o \in Outcomes /\ TokensOK(o)' /\ JudgedOK(o)'
    BY <1>1, <1>3, <1>5, <1>7, JudgedIsOK
  <2>3. QED
    BY <1>6, <2>1, <2>2
<1>8. CASE IsOperation(q) /\ ValidAnswer(q, object.answer)
  <2>1. /\ request' = None /\ outcome' = Outcome("tokens", Answered(q, object.answer), 0, 0)
        /\ UNCHANGED <<format, nudged, retried>>
    BY <1>1, <1>4, <1>8 DEF Reply
  <2>2. \A o : o = Outcome("tokens", Answered(q, object.answer), 0, 0)
               => o \in Outcomes /\ TokensOK(o)' /\ JudgedOK(o)'
    BY <1>1, <1>3, <1>5, <1>8, AnsweredIsOK
  <2>3. QED
    BY <1>6, <2>1, <2>2
<1>9. CASE IsOperation(q) /\ ~ValidAnswer(q, object.answer) /\ ~retried
  <2>1. retried' = TRUE /\ nudged' = FALSE /\ format' = 1 /\ UNCHANGED <<request, outcome>>
    BY <1>1, <1>4, <1>9 DEF Reply
  <2>2. 1 \in DOMAIN Formats
    BY DEF Formats
  <2>3. QED
    BY <1>5, <2>1, <2>2, AgainKeeps
<1>10. CASE IsOperation(q) /\ ~ValidAnswer(q, object.answer) /\ retried
  <2>1. request' = None /\ outcome' = Refusal(q) /\ UNCHANGED <<format, nudged, retried>>
    BY <1>1, <1>4, <1>10 DEF Reply
  <2>2. QED
    BY <1>6, <2>1, RefusalIsOK
<1>11. QED
  BY <1>7, <1>8, <1>9, <1>10 DEF LocalInv

-----------------------------------------------------------------------------
(* The theorems about the model on the machine.                            *)

LEMMA LocalStart == LocalInit => LocalInv
<1>1. 1 \in DOMAIN Formats
  BY DEF Formats
<1>2. QED
  BY <1>1 DEF LocalInit, LocalInv

LEMMA LocalStep == LocalInv /\ [LocalNext]_localVars => LocalInv'
<1> SUFFICES ASSUME LocalInv, [LocalNext]_localVars PROVE LocalInv'
  OBVIOUS
<1>1. ASSUME NEW q \in Question, Ask(q) PROVE LocalInv'
  BY <1>1, AskKeeps
<1>2. CASE React
  <2>1. CASE FormatRefused
    BY <2>1, FormatRefusedKeeps
  <2>2. CASE Unreachable
    BY <2>2, FailsKeeps DEF Unreachable
  <2>3. CASE Prose
    BY <2>3, ProseKeeps
  <2>4. CASE request # None /\ \E objects \in Completions(request) : Reply(objects)
    BY <2>4, ReplyKeeps
  <2>5. QED
    BY <1>2, <2>1, <2>2, <2>3, <2>4 DEF React
<1>3. CASE UNCHANGED localVars
  BY <1>3 DEF localVars, LocalInv, Admitted, TokensOK, JudgedOK
<1>4. QED
  BY <1>1, <1>2, <1>3 DEF LocalNext

LEMMA LocalInductive == LocalSpec => []LocalInv
BY LocalStart, LocalStep, PTL DEF LocalSpec

\* The values of a conversation (LocalTypeOK).
THEOREM LocalTypeCorrect == LocalSpec => []LocalTypeOK
<1>1. LocalInv => LocalTypeOK
  BY DEF LocalInv, LocalTypeOK
<1>2. QED
  BY <1>1, LocalInductive, PTL

\* The answer of an operation is made of the request's own tokens, each at most
\* once, in the order of the model or of the values (AnswersAreTokens).
THEOREM AnswersAreRequested == LocalSpec => []AnswersAreTokens
<1>1. LocalInv => AnswersAreTokens
  BY DEF LocalInv, TokensOK, AnswersAreTokens
<1>2. QED
  BY <1>1, LocalInductive, PTL

\* Only the right word lets a value or the agent go, and within the limits, and
\* without an object to judge the verdict refuses (OnlyByTheWord).  That there
\* always is a verdict is not true: a judgement may raise.
THEOREM OnlyTheWordPasses == LocalSpec => []OnlyByTheWord
<1>1. LocalInv => OnlyByTheWord
  BY DEF LocalInv, JudgedOK, OnlyByTheWord
<1>2. QED
  BY <1>1, LocalInductive, PTL
=============================================================================
