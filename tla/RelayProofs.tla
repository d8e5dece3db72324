----------------------------- MODULE RelayProofs -----------------------------
(***************************************************************************)
(* Proofs about the request hooks and the relay, for any number of         *)
(* requests, contents, frames and calls: what was known stays hidden from  *)
(* the model, the manifest names all placeholders of its request, and the  *)
(* rings of frames and calls say what happened.                            *)
(***************************************************************************)
EXTENDS Relay, FiniteSetTheorems, TLAPS

-----------------------------------------------------------------------------
(* Sequences and rings.                                                    *)

Distinct(s) == \A i, j \in DOMAIN s : s[i].image = s[j].image => i = j

LEMMA RangeOfSeq ==
  ASSUME NEW S, NEW s \in Seq(S)
  PROVE  /\ DOMAIN s = 1..Len(s) /\ Len(s) \in Nat
         /\ \A i \in 1..Len(s) : s[i] \in S /\ s[i] \in Range(s)
         /\ \A x \in Range(s) : \E i \in 1..Len(s) : x = s[i]
BY DEF Range

LEMMA Appended ==
  ASSUME NEW S, NEW s \in Seq(S), NEW e \in S
  PROVE  /\ Append(s, e) \in Seq(S)
         /\ Len(Append(s, e)) = Len(s) + 1
         /\ Append(s, e)[Len(s) + 1] = e
         /\ \A i \in 1..Len(s) : Append(s, e)[i] = s[i]
         /\ \A i \in 1..(Len(s) + 1) : i \in 1..Len(s) \/ i = Len(s) + 1
OBVIOUS

LEMMA AppendedRange ==
  ASSUME NEW S, NEW s \in Seq(S), NEW e \in S
  PROVE  Range(Append(s, e)) = Range(s) \cup {e}
<1>1. /\ DOMAIN Append(s, e) = 1..(Len(s) + 1) /\ DOMAIN s = 1..Len(s)
      /\ Len(s) \in Nat
  BY Appended, RangeOfSeq
<1>2. \A x \in Range(Append(s, e)) : x \in Range(s) \cup {e}
  BY <1>1, Appended DEF Range
<1>3. \A x \in Range(s) : x \in Range(Append(s, e))
  <2>1. ASSUME NEW i \in 1..Len(s) PROVE s[i] \in Range(Append(s, e))
    <3>1. i \in 1..(Len(s) + 1) /\ Append(s, e)[i] = s[i]
      BY <1>1, <2>1, Appended
    <3>2. QED
      BY <1>1, <3>1 DEF Range
  <2>2. QED
    BY <1>1, <2>1 DEF Range
<1>4. e \in Range(Append(s, e))
  <2>1. Len(s) + 1 \in 1..(Len(s) + 1) /\ Append(s, e)[Len(s) + 1] = e
    BY <1>1, Appended
  <2>2. QED
    BY <1>1, <2>1 DEF Range
<1>5. QED
  BY <1>2, <1>3, <1>4

LEMMA RangeTail ==
  ASSUME NEW S, NEW s \in Seq(S), s # << >>
  PROVE  /\ Head(s) \in S /\ Tail(s) \in Seq(S)
         /\ \A x \in Range(s) : x = Head(s) \/ x \in Range(Tail(s))
<1>1. /\ Head(s) \in S /\ Tail(s) \in Seq(S) /\ Len(Tail(s)) = Len(s) - 1
      /\ Len(s) \in Nat /\ Len(s) > 0 /\ Head(s) = s[1]
      /\ \A i \in 1..(Len(s) - 1) : Tail(s)[i] = s[i + 1]
  OBVIOUS
<1>2. ASSUME NEW i \in 1..Len(s), i # 1 PROVE s[i] \in Range(Tail(s))
  <2>1. i - 1 \in 1..(Len(s) - 1) /\ (i - 1) + 1 = i
    BY <1>1, <1>2
  <2>2. Tail(s)[i - 1] = s[i]
    BY <1>1, <2>1
  <2>3. QED
    BY <1>1, <2>1, <2>2, RangeOfSeq
<1>3. QED
  BY <1>1, <1>2, RangeOfSeq

\* A ring drops its oldest elements.
LEMMA NewestFacts ==
  ASSUME NEW S, NEW s \in Seq(S), NEW n \in Nat
  PROVE  /\ Newest(s, n) \in Seq(S) /\ Len(Newest(s, n)) <= n
         /\ \E k \in 0..Len(s) :
              /\ Len(Newest(s, n)) = Len(s) - k
              /\ \A i \in 1..Len(Newest(s, n)) : Newest(s, n)[i] = s[i + k]
<1>1. CASE Len(s) <= n
  <2>1. Newest(s, n) = s /\ Len(s) \in Nat
    BY <1>1 DEF Newest
  <2> DEFINE k == 0
  <2>2. /\ k \in 0..Len(s) /\ Len(Newest(s, n)) = Len(s) - k
        /\ \A i \in 1..Len(Newest(s, n)) : Newest(s, n)[i] = s[i + k]
    BY <2>1
  <2> HIDE DEF k
  <2>3. QED
    BY <1>1, <2>1, <2>2
<1>2. CASE ~(Len(s) <= n)
  <2> DEFINE k == Len(s) - n
  <2>1. Newest(s, n) = SubSeq(s, Len(s) - n + 1, Len(s))
    BY <1>2 DEF Newest
  <2>2. Len(s) \in Nat /\ k \in 0..Len(s) /\ Len(s) - n + 1 \in 1..(Len(s) + 1)
    BY <1>2
  <2>3. Newest(s, n) \in Seq(S) /\ Len(Newest(s, n)) = n
    BY <2>1, <2>2
  <2>4. \A i \in 1..n : Newest(s, n)[i] = s[i + k]
    BY <2>1, <2>2, <2>3
  <2>5. Len(Newest(s, n)) = Len(s) - k
    BY <2>2, <2>3
  <2>6. /\ Newest(s, n) \in Seq(S) /\ Len(Newest(s, n)) <= n
        /\ \A i \in 1..Len(Newest(s, n)) : Newest(s, n)[i] = s[i + k]
    BY <2>3, <2>4
  <2> HIDE DEF k
  <2>7. QED
    BY <2>2, <2>5, <2>6
<1>3. QED
  BY <1>1, <1>2

LEMMA NewestRange ==
  ASSUME NEW S, NEW s \in Seq(S), NEW n \in Nat
  PROVE  Range(Newest(s, n)) \subseteq Range(s)
<1>1. PICK k \in 0..Len(s) :
        /\ Len(Newest(s, n)) = Len(s) - k
        /\ \A i \in 1..Len(Newest(s, n)) : Newest(s, n)[i] = s[i + k]
  BY NewestFacts
<1>2. Newest(s, n) \in Seq(S) /\ Len(s) \in Nat
  BY NewestFacts
<1>3. ASSUME NEW x \in Range(Newest(s, n)) PROVE x \in Range(s)
  <2>1. PICK i \in 1..Len(Newest(s, n)) : x = Newest(s, n)[i]
    BY <1>2, RangeOfSeq
  <2>2. i + k \in 1..Len(s) /\ x = s[i + k]
    BY <1>1, <1>2, <2>1
  <2>3. QED
    BY <2>2, RangeOfSeq
<1>4. QED
  BY <1>3

LEMMA NewestDistinct ==
  ASSUME NEW S, NEW s \in Seq(S), NEW n \in Nat, Distinct(s)
  PROVE  Distinct(Newest(s, n))
<1>1. PICK k \in 0..Len(s) :
        /\ Len(Newest(s, n)) = Len(s) - k
        /\ \A i \in 1..Len(Newest(s, n)) : Newest(s, n)[i] = s[i + k]
  BY NewestFacts
<1>2. Newest(s, n) \in Seq(S) /\ Len(s) \in Nat
  BY NewestFacts
<1>3. DOMAIN Newest(s, n) = 1..Len(Newest(s, n)) /\ DOMAIN s = 1..Len(s)
  BY <1>2, RangeOfSeq
<1>4. SUFFICES ASSUME NEW i \in 1..Len(Newest(s, n)), NEW j \in 1..Len(Newest(s, n)),
                      Newest(s, n)[i].image = Newest(s, n)[j].image
               PROVE  i = j
  BY <1>3 DEF Distinct
<1>5. i + k \in 1..Len(s) /\ j + k \in 1..Len(s)
  BY <1>1, <1>2
<1>6. i + k = j + k
  BY <1>1, <1>3, <1>4, <1>5 DEF Distinct
<1>7. QED
  BY <1>1, <1>6

LEMMA DistinctAppended ==
  ASSUME NEW S, NEW s \in Seq(S), NEW e \in S, Distinct(s),
         \A i \in DOMAIN s : s[i].image # e.image
  PROVE  Distinct(Append(s, e))
<1>1. /\ DOMAIN Append(s, e) = 1..(Len(s) + 1) /\ DOMAIN s = 1..Len(s)
      /\ Len(s) \in Nat
  BY Appended, RangeOfSeq
<1>2. SUFFICES ASSUME NEW i \in 1..(Len(s) + 1), NEW j \in 1..(Len(s) + 1),
                      Append(s, e)[i].image = Append(s, e)[j].image
               PROVE  i = j
  BY <1>1 DEF Distinct
<1>3. /\ i \in 1..Len(s) \/ i = Len(s) + 1
      /\ j \in 1..Len(s) \/ j = Len(s) + 1
  BY <1>1
<1>4. /\ i \in 1..Len(s) => Append(s, e)[i] = s[i]
      /\ j \in 1..Len(s) => Append(s, e)[j] = s[j]
      /\ Append(s, e)[Len(s) + 1] = e
  BY Appended
<1>5. QED
  BY <1>1, <1>2, <1>3, <1>4 DEF Distinct

\* A cache without the painting of one frame.
LEMMA WithoutFacts ==
  ASSUME NEW S, NEW s \in Seq(S), NEW m
  PROVE  /\ Without(s, m) \in Seq(S)
         /\ Len(Without(s, m)) <= Len(s)
         /\ Range(Without(s, m)) \subseteq Range(s)
         /\ (\E i \in DOMAIN s : s[i].image = m) => Len(Without(s, m)) + 1 <= Len(s)
         /\ Distinct(s) => /\ Distinct(Without(s, m))
                           /\ \A i \in DOMAIN Without(s, m) : Without(s, m)[i].image # m
<1>0. DOMAIN s = 1..Len(s) /\ Len(s) \in Nat
  BY RangeOfSeq
<1>1. CASE \A i \in DOMAIN s : s[i].image # m
  BY <1>0, <1>1 DEF Without
<1>2. CASE \E i \in DOMAIN s : s[i].image = m
  <2> DEFINE k == CHOOSE i \in DOMAIN s : s[i].image = m
             w == [i \in 1..(Len(s) - 1) |-> IF i < k THEN s[i] ELSE s[i + 1]]
  <2>1. k \in 1..Len(s) /\ s[k].image = m
    BY <1>0, <1>2
  <2>2. Without(s, m) = w
    BY <1>2 DEF Without
  <2> HIDE DEF k
  <2>3. Len(s) - 1 \in Nat
    BY <1>0, <2>1
  <2>4. \A i \in 1..(Len(s) - 1) : (IF i < k THEN s[i] ELSE s[i + 1]) \in S
    BY <1>0, <2>1
  <2>5. w \in Seq(S) /\ Len(w) = Len(s) - 1 /\ DOMAIN w = 1..(Len(s) - 1)
    BY <2>3, <2>4
  <2>6. \A i \in 1..(Len(s) - 1) : \E j \in 1..Len(s) :
            w[i] = s[j] /\ j # k /\ j = IF i < k THEN i ELSE i + 1
    <3> SUFFICES ASSUME NEW i \in 1..(Len(s) - 1)
                 PROVE  \E j \in 1..Len(s) :
                          w[i] = s[j] /\ j # k /\ j = IF i < k THEN i ELSE i + 1
      OBVIOUS
    <3>1. CASE i < k
      <4>1. i \in 1..Len(s) /\ i # k /\ w[i] = s[i]
        BY <1>0, <2>1, <3>1
      <4>2. QED
        BY <3>1, <4>1
    <3>2. CASE ~(i < k)
      <4>1. i + 1 \in 1..Len(s) /\ i + 1 # k /\ w[i] = s[i + 1]
        BY <1>0, <2>1, <3>2
      <4>2. QED
        BY <3>2, <4>1
    <3>3. QED
      BY <3>1, <3>2
  <2> HIDE DEF w
  <2>7. Range(w) \subseteq Range(s)
    BY <1>0, <2>5, <2>6 DEF Range
  <2>8. ASSUME Distinct(s)
        PROVE  Distinct(w) /\ \A i \in DOMAIN w : w[i].image # m
    <3>1. ASSUME NEW i \in 1..(Len(s) - 1), NEW j \in 1..(Len(s) - 1),
                 w[i].image = w[j].image
          PROVE  i = j
      <4>1. PICK a \in 1..Len(s) : w[i] = s[a] /\ a = IF i < k THEN i ELSE i + 1
        BY <2>6
      <4>2. PICK b \in 1..Len(s) : w[j] = s[b] /\ b = IF j < k THEN j ELSE j + 1
        BY <2>6
      <4>3. a = b
        BY <1>0, <2>8, <3>1, <4>1, <4>2 DEF Distinct
      <4>4. QED
        BY <1>0, <2>1, <4>1, <4>2, <4>3
    <3>2. ASSUME NEW i \in 1..(Len(s) - 1) PROVE w[i].image # m
      <4>1. PICK a \in 1..Len(s) : w[i] = s[a] /\ a # k
        BY <2>6
      <4>2. QED
        BY <1>0, <2>1, <2>8, <4>1 DEF Distinct
    <3>3. QED
      BY <2>5, <3>1, <3>2 DEF Distinct
  <2>9. QED
    BY <1>0, <2>2, <2>5, <2>7, <2>8
<1>3. QED
  BY <1>1, <1>2

-----------------------------------------------------------------------------
(* The inductive invariant of the hooks.                                   *)

\* How far a request is, and what it has of its frames and texts by then.
Where(r) ==
  LET images == Len(content[r].images)
      texts  == Len(content[r].texts) IN
  /\ pc[r] \in {"new", "frame", "audit"} => hidden[r] = << >>
  /\ pc[r] = "new" => at[r] = 0 /\ shots[r] = << >>
  /\ pc[r] = "frame" => at[r] < images /\ Len(shots[r]) = at[r]
  /\ pc[r] = "audit" => /\ at[r] < images /\ Len(shots[r]) = at[r] + 1
                        /\ latest # << >>
  /\ pc[r] \in {"plain", "apply", "ready", "out"} => Len(shots[r]) = images
  /\ pc[r] = "plain" => at[r] < texts /\ Len(hidden[r]) = at[r]
  /\ pc[r] = "apply" => at[r] < texts
  /\ pc[r] \in {"apply", "ready", "out"} => Len(hidden[r]) = texts

\* The holder of the lock paints its own frame, and what it has looked at of
\* that frame is covered.
Painting ==
  painter # Nobody =>
    /\ pc[painter] = "frame" /\ canvas.image = Screenshot(painter)
    /\ canvas.tokens \subseteq known /\ canvas.knew \subseteq known
    /\ \A l \in Range(Lines[canvas.image]) : l \in Range(left) \/ LineHidden(l, canvas)

Finished(s) == Covers(s) /\ s.tokens \subseteq known

ShotsOK(r) == \A i \in 1..Len(shots[r]) :
                shots[r][i].image = content[r].images[i] /\ Finished(shots[r][i])

TextSafe(r, i) ==
  LET x == content[r].texts[i] IN
  /\ hidden[r][i] \ Blocked \subseteq known
  /\ Holds[x] \cap (knew[r] \cup OnScreen(r)) \subseteq hidden[r][i]
  /\ pc[r] \in {"ready", "out"} \/ (pc[r] = "apply" /\ i <= at[r])
       => Recognises[x] \subseteq hidden[r][i]

TextsOK(r) == knew[r] \subseteq known /\ \A i \in 1..Len(hidden[r]) : TextSafe(r, i)

RequestOK(r) == Where(r) /\ ShotsOK(r) /\ TextsOK(r)

CacheOK == \A s \in Range(painted) : Finished(s)

ViewInv == /\ ViewTypeOK /\ Painting /\ CacheOK /\ ManifestComplete
           /\ \A r \in Request : RequestOK(r)

LEMMA RequestFacts ==
  ASSUME ViewTypeOK, NEW r \in Request
  PROVE  /\ content[r] \in [images : Seq(Image), texts : Seq(Text)]
         /\ content[r].images \in Seq(Image) /\ content[r].texts \in Seq(Text)
         /\ at[r] \in Nat /\ shots[r] \in Seq(Shot) /\ hidden[r] \in Seq(SUBSET Value)
         /\ DOMAIN shots[r] = 1..Len(shots[r]) /\ DOMAIN hidden[r] = 1..Len(hidden[r])
         /\ Len(shots[r]) \in Nat /\ Len(hidden[r]) \in Nat
         /\ Len(content[r].images) \in Nat /\ Len(content[r].texts) \in Nat
         /\ manifest[r] \subseteq Value /\ knew[r] \subseteq Value
<1>1. Empty \in [images : Seq(Image), texts : Seq(Text)]
  BY DEF Empty
<1>2. content[r] \in [images : Seq(Image), texts : Seq(Text)]
  BY <1>1, ViewAssumption DEF ViewTypeOK
<1>3. /\ at[r] \in Nat /\ shots[r] \in Seq(Shot) /\ hidden[r] \in Seq(SUBSET Value)
      /\ manifest[r] \subseteq Value /\ knew[r] \subseteq Value
  BY DEF ViewTypeOK
<1>4. QED
  BY <1>2, <1>3

\* What a request showed is what it will have shown, while no frame is added.
LEMMA SameScreen ==
  \A r \in Request : shots'[r] = shots[r] => OnScreen(r)' = OnScreen(r)
BY DEF OnScreen

LEMMA ScreenKnown ==
  ASSUME ViewTypeOK, NEW r \in Request, ShotsOK(r)
  PROVE  OnScreen(r) \subseteq known
<1>1. ASSUME NEW s \in Range(shots[r]) PROVE s.tokens \subseteq known
  <2>1. PICK i \in 1..Len(shots[r]) : s = shots[r][i]
    BY <1>1, RequestFacts, RangeOfSeq
  <2>2. QED
    BY <2>1 DEF ShotsOK, Finished
<1>2. QED
  BY <1>1 DEF OnScreen

\* Only request r acts.
Others(r) ==
  \A q \in Request : q # r =>
    /\ pc'[q] = pc[q] /\ content'[q] = content[q] /\ at'[q] = at[q]
    /\ shots'[q] = shots[q] /\ hidden'[q] = hidden[q] /\ knew'[q] = knew[q]
    /\ manifest'[q] = manifest[q]

LEMMA ShotsKept ==
  ASSUME NEW q \in Request, ShotsOK(q), known \subseteq known',
         content'[q] = content[q], shots'[q] = shots[q]
  PROVE  ShotsOK(q)'
<1>1. ASSUME NEW i \in 1..Len(shots'[q])
      PROVE  shots'[q][i].image = content'[q].images[i] /\ Finished(shots[q][i])'
  <2>1. i \in 1..Len(shots[q]) /\ shots'[q][i] = shots[q][i]
    OBVIOUS
  <2>2. shots[q][i].image = content[q].images[i] /\ Finished(shots[q][i])
    BY <2>1 DEF ShotsOK
  <2>3. QED
    BY <2>1, <2>2 DEF Finished, Covers, LineHidden
<1>2. QED
  BY <1>1 DEF ShotsOK

\* A request that does not act keeps what it has while the vault grows.
LEMMA BystanderOK ==
  ASSUME ViewInv, NEW r \in Request, Others(r), known \subseteq known',
         latest = << >> \/ latest' # << >>,
         NEW q \in Request, q # r
  PROVE  RequestOK(q)'
<1>1. Where(q)'
  BY DEF ViewInv, RequestOK, Others, Where
<1>2. ShotsOK(q)'
  BY ShotsKept DEF ViewInv, RequestOK, Others
<1>3. knew'[q] \subseteq known' /\ OnScreen(q)' = OnScreen(q)
  BY SameScreen DEF ViewInv, RequestOK, TextsOK, Others
<1>4. TextsOK(q)'
  BY <1>3 DEF ViewInv, RequestOK, TextsOK, TextSafe, Others
<1>5. QED
  BY <1>1, <1>2, <1>4 DEF RequestOK

\* A request without texts yet.
LEMMA NoTextsOK ==
  ASSUME NEW r \in Request, hidden'[r] = << >>, knew'[r] \subseteq known'
  PROVE  TextsOK(r)'
BY DEF TextsOK

LEMMA ManifestKept ==
  ASSUME ManifestComplete, NEW r \in Request, Others(r), pc'[r] # "out"
  PROVE  ManifestComplete'
BY SameScreen DEF ManifestComplete, Out, Others

LEMMA PaintingKept ==
  ASSUME Painting, painter \in Request \cup {Nobody}, known \subseteq known',
         UNCHANGED <<painter, canvas, left>>,
         NEW r \in Request, Others(r),
         painter = r => pc'[r] = pc[r] /\ content'[r] = content[r] /\ at'[r] = at[r]
  PROVE  Painting'
<1>1. CASE painter = r
  BY <1>1 DEF Painting, Screenshot, LineHidden
<1>2. CASE painter # r
  BY <1>2 DEF Painting, Screenshot, LineHidden, Others
<1>3. QED
  BY <1>1, <1>2

LEMMA CacheKept ==
  ASSUME CacheOK, known \subseteq known', painted' = painted
  PROVE  CacheOK'
BY DEF CacheOK, Finished, Covers, LineHidden

LEMMA ViewStart == ViewInit => ViewInv
<1> SUFFICES ASSUME ViewInit PROVE ViewInv
  OBVIOUS
<1>1. ViewTypeOK
  BY ViewAssumption DEF ViewInit, ViewTypeOK
<1>2. Painting /\ ManifestComplete
  BY DEF ViewInit, Painting, ManifestComplete, Out
<1>3. CacheOK
  BY DEF ViewInit, CacheOK, Range
<1>4. ASSUME NEW r \in Request PROVE RequestOK(r)
  <2>1. Where(r)
    BY DEF ViewInit, Where
  <2>2. ShotsOK(r) /\ TextsOK(r)
    BY DEF ViewInit, ShotsOK, TextsOK
  <2>3. QED
    BY <2>1, <2>2 DEF RequestOK
<1>5. QED
  BY <1>1, <1>2, <1>3, <1>4 DEF ViewInv

-----------------------------------------------------------------------------
(* Every action of the hooks keeps it.                                     *)

LEMMA ArriveKeeps ==
  ASSUME ViewInv, NEW r \in Request, NEW c \in Content, Arrive(r, c)
  PROVE  ViewInv'
<1>0. /\ pc[r] = "new" /\ known' = known /\ latest' = latest /\ painted' = painted
      /\ UNCHANGED <<painter, canvas, left, at, shots, hidden, manifest>>
      /\ pc' = [pc EXCEPT ![r] = IF c.images = << >> THEN AfterFrames(c) ELSE "frame"]
      /\ content' = [content EXCEPT ![r] = c]
      /\ knew' = [knew EXCEPT ![r] = known]
  BY DEF Arrive, paintVars
<1>1. ViewTypeOK /\ Painting /\ CacheOK /\ ManifestComplete /\ Where(r)
  BY DEF ViewInv, RequestOK
<1>2. /\ pc'[r] = IF c.images = << >> THEN AfterFrames(c) ELSE "frame"
      /\ content'[r] = c /\ knew'[r] = known
      /\ c.images \in Seq(Image) /\ c.texts \in Seq(Text)
      /\ Others(r)
  BY <1>0, <1>1, ViewAssumption DEF ViewTypeOK, Others
<1>3. at[r] = 0 /\ shots[r] = << >> /\ hidden[r] = << >>
  BY <1>0, <1>1 DEF Where
<1>4. ViewTypeOK'
  BY <1>0, <1>1 DEF ViewTypeOK, AfterFrames
<1>5. Where(r)'
  BY <1>0, <1>2, <1>3 DEF Where, AfterFrames
<1>6. RequestOK(r)'
  BY <1>0, <1>2, <1>3, <1>5, NoTextsOK DEF RequestOK, ShotsOK
<1>7. pc'[r] # "out"
  BY <1>2 DEF AfterFrames
<1>8. painter # r
  BY <1>0, <1>1, ViewAssumption DEF Painting
<1>9. QED
  BY <1>0, <1>1, <1>2, <1>4, <1>6, <1>7, <1>8, BystanderOK, ManifestKept, PaintingKept,
     CacheKept DEF ViewInv, ViewTypeOK

\* The frame that is to be painted is one of the request's.
LEMMA NextShot ==
  ASSUME ViewTypeOK, NEW r \in Request, Where(r), pc[r] = "frame"
  PROVE  /\ at[r] + 1 \in 1..Len(content[r].images)
         /\ Screenshot(r) \in Image
         /\ Len(shots[r]) = at[r]
<1>1. /\ at[r] \in Nat /\ Len(content[r].images) \in Nat
      /\ content[r].images \in Seq(Image)
  BY RequestFacts
<1>2. at[r] + 1 \in 1..Len(content[r].images) /\ Len(shots[r]) = at[r]
  BY <1>1 DEF Where
<1>3. QED
  BY <1>1, <1>2 DEF Screenshot

\* A frame is added to those of the request.
LEMMA ShotAdded ==
  ASSUME ViewTypeOK, NEW r \in Request, RequestOK(r), pc[r] = "frame",
         NEW s \in Shot, s.image = Screenshot(r), Finished(s)', known \subseteq known',
         content'[r] = content[r], at'[r] = at[r], hidden'[r] = hidden[r],
         knew'[r] = knew[r], pc'[r] = "audit", latest' # << >>,
         shots'[r] = Append(shots[r], s)
  PROVE  RequestOK(r)'
<1>1. /\ Where(r) /\ ShotsOK(r) /\ TextsOK(r) /\ hidden[r] = << >>
      /\ shots[r] \in Seq(Shot) /\ Len(shots[r]) \in Nat
      /\ at[r] \in Nat /\ at[r] < Len(content[r].images)
  BY RequestFacts DEF RequestOK, Where
<1>2. /\ Len(shots'[r]) = Len(shots[r]) + 1 /\ shots'[r][Len(shots[r]) + 1] = s
      /\ \A i \in 1..Len(shots[r]) : shots'[r][i] = shots[r][i]
      /\ \A i \in 1..(Len(shots[r]) + 1) : i \in 1..Len(shots[r]) \/ i = Len(shots[r]) + 1
  BY <1>1, Appended
<1>3. Where(r)'
  BY <1>1, <1>2 DEF Where
<1>4. ASSUME NEW i \in 1..Len(shots'[r])
      PROVE  shots'[r][i].image = content'[r].images[i] /\ Finished(shots[r][i])'
  <2>1. CASE i \in 1..Len(shots[r])
    <3>1. shots[r][i].image = content[r].images[i] /\ Finished(shots[r][i])
      BY <1>1, <2>1 DEF ShotsOK
    <3>2. shots'[r][i] = shots[r][i]
      BY <1>2, <2>1
    <3>3. QED
      BY <3>1, <3>2 DEF Finished, Covers, LineHidden
  <2>2. CASE i = Len(shots[r]) + 1
    <3>1. shots'[r][i] = s /\ s.image = content[r].images[i]
      BY <1>1, <1>2, <2>2, NextShot DEF Screenshot
    <3>2. QED
      BY <3>1 DEF Finished, Covers, LineHidden
  <2>3. QED
    BY <1>2, <2>1, <2>2
<1>5. knew'[r] \subseteq known'
  BY <1>1 DEF TextsOK
<1>6. QED
  BY <1>1, <1>3, <1>4, <1>5, NoTextsOK DEF RequestOK, ShotsOK

LEMMA PaintAgainKeeps ==
  ASSUME ViewInv, NEW r \in Request, PaintAgain(r)
  PROVE  ViewInv'
<1>1. PICK shot \in Range(painted) :
        /\ shot.image = Screenshot(r)
        /\ shots' = [shots EXCEPT ![r] = Append(@, shot)]
        /\ painted' = Append(Without(painted, shot.image), shot)
        /\ latest' = <<shot.image>>
  BY DEF PaintAgain
<1>2. /\ pc[r] = "frame" /\ painter = Nobody
      /\ pc' = [pc EXCEPT ![r] = "audit"]
      /\ UNCHANGED <<known, painter, canvas, left, content, at, hidden, manifest, knew>>
  BY DEF PaintAgain
<1>3. /\ ViewTypeOK /\ Painting /\ CacheOK /\ ManifestComplete /\ RequestOK(r)
  BY DEF ViewInv
<1>4. /\ painted \in Seq(Shot) /\ shot \in Shot /\ Distinct(painted)
      /\ \E i \in DOMAIN painted : painted[i].image = shot.image
  <2>1. painted \in Seq(Shot) /\ Distinct(painted)
    BY <1>3 DEF ViewTypeOK, Distinct
  <2>2. PICK i \in 1..Len(painted) : shot = painted[i]
    BY <2>1, RangeOfSeq
  <2>3. QED
    BY <2>1, <2>2, RangeOfSeq
<1> DEFINE w == Without(painted, shot.image)
<1>5. /\ w \in Seq(Shot) /\ Len(w) + 1 <= Len(painted) /\ Distinct(w)
      /\ Range(w) \subseteq Range(painted)
      /\ \A i \in DOMAIN w : w[i].image # shot.image
  BY <1>4, WithoutFacts
<1> HIDE DEF w
<1>6. /\ painted' = Append(w, shot) /\ painted' \in Seq(Shot)
      /\ Len(painted') = Len(w) + 1 /\ Range(painted') = Range(w) \cup {shot}
  BY <1>1, <1>4, <1>5, Appended, AppendedRange DEF w
<1>7. Distinct(painted')
  BY <1>4, <1>5, <1>6, DistinctAppended
<1>8. /\ Len(painted') <= PaintEntries
      /\ \A i, j \in DOMAIN painted' : painted'[i].image = painted'[j].image => i = j
  <2>1. Len(painted) <= PaintEntries /\ Len(painted) \in Nat /\ Len(w) \in Nat
        /\ PaintEntries \in Nat
    BY <1>3, <1>5, ViewAssumption DEF ViewTypeOK
  <2>2. QED
    BY <1>5, <1>6, <1>7, <2>1 DEF Distinct
<1>9. Finished(shot) /\ Finished(shot)'
  BY <1>2, <1>3 DEF CacheOK, Finished, Covers, LineHidden
<1>10. /\ shots' = [shots EXCEPT ![r] = Append(shots[r], shot)]
       /\ shots'[r] = Append(shots[r], shot) /\ Append(shots[r], shot) \in Seq(Shot)
       /\ pc'[r] = "audit"
       /\ Others(r) /\ shot.image \in Image
  <2>1. /\ shots \in [Request -> Seq(Shot)] /\ pc'[r] = "audit"
        /\ shots' = [shots EXCEPT ![r] = Append(shots[r], shot)]
    BY <1>1, <1>2, <1>3 DEF ViewTypeOK
  <2>2. Append(shots[r], shot) \in Seq(Shot) /\ shot.image \in Image
    <3>1. shots[r] \in Seq(Shot)
      BY <2>1
    <3>2. Append(shots[r], shot) \in Seq(Shot)
      BY <1>4, <3>1, Appended
    <3>3. shot.image \in Image
      BY <1>4 DEF Shot
    <3>4. QED
      BY <3>2, <3>3
  <2>3. Others(r)
    BY <1>2, <1>3, <2>1 DEF ViewTypeOK, Others
  <2>4. QED
    BY <2>1, <2>2, <2>3
<1>11. ViewTypeOK'
  <2>1. shots' \in [Request -> Seq(Shot)]
    BY <1>3, <1>10 DEF ViewTypeOK
  <2>2. latest' \in {<<m>> : m \in Image} \cup {<< >>}
    BY <1>1, <1>10
  <2>3. QED
    BY <1>2, <1>3, <1>6, <1>8, <2>1, <2>2 DEF ViewTypeOK
<1>12. latest' # << >>
  BY <1>1
<1>13. RequestOK(r)'
  BY <1>1, <1>2, <1>3, <1>4, <1>9, <1>10, <1>12, ShotAdded
<1>14. CacheOK'
  <2>1. ASSUME NEW s \in Range(painted') PROVE Finished(s)'
    BY <1>2, <1>3, <1>5, <1>6, <1>9, <2>1 DEF CacheOK, Finished, Covers, LineHidden
  <2>2. QED
    BY <2>1 DEF CacheOK
<1>15. Painting'
  BY <1>2 DEF Painting
<1>16. ManifestComplete'
  BY <1>3, <1>10, ManifestKept
<1>17. QED
  BY <1>2, <1>10, <1>11, <1>12, <1>13, <1>14, <1>15, <1>16, BystanderOK DEF ViewInv

LEMMA PaintBeginKeeps ==
  ASSUME ViewInv, NEW r \in Request, PaintBegin(r)
  PROVE  ViewInv'
<1>1. /\ pc[r] = "frame" /\ painter = Nobody /\ painter' = r
      /\ canvas' = Blank(Screenshot(r)) /\ left' = Lines[Screenshot(r)]
      /\ UNCHANGED <<known, painted, latest, pc, content, at, shots, hidden, manifest, knew>>
  BY DEF PaintBegin
<1>2. ViewTypeOK /\ CacheOK /\ ManifestComplete /\ RequestOK(r)
  BY DEF ViewInv
<1>3. Screenshot(r) \in Image /\ Screenshot(r)' = Screenshot(r)
  BY <1>1, <1>2, NextShot DEF RequestOK, Screenshot
<1>4. /\ canvas' \in Shot /\ canvas'.image = Screenshot(r) /\ canvas' # << >>
      /\ canvas'.tokens = {} /\ canvas'.knew = known
      /\ left' \in Seq(Line)
  <2>1. known \subseteq Value
    BY <1>2 DEF ViewTypeOK
  <2>2. left' \in Seq(Line)
    BY <1>1, <1>3, ViewAssumption
  <2>3. canvas' = [image |-> Screenshot(r), hides |-> {}, tokens |-> {}, knew |-> known]
    BY <1>1 DEF Blank
  <2>4. canvas' # << >>
    BY <2>3
  <2>5. QED
    BY <1>3, <2>1, <2>2, <2>3, <2>4 DEF Shot
<1>5. ViewTypeOK'
  <2>1. painter' \in Request \cup {Nobody} /\ painter' # Nobody
    BY <1>1, ViewAssumption
  <2>2. QED
    BY <1>1, <1>2, <1>4, <2>1 DEF ViewTypeOK
<1>6. Painting'
  BY <1>1, <1>3, <1>4 DEF Painting
<1>7. Others(r)
  BY <1>1 DEF Others
<1>8. RequestOK(r)'
  <2>1. Where(r)'
    BY <1>1, <1>2 DEF RequestOK, Where
  <2>2. ShotsOK(r)'
    BY <1>1, <1>2, ShotsKept DEF RequestOK
  <2>3. TextsOK(r)'
    <3>1. hidden[r] = << >> /\ knew[r] \subseteq known
      BY <1>1, <1>2 DEF RequestOK, Where, TextsOK
    <3>2. QED
      BY <1>1, <3>1, NoTextsOK
  <2>4. QED
    BY <2>1, <2>2, <2>3 DEF RequestOK
<1>9. ManifestComplete' /\ CacheOK'
  BY <1>1, <1>2, <1>7, ManifestKept, CacheKept
<1>10. QED
  BY <1>1, <1>5, <1>6, <1>7, <1>8, <1>9, BystanderOK DEF ViewInv

LEMMA LineTypes ==
  ASSUME NEW m \in Image
  PROVE  /\ Lines[m] \in Seq(Line)
         /\ \A l \in Range(Lines[m]) : l \in Line /\ l.found \subseteq l.reads
<1>1. Lines[m] \in Seq(Line) /\ \A l \in Range(Lines[m]) : l.found \subseteq l.reads
  BY ViewAssumption
<1>2. QED
  BY <1>1, RangeOfSeq

LEMMA PaintLineKeeps ==
  ASSUME ViewInv, NEW r \in Request, PaintLine(r)
  PROVE  ViewInv'
<1> DEFINE line == Head(left)
           chips == Chips(line, known')
           covered == canvas.hides \cup (IF line.found \cup chips # {} THEN line.reads ELSE {})
<1>1. /\ pc[r] = "frame" /\ painter = r /\ left # << >>
      /\ left' = Tail(left)
      /\ known' = known \cup (line.found \ Blocked)
      /\ canvas' = [canvas EXCEPT !.hides = covered, !.tokens = @ \cup chips]
      /\ UNCHANGED <<painter, painted, latest, pc, content, at, shots, hidden, manifest, knew>>
  BY DEF PaintLine
<1>2. ViewTypeOK /\ Painting /\ CacheOK /\ ManifestComplete /\ RequestOK(r)
  BY DEF ViewInv
<1>3. /\ canvas \in Shot /\ canvas # << >> /\ painter # Nobody
      /\ left \in Seq(Line) /\ known \subseteq Value \ Blocked
  BY <1>1, <1>2, ViewAssumption DEF ViewTypeOK
<1>4. /\ line \in Line /\ Tail(left) \in Seq(Line)
      /\ \A l \in Range(left) : l = line \/ l \in Range(Tail(left))
  BY <1>1, <1>3, RangeTail
<1> HIDE DEF line
<1>5. line.reads \subseteq Value /\ line.found \subseteq Value
  BY <1>4 DEF Line
<1>6. /\ chips = (line.found \ Blocked) \cup (line.reads \cap known')
      /\ known \subseteq known' /\ known' \subseteq Value \ Blocked
      /\ chips \subseteq known'
  BY <1>1, <1>3, <1>5 DEF Chips
<1> HIDE DEF chips
<1>7. covered \subseteq Value
  BY <1>3, <1>5 DEF Shot
<1>8. line.found \subseteq line.reads
        => line.found \cup (line.reads \cap canvas.knew) \subseteq covered
  <2>1. canvas.knew \subseteq known
    BY <1>2, <1>3 DEF Painting
  <2>2. QED
    BY <1>6, <2>1
<1>9. canvas.hides \subseteq covered
  OBVIOUS
<1> HIDE DEF covered
<1>10. /\ canvas'.image = canvas.image /\ canvas'.knew = canvas.knew
       /\ canvas'.hides = covered /\ canvas'.tokens = canvas.tokens \cup chips
       /\ canvas' \in Shot /\ canvas' # << >>
  <2>1. canvas' = [image |-> canvas.image, hides |-> covered,
                   tokens |-> canvas.tokens \cup chips, knew |-> canvas.knew]
    BY <1>1, <1>3 DEF Shot
  <2>2. canvas.tokens \cup chips \subseteq Value
    BY <1>3, <1>6 DEF Shot
  <2>3. canvas' # << >>
    BY <2>1
  <2>4. QED
    BY <1>3, <1>7, <2>1, <2>2, <2>3 DEF Shot
<1>11. ViewTypeOK'
  BY <1>1, <1>2, <1>3, <1>4, <1>6, <1>10 DEF ViewTypeOK
<1>12. Painting'
  <2>1. /\ canvas.image = Screenshot(r) /\ canvas.tokens \subseteq known
        /\ canvas.knew \subseteq known /\ canvas.image \in Image
    BY <1>1, <1>2, <1>3 DEF Painting, Shot
  <2>2. ASSUME NEW l \in Range(Lines[canvas.image])
        PROVE  l \in Range(left') \/ LineHidden(l, canvas)'
    <3>1. l.found \subseteq l.reads
      BY <2>1, LineTypes
    <3>2. l \in Range(left) \/ LineHidden(l, canvas)
      BY <1>1, <1>2, <1>3 DEF Painting
    <3>3. CASE LineHidden(l, canvas)
      BY <1>9, <1>10, <3>3 DEF LineHidden
    <3>4. CASE l = line
      BY <1>8, <1>10, <3>1, <3>4 DEF LineHidden
    <3>5. CASE l \in Range(Tail(left))
      BY <1>1, <3>5
    <3>6. QED
      BY <1>4, <3>2, <3>3, <3>4, <3>5
  <2>3. Screenshot(r)' = Screenshot(r)
    BY <1>1 DEF Screenshot
  <2>4. QED
    BY <1>1, <1>6, <1>10, <2>1, <2>2, <2>3 DEF Painting
<1>13. Others(r)
  BY <1>1 DEF Others
<1>14. RequestOK(r)'
  <2>1. Where(r)'
    BY <1>1, <1>2 DEF RequestOK, Where
  <2>2. ShotsOK(r)'
    BY <1>1, <1>2, <1>6, ShotsKept DEF RequestOK
  <2>3. TextsOK(r)'
    <3>1. hidden[r] = << >> /\ knew[r] \subseteq known
      BY <1>1, <1>2 DEF RequestOK, Where, TextsOK
    <3>2. QED
      BY <1>1, <1>6, <3>1, NoTextsOK
  <2>4. QED
    BY <2>1, <2>2, <2>3 DEF RequestOK
<1>15. ManifestComplete' /\ CacheOK'
  BY <1>1, <1>2, <1>6, <1>13, ManifestKept, CacheKept
<1>16. QED
  BY <1>1, <1>6, <1>11, <1>12, <1>13, <1>14, <1>15, BystanderOK DEF ViewInv

LEMMA PaintEndKeeps ==
  ASSUME ViewInv, NEW r \in Request, PaintEnd(r)
  PROVE  ViewInv'
<1> DEFINE w == Without(painted, canvas.image)
           q == Append(w, canvas)
<1>1. /\ pc[r] = "frame" /\ painter = r /\ left = << >>
      /\ shots' = [shots EXCEPT ![r] = Append(shots[r], canvas)]
      /\ painted' = Newest(q, PaintEntries)
      /\ latest' = <<canvas.image>>
      /\ painter' = Nobody /\ canvas' = << >>
      /\ pc' = [pc EXCEPT ![r] = "audit"]
      /\ UNCHANGED <<known, left, content, at, hidden, manifest, knew>>
  BY DEF PaintEnd
<1>2. ViewTypeOK /\ Painting /\ CacheOK /\ ManifestComplete /\ RequestOK(r)
  BY DEF ViewInv
<1>3. /\ canvas \in Shot /\ canvas.image \in Image /\ painter # Nobody
      /\ canvas.image = Screenshot(r)
  BY <1>1, <1>2, ViewAssumption DEF ViewTypeOK, Painting, Shot
<1>4. Finished(canvas)
  <2>1. \A l : l \notin Range(left)
    BY <1>1 DEF Range
  <2>2. QED
    BY <1>1, <1>2, <1>3, <2>1 DEF Painting, Finished, Covers
<1>5. painted \in Seq(Shot) /\ Distinct(painted) /\ PaintEntries \in Nat
  BY <1>2, ViewAssumption DEF ViewTypeOK, Distinct
<1>6. /\ w \in Seq(Shot) /\ Distinct(w) /\ Range(w) \subseteq Range(painted)
      /\ \A i \in DOMAIN w : w[i].image # canvas.image
  BY <1>5, WithoutFacts
<1> HIDE DEF w
<1>7. q \in Seq(Shot) /\ Range(q) = Range(w) \cup {canvas} /\ Distinct(q)
  BY <1>3, <1>6, Appended, AppendedRange, DistinctAppended
<1> HIDE DEF q
<1>8. /\ painted' \in Seq(Shot) /\ Len(painted') <= PaintEntries
      /\ Distinct(painted') /\ Range(painted') \subseteq Range(q)
  BY <1>1, <1>5, <1>7, NewestFacts, NewestRange, NewestDistinct
<1>9. /\ shots' \in [Request -> Seq(Shot)] /\ shots'[r] = Append(shots[r], canvas)
      /\ pc'[r] = "audit" /\ Others(r)
  <2>1. shots \in [Request -> Seq(Shot)] /\ shots[r] \in Seq(Shot)
    BY <1>2 DEF ViewTypeOK
  <2>2. Append(shots[r], canvas) \in Seq(Shot)
    BY <1>3, <2>1, Appended
  <2>3. shots' \in [Request -> Seq(Shot)] /\ shots'[r] = Append(shots[r], canvas)
    BY <1>1, <2>1, <2>2
  <2>4. pc'[r] = "audit" /\ Others(r)
    BY <1>1, <1>2 DEF ViewTypeOK, Others
  <2>5. QED
    BY <2>3, <2>4
<1>10. latest' \in {<<m>> : m \in Image} \cup {<< >>} /\ latest' # << >>
  BY <1>1, <1>3
<1>11. ViewTypeOK'
  BY <1>1, <1>2, <1>8, <1>9, <1>10 DEF ViewTypeOK, Distinct
<1>13. ASSUME NEW s, Finished(s) PROVE Finished(s)'
  BY <1>1, <1>13 DEF Finished, Covers, LineHidden
<1>14. RequestOK(r)'
  <2> DEFINE s == canvas
  <2>1. s \in Shot /\ s.image = Screenshot(r) /\ Finished(s)
    BY <1>3, <1>4
  <2>2. shots'[r] = Append(shots[r], s)
    BY <1>9
  <2>3. QED
    BY <1>1, <1>2, <1>9, <1>10, <1>13, <2>1, <2>2, ShotAdded
<1>15. CacheOK'
  <2>1. ASSUME NEW s \in Range(painted') PROVE Finished(s)'
    <3>1. Finished(s)
      BY <1>2, <1>4, <1>6, <1>7, <1>8 DEF CacheOK
    <3>2. QED
      BY <1>13, <3>1
  <2>2. QED
    BY <2>1 DEF CacheOK
<1>16. Painting' /\ ManifestComplete'
  BY <1>1, <1>2, <1>9, ManifestKept DEF Painting
<1>17. QED
  BY <1>1, <1>9, <1>10, <1>11, <1>14, <1>15, <1>16, BystanderOK DEF ViewInv

\* A request goes on to its texts, or past them.
LEMMA NextStage ==
  ASSUME ViewTypeOK, NEW r \in Request
  PROVE  /\ AfterFrames(content[r]) = "plain" =>
              Len(content[r].texts) > 0
         /\ AfterFrames(content[r]) # "plain" =>
              AfterFrames(content[r]) = "ready" /\ Len(content[r].texts) = 0
<1>1. content[r].texts \in Seq(Text)
  BY RequestFacts
<1>2. QED
  BY <1>1 DEF AfterFrames

LEMMA AuditedKeeps ==
  ASSUME ViewInv, NEW r \in Request, Audited(r)
  PROVE  ViewInv'
<1> DEFINE n == Len(content[r].images)
           next == AfterFrames(content[r])
<1>1. /\ pc[r] = "audit" /\ painter = Nobody
      /\ at' = [at EXCEPT ![r] = IF @ + 1 < n THEN @ + 1 ELSE 0]
      /\ pc' = [pc EXCEPT ![r] = IF at[r] + 1 < n THEN "frame" ELSE next]
      /\ UNCHANGED <<known, painter, canvas, left, painted, latest, content, shots, hidden,
                     manifest, knew>>
  BY DEF Audited, Passes, paintVars
<1>2. ViewTypeOK /\ Painting /\ CacheOK /\ ManifestComplete /\ RequestOK(r)
  BY DEF ViewInv
<1>3. /\ at[r] \in Nat /\ n \in Nat /\ at[r] < n /\ Len(shots[r]) = at[r] + 1
      /\ hidden[r] = << >> /\ knew[r] \subseteq known
  BY <1>1, <1>2, RequestFacts DEF RequestOK, Where, TextsOK
<1>4. next = "plain" \/ next = "ready"
  BY DEF AfterFrames
<1>5. /\ next = "plain" => 0 < Len(content[r].texts)
      /\ next = "ready" => Len(content[r].texts) = 0
  BY <1>2, NextStage
<1> HIDE DEF next, n
<1>6. /\ at'[r] = IF at[r] + 1 < n THEN at[r] + 1 ELSE 0
      /\ pc'[r] = IF at[r] + 1 < n THEN "frame" ELSE next
      /\ Others(r)
  BY <1>1, <1>2 DEF ViewTypeOK, Others
<1>7. ViewTypeOK'
  <2>1. at' \in [Request -> Nat]
    BY <1>1, <1>2, <1>3 DEF ViewTypeOK
  <2>2. pc' \in [Request -> {"new", "frame", "audit", "plain", "apply", "ready", "out",
                             "failed"}]
    BY <1>1, <1>2, <1>4 DEF ViewTypeOK
  <2>3. QED
    BY <1>1, <1>2, <2>1, <2>2 DEF ViewTypeOK
<1>8. Where(r)'
  <2>1. CASE at[r] + 1 < n
    BY <1>1, <1>3, <1>6, <2>1 DEF Where, n
  <2>2. CASE ~(at[r] + 1 < n)
    <3>1. Len(shots[r]) = n /\ at'[r] = 0 /\ pc'[r] = next /\ Len(hidden[r]) = 0
      BY <1>3, <1>6, <2>2
    <3>2. QED
      BY <1>1, <1>3, <1>4, <1>5, <3>1 DEF Where, n
  <2>3. QED
    BY <2>1, <2>2
<1>9. RequestOK(r)'
  BY <1>1, <1>2, <1>3, <1>8, ShotsKept, NoTextsOK DEF RequestOK
<1>10. Painting'
  BY <1>1 DEF Painting
<1>11. CacheOK' /\ ManifestComplete'
  BY <1>1, <1>2, <1>4, <1>6, CacheKept, ManifestKept
<1>12. QED
  BY <1>1, <1>6, <1>7, <1>9, <1>10, <1>11, BystanderOK DEF ViewInv

LEMMA ScrubPlainKeeps ==
  ASSUME ViewInv, NEW r \in Request, ScrubPlain(r)
  PROVE  ViewInv'
<1> DEFINE n == Len(content[r].texts)
           replaced == Replaced(r)
<1>1. /\ pc[r] = "plain"
      /\ hidden' = [hidden EXCEPT ![r] = Append(hidden[r], replaced)]
      /\ at' = [at EXCEPT ![r] = IF @ + 1 < n THEN @ + 1 ELSE 0]
      /\ pc' = [pc EXCEPT ![r] = IF at[r] + 1 < n THEN "plain" ELSE "apply"]
      /\ UNCHANGED <<known, painter, canvas, left, painted, latest, content, shots, manifest,
                     knew>>
  BY DEF ScrubPlain, Passes, paintVars
<1>2. ViewTypeOK /\ Painting /\ CacheOK /\ ManifestComplete /\ RequestOK(r)
  BY DEF ViewInv
<1>3. /\ at[r] \in Nat /\ n \in Nat /\ at[r] < n /\ Len(hidden[r]) = at[r]
      /\ Len(shots[r]) = Len(content[r].images)
      /\ hidden[r] \in Seq(SUBSET Value) /\ content[r].texts \in Seq(Text)
  BY <1>1, <1>2, RequestFacts DEF RequestOK, Where
<1>4. /\ History(r) = content[r].texts[at[r] + 1] /\ History(r) \in Text
      /\ replaced = Holds[History(r)] \cap known
      /\ replaced \subseteq Value
  <2>1. at[r] + 1 \in 1..n
    BY <1>3
  <2>2. History(r) \in Text
    BY <1>3, <2>1 DEF History
  <2>3. QED
    BY <2>2, ViewAssumption DEF Replaced, History
<1> HIDE DEF replaced, n
<1>5. /\ hidden'[r] = Append(hidden[r], replaced)
      /\ at'[r] = IF at[r] + 1 < n THEN at[r] + 1 ELSE 0
      /\ pc'[r] = IF at[r] + 1 < n THEN "plain" ELSE "apply"
      /\ Others(r)
  BY <1>1, <1>2 DEF ViewTypeOK, Others
<1>6. /\ hidden'[r] \in Seq(SUBSET Value) /\ Len(hidden'[r]) = Len(hidden[r]) + 1
      /\ hidden'[r][Len(hidden[r]) + 1] = replaced
      /\ \A i \in 1..Len(hidden[r]) : hidden'[r][i] = hidden[r][i]
      /\ \A i \in 1..(Len(hidden[r]) + 1) : i \in 1..Len(hidden[r]) \/ i = Len(hidden[r]) + 1
  <2>1. replaced \in SUBSET Value
    BY <1>4
  <2>2. QED
    BY <1>3, <1>5, <2>1, Appended
<1>7. ViewTypeOK'
  <2>1. at' \in [Request -> Nat]
    BY <1>1, <1>2, <1>3 DEF ViewTypeOK
  <2>2. pc' \in [Request -> {"new", "frame", "audit", "plain", "apply", "ready", "out",
                             "failed"}]
    BY <1>1, <1>2 DEF ViewTypeOK
  <2>3. hidden' \in [Request -> Seq(SUBSET Value)]
    BY <1>1, <1>2, <1>5, <1>6 DEF ViewTypeOK
  <2>4. QED
    BY <1>1, <1>2, <2>1, <2>2, <2>3 DEF ViewTypeOK
<1>8. Where(r)'
  <2>1. CASE at[r] + 1 < n
    BY <1>1, <1>3, <1>5, <1>6, <2>1 DEF Where, n
  <2>2. CASE ~(at[r] + 1 < n)
    <3>1. Len(hidden'[r]) = n /\ at'[r] = 0 /\ at'[r] < n /\ pc'[r] = "apply"
      BY <1>3, <1>5, <1>6, <2>2
    <3>2. QED
      BY <1>1, <1>3, <3>1 DEF Where, n
  <2>3. QED
    BY <2>1, <2>2
<1>9. TextsOK(r)'
  <2>1. OnScreen(r)' = OnScreen(r) /\ OnScreen(r) \subseteq known /\ knew[r] \subseteq known
    BY <1>1, <1>2, SameScreen, ScreenKnown DEF RequestOK, TextsOK
  <2>2. ASSUME NEW i \in 1..Len(hidden'[r]) PROVE TextSafe(r, i)'
    <3>1. ~(pc'[r] \in {"ready", "out"} \/ (pc'[r] = "apply" /\ i <= at'[r]))
      BY <1>3, <1>5, <1>6
    <3>2. CASE i \in 1..Len(hidden[r])
      <4>1. TextSafe(r, i) /\ hidden'[r][i] = hidden[r][i]
        BY <1>2, <1>6, <3>2 DEF RequestOK, TextsOK
      <4>2. QED
        BY <1>1, <2>1, <3>1, <4>1 DEF TextSafe
    <3>3. CASE i = Len(hidden[r]) + 1
      <4>1. hidden'[r][i] = Holds[content[r].texts[i]] \cap known
        BY <1>3, <1>4, <1>6, <3>3
      <4>2. QED
        BY <1>1, <2>1, <3>1, <4>1 DEF TextSafe
    <3>4. QED
      BY <1>6, <3>2, <3>3
  <2>3. QED
    BY <1>1, <2>1, <2>2 DEF TextsOK
<1>10. RequestOK(r)'
  BY <1>1, <1>2, <1>8, <1>9, ShotsKept DEF RequestOK
<1>11. painter # r
  BY <1>1, <1>2, ViewAssumption DEF Painting
<1>12. Painting' /\ CacheOK' /\ ManifestComplete'
  BY <1>1, <1>2, <1>5, <1>11, PaintingKept, CacheKept, ManifestKept DEF ViewTypeOK
<1>13. QED
  BY <1>1, <1>5, <1>7, <1>10, <1>12, BystanderOK DEF ViewInv

LEMMA ApplyKeeps ==
  ASSUME ViewInv, NEW r \in Request, ApplyClassification(r)
  PROVE  ViewInv'
<1> DEFINE n == Len(content[r].texts)
           k == at[r] + 1
           found == Recognises[History(r)] \ hidden[r][k]
<1>1. /\ pc[r] = "apply"
      /\ hidden' = [hidden EXCEPT ![r] = [hidden[r] EXCEPT ![k] = @ \cup found]]
      /\ known' = known \cup (found \ Blocked)
      /\ at' = [at EXCEPT ![r] = IF @ + 1 < n THEN @ + 1 ELSE 0]
      /\ pc' = [pc EXCEPT ![r] = IF at[r] + 1 < n THEN "apply" ELSE "ready"]
      /\ UNCHANGED <<painter, canvas, left, painted, latest, content, shots, manifest, knew>>
  <2>1. hidden' = [hidden EXCEPT ![r][k] = @ \cup found]
    BY DEF ApplyClassification
  <2>2. hidden' = [hidden EXCEPT ![r] = [hidden[r] EXCEPT ![k] = @ \cup found]]
    BY <2>1
  <2>3. QED
    BY <2>2 DEF ApplyClassification, Passes, paintVars
<1>2. ViewTypeOK /\ Painting /\ CacheOK /\ ManifestComplete /\ RequestOK(r)
  BY DEF ViewInv
<1>3. /\ at[r] \in Nat /\ n \in Nat /\ at[r] < n /\ Len(hidden[r]) = n
      /\ Len(shots[r]) = Len(content[r].images)
      /\ hidden[r] \in Seq(SUBSET Value) /\ content[r].texts \in Seq(Text)
  BY <1>1, <1>2, RequestFacts DEF RequestOK, Where
<1>4. k \in 1..n /\ History(r) = content[r].texts[k] /\ History(r) \in Text
  <2>1. k \in 1..n
    BY <1>3
  <2>2. QED
    BY <1>3, <2>1 DEF History
<1>5. /\ Recognises[History(r)] \subseteq Value /\ found \subseteq Value
      /\ hidden[r][k] \subseteq Value
      /\ Recognises[History(r)] \subseteq hidden[r][k] \cup found
  BY <1>3, <1>4, ViewAssumption
<1> HIDE DEF found, k, n
<1>6. /\ hidden'[r] = [hidden[r] EXCEPT ![k] = @ \cup found]
      /\ at'[r] = IF at[r] + 1 < n THEN at[r] + 1 ELSE 0
      /\ pc'[r] = IF at[r] + 1 < n THEN "apply" ELSE "ready"
      /\ Others(r) /\ known \subseteq known'
  BY <1>1, <1>2 DEF ViewTypeOK, Others
<1>7. /\ hidden'[r] \in Seq(SUBSET Value) /\ Len(hidden'[r]) = n
      /\ hidden'[r][k] = hidden[r][k] \cup found
      /\ \A i \in 1..n : i # k => hidden'[r][i] = hidden[r][i]
  <2>1. hidden[r][k] \cup found \in SUBSET Value /\ k \in 1..Len(hidden[r])
    BY <1>3, <1>4, <1>5
  <2>2. QED
    BY <1>3, <1>4, <1>6, <2>1
<1>8. ViewTypeOK'
  <2>1. at' \in [Request -> Nat]
    BY <1>1, <1>2, <1>3 DEF ViewTypeOK
  <2>2. pc' \in [Request -> {"new", "frame", "audit", "plain", "apply", "ready", "out",
                             "failed"}]
    BY <1>1, <1>2 DEF ViewTypeOK
  <2>3. hidden' \in [Request -> Seq(SUBSET Value)]
    BY <1>1, <1>2, <1>6, <1>7 DEF ViewTypeOK
  <2>4. known' \subseteq Value \ Blocked
    BY <1>1, <1>2, <1>5 DEF ViewTypeOK
  <2>5. QED
    BY <1>1, <1>2, <2>1, <2>2, <2>3, <2>4 DEF ViewTypeOK
<1>9. Where(r)'
  <2>1. CASE at[r] + 1 < n
    BY <1>1, <1>3, <1>6, <1>7, <2>1 DEF Where, n
  <2>2. CASE ~(at[r] + 1 < n)
    BY <1>1, <1>3, <1>6, <1>7, <2>2 DEF Where, n
  <2>3. QED
    BY <2>1, <2>2
<1>10. TextsOK(r)'
  <2>1. OnScreen(r)' = OnScreen(r) /\ knew[r] \subseteq known
    BY <1>1, <1>2, SameScreen DEF RequestOK, TextsOK
  <2>2. ASSUME NEW i \in 1..n PROVE TextSafe(r, i)'
    <3>1. TextSafe(r, i)
      BY <1>2, <1>3 DEF RequestOK, TextsOK
    <3>2. CASE i = k
      <4>1. /\ hidden'[r][i] = hidden[r][i] \cup found
            /\ Recognises[content[r].texts[i]] \subseteq hidden'[r][i]
            /\ hidden'[r][i] \ Blocked \subseteq known'
        BY <1>1, <1>4, <1>5, <1>7, <3>1, <3>2 DEF TextSafe
      <4>2. QED
        BY <1>1, <2>1, <3>1, <4>1 DEF TextSafe
    <3>3. CASE i # k
      <4>1. hidden'[r][i] = hidden[r][i]
        BY <1>7, <3>3
      <4>2. pc'[r] \in {"ready", "out"} \/ (pc'[r] = "apply" /\ i <= at'[r]) => i <= at[r]
        BY <1>3, <1>6, <3>3 DEF k
      <4>3. QED
        BY <1>1, <1>6, <2>1, <3>1, <4>1, <4>2 DEF TextSafe
    <3>4. QED
      BY <3>2, <3>3
  <2>3. QED
    BY <1>1, <1>7, <2>1, <2>2 DEF TextsOK
<1>11. RequestOK(r)'
  BY <1>1, <1>2, <1>6, <1>9, <1>10, ShotsKept DEF RequestOK
<1>12. painter # r
  BY <1>1, <1>2, ViewAssumption DEF Painting
<1>13. Painting' /\ CacheOK' /\ ManifestComplete'
  BY <1>1, <1>2, <1>6, <1>12, PaintingKept, CacheKept, ManifestKept DEF ViewTypeOK
<1>14. QED
  BY <1>1, <1>6, <1>8, <1>11, <1>13, BystanderOK DEF ViewInv

LEMMA DispatchKeeps ==
  ASSUME ViewInv, NEW r \in Request, Dispatch(r)
  PROVE  ViewInv'
<1> DEFINE tells == IF shots[r] = << >> THEN {} ELSE Named(r)
<1>1. /\ pc[r] = "ready"
      /\ manifest' = [manifest EXCEPT ![r] = tells]
      /\ pc' = [pc EXCEPT ![r] = "out"]
      /\ UNCHANGED <<known, painter, canvas, left, painted, latest, content, at, shots, hidden,
                     knew>>
  BY DEF Dispatch, paintVars
<1>2. ViewTypeOK /\ Painting /\ CacheOK /\ ManifestComplete /\ RequestOK(r)
  BY DEF ViewInv
<1>3. OnScreen(r) \subseteq known /\ known \subseteq Value
  BY <1>2, ScreenKnown DEF RequestOK, ViewTypeOK
<1>4. shots[r] # << >> => known \subseteq tells /\ tells \subseteq Value
  <2>1. CASE shots[r] # << >>
    <3>1. Len(shots[r]) \in 1..Len(shots[r]) /\ shots[r] \in Seq(Shot)
      BY <1>2, <2>1, RequestFacts
    <3>2. shots[r][Len(shots[r])] \in Shot
      BY <3>1
    <3>3. Visible(r) \subseteq Value
      BY <3>2 DEF Visible, Shot
    <3>4. QED
      BY <1>3, <2>1, <3>3 DEF Named
  <2>2. QED
    BY <2>1
<1>5. tells \subseteq Value
  BY <1>4
<1> HIDE DEF tells
<1>6. manifest'[r] = tells /\ pc'[r] = "out" /\ Others(r)
  BY <1>1, <1>2 DEF ViewTypeOK, Others
<1>7. ViewTypeOK'
  <2>1. manifest' \in [Request -> SUBSET Value]
    BY <1>1, <1>2, <1>5 DEF ViewTypeOK
  <2>2. pc' \in [Request -> {"new", "frame", "audit", "plain", "apply", "ready", "out",
                             "failed"}]
    BY <1>1, <1>2 DEF ViewTypeOK
  <2>3. QED
    BY <1>1, <1>2, <2>1, <2>2 DEF ViewTypeOK
<1>8. Where(r)'
  BY <1>1, <1>2, <1>6 DEF RequestOK, Where
<1>9. OnScreen(r)' = OnScreen(r)
  BY <1>1, SameScreen
<1>10. TextsOK(r)'
  <2>1. ASSUME NEW i \in 1..Len(hidden'[r]) PROVE TextSafe(r, i)'
    <3>1. TextSafe(r, i)
      BY <1>1, <1>2 DEF RequestOK, TextsOK
    <3>2. QED
      BY <1>1, <1>9, <3>1 DEF TextSafe
  <2>2. QED
    BY <1>1, <1>2, <2>1 DEF RequestOK, TextsOK
<1>11. RequestOK(r)'
  BY <1>1, <1>2, <1>8, <1>10, ShotsKept DEF RequestOK
<1>12. painter # r
  BY <1>1, <1>2, ViewAssumption DEF Painting
<1>13. Painting' /\ CacheOK'
  BY <1>1, <1>2, <1>6, <1>12, PaintingKept, CacheKept DEF ViewTypeOK
<1>14. ManifestComplete'
  <2>1. ASSUME NEW q \in Request, pc'[q] = "out", shots'[q] # << >>
        PROVE  OnScreen(q)' \cup UNION {hidden'[q][i] \ Blocked : i \in DOMAIN hidden'[q]}
                 \subseteq manifest'[q]
    <3>1. CASE q = r
      <4>1. ASSUME NEW i \in DOMAIN hidden[r] PROVE hidden[r][i] \ Blocked \subseteq known
        <5>1. i \in 1..Len(hidden[r])
          BY <1>2, <4>1, RequestFacts
        <5>2. QED
          BY <1>2, <5>1 DEF RequestOK, TextsOK, TextSafe
      <4>2. UNION {hidden[r][i] \ Blocked : i \in DOMAIN hidden[r]} \subseteq known
        BY <4>1
      <4>3. QED
        BY <1>1, <1>3, <1>4, <1>6, <1>9, <2>1, <3>1, <4>2
    <3>2. CASE q # r
      BY <1>2, <1>6, <2>1, <3>2, SameScreen DEF ManifestComplete, Out, Others
    <3>3. QED
      BY <3>1, <3>2
  <2>2. QED
    BY <2>1 DEF ManifestComplete, Out
<1>15. QED
  BY <1>1, <1>6, <1>7, <1>11, <1>13, <1>14, BystanderOK DEF ViewInv

LEMMA FailsKeeps ==
  ASSUME ViewInv, NEW r \in Request, Fails(r)
  PROVE  ViewInv'
<1>1. /\ pc' = [pc EXCEPT ![r] = "failed"]
      /\ \/ painter = r /\ painter' = Nobody /\ canvas' = << >> /\ left' = << >>
         \/ painter # r /\ UNCHANGED <<painter, canvas, left>>
      /\ UNCHANGED <<known, painted, latest, content, at, shots, hidden, manifest, knew>>
  BY DEF Fails
<1>2. ViewTypeOK /\ Painting /\ CacheOK /\ ManifestComplete /\ RequestOK(r)
  BY DEF ViewInv
<1>3. pc'[r] = "failed" /\ Others(r)
  BY <1>1, <1>2 DEF ViewTypeOK, Others
<1>4. ViewTypeOK'
  <2>1. pc' \in [Request -> {"new", "frame", "audit", "plain", "apply", "ready", "out",
                             "failed"}]
    BY <1>1, <1>2 DEF ViewTypeOK
  <2>2. /\ painter' \in Request \cup {Nobody} /\ left' \in Seq(Line)
        /\ canvas' \in Shot \cup {<< >>}
        /\ (canvas' = << >>) = (painter' = Nobody)
    <3>1. << >> \in Seq(Line)
      OBVIOUS
    <3>2. CASE painter = r
      BY <1>1, <2>1, <3>1, <3>2, ViewAssumption
    <3>3. CASE painter # r
      BY <1>1, <1>2, <3>3 DEF ViewTypeOK
    <3>4. QED
      BY <3>2, <3>3
  <2>3. QED
    BY <1>1, <1>2, <2>1, <2>2 DEF ViewTypeOK
<1>5. Where(r)'
  BY <1>1, <1>3 DEF Where
<1>6. TextsOK(r)'
  <2>1. OnScreen(r)' = OnScreen(r)
    BY <1>1, SameScreen
  <2>2. ASSUME NEW i \in 1..Len(hidden'[r]) PROVE TextSafe(r, i)'
    <3>1. TextSafe(r, i)
      BY <1>1, <1>2 DEF RequestOK, TextsOK
    <3>2. QED
      BY <1>1, <1>3, <2>1, <3>1 DEF TextSafe
  <2>3. QED
    BY <1>1, <1>2, <2>2 DEF RequestOK, TextsOK
<1>7. RequestOK(r)'
  BY <1>1, <1>2, <1>5, <1>6, ShotsKept DEF RequestOK
<1>8. Painting'
  <2>1. CASE painter = r
    BY <1>1, <2>1, <1>2, ViewAssumption DEF Painting
  <2>2. CASE painter # r
    BY <1>1, <1>2, <1>3, <2>2, PaintingKept DEF ViewTypeOK
  <2>3. QED
    BY <2>1, <2>2
<1>9. CacheOK' /\ ManifestComplete'
  BY <1>1, <1>2, <1>3, CacheKept, ManifestKept
<1>10. QED
  BY <1>1, <1>3, <1>4, <1>7, <1>8, <1>9, BystanderOK DEF ViewInv

\* What one step of the relay does to the hooks.
HookMoves(r) ==
  \/ \E c \in Content : Arrive(r, c)
  \/ HookStep(r) \/ Audited(r) \/ Dispatch(r) \/ Fails(r)

LEMMA HooksKeep ==
  ASSUME ViewInv, NEW r \in Request, HookMoves(r)
  PROVE  ViewInv'
BY ArriveKeeps, PaintAgainKeeps, PaintBeginKeeps, PaintLineKeeps, PaintEndKeeps,
   AuditedKeeps, ScrubPlainKeeps, ApplyKeeps, DispatchKeeps, FailsKeeps
   DEF HookMoves, HookStep

LEMMA ViewSame == ViewInv /\ UNCHANGED viewVars => ViewInv'
<1> SUFFICES ASSUME ViewInv, UNCHANGED viewVars PROVE ViewInv'
  OBVIOUS
<1>1. UNCHANGED <<known, painter, canvas, left, painted, latest, pc, content, at, shots,
                  hidden, manifest, knew>>
  BY DEF viewVars
<1>2. ViewTypeOK' /\ Painting' /\ CacheOK' /\ ManifestComplete'
  BY <1>1 DEF ViewInv, ViewTypeOK, Painting, LineHidden, Screenshot, CacheOK, Finished, Covers,
     ManifestComplete, Out, OnScreen
<1>3. ASSUME NEW r \in Request PROVE RequestOK(r)'
  BY <1>1 DEF ViewInv, RequestOK, Where, ShotsOK, Finished, Covers, LineHidden, TextsOK,
     TextSafe, OnScreen
<1>4. QED
  BY <1>2, <1>3 DEF ViewInv

LEMMA RelayMoves ==
  ASSUME NEW r \in Request, RelayStep(r)
  PROVE  HookMoves(r) \/ UNCHANGED viewVars
BY DEF RelayStep, HookMoves, Audit, Send, UpstreamFails, UpstreamAnswers, ReadFails, PassOn,
   LoopFails, ToolRuns, Continues, Return

LEMMA ViewInductive == Spec => []ViewInv
<1>1. Init => ViewInv
  BY ViewStart DEF Init
<1>2. ViewInv /\ [Next]_vars => ViewInv'
  <2> SUFFICES ASSUME ViewInv, [Next]_vars PROVE ViewInv'
    OBVIOUS
  <2>1. CASE UNCHANGED vars
    BY <2>1, ViewSame DEF vars, viewVars
  <2>2. ASSUME NEW r \in Request,
               \/ \E c \in Content : Arrive(r, c) /\ UNCHANGED relayVars
               \/ HookFails(r)
        PROVE  ViewInv'
    BY <2>2, HooksKeep DEF HookMoves, HookFails
  <2>3. ASSUME NEW r \in Request, RelayStep(r) PROVE ViewInv'
    BY <2>3, RelayMoves, HooksKeep, ViewSame
  <2>4. QED
    BY <2>1, <2>2, <2>3 DEF Next
<1>3. QED
  BY <1>1, <1>2, PTL DEF Spec

\* Whatever leaves for the model, every frame and every text of it, hides what
\* the vault knew and what was recognised, however requests, their threads and
\* their failures interleave (KnownStaysHidden).
THEOREM NothingKnownLeaves == Spec => []KnownStaysHidden
<1>1. ViewInv => KnownStaysHidden
  <2> SUFFICES ASSUME ViewInv, NEW r \in Out
               PROVE  /\ Len(hidden[r]) = Len(content[r].texts)
                      /\ \A i \in DOMAIN hidden[r] : TextHides(r, i)
                      /\ Len(shots[r]) = Len(content[r].images)
                      /\ \A i \in DOMAIN shots[r] :
                           shots[r][i].image = content[r].images[i] /\ Covers(shots[r][i])
    BY DEF KnownStaysHidden, TextsHideKnown, FramesHideKnown
  <2>1. /\ r \in Request /\ pc[r] = "out" /\ RequestOK(r)
        /\ DOMAIN shots[r] = 1..Len(shots[r]) /\ DOMAIN hidden[r] = 1..Len(hidden[r])
    BY RequestFacts DEF ViewInv, Out
  <2>2. /\ Len(hidden[r]) = Len(content[r].texts)
        /\ Len(shots[r]) = Len(content[r].images)
    BY <2>1 DEF RequestOK, Where
  <2>3. \A i \in DOMAIN hidden[r] : TextHides(r, i)
    BY <2>1 DEF RequestOK, TextsOK, TextSafe, TextHides
  <2>4. \A i \in DOMAIN shots[r] :
           shots[r][i].image = content[r].images[i] /\ Covers(shots[r][i])
    BY <2>1 DEF RequestOK, ShotsOK, Finished
  <2>5. QED
    BY <2>2, <2>3, <2>4
<1>2. QED
  BY <1>1, ViewInductive, PTL

\* A request with a screenshot tells the model of every placeholder that
\* occurs in it (ManifestComplete).
THEOREM ManifestsAreComplete == Spec => []ManifestComplete
<1>1. ViewInv => ManifestComplete
  BY DEF ViewInv
<1>2. QED
  BY <1>1, ViewInductive, PTL

-----------------------------------------------------------------------------
(* The relay: frames and calls on record.                                  *)

RelayTypes ==
  /\ frames \in Seq(Frame) /\ Len(frames) <= FrameCapacity
  /\ calls \in Seq(CallRecord) /\ Len(calls) <= CallCapacity
  /\ added \in Nat /\ recorded \in Nat
  /\ stage \in [Request -> Stages]
  /\ ids \in [Request -> SUBSET (1..added)]
  /\ rounds \in [Request -> 0..MaxRounds]
  /\ fate \in [Request -> Statuses \cup {"none", "failed"}]

\* The hooks of a request run before it is sent, and it has an answer or a
\* failure from the moment the relay waits for no more headers.
Staged(r) ==
  /\ stage[r] = "hook" <=> pc[r] \notin {"out", "failed"}
  /\ pc[r] = "failed" => stage[r] = "over" /\ fate[r] = "none"
  /\ stage[r] \in {"hook", "sent"} => fate[r] = "none"
  /\ stage[r] \in {"body", "loop", "follow"} => fate[r] \in Statuses
  /\ stage[r] \in {"loop", "follow"} => fate[r] = "ok"
  /\ stage[r] = "over" /\ pc[r] = "out" => fate[r] # "none"

\* A frame has one owner.
IdsApart == \A r, q \in Request : r # q => ids[r] \cap ids[q] = {}

FramesNumbered == \A f \in Range(frames) : f.id \in 1..added

Tells(f, ending) ==
  /\ ending = "none" => f.state = "prepared"
  /\ ending = "failed" => f.state = "failed"
  /\ ending \in Statuses => f.state = "sent" /\ f.status = ending

FramesTell == \A f \in Range(frames) : \A r \in Request : f.id \in ids[r] => Tells(f, fate[r])

RecordInv ==
  /\ RelayTypes /\ \A r \in Request : Staged(r)
  /\ IdsApart /\ FramesNumbered /\ FramesTell
  /\ CallsRecorded /\ IsFiniteSet(Ended)

RelayInv == ViewInv /\ RecordInv

LEMMA RelayStart == Init => RecordInv
<1> SUFFICES ASSUME Init PROVE RecordInv
  OBVIOUS
<1>1. RelayTypes
  <2>1. frames \in Seq(Frame) /\ Len(frames) <= FrameCapacity
    BY RelayAssumption DEF Init
  <2>2. calls \in Seq(CallRecord) /\ Len(calls) <= CallCapacity
    BY RelayAssumption DEF Init
  <2>3. QED
    BY <2>1, <2>2, RelayAssumption DEF Init, RelayTypes, Stages, Statuses
<1>2. \A r \in Request : Staged(r)
  BY DEF Init, ViewInit, Staged
<1>3. IdsApart /\ FramesNumbered /\ FramesTell
  BY DEF Init, IdsApart, FramesNumbered, FramesTell, Range
<1>4. Ended = {}
  BY DEF Init, ViewInit, Ended
<1>5. CallsRecorded /\ IsFiniteSet(Ended)
  BY <1>4, FS_EmptySet DEF Init, CallsRecorded
<1>6. QED
  BY <1>1, <1>2, <1>3, <1>5 DEF RecordInv

\* Marking the frames of a request leaves the others alone.
LEMMA MarkedFacts ==
  ASSUME frames \in Seq(Frame), NEW r, NEW state, NEW status,
         state \in {"prepared", "sent", "failed"}, status \in Statuses \cup {"none"}
  PROVE  /\ Marked(r, state, status) \in Seq(Frame)
         /\ Len(Marked(r, state, status)) = Len(frames)
         /\ \A g \in Range(Marked(r, state, status)) : \E f \in Range(frames) :
              /\ g.id = f.id
              /\ f.id \in ids[r] => g.state = state /\ g.status = status
              /\ f.id \notin ids[r] => g = f
<1> DEFINE now(i) == IF frames[i].id \in ids[r]
                     THEN [frames[i] EXCEPT !.state = state, !.status = status]
                     ELSE frames[i]
<1>1. DOMAIN frames = 1..Len(frames) /\ Len(frames) \in Nat
  BY RangeOfSeq
<1>2. ASSUME NEW i \in 1..Len(frames)
      PROVE  /\ now(i) \in Frame /\ now(i).id = frames[i].id
             /\ frames[i].id \in ids[r] => now(i).state = state /\ now(i).status = status
             /\ frames[i].id \notin ids[r] => now(i) = frames[i]
  <2>1. frames[i] \in Frame
    BY RangeOfSeq
  <2>2. QED
    BY <2>1 DEF Frame
<1>3. Marked(r, state, status) = [i \in 1..Len(frames) |-> now(i)]
  BY <1>1 DEF Marked
<1> HIDE DEF now
<1>4. /\ Marked(r, state, status) \in Seq(Frame)
      /\ Len(Marked(r, state, status)) = Len(frames)
      /\ \A i \in 1..Len(frames) : Marked(r, state, status)[i] = now(i)
  BY <1>1, <1>2, <1>3
<1>5. ASSUME NEW g \in Range(Marked(r, state, status))
      PROVE  \E f \in Range(frames) :
               /\ g.id = f.id
               /\ f.id \in ids[r] => g.state = state /\ g.status = status
               /\ f.id \notin ids[r] => g = f
  <2>1. PICK i \in 1..Len(frames) : g = now(i)
    BY <1>4, RangeOfSeq
  <2>2. frames[i] \in Range(frames)
    BY RangeOfSeq
  <2>3. QED
    BY <1>2, <2>1, <2>2
<1>6. QED
  BY <1>4, <1>5

\* The answer or the failure of a request shows on its frames alone.
LEMMA MarkingKeeps ==
  ASSUME RecordInv, NEW r \in Request, NEW state, NEW status, NEW ending,
         state \in {"prepared", "sent", "failed"}, status \in Statuses \cup {"none"},
         frames' = Marked(r, state, status), ids' = ids, added' = added,
         \A q \in Request : fate'[q] = IF q = r THEN ending ELSE fate[q],
         ending \in Statuses \cup {"failed"},
         ending = "failed" => state = "failed",
         ending # "failed" => state = "sent" /\ status = ending
  PROVE  /\ frames' \in Seq(Frame) /\ Len(frames') <= FrameCapacity
         /\ IdsApart' /\ FramesNumbered' /\ FramesTell'
<1>1. /\ frames \in Seq(Frame) /\ Len(frames) <= FrameCapacity
      /\ fate \in [Request -> Statuses \cup {"none", "failed"}]
      /\ IdsApart /\ FramesNumbered /\ FramesTell
  BY DEF RecordInv, RelayTypes
<1> DEFINE now == Marked(r, state, status)
<1>0. /\ now \in Seq(Frame) /\ Len(now) = Len(frames)
      /\ \A g \in Range(now) : \E f \in Range(frames) :
              /\ g.id = f.id
              /\ f.id \in ids[r] => g.state = state /\ g.status = status
              /\ f.id \notin ids[r] => g = f
  <2>1. frames \in Seq(Frame)
    BY <1>1
  <2>2. QED
    BY <2>1, MarkedFacts
<1> HIDE DEF now
<1>2. /\ frames' \in Seq(Frame) /\ Len(frames') = Len(frames)
      /\ \A g \in Range(frames') : \E f \in Range(frames) :
              /\ g.id = f.id
              /\ f.id \in ids[r] => g.state = state /\ g.status = status
              /\ f.id \notin ids[r] => g = f
  <2>1. frames' = now
    BY DEF now
  <2>2. QED
    BY <1>0, <2>1
<1>3. FramesNumbered' /\ IdsApart'
  BY <1>1, <1>2 DEF FramesNumbered, IdsApart
<1>4. FramesTell'
  <2> SUFFICES ASSUME NEW g \in Range(frames'), NEW q \in Request, g.id \in ids[q]
               PROVE  Tells(g, fate'[q])
    BY DEF FramesTell
  <2>1. PICK f \in Range(frames) :
              /\ g.id = f.id
              /\ f.id \in ids[r] => g.state = state /\ g.status = status
              /\ f.id \notin ids[r] => g = f
    BY <1>2
  <2>2. CASE q = r
    <3>1. fate'[q] = ending /\ g.state = state /\ g.status = status
      BY <2>1, <2>2
    <3>2. QED
      BY <3>1 DEF Tells, Statuses
  <2>3. CASE q # r
    <3>1. fate'[q] = fate[q] /\ f.id \notin ids[r]
      BY <1>1, <2>1, <2>3 DEF IdsApart
    <3>2. QED
      BY <1>1, <2>1, <3>1 DEF FramesTell
  <2>4. QED
    BY <2>2, <2>3
<1>5. QED
  BY <1>1, <1>2, <1>3, <1>4

\* A request that ends is put on record once.
LEMMA RecordingKeeps ==
  ASSUME RecordInv, NEW r \in Request, r \notin Ended,
         NEW status \in Statuses \cup {"none"},
         NEW state \in {"sent", "streamed", "failed", "hook_failed"},
         Record(r, status, state), Ended' = Ended \cup {r},
         \A q \in Ended : fate'[q] = fate[q],
         status = IF fate'[r] = "failed" THEN "none" ELSE fate'[r]
  PROVE  /\ calls' \in Seq(CallRecord) /\ Len(calls') <= CallCapacity
         /\ recorded' \in Nat
         /\ CallsRecorded' /\ IsFiniteSet(Ended')
<1> DEFINE call == [of |-> r, status |-> status, state |-> state]
           all == Append(calls, call)
<1>1. /\ calls \in Seq(CallRecord) /\ recorded \in Nat /\ CallCapacity \in Nat
      /\ calls' = Newest(all, CallCapacity) /\ recorded' = recorded + 1
      /\ DOMAIN calls = 1..Len(calls) /\ Len(calls) \in Nat
      /\ recorded = Cardinality(Ended) /\ IsFiniteSet(Ended)
  BY RelayAssumption DEF RecordInv, RelayTypes, Record, CallsRecorded
<1>2. call \in CallRecord /\ call.of = r /\ call.status = status
  BY DEF CallRecord
<1> HIDE DEF call
<1>3. /\ all \in Seq(CallRecord) /\ Len(all) = Len(calls) + 1
      /\ all[Len(calls) + 1] = call
      /\ \A i \in 1..Len(calls) : all[i] = calls[i]
      /\ \A i \in 1..(Len(calls) + 1) : i \in 1..Len(calls) \/ i = Len(calls) + 1
  BY <1>1, <1>2, Appended
<1> HIDE DEF all
<1>4. /\ calls' \in Seq(CallRecord) /\ Len(calls') <= CallCapacity
      /\ DOMAIN calls' = 1..Len(calls') /\ Len(calls') \in Nat
  BY <1>1, <1>3, NewestFacts, RangeOfSeq
<1>5. PICK k \in 0..Len(all) : /\ Len(calls') = Len(all) - k
                               /\ \A i \in 1..Len(calls') : calls'[i] = all[i + k]
  <2>1. \E k \in 0..Len(all) :
          /\ Len(Newest(all, CallCapacity)) = Len(all) - k
          /\ \A i \in 1..Len(Newest(all, CallCapacity)) :
               Newest(all, CallCapacity)[i] = all[i + k]
    <3>1. all \in Seq(CallRecord) /\ CallCapacity \in Nat
      BY <1>1, <1>3
    <3>2. QED
      BY <3>1, NewestFacts
  <2>2. QED
    BY <1>1, <2>1
<1>6. \A i \in 1..Len(calls') : i + k \in 1..(Len(calls) + 1)
  BY <1>1, <1>3, <1>4, <1>5
<1>7. IsFiniteSet(Ended') /\ Cardinality(Ended') = Cardinality(Ended) + 1
  BY <1>1, FS_AddElement
<1>8. \A i \in 1..Len(calls) :
        /\ calls[i].of \in Ended
        /\ calls[i].status = IF fate[calls[i].of] = "failed" THEN "none" ELSE fate[calls[i].of]
  BY <1>1 DEF RecordInv, CallsRecorded
<1>9. ASSUME NEW i \in 1..Len(calls'), NEW j \in 1..Len(calls'), calls'[i].of = calls'[j].of
      PROVE  i = j
  <2>1. /\ i + k \in 1..(Len(calls) + 1) /\ j + k \in 1..(Len(calls) + 1)
        /\ all[i + k].of = all[j + k].of
    BY <1>5, <1>6, <1>9
  <2>2. i + k = j + k
    <3>1. CASE i + k \in 1..Len(calls) /\ j + k \in 1..Len(calls)
      <4>1. calls[i + k].of = calls[j + k].of
        BY <1>3, <2>1, <3>1
      <4>2. QED
        BY <1>1, <3>1, <4>1 DEF RecordInv, CallsRecorded
    <3>2. CASE i + k \in 1..Len(calls) /\ j + k = Len(calls) + 1
      BY <1>2, <1>3, <1>8, <2>1, <3>2
    <3>3. CASE i + k = Len(calls) + 1 /\ j + k \in 1..Len(calls)
      BY <1>2, <1>3, <1>8, <2>1, <3>3
    <3>4. QED
      BY <1>3, <2>1, <3>1, <3>2, <3>3
  <2>3. QED
    BY <1>5, <2>2
<1>10. ASSUME NEW i \in 1..Len(calls')
       PROVE  /\ calls'[i].of \in Ended'
              /\ calls'[i].status = IF fate'[calls'[i].of] = "failed" THEN "none"
                                    ELSE fate'[calls'[i].of]
  <2>1. calls'[i] = all[i + k] /\ i + k \in 1..(Len(calls) + 1)
    BY <1>5, <1>6
  <2>2. CASE i + k \in 1..Len(calls)
    <3>1. calls'[i] = calls[i + k]
      BY <1>3, <2>1, <2>2
    <3>2. QED
      BY <1>8, <2>2, <3>1
  <2>3. CASE i + k = Len(calls) + 1
    BY <1>2, <1>3, <2>1, <2>3
  <2>4. QED
    BY <1>3, <2>1, <2>2, <2>3
<1>11. recorded' \in Nat /\ recorded' = Cardinality(Ended')
  BY <1>1, <1>7
<1>12. CallsRecorded'
  BY <1>4, <1>9, <1>10, <1>11 DEF CallsRecorded
<1>13. QED
  BY <1>4, <1>7, <1>11, <1>12

LEMMA OthersStaged ==
  ASSUME NEW q \in Request, Staged(q),
         pc'[q] = pc[q], stage'[q] = stage[q], fate'[q] = fate[q]
  PROVE  Staged(q)'
BY DEF Staged

LEMMA EndedSame ==
  ASSUME \A q \in Request :
            (pc'[q] = "out" /\ stage'[q] = "over") <=> (pc[q] = "out" /\ stage[q] = "over")
  PROVE  Ended' = Ended
BY DEF Ended

LEMMA CallsSame ==
  ASSUME RecordInv, Ended' = Ended, calls' = calls, recorded' = recorded,
         \A q \in Ended : fate'[q] = fate[q]
  PROVE  CallsRecorded' /\ IsFiniteSet(Ended')
BY DEF RecordInv, CallsRecorded

LEMMA FramesSame ==
  ASSUME RecordInv, frames' = frames, added' = added, ids' = ids, fate' = fate
  PROVE  IdsApart' /\ FramesNumbered' /\ FramesTell'
<1>1. IdsApart /\ FramesNumbered /\ FramesTell
  BY DEF RecordInv
<1>2. IdsApart' /\ FramesNumbered'
  BY <1>1 DEF IdsApart, FramesNumbered
<1>3. FramesTell'
  BY <1>1 DEF FramesTell, Tells
<1>4. QED
  BY <1>2, <1>3

\* The hooks of a request run on until it is sent or they fail.
LEMMA Preparing ==
  ASSUME ViewTypeOK, NEW r \in Request,
         (\E c \in Content : Arrive(r, c)) \/ HookStep(r) \/ Audited(r)
  PROVE  /\ pc[r] \notin {"out", "failed"} /\ pc'[r] \notin {"out", "failed"}
         /\ \A q \in Request : q # r => pc'[q] = pc[q]
<1>1. pc \in [Request -> {"new", "frame", "audit", "plain", "apply", "ready", "out", "failed"}]
  BY DEF ViewTypeOK
<1>2. \A c : AfterFrames(c) \in {"ready", "plain"}
  BY DEF AfterFrames
<1>3. CASE \E c \in Content : Arrive(r, c)
  BY <1>1, <1>2, <1>3 DEF Arrive
<1>4. CASE Audited(r)
  BY <1>1, <1>2, <1>4 DEF Audited, Passes
<1>5. CASE PaintAgain(r) \/ PaintBegin(r) \/ PaintLine(r) \/ PaintEnd(r)
  BY <1>1, <1>5 DEF PaintAgain, PaintBegin, PaintLine, PaintEnd
<1>6. CASE ScrubPlain(r) \/ ApplyClassification(r)
  BY <1>1, <1>6 DEF ScrubPlain, ApplyClassification, Passes
<1>7. QED
  BY <1>3, <1>4, <1>5, <1>6 DEF HookStep

LEMMA PreparingKeeps ==
  ASSUME RelayInv, NEW r \in Request, UNCHANGED relayVars,
         (\E c \in Content : Arrive(r, c)) \/ HookStep(r)
  PROVE  RecordInv'
<1>1. /\ pc[r] \notin {"out", "failed"} /\ pc'[r] \notin {"out", "failed"}
      /\ \A q \in Request : q # r => pc'[q] = pc[q]
  BY Preparing DEF RelayInv, ViewInv
<1>2. /\ frames' = frames /\ added' = added /\ calls' = calls /\ recorded' = recorded
      /\ stage' = stage /\ ids' = ids /\ rounds' = rounds /\ fate' = fate
  BY DEF relayVars
<1>3. RecordInv /\ RelayTypes /\ (\A q \in Request : Staged(q))
  BY DEF RelayInv, RecordInv
<1>4. RelayTypes'
  BY <1>2, <1>3 DEF RelayTypes
<1>5. ASSUME NEW q \in Request PROVE Staged(q)'
  <2>1. CASE q = r
    BY <1>1, <1>2, <1>3, <2>1 DEF Staged
  <2>2. CASE q # r
    BY <1>1, <1>2, <1>3, <2>2, OthersStaged
  <2>3. QED
    BY <2>1, <2>2
<1>6. Ended' = Ended
  BY <1>1, <1>2, EndedSame
<1>7. CallsRecorded' /\ IsFiniteSet(Ended')
  BY <1>2, <1>3, <1>6, CallsSame
<1>8. IdsApart' /\ FramesNumbered' /\ FramesTell'
  BY <1>2, <1>3, FramesSame
<1>9. QED
  BY <1>4, <1>5, <1>7, <1>8 DEF RecordInv

\* A frame enters the ledger under a number of its own, prepared.
LEMMA AuditKeeps ==
  ASSUME RelayInv, NEW r \in Request, Audit(r)
  PROVE  RecordInv'
<1> DEFINE new == [id |-> added + 1, image |-> Screenshot(r), analysis |-> latest[1],
                   state |-> "prepared", status |-> "none"]
           all == Append(frames, new)
<1>1. /\ pc[r] = "audit" /\ pc[r] \notin {"out", "failed"} /\ pc'[r] \notin {"out", "failed"}
      /\ \A q \in Request : q # r => pc'[q] = pc[q]
  BY Preparing DEF RelayInv, ViewInv, Audit, Audited
<1>2. /\ frames' = Newest(all, FrameCapacity) /\ added' = added + 1
      /\ ids' = [ids EXCEPT ![r] = @ \cup {added + 1}]
      /\ calls' = calls /\ recorded' = recorded
      /\ stage' = stage /\ rounds' = rounds /\ fate' = fate
  BY DEF Audit
<1>3. RecordInv /\ RelayTypes /\ (\A q \in Request : Staged(q))
  BY DEF RelayInv, RecordInv
<1>4. /\ frames \in Seq(Frame) /\ added \in Nat /\ FrameCapacity \in Nat
      /\ ids \in [Request -> SUBSET (1..added)]
  BY <1>3, RelayAssumption DEF RelayTypes
<1>5. new \in Frame /\ new.id = added + 1 /\ new.state = "prepared"
  <2>1. Screenshot(r) \in Image
    <3>1. at[r] < Len(content[r].images) /\ at[r] \in Nat /\ content[r].images \in Seq(Image)
      BY <1>1, RequestFacts DEF RelayInv, ViewInv, RequestOK, Where
    <3>2. QED
      BY <3>1 DEF Screenshot
  <2>2. latest[1] \in Image
    <3>1. latest # << >> /\ latest \in {<<m>> : m \in Image} \cup {<< >>}
      BY <1>1 DEF RelayInv, ViewInv, RequestOK, Where, ViewTypeOK
    <3>2. QED
      BY <3>1
  <2>3. QED
    BY <1>4, <2>1, <2>2 DEF Frame
<1> HIDE DEF new
<1>6. all \in Seq(Frame) /\ Range(all) = Range(frames) \cup {new}
  BY <1>4, <1>5, Appended, AppendedRange
<1> HIDE DEF all
<1>7. /\ frames' \in Seq(Frame) /\ Len(frames') <= FrameCapacity
      /\ Range(frames') \subseteq Range(frames) \cup {new}
  <2>1. /\ Newest(all, FrameCapacity) \in Seq(Frame)
        /\ Len(Newest(all, FrameCapacity)) <= FrameCapacity
        /\ Range(Newest(all, FrameCapacity)) \subseteq Range(all)
    BY <1>4, <1>6, NewestFacts, NewestRange
  <2>2. QED
    BY <1>2, <1>6, <2>1
<1>8. added' \in Nat /\ added + 1 \in 1..added' /\ (\A i \in 1..added : i \in 1..added')
      /\ added + 1 \notin 1..added
  BY <1>2, <1>4
<1>9. ids' \in [Request -> SUBSET (1..added')]
  <2>1. \A q \in Request : ids[q] \subseteq 1..added'
    BY <1>4, <1>8
  <2>2. ids[r] \cup {added + 1} \in SUBSET (1..added')
    BY <1>8, <2>1
  <2>3. QED
    BY <1>2, <1>4, <2>1, <2>2
<1>10. RelayTypes'
  BY <1>2, <1>3, <1>7, <1>8, <1>9 DEF RelayTypes
<1>11. ASSUME NEW q \in Request PROVE Staged(q)'
  <2>1. CASE q = r
    BY <1>1, <1>2, <1>3, <2>1 DEF Staged
  <2>2. CASE q # r
    BY <1>1, <1>2, <1>3, <2>2, OthersStaged
  <2>3. QED
    BY <2>1, <2>2
<1>12. Ended' = Ended
  BY <1>1, <1>2, EndedSame
<1>13. CallsRecorded' /\ IsFiniteSet(Ended')
  BY <1>2, <1>3, <1>12, CallsSame
<1>14. \A q \in Request : added + 1 \notin ids[q]
  BY <1>4, <1>8
<1>15. \A q \in Request : ids'[q] = IF q = r THEN ids[r] \cup {added + 1} ELSE ids[q]
  BY <1>2, <1>4
<1>16. IdsApart'
  <2>1. IdsApart
    BY <1>3 DEF RecordInv
  <2>2. QED
    BY <1>14, <1>15, <2>1 DEF IdsApart
<1>17. FramesNumbered'
  <2>1. FramesNumbered
    BY <1>3 DEF RecordInv
  <2>2. QED
    BY <1>5, <1>7, <1>8, <2>1 DEF FramesNumbered
<1>18. FramesTell'
  <2> SUFFICES ASSUME NEW f \in Range(frames'), NEW q \in Request, f.id \in ids'[q]
               PROVE  Tells(f, fate[q])
    BY <1>2 DEF FramesTell
  <2>1. CASE f \in Range(frames)
    <3>1. f.id # added + 1
      BY <1>3, <1>8, <2>1 DEF RecordInv, FramesNumbered
    <3>2. f.id \in ids[q]
      BY <1>15, <3>1
    <3>3. QED
      BY <1>3, <2>1, <3>2 DEF RecordInv, FramesTell
  <2>2. CASE f = new
    <3>1. q = r
      BY <1>5, <1>14, <1>15, <2>2
    <3>2. fate[q] = "none"
      BY <1>1, <1>3, <3>1 DEF Staged
    <3>3. QED
      BY <1>5, <2>2, <3>2 DEF Tells, Statuses
  <2>3. QED
    BY <1>7, <2>1, <2>2
<1>19. QED
  BY <1>10, <1>11, <1>13, <1>16, <1>17, <1>18 DEF RecordInv

\* A request leaves its hooks: sent, or refused and over.
LEMMA LeavingKeeps ==
  ASSUME RelayInv, NEW r \in Request, Send(r) \/ HookFails(r)
  PROVE  RecordInv'
<1>1. RecordInv /\ RelayTypes /\ (\A q \in Request : Staged(q))
  BY DEF RelayInv, RecordInv
<1>2. pc \in [Request -> {"new", "frame", "audit", "plain", "apply", "ready", "out", "failed"}]
  BY DEF RelayInv, ViewInv, ViewTypeOK
<1>3. stage \in [Request -> Stages]
  BY <1>1 DEF RelayTypes
<1>4. /\ frames' = frames /\ added' = added /\ calls' = calls /\ recorded' = recorded
      /\ ids' = ids /\ rounds' = rounds /\ fate' = fate
  BY DEF Send, HookFails
<1>5. /\ pc[r] \notin {"out", "failed"}
      /\ \/ pc'[r] = "out" /\ stage'[r] = "sent"
         \/ pc'[r] = "failed" /\ stage'[r] = "over"
      /\ stage' \in [Request -> Stages]
      /\ \A q \in Request : q # r => pc'[q] = pc[q] /\ stage'[q] = stage[q]
  <2>1. CASE Send(r)
    BY <1>2, <1>3, <2>1 DEF Send, Dispatch, Stages
  <2>2. CASE HookFails(r)
    BY <1>2, <1>3, <2>2 DEF HookFails, Fails, Stages
  <2>3. QED
    BY <2>1, <2>2
<1>6. RelayTypes'
  BY <1>1, <1>4, <1>5 DEF RelayTypes
<1>7. ASSUME NEW q \in Request PROVE Staged(q)'
  <2>1. CASE q = r
    <3>1. fate'[r] = "none"
      BY <1>1, <1>4, <1>5 DEF Staged
    <3>2. QED
      BY <1>5, <2>1, <3>1 DEF Staged
  <2>2. CASE q # r
    BY <1>1, <1>4, <1>5, <2>2, OthersStaged
  <2>3. QED
    BY <2>1, <2>2
<1>8. Ended' = Ended
  BY <1>5, EndedSame
<1>9. CallsRecorded' /\ IsFiniteSet(Ended')
  BY <1>1, <1>4, <1>8, CallsSame
<1>10. IdsApart' /\ FramesNumbered' /\ FramesTell'
  BY <1>1, <1>4, FramesSame
<1>11. QED
  BY <1>6, <1>7, <1>9, <1>10 DEF RecordInv

LEMMA EndedOne ==
  ASSUME RecordInv, NEW r \in Request, pc[r] = "out", stage[r] # "over",
         pc' = pc, Over(r)
  PROVE  /\ r \notin Ended /\ Ended' = Ended \cup {r}
         /\ stage' \in [Request -> Stages] /\ stage'[r] = "over"
         /\ \A q \in Request : q # r => stage'[q] = stage[q]
<1>1. stage \in [Request -> Stages]
  BY DEF RecordInv, RelayTypes
<1>2. /\ stage' \in [Request -> Stages] /\ stage'[r] = "over"
      /\ \A q \in Request : q # r => stage'[q] = stage[q]
  BY <1>1 DEF Over, Stages
<1>3. r \notin Ended
  BY DEF Ended
<1>4. \A q \in Request : q \in Ended' <=> q \in Ended \/ q = r
  BY <1>2 DEF Ended
<1>5. QED
  BY <1>2, <1>3, <1>4 DEF Ended

\* A request that could not be sent, or was answered by a stream nobody looks
\* at, is over and on record; one whose body is to be read is not.
LEMMA AnswerKeeps ==
  ASSUME RelayInv, NEW r \in Request,
         UpstreamFails(r) \/ \E status \in Statuses : UpstreamAnswers(r, status)
  PROVE  RecordInv'
<1>1. RecordInv /\ RelayTypes /\ (\A q \in Request : Staged(q))
  BY DEF RelayInv, RecordInv
<1>2. /\ stage[r] = "sent" /\ pc' = pc /\ added' = added /\ ids' = ids /\ rounds' = rounds
  BY DEF UpstreamFails, UpstreamAnswers, viewVars
<1>3. pc[r] = "out"
  BY <1>1, <1>2 DEF Staged
<1> DEFINE Outcome(state, status, ending) ==
        /\ frames' = Marked(r, state, status)
        /\ fate' = [fate EXCEPT ![r] = ending]
        /\ state = IF ending = "failed" THEN "failed" ELSE "sent"
        /\ status = IF ending = "failed" THEN "none" ELSE ending
        /\ \/ /\ Record(r, status, IF ending = "failed" THEN "failed" ELSE "streamed")
              /\ Over(r)
           \/ /\ ending # "failed"
              /\ stage' = [stage EXCEPT ![r] = "body"]
              /\ calls' = calls /\ recorded' = recorded
<1>4. \E state \in {"sent", "failed"}, status \in Statuses \cup {"none"},
         ending \in Statuses \cup {"failed"} : Outcome(state, status, ending)
  <2>1. CASE UpstreamFails(r)
    <3> DEFINE st == "failed"
               no == "none"
    <3>1. /\ frames' = Marked(r, st, no) /\ fate' = [fate EXCEPT ![r] = st]
          /\ Record(r, no, "failed") /\ Over(r)
      BY <2>1 DEF UpstreamFails
    <3>2. st = IF st = "failed" THEN "failed" ELSE "sent"
      OBVIOUS
    <3>3. no = IF st = "failed" THEN "none" ELSE st
      OBVIOUS
    <3>4. Outcome(st, no, st)
      BY <3>1, <3>2, <3>3
    <3>5. QED
      BY <3>4
  <2>2. ASSUME NEW status \in Statuses, UpstreamAnswers(r, status)
        PROVE  \E s \in Statuses \cup {"none"} : Outcome("sent", s, status)
    <3> DEFINE st == "sent"
    <3>1. /\ frames' = Marked(r, st, status) /\ fate' = [fate EXCEPT ![r] = status]
          /\ \/ Record(r, status, "streamed") /\ Over(r)
             \/ /\ stage' = [stage EXCEPT ![r] = "body"]
                /\ calls' = calls /\ recorded' = recorded
      BY <2>2 DEF UpstreamAnswers
    <3>2. status # "failed" /\ status # "none"
      BY DEF Statuses
    <3>3. Outcome(st, status, status)
      BY <3>1, <3>2
    <3>4. QED
      BY <3>3
  <2>3. QED
    BY <2>1, <2>2
<1> HIDE DEF Outcome
<1>5. PICK state \in {"sent", "failed"}, status \in Statuses \cup {"none"},
            ending \in Statuses \cup {"failed"} : Outcome(state, status, ending)
  BY <1>4
<1>6. /\ frames' = Marked(r, state, status)
      /\ fate' = [fate EXCEPT ![r] = ending]
      /\ state = IF ending = "failed" THEN "failed" ELSE "sent"
      /\ status = IF ending = "failed" THEN "none" ELSE ending
      /\ \/ /\ Record(r, status, IF ending = "failed" THEN "failed" ELSE "streamed")
            /\ Over(r)
         \/ /\ ending # "failed"
            /\ stage' = [stage EXCEPT ![r] = "body"]
            /\ calls' = calls /\ recorded' = recorded
  BY <1>5 DEF Outcome
<1>7. /\ fate' \in [Request -> Statuses \cup {"none", "failed"}] /\ fate'[r] = ending
      /\ \A q \in Request : q # r => fate'[q] = fate[q]
  BY <1>1, <1>6 DEF RelayTypes
<1>8. /\ frames' \in Seq(Frame) /\ Len(frames') <= FrameCapacity
      /\ IdsApart' /\ FramesNumbered' /\ FramesTell'
  <2>1. /\ RecordInv /\ state \in {"prepared", "sent", "failed"}
        /\ frames' = Marked(r, state, status) /\ ids' = ids /\ added' = added
    BY <1>1, <1>2, <1>6
  <2>2. \A q \in Request : fate'[q] = IF q = r THEN ending ELSE fate[q]
    BY <1>7
  <2>3. /\ ending = "failed" => state = "failed"
        /\ ending # "failed" => state = "sent" /\ status = ending
    BY <1>6
  <2>4. QED
    BY <2>1, <2>2, <2>3, MarkingKeeps
<1>9. CASE Over(r) /\ Record(r, status, IF ending = "failed" THEN "failed" ELSE "streamed")
  <2>1. /\ r \notin Ended /\ Ended' = Ended \cup {r}
        /\ stage' \in [Request -> Stages] /\ stage'[r] = "over"
        /\ \A q \in Request : q # r => stage'[q] = stage[q]
    BY <1>1, <1>2, <1>3, <1>9, EndedOne
  <2>2. \A q \in Ended : fate'[q] = fate[q]
    BY <1>7, <2>1 DEF Ended
  <2>3. /\ calls' \in Seq(CallRecord) /\ Len(calls') <= CallCapacity
        /\ recorded' \in Nat /\ CallsRecorded' /\ IsFiniteSet(Ended')
    <3>1. PICK kind \in {"sent", "streamed", "failed", "hook_failed"} : Record(r, status, kind)
      BY <1>9
    <3>2. status = IF fate'[r] = "failed" THEN "none" ELSE fate'[r]
      BY <1>6, <1>7
    <3>3. QED
      BY <1>1, <2>1, <2>2, <3>1, <3>2, RecordingKeeps
  <2>4. RelayTypes'
    BY <1>1, <1>2, <1>8, <1>7, <2>1, <2>3 DEF RelayTypes
  <2>5. ASSUME NEW q \in Request PROVE Staged(q)'
    <3>1. CASE q = r
      BY <1>2, <1>3, <1>7, <2>1, <3>1 DEF Staged, Statuses
    <3>2. CASE q # r
      BY <1>1, <1>2, <1>7, <2>1, <3>2, OthersStaged
    <3>3. QED
      BY <3>1, <3>2
  <2>6. QED
    BY <1>8, <2>3, <2>4, <2>5 DEF RecordInv
<1>10. CASE /\ ending # "failed" /\ stage' = [stage EXCEPT ![r] = "body"]
           /\ calls' = calls /\ recorded' = recorded
  <2>1. /\ stage' \in [Request -> Stages] /\ stage'[r] = "body"
        /\ \A q \in Request : q # r => stage'[q] = stage[q]
    BY <1>1, <1>10 DEF RelayTypes, Stages
  <2>2. Ended' = Ended /\ r \notin Ended
    <3>1. r \notin Ended
      BY <1>2 DEF Ended
    <3>2. Ended' = Ended
      BY <1>2, <2>1, EndedSame
    <3>3. QED
      BY <3>1, <3>2
  <2>3. \A q \in Ended : fate'[q] = fate[q]
    BY <1>7, <2>2 DEF Ended
  <2>4. CallsRecorded' /\ IsFiniteSet(Ended')
    BY <1>1, <1>10, <2>2, <2>3, CallsSame
  <2>5. RelayTypes'
    BY <1>1, <1>2, <1>8, <1>7, <1>10, <2>1 DEF RelayTypes
  <2>6. ASSUME NEW q \in Request PROVE Staged(q)'
    <3>1. CASE q = r
      BY <1>2, <1>3, <1>7, <1>10, <2>1, <3>1 DEF Staged
    <3>2. CASE q # r
      BY <1>1, <1>2, <1>7, <2>1, <3>2, OthersStaged
    <3>3. QED
      BY <3>1, <3>2
  <2>7. QED
    BY <1>8, <2>4, <2>5, <2>6 DEF RecordInv
<1>11. QED
  BY <1>6, <1>9, <1>10

\* However the response leg of a request ends, its call is put on record once,
\* with the status it was answered with.
LEMMA EndingKeeps ==
  ASSUME RelayInv, NEW r \in Request,
         \/ ReadFails(r) \/ PassOn(r) \/ LoopFails(r)
         \/ \E raises \in BOOLEAN : Return(r, raises)
  PROVE  RecordInv'
<1>1. RecordInv /\ RelayTypes /\ (\A q \in Request : Staged(q))
  BY DEF RelayInv, RecordInv
<1>2. /\ pc' = pc /\ frames' = frames /\ added' = added /\ ids' = ids /\ rounds' = rounds
      /\ fate' = fate /\ Over(r) /\ stage[r] \in {"body", "loop", "follow"}
  BY DEF ReadFails, PassOn, LoopFails, Return, Completing, viewVars
<1>3. /\ pc[r] = "out" /\ stage[r] # "over" /\ fate[r] \in Statuses
      /\ stage[r] \in {"loop", "follow"} => fate[r] = "ok"
  BY <1>1, <1>2 DEF Staged
<1>4. PICK kind \in {"sent", "streamed", "failed", "hook_failed"} : Record(r, fate[r], kind)
  <2>1. CASE ReadFails(r)
    BY <2>1 DEF ReadFails
  <2>2. CASE PassOn(r)
    BY <2>2 DEF PassOn
  <2>3. CASE LoopFails(r)
    <3>1. Record(r, "ok", "hook_failed") /\ fate[r] = "ok"
      BY <1>3, <2>3 DEF LoopFails, Completing
    <3>2. Record(r, fate[r], "hook_failed")
      BY <3>1
    <3>3. QED
      BY <3>2
  <2>4. CASE \E raises \in BOOLEAN : Return(r, raises)
    <3>1. Record(r, "ok", "sent") /\ fate[r] = "ok"
      BY <1>3, <2>4 DEF Return, Completing
    <3>2. Record(r, fate[r], "sent")
      BY <3>1
    <3>3. QED
      BY <3>2
  <2>5. QED
    BY <2>1, <2>2, <2>3, <2>4
<1>5. /\ r \notin Ended /\ Ended' = Ended \cup {r}
      /\ stage' \in [Request -> Stages] /\ stage'[r] = "over"
      /\ \A q \in Request : q # r => stage'[q] = stage[q]
  BY <1>1, <1>2, <1>3, EndedOne
<1>6. /\ calls' \in Seq(CallRecord) /\ Len(calls') <= CallCapacity
      /\ recorded' \in Nat /\ CallsRecorded' /\ IsFiniteSet(Ended')
  <2>1. fate[r] = IF fate'[r] = "failed" THEN "none" ELSE fate'[r]
    BY <1>2, <1>3 DEF Statuses
  <2>2. fate[r] \in Statuses \cup {"none"} /\ \A q \in Ended : fate'[q] = fate[q]
    BY <1>2, <1>3
  <2>3. QED
    BY <1>1, <1>4, <1>5, <2>1, <2>2, RecordingKeeps
<1>7. RelayTypes'
  BY <1>1, <1>2, <1>5, <1>6 DEF RelayTypes
<1>8. ASSUME NEW q \in Request PROVE Staged(q)'
  <2>1. CASE q = r
    BY <1>2, <1>3, <1>5, <2>1 DEF Staged, Statuses
  <2>2. CASE q # r
    BY <1>1, <1>2, <1>5, <2>2, OthersStaged
  <2>3. QED
    BY <2>1, <2>2
<1>9. IdsApart' /\ FramesNumbered' /\ FramesTell'
  BY <1>1, <1>2, FramesSame
<1>10. QED
  BY <1>6, <1>7, <1>8, <1>9 DEF RecordInv

\* The tool loop goes round without a record.
LEMMA LoopKeeps ==
  ASSUME RelayInv, NEW r \in Request, ToolRuns(r) \/ Continues(r)
  PROVE  RecordInv'
<1>1. RecordInv /\ RelayTypes /\ (\A q \in Request : Staged(q))
  BY DEF RelayInv, RecordInv
<1>2. /\ pc' = pc /\ frames' = frames /\ added' = added /\ ids' = ids
      /\ calls' = calls /\ recorded' = recorded /\ fate' = fate
      /\ stage[r] \in {"body", "loop", "follow"}
  BY DEF ToolRuns, Continues, Completing, viewVars
<1>3. /\ pc[r] = "out" /\ fate[r] = "ok"
  BY <1>1, <1>2 DEF Staged, ToolRuns, Continues, Completing
<1>4. /\ stage' \in [Request -> Stages] /\ stage'[r] \in {"loop", "follow"}
      /\ \A q \in Request : q # r => stage'[q] = stage[q]
  BY <1>1 DEF RelayTypes, Stages, ToolRuns, Continues
<1>5. rounds' \in [Request -> 0..MaxRounds]
  <2>1. /\ rounds \in [Request -> 0..MaxRounds] /\ MaxRounds \in Nat
    BY <1>1, RelayAssumption DEF RelayTypes
  <2>2. CASE ToolRuns(r)
    <3>1. rounds[r] + 1 \in 0..MaxRounds
      BY <2>1, <2>2 DEF ToolRuns
    <3>2. QED
      BY <2>1, <2>2, <3>1 DEF ToolRuns
  <2>3. CASE Continues(r)
    BY <2>1, <2>3 DEF Continues
  <2>4. QED
    BY <2>2, <2>3
<1>6. RelayTypes'
  BY <1>1, <1>2, <1>4, <1>5 DEF RelayTypes
<1>7. ASSUME NEW q \in Request PROVE Staged(q)'
  <2>1. CASE q = r
    BY <1>2, <1>3, <1>4, <2>1 DEF Staged, Statuses
  <2>2. CASE q # r
    BY <1>1, <1>2, <1>4, <2>2, OthersStaged
  <2>3. QED
    BY <2>1, <2>2
<1>8. Ended' = Ended
  BY <1>2, <1>4, EndedSame
<1>9. CallsRecorded' /\ IsFiniteSet(Ended')
  BY <1>1, <1>2, <1>8, CallsSame
<1>10. IdsApart' /\ FramesNumbered' /\ FramesTell'
  BY <1>1, <1>2, FramesSame
<1>11. QED
  BY <1>6, <1>7, <1>9, <1>10 DEF RecordInv

LEMMA RecordSame == RecordInv /\ UNCHANGED vars => RecordInv'
<1> SUFFICES ASSUME RecordInv, UNCHANGED vars PROVE RecordInv'
  OBVIOUS
<1>1. /\ pc' = pc /\ frames' = frames /\ added' = added /\ ids' = ids /\ rounds' = rounds
      /\ calls' = calls /\ recorded' = recorded /\ fate' = fate /\ stage' = stage
  BY DEF vars
<1>2. RecordInv /\ RelayTypes /\ (\A q \in Request : Staged(q))
  BY DEF RecordInv
<1>3. Ended' = Ended
  BY <1>1, EndedSame
<1>4. CallsRecorded' /\ IsFiniteSet(Ended')
  BY <1>1, <1>2, <1>3, CallsSame
<1>5. IdsApart' /\ FramesNumbered' /\ FramesTell'
  BY <1>1, <1>2, FramesSame
<1>6. RelayTypes' /\ (\A q \in Request : Staged(q)')
  BY <1>1, <1>2, OthersStaged DEF RelayTypes
<1>7. QED
  BY <1>4, <1>5, <1>6 DEF RecordInv

LEMMA RecordsInductive == Spec => []RecordInv
<1>1. Init => RecordInv
  BY RelayStart
<1>2. ViewInv /\ RecordInv /\ [Next]_vars => RecordInv'
  <2> SUFFICES ASSUME ViewInv, RecordInv, [Next]_vars PROVE RecordInv'
    OBVIOUS
  <2>0. RelayInv
    BY DEF RelayInv
  <2>1. CASE UNCHANGED vars
    BY <2>1, RecordSame
  <2>2. ASSUME NEW r \in Request, \E c \in Content : Arrive(r, c) /\ UNCHANGED relayVars
        PROVE  RecordInv'
    BY <2>0, <2>2, PreparingKeeps
  <2>3. ASSUME NEW r \in Request, HookFails(r) PROVE RecordInv'
    BY <2>0, <2>3, LeavingKeeps
  <2>4. ASSUME NEW r \in Request, RelayStep(r) PROVE RecordInv'
    BY <2>0, <2>4, PreparingKeeps, AuditKeeps, LeavingKeeps, AnswerKeeps, EndingKeeps,
       LoopKeeps DEF RelayStep
  <2>5. QED
    BY <2>1, <2>2, <2>3, <2>4 DEF Next
<1>3. QED
  BY <1>1, <1>2, ViewInductive, PTL DEF Spec

\* The frames and the calls the viewer shows are marked with what happened to
\* their own request, and every request that left the proxy and is over is on
\* record once, while others overlap (RecordsTrue).
THEOREM RecordsStayTrue == Spec => []RecordsTrue
<1>1. RecordInv => RecordsTrue
  <2> SUFFICES ASSUME RecordInv PROVE LedgerTrue
    BY DEF RecordInv, RecordsTrue
  <2> SUFFICES ASSUME NEW f \in Range(frames), NEW r \in Request, f.id \in ids[r]
               PROVE  CASE fate[r] = "none"   -> f.state = "prepared"
                        [] fate[r] = "failed" -> f.state = "failed"
                        [] OTHER              -> f.state = "sent" /\ f.status = fate[r]
    BY DEF LedgerTrue
  <2>1. Tells(f, fate[r]) /\ fate[r] \in Statuses \cup {"none", "failed"}
    BY DEF RecordInv, FramesTell, RelayTypes
  <2>2. QED
    BY <2>1 DEF Tells
<1>2. QED
  BY <1>1, RecordsInductive, PTL

\* The state of hooks and relay has its types, and the rings their sizes
\* (TypeOK).
THEOREM RelayTypeCorrect == Spec => []TypeOK
<1>1. ViewInv /\ RecordInv => TypeOK
  BY DEF ViewInv, RecordInv, RelayTypes, TypeOK
<1>2. QED
  BY <1>1, ViewInductive, RecordsInductive, PTL

=============================================================================
