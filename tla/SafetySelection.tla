-------------------------- MODULE SafetySelection --------------------------
(***************************************************************************)
(* The constrained rule by which the visual trainer chooses which epoch's  *)
(* checkpoint stays `safety-best.pt` (train_detector.py).  Recalls and     *)
(* precisions are hundredths, and the means of the code are totals over    *)
(* the classes they average, so that its bounds are integers; its epsilon, *)
(* which absorbs rounding of floats, has no counterpart.                   *)
(***************************************************************************)
EXTENDS Integers, FiniteSets

SecretClasses == {"CARD_NUMBER", "CVC", "SECRET"}

OtherClasses ==
    {"NAME", "EMAIL", "PHONE", "ADDRESS", "SENSITIVE_FIELD", "SENSITIVE_IMAGE"}

Classes == SecretClasses \union OtherClasses

Scores == 0..100

\* What the validator reports of a checkpoint: recall and precision of the
\* classes it found labels for.
IsBox(box) ==
    /\ DOMAIN box \subseteq Classes
    /\ \A c \in DOMAIN box : box[c] \in Scores \X Scores

Evaluations ==
    [recall : [Classes -> Scores], precision : [Classes -> Scores],
     missing : SUBSET Classes]

\* A class without validation labels counts as zero, and as missing.
Aligned(box) ==
    [recall    |-> [c \in Classes |-> IF c \in DOMAIN box THEN box[c][1] ELSE 0],
     precision |-> [c \in Classes |-> IF c \in DOMAIN box THEN box[c][2] ELSE 0],
     missing   |-> Classes \ DOMAIN box]

----------------------------------------------------------------------------
(* The summary of an evaluation.                                           *)

SecretMinimum(e) ==
    LET r == e.recall
        m == IF r["CVC"] <= r["SECRET"] THEN r["CVC"] ELSE r["SECRET"]
    IN  IF r["CARD_NUMBER"] <= m THEN r["CARD_NUMBER"] ELSE m

OtherTotal(e) ==
    LET r == e.recall
    IN  r["NAME"] + r["EMAIL"] + r["PHONE"] + r["ADDRESS"]
          + r["SENSITIVE_FIELD"] + r["SENSITIVE_IMAGE"]

PrecisionTotal(e) ==
    LET p == e.precision
    IN  p["NAME"] + p["EMAIL"] + p["PHONE"] + p["ADDRESS"]
          + p["SENSITIVE_FIELD"] + p["SENSITIVE_IMAGE"]
          + p["CARD_NUMBER"] + p["CVC"] + p["SECRET"]

----------------------------------------------------------------------------
(* The policy, in hundredths, multiplied by the classes a mean is over.    *)

MeaningfulSecretGain   == 1
IndividualSecretDrop   == 1
OtherDropFromIncumbent == 3 * 6
OtherDropFromHighWater == 5 * 6
IndividualOtherDrop    == 5
PrecisionDrop          == 5 * 9
TieBandOtherGain       == 1 * 6

SelectionStates == [incumbent : Evaluations, highWater : Nat]

\* The frozen seed opens the selection.
InitialState(e) == [incumbent |-> e, highWater |-> OtherTotal(e)]

\* Mutant: the other classes are compared with the incumbent alone.
HardGatesRatcheting(state, e) ==
    LET i == state.incumbent
    IN  /\ OtherTotal(e) >= OtherTotal(i) - OtherDropFromIncumbent
        /\ \A c \in Classes : e.recall[c] >= i.recall[c] - IndividualOtherDrop

HardGates(state, e) ==
    LET i == state.incumbent
    IN  /\ \A c \in SecretClasses :
              e.recall[c] >= i.recall[c] - IndividualSecretDrop
        /\ OtherTotal(e) >= OtherTotal(i) - OtherDropFromIncumbent
        /\ OtherTotal(e) >= state.highWater - OtherDropFromHighWater
        /\ \A c \in OtherClasses :
              e.recall[c] >= i.recall[c] - IndividualOtherDrop
        /\ PrecisionTotal(e) >= PrecisionTotal(i) - PrecisionDrop

SecretImproves(i, e) ==
    SecretMinimum(e) - SecretMinimum(i) >= MeaningfulSecretGain

TieBandImproves(i, e) ==
    /\ SecretMinimum(e) - SecretMinimum(i) \in 0..(MeaningfulSecretGain - 1)
    /\ OtherTotal(e) - OtherTotal(i) >= TieBandOtherGain

PrecisionBreaksTie(i, e) ==
    /\ \A c \in Classes : e.recall[c] >= i.recall[c]
    /\ PrecisionTotal(e) > PrecisionTotal(i)

ValidCandidate(e) == e.missing = {}

Selected(state, e) ==
    /\ ValidCandidate(e)
    /\ HardGates(state, e)
    /\ \/ SecretImproves(state.incumbent, e)
       \/ TieBandImproves(state.incumbent, e)
       \/ PrecisionBreaksTie(state.incumbent, e)

NextState(state, e) ==
    IF Selected(state, e)
    THEN [incumbent |-> e,
          highWater |-> IF OtherTotal(e) > state.highWater
                        THEN OtherTotal(e) ELSE state.highWater]
    ELSE state

=============================================================================
