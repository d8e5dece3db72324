------------------------ MODULE MCDetectorTraining ------------------------
(* A seed, an epoch that trades other recall for secret recall, one that   *)
(* would trade again beyond the high water, one that gains other recall,   *)
(* and one whose validation misses a class.                                *)
EXTENDS DetectorTraining, TLC

Uniform(secret, other, precision) ==
    [c \in Classes |-> <<IF c \in SecretClasses THEN secret ELSE other, precision>>]

Plain      == Uniform(50, 50, 50)
Trade      == Uniform(52, 47, 50)
TradeAgain == Uniform(54, 44, 50)
TieBand    == Uniform(50, 51, 45)
Incomplete == [c \in Classes \ {"CVC"} |-> <<60, 60>>]

MCBoxes == {Plain, Trade, TradeAgain, Incomplete}

Symmetry == Permutations(Seeds) \union Permutations(DataVersions)

=============================================================================
