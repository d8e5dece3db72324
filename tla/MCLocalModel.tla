---------------------------- MODULE MCLocalModel ----------------------------
(* TLC instance of LocalModel: seven tokens, two of one value, two that the *)
(* vault refuses, one of them of no token's shape, one of an empty value;   *)
(* operations answered with and without the model, or refused, approvals    *)
(* with and without a rule, reviews.                                        *)
EXTENDS LocalModel

MCValueOf == <<5, 3, 5, Refused, 0, Refused, 4>>

Operation == [kind : {"operation"}, verb : {"sort", "select", "sum"}, instruction : BOOLEAN,
              count : {None, 1, 3}, class : {None},
              tokens : { <<1>>, <<1, 2>>, <<1, 1>>, <<1, 3>>, <<3, 1, 2>>, <<1, 2, 7>>,
                         <<7, 3, 2>>, <<1, 4>>, <<2, 5>>, <<1, 6>>, <<1, 2, 3, 7>> }]
MCQuestion == Operation \cup [kind : {"approval"}, class : Class]
                       \cup [kind : {"review"}, class : {None}]

MCEntries == UNION {[1..n -> {3, 4, 5, Junk}] : n \in 0..3}
MCDrafts == { << >>, <<[answer |-> <<3, 5>>, word |-> "approve", ttl |-> 2, uses |-> 2]>> }
=============================================================================
