------------------------------ MODULE MCVault -------------------------------
(* A TLC instance of Vault: one class per safety level.  Two spellings are  *)
(* one value, and one placeholder, of the gated class, and two credentials  *)
(* of the ungated one.  The capabilities are the one for a destination and  *)
(* the one for any; a path has a second spelling, another is refused.       *)
EXTENDS Vault

MCLevel == [c \in Class |-> CASE c = "EMAIL"      -> "approval"
                              [] c = "AUTH_TOKEN" -> "hide_use"
                              [] c = "PASSWORD"   -> "blocked"]
MCCanon == [c \in Class |->
              [t \in Text |-> IF c = "EMAIL" /\ t = "Ann" THEN "ann" ELSE t]]
MCNormPath == [p \in RawPath |-> IF p = "bad" THEN "invalid" ELSE "text"]

mail1 == <<"EMAIL", 1>>
auth1 == <<"AUTH_TOKEN", 1>>
auth2 == <<"AUTH_TOKEN", 2>>

(* A gated reference, twice, under two spellings of its path, after two     *)
(* ungated ones and before one whose path is refused.                      *)
MCReferences == {
  << <<mail1, "text">>, <<mail1, "text">> >>,
  << <<mail1, "text">>, <<mail1, " text">> >>,
  << <<auth1, "text">>, <<auth2, "text">>, <<mail1, "text">> >>,
  << <<mail1, "text">>, <<auth1, "bad">> >> }
=============================================================================
