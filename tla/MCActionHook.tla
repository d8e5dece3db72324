---------------------------- MODULE MCActionHook ----------------------------
(* TLC instances of ActionHook: one approval-gated class.  The completions  *)
(* are the shapes that treat a call differently: a gated call alone, two    *)
(* calls in a row, two gated references in one call, the same token twice   *)
(* under one path and under two spellings of it, a path that is refused, a  *)
(* call the mediator cannot name, a call without a name, an answer.         *)
EXTENDS ActionHook

MCLevel    == [c \in Class |-> "approval"]
MCCanon    == [c \in Class |-> [t \in Text |-> t]]
MCNormPath == [p \in RawPath |-> IF p = "bad" THEN "invalid" ELSE "text"]

auth1 == <<"AUTH_TOKEN", 1>>
auth2 == <<"AUTH_TOKEN", 2>>

one   == << <<auth1, "text">> >>
two   == << <<auth1, "text">>, <<auth2, "text">> >>
twice == << <<auth1, "text">>, <<auth1, "text">> >>
alias == << <<auth1, "text">>, <<auth1, " text">> >>
late  == << <<auth1, "text">>, <<auth2, "bad">> >>
other == << <<auth2, "text">> >>

MCReferences == {one, two, twice, alias, late, other}

Named(refs) == [form |-> "named", tool |-> "write", target |-> "any", refs |-> refs]
Formed(form) == [Named(one) EXCEPT !.form = form]

MCCompletions == {
  << Named(one), Named(other) >>,
  << Named(two) >>,
  << Named(late), Named(other) >>,
  << Named(twice), Formed("answer"), Named(one) >>,
  << Formed("function"), Named(one) >>,
  << Named(one), Formed("nameless") >>,
  << Named(alias) >> }
=============================================================================
