------------------------------ MODULE MCRelay -------------------------------
(* TLC instances of Relay.  Screenshot "form" shows an address recognised  *)
(* as one and, on a line of its own, a name that is not; "mail" shows that  *)
(* name recognised, and a password next to the address.  The user's text    *)
(* holds address and name, of which the classifier finds the name; the      *)
(* assistant's, about which it is not asked, holds the name.                *)
EXTENDS Relay

line(reads, found) == [reads |-> reads, found |-> found]

MCLines == [m \in Image |->
   IF m = "form" THEN << line({"address"}, {"address"}), line({"name"}, {}) >>
                 ELSE << line({"name"}, {"name"}), line({"password", "address"}, {"password"}) >>]
MCHolds == [x \in Text |-> IF x = "user" THEN {"address", "name"} ELSE {"name"}]
MCRecognises == [x \in Text |-> IF x = "user" THEN {"name"} ELSE {}]

carrying(images, texts) == [images |-> images, texts |-> texts]

MCContent == {
  carrying(<<"form">>, <<"assistant", "user">>),
  carrying(<<"form", "mail">>, <<"assistant">>),
  carrying(<<"mail">>, << >>),
  carrying(<< >>, <<"user">>) }
=============================================================================
