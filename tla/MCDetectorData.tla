--------------------------- MODULE MCDetectorData ---------------------------
(* Supplements that may be used, one without a screen free of labels, and   *)
(* ones that share a person or a phone number between the splits, hide an   *)
(* element or have one nobody mapped.                                       *)
EXTENDS DetectorData, TLC

MCDisposition ==
    [phone |-> "PHONE", company |-> "hard-negative", novel |-> "unmapped"]

At(key, place) ==
    [key |-> key, place |-> place, visible |-> place # "outside",
     clipped |-> place = "edge"]

Row(id, identity, marker, split, elements) ==
    [id |-> id, identity |-> identity, marker |-> marker, split |-> split,
     elements |-> elements]

Ada  == Row("a", "ada", 1, "train", {At("phone", "edge"), At("company", "inside")})
Bob  == Row("b", "bob", 2, "test",  {At("phone", "inside")})
Cyd  == Row("c", "cyd", 3, "train", {At("phone", "outside")})
Ada2 == Row("d", "ada", 4, "test",  {At("company", "inside")})
Dan  == Row("e", "dan", 1, "test",  {At("phone", "outside")})
Eve  == Row("f", "eve", 5, "train", {At("novel", "inside")})
Fay  == Row("g", "fay", 6, "train", {[At("phone", "inside") EXCEPT !.visible = FALSE]})

Hal  == Row("h", "hal", 7, "test",  {At("company", "inside")})

MCSupplies ==
    {{Ada, Cyd, Bob, Hal}, {Cyd, Hal}, {Ada, Bob}, {Ada, Cyd, Bob, Ada2},
     {Ada, Cyd, Bob, Dan}, {Eve, Cyd, Hal}, {Fay, Hal}}

MCPublications == {{Cyd, Bob}, {Eve, Bob}}

Split(templates, records, rarest) ==
    [templates |-> templates, records |-> records, rarest |-> rarest]

MCRenderings ==
    {[train |-> Split({1}, 40, 2), validation |-> Split({2}, 4, 0)],
     [train |-> Split({1}, 40, 1), validation |-> Split({2}, 4, 0)],
     [train |-> Split({1, 2}, 40, 2), validation |-> Split({2}, 4, 0)]}

=============================================================================
