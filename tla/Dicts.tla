------------------------------- MODULE Dicts --------------------------------
(* Python dicts as functions whose domain is the set of keys present.       *)
EXTENDS Functions

(* d[k] = v *)
Put(d, k, v) == [x \in DOMAIN d \cup {k} |-> IF x = k THEN v ELSE d[x]]

(* d is a dict with keys in S and values in T. *)
IsPartial(d, S, T) == DOMAIN d \subseteq S /\ d \in [DOMAIN d -> T]
=============================================================================
