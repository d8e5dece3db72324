------------------------------- MODULE Vault --------------------------------
(***************************************************************************)
(* SessionVault and SafetyPolicy (src/src/plva_proxy/privacy.py): the      *)
(* in-memory map from placeholders to sensitive values, and the local      *)
(* approvals that let an executed action use an approval-gated             *)
(* placeholder.  Every operation runs under the vault's RLock, so each is  *)
(* one action.  Operations that raise before they change anything are      *)
(* stuttering steps and have no action of their own.                       *)
(*                                                                         *)
(* A placeholder "CLASS_n_nonce" is the pair <<class, n>>: the nonce is    *)
(* fixed for the life of the vault.  Python dicts are functions whose      *)
(* domain is the set of keys present.                                      *)
(***************************************************************************)
EXTENDS Naturals, Sequences, FiniteSets, Dicts

CONSTANTS
  Class,        \* normalized PII classes
  Level,        \* the policy of the session: class -> safety level
  Text,         \* exact (NFKC) value texts
  Blank,        \* the texts that are empty once stripped
  Scannable,    \* the texts with at least three word characters
  Canon,        \* Canon[c][t]: canonical form of t as a value of class c
  Tool,         \* normalized tool names
  RawPath,      \* argument paths as the action spells them
  Path,         \* argument paths once normalized
  NormPath,     \* raw path -> normalized path, or InvalidPath
  InvalidPath,  \* what normalization makes of a path it refuses
  Target,       \* destinations, among them
  NoTarget,     \* the absence of one
  References,   \* the (token, raw path) lists of the actions that arrive
  Ttl,          \* times to live a grant may ask for
  MaxUses,      \* the largest use count a grant may ask for (100 in the code)
  MaxToken,     \* bound: placeholders issued per class
  MaxMinted,    \* bound: uses minted per capability
  MaxNow        \* bound: the clock

Levels == {"hide_use", "approval", "blocked"}

Token     == Class \X (1..MaxToken)
Reference == Token \X RawPath
GrantKey  == Token \X Tool \X Path \X Target

ASSUME PolicyAssumption ==
  /\ Level \in [Class -> Levels]
  /\ Blank \subseteq Text /\ Scannable \subseteq Text
  /\ Canon \in [Class -> [Text -> Text]]

ASSUME ActionAssumption ==
  /\ NoTarget \in Target
  /\ InvalidPath \notin Path
  /\ NormPath \in [RawPath -> Path \cup {InvalidPath}]
  /\ References \subseteq Seq(Reference)

ASSUME BoundAssumption ==
  /\ MaxToken \in Nat /\ MaxMinted \in Nat /\ MaxNow \in Nat /\ MaxUses \in Nat
  /\ Ttl \subseteq Nat \ {0}

VARIABLES
  byKey,          \* _by_key: (class, canonical form) -> placeholder
  byPlaceholder,  \* _by_placeholder: placeholder -> entry
  variants,       \* _variants: exact text -> placeholder that replaces it
  counters,       \* _counters: last number issued per class
  grants,         \* _approval_grants: capability -> expiry and uses left
  now,            \* the monotonic clock
  minted,         \* history: uses ever granted per capability
  spent           \* history: uses ever consumed per capability

entryVars == <<byKey, byPlaceholder, variants, counters>>
history   == <<minted, spent>>
vars      == <<byKey, byPlaceholder, variants, counters, grants, now, minted, spent>>

Entry == [cls : Class, value : Text, canonical : Text]
Grant == [expires : Nat, uses : 1..MaxUses]

Init ==
  /\ byKey = << >> /\ byPlaceholder = << >> /\ variants = << >>
  /\ counters = [c \in Class |-> 0]
  /\ grants = << >>
  /\ now = 0
  /\ minted = [k \in GrantKey |-> 0]
  /\ spent  = [k \in GrantKey |-> 0]

-----------------------------------------------------------------------------
(* Vaulting a value *)

(* Mutant of Key: values are looked up by their spelling, not by their      *)
(* canonical form.                                                         *)
KeyBySpelling(c, t) == <<c, t>>

Key(c, t) == <<c, Canon[c][t]>>

(* Only a text with three word characters is worth replacing in history.   *)
Remember(t, token) ==
  variants' = IF t \in Scannable THEN Put(variants, t, token) ELSE variants

(* Mutant of StoreKnown: the entry is refreshed with the new spelling.      *)
StoreKnownRefreshing(c, t) ==
  /\ Level[c] # "blocked" /\ t \notin Blank
  /\ Key(c, t) \in DOMAIN byKey
  /\ byPlaceholder' = [byPlaceholder EXCEPT ![byKey[Key(c, t)]].value = t]
  /\ Remember(t, byKey[Key(c, t)])
  /\ UNCHANGED <<byKey, counters, grants, now, history>>

StoreKnown(c, t) ==
  /\ Level[c] # "blocked" /\ t \notin Blank
  /\ Key(c, t) \in DOMAIN byKey
  /\ Remember(t, byKey[Key(c, t)])
  /\ UNCHANGED <<byKey, byPlaceholder, counters, grants, now, history>>

StoreNew(c, t) ==
  LET token == <<c, counters[c] + 1>> IN
  /\ Level[c] # "blocked" /\ t \notin Blank
  /\ Key(c, t) \notin DOMAIN byKey
  /\ counters[c] < MaxToken
  /\ counters' = [counters EXCEPT ![c] = @ + 1]
  /\ IF token \in DOMAIN byPlaceholder
     THEN UNCHANGED <<byKey, byPlaceholder, variants>>      \* "placeholder collision"
     ELSE /\ byKey' = Put(byKey, Key(c, t), token)
          /\ byPlaceholder' =
               Put(byPlaceholder, token,
                   [cls |-> c, value |-> t, canonical |-> Canon[c][t]])
          /\ Remember(t, token)
  /\ UNCHANGED <<grants, now, history>>

-----------------------------------------------------------------------------
(* Local approvals *)

LevelOf(token) == Level[byPlaceholder[token].cls]

LiveKeys == {k \in DOMAIN grants : grants[k].expires > now /\ grants[k].uses > 0}

(* The grants that survive _prune_approvals_locked.                        *)
Live == Restrict(grants, LiveKeys)

GrantApproval(k, ttl, uses) ==
  /\ k[1] \in DOMAIN byPlaceholder
  /\ LevelOf(k[1]) = "approval"
  /\ minted[k] + uses <= MaxMinted
  /\ grants' = Put(Live, k, [expires |-> now + ttl, uses |-> uses])
  /\ minted' = [minted EXCEPT ![k] = @ + uses]
  /\ UNCHANGED <<entryVars, now, spent>>

RevokeApproval(k) ==
  /\ grants' = Restrict(grants, LiveKeys \ {k})
  /\ UNCHANGED <<entryVars, now, history>>

(* approvals(), and approval_prompt() through it, prune before they list.  *)
Approvals ==
  /\ grants' = Live
  /\ UNCHANGED <<entryVars, now, history>>

-----------------------------------------------------------------------------
(* Resolving one action *)

(* The capability a reference draws on: the one scoped to the destination  *)
(* of the action if there is such a grant, else the unscoped one.          *)
CapabilityFor(r, tool, target) ==
  LET exact    == <<r[1], tool, NormPath[r[2]], target>>
      unscoped == <<r[1], tool, NormPath[r[2]], NoTarget>>
  IN  IF exact \in LiveKeys THEN exact ELSE unscoped

Fault(r, tool, target) ==
  CASE NormPath[r[2]] = InvalidPath      -> "invalid"
    [] r[1] \notin DOMAIN byPlaceholder  -> "unknown"
    [] LevelOf(r[1]) = "blocked"         -> "blocked"
    [] LevelOf(r[1]) = "approval"
         /\ CapabilityFor(r, tool, target) \notin LiveKeys -> "unapproved"
    [] OTHER                             -> "none"

Faulty(refs, tool, target) ==
  {i \in DOMAIN refs : Fault(refs[i], tool, target) # "none"}

(* Uses an action needs of a capability: a reference that occurs twice is  *)
(* charged once, two raw paths that normalize alike are charged twice.     *)
Need(refs, tool, target, k) ==
  Cardinality({r \in Range(refs) : /\ LevelOf(r[1]) = "approval"
                                   /\ CapabilityFor(r, tool, target) = k})

(* Mutant of Covered: a grant that exists is taken to be large enough.      *)
CoveredByAnyGrant(refs, tool, target) == TRUE

Covered(refs, tool, target) ==
  \A k \in LiveKeys : Need(refs, tool, target, k) <= grants[k].uses

Authorized(refs, tool, target) ==
  Faulty(refs, tool, target) = {} /\ Covered(refs, tool, target)

(* Why an action is refused: the first reference at fault decides.         *)
Refusal(refs, tool, target) ==
  LET faulty == Faulty(refs, tool, target) IN
  IF faulty = {}
  THEN "exhausted"
  ELSE Fault(refs[CHOOSE i \in faulty : \A j \in faulty : i <= j], tool, target)

(* Mutant of Charged: an action costs one use of each capability, however    *)
(* often it draws on it.                                                   *)
ChargedOnce(refs, tool, target) ==
  LET cost(k) == IF Need(refs, tool, target, k) > 0 THEN 1 ELSE 0 IN
  [k \in {l \in LiveKeys : grants[l].uses > cost(l)} |->
     [grants[k] EXCEPT !.uses = @ - cost(k)]]

(* The grants after the charge: those used up are deleted.                 *)
Charged(refs, tool, target) ==
  [k \in {l \in LiveKeys : grants[l].uses > Need(refs, tool, target, l)} |->
     [grants[k] EXCEPT !.uses = @ - Need(refs, tool, target, k)]]

Resolve(refs, tool, target) ==
  /\ Authorized(refs, tool, target)
  /\ grants' = Charged(refs, tool, target)
  /\ spent' = [k \in GrantKey |-> spent[k] + IF k \in LiveKeys
                                             THEN Need(refs, tool, target, k)
                                             ELSE 0]
  /\ UNCHANGED <<entryVars, now, minted>>

(* A refused action has only the effect of the pruning it began with.      *)
Refuse(refs, tool, target) ==
  /\ ~Authorized(refs, tool, target)
  /\ grants' = Live
  /\ UNCHANGED <<entryVars, now, history>>

-----------------------------------------------------------------------------

Dispose ==
  /\ byKey' = << >> /\ byPlaceholder' = << >> /\ variants' = << >>
  /\ counters' = [c \in Class |-> 0]
  /\ grants' = << >>
  /\ UNCHANGED <<now, history>>

Tick ==
  /\ now < MaxNow
  /\ now' = now + 1
  /\ UNCHANGED <<entryVars, grants, history>>

Next ==
  \/ \E c \in Class, t \in Text : StoreKnown(c, t) \/ StoreNew(c, t)
  \/ \E k \in GrantKey, ttl \in Ttl, uses \in 1..MaxUses : GrantApproval(k, ttl, uses)
  \/ \E k \in GrantKey : RevokeApproval(k)
  \/ Approvals
  \/ \E refs \in References, tool \in Tool, target \in Target :
        Resolve(refs, tool, target) \/ Refuse(refs, tool, target)
  \/ Dispose
  \/ Tick

Spec == Init /\ [][Next]_vars

-----------------------------------------------------------------------------
(* Properties *)

(* Types of the vault's maps.                                              *)
TypeOK ==
  /\ IsPartial(byKey, Class \X Text, Token)
  /\ IsPartial(byPlaceholder, Token, Entry)
  /\ IsPartial(variants, Text, Token)
  /\ counters \in [Class -> 0..MaxToken]
  /\ IsPartial(grants, GrantKey, Grant)
  /\ now \in 0..MaxNow
  /\ minted \in [GrantKey -> Nat]
  /\ spent \in [GrantKey -> Nat]

(* The maps of the vault agree through every sequence of stores and        *)
(* disposals: a class and canonical value have one placeholder and a       *)
(* placeholder one class and canonical value, numbers below the counter    *)
(* are the issued ones, and the text that history scrubbing replaces maps  *)
(* to a placeholder under which that very value was vaulted.               *)
KeysAgree ==
  \A k \in DOMAIN byKey : /\ byKey[k] \in DOMAIN byPlaceholder
                          /\ byPlaceholder[byKey[k]].cls = k[1]
                          /\ byPlaceholder[byKey[k]].canonical = k[2]
PlaceholdersAgree ==
  \A p \in DOMAIN byPlaceholder :
     LET e == byPlaceholder[p] IN
     /\ <<e.cls, e.canonical>> \in DOMAIN byKey
     /\ byKey[<<e.cls, e.canonical>>] = p
     /\ p[1] = e.cls
     /\ p[2] <= counters[e.cls]
     /\ e.canonical = Canon[e.cls][e.value]
VariantsAgree ==
  \A t \in DOMAIN variants :
     /\ variants[t] \in DOMAIN byPlaceholder
     /\ byPlaceholder[variants[t]].canonical = Canon[byPlaceholder[variants[t]].cls][t]
MapsAgree == KeysAgree /\ PlaceholdersAgree /\ VariantsAgree

(* Blocked values are never vaulted, and every approval on the books is    *)
(* for an issued placeholder of an approval-gated class: no approval       *)
(* outlives the placeholder it was given for, so none can attach to a      *)
(* value vaulted later under the same name.                                *)
ApprovalsBacked ==
  /\ \A p \in DOMAIN byPlaceholder : LevelOf(p) # "blocked"
  /\ \A k \in DOMAIN grants : /\ k[1] \in DOMAIN byPlaceholder
                              /\ LevelOf(k[1]) = "approval"

(* Over the session no capability is used more often than it was granted.  *)
UsesBacked ==
  \A k \in GrantKey :
     spent[k] + (IF k \in DOMAIN grants THEN grants[k].uses ELSE 0) <= minted[k]

(* A placeholder the model has seen keeps its meaning: as long as it is    *)
(* in the vault its entry does not change, and it only ever leaves         *)
(* together with every other placeholder and every approval.               *)
EntriesKept ==
  \/ \A p \in DOMAIN byPlaceholder : /\ p \in DOMAIN byPlaceholder'
                                     /\ byPlaceholder'[p] = byPlaceholder[p]
  \/ DOMAIN byPlaceholder' = {} /\ DOMAIN grants' = {}
MeaningKept == [][EntriesKept]_vars

(* The vault implements the ledger; a grant counts while it is unexpired,  *)
(* whether or not some operation has pruned the expired ones.              *)
Credit == [k \in GrantKey |-> IF k \in LiveKeys THEN grants[k].uses ELSE 0]

Ledger == INSTANCE ApprovalLedger WITH Capability <- GrantKey, credit <- Credit

ImplementsLedger == Ledger!LedgerSpec
=============================================================================
