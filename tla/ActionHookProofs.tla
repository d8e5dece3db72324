-------------------------- MODULE ActionHookProofs --------------------------
(***************************************************************************)
(* Proofs about the session vault and the response leg.  First the vault   *)
(* by itself, for every policy, every set of values, every set of actions  *)
(* and every bound.  Then the response leg: it keeps the vault to its      *)
(* specification, so that everything shown of the vault holds while hooks, *)
(* mediator, viewer and request threads share it; and the runtime receives *)
(* a gated value no more often than it was approved.                       *)
(***************************************************************************)
EXTENDS ActionHook, FiniteSetTheorems, TLAPS

-----------------------------------------------------------------------------
(* Dicts: what an operation keeps and what it changes *)

(* d[k] = v on a dict with keys in S and values in T adds or replaces that  *)
(* one item.                                                                *)
LEMMA PutPartial ==
  ASSUME NEW S, NEW T, NEW d, NEW k \in S, NEW v \in T, IsPartial(d, S, T)
  PROVE  /\ IsPartial(Put(d, k, v), S, T)
         /\ DOMAIN Put(d, k, v) = DOMAIN d \cup {k}
         /\ Put(d, k, v)[k] = v
         /\ \A x \in DOMAIN d \ {k} : Put(d, k, v)[x] = d[x]
BY DEF Put, IsPartial

(* Keeping only the items with a key in K.                                  *)
LEMMA RestrictPartial ==
  ASSUME NEW S, NEW T, NEW d, NEW K, IsPartial(d, S, T), K \subseteq DOMAIN d
  PROVE  /\ IsPartial(Restrict(d, K), S, T)
         /\ DOMAIN Restrict(d, K) = K
         /\ \A x \in K : Restrict(d, K)[x] = d[x]
BY DEF Restrict, IsPartial

(* The empty dict.                                                          *)
LEMMA EmptyPartial ==
  ASSUME NEW S, NEW T
  PROVE  IsPartial(<< >>, S, T) /\ DOMAIN << >> = {}
BY DEF IsPartial

-----------------------------------------------------------------------------
(* Charges *)

(* What an action needs of a capability is a number.                       *)
LEMMA NeedIsNat ==
  ASSUME NEW refs \in References, NEW tool, NEW target, NEW k
  PROVE  Need(refs, tool, target, k) \in Nat
<1> DEFINE drawn == {r \in Range(refs) : /\ LevelOf(r[1]) = "approval"
                                         /\ CapabilityFor(r, tool, target) = k}
<1>1. refs \in Seq(Reference)
  BY ActionAssumption
<1>2. Len(refs) \in Nat /\ DOMAIN refs = 1..Len(refs) /\ refs \in [1..Len(refs) -> Reference]
  BY <1>1
<1>3. refs \in Surjection(1..Len(refs), Range(refs))
  BY <1>2 DEF Surjection, Range
<1>4. IsFiniteSet(1..Len(refs))
  BY <1>2, FS_Interval
<1>5. IsFiniteSet(Range(refs))
  BY <1>3, <1>4, FS_Surjection
<1>6. IsFiniteSet(drawn)
  BY <1>5, FS_Subset
<1>7. QED
  BY <1>6, FS_CardinalityType DEF Need

(* The types survive every operation.                                      *)
THEOREM TypeCorrect == Spec => []TypeOK
<1>1. Init => TypeOK
  BY EmptyPartial, BoundAssumption DEF Init, TypeOK
<1>2. TypeOK /\ [Next]_vars => TypeOK'
  <2> SUFFICES ASSUME TypeOK, [Next]_vars PROVE TypeOK'
    OBVIOUS
  <2> USE DEF TypeOK
  <2>1. ASSUME NEW c \in Class, NEW t \in Text, StoreKnown(c, t) PROVE TypeOK'
    <3>1. byKey[Key(c, t)] \in Token
      BY <2>1 DEF StoreKnown, IsPartial
    <3>2. IsPartial(variants', Text, Token)
      BY <2>1, <3>1, PutPartial DEF StoreKnown, Remember
    <3>3. QED
      BY <2>1, <3>2 DEF StoreKnown, history
  <2>2. ASSUME NEW c \in Class, NEW t \in Text, StoreNew(c, t) PROVE TypeOK'
    <3> DEFINE token == <<c, counters[c] + 1>>
               entry == [cls |-> c, value |-> t, canonical |-> Canon[c][t]]
    <3>1. token \in Token
      BY <2>2, BoundAssumption DEF StoreNew, Token
    <3>6. entry \in Entry /\ Key(c, t) \in Class \X Text
      BY PolicyAssumption DEF Key, Entry
    <3>2. counters' \in [Class -> 0..MaxToken]
      BY <2>2, BoundAssumption DEF StoreNew
    <3>3. CASE token \in DOMAIN byPlaceholder
      BY <2>2, <3>2, <3>3 DEF StoreNew, history
    <3>4. CASE token \notin DOMAIN byPlaceholder
      <4>1. /\ byKey' = Put(byKey, Key(c, t), token)
            /\ byPlaceholder' = Put(byPlaceholder, token, entry)
            /\ variants' = IF t \in Scannable THEN Put(variants, t, token) ELSE variants
        BY <2>2, <3>4 DEF StoreNew, Remember
      <4> HIDE DEF token, entry
      <4>2. IsPartial(byKey', Class \X Text, Token)
        BY <3>1, <3>6, <4>1, PutPartial
      <4>3. IsPartial(byPlaceholder', Token, Entry)
        BY <3>1, <3>6, <4>1, PutPartial
      <4>5. IsPartial(variants', Text, Token)
        BY <3>1, <4>1, PutPartial
      <4>4. QED
        BY <2>2, <3>2, <4>2, <4>3, <4>5 DEF StoreNew, history
    <3>5. QED
      BY <3>3, <3>4
  <2>3. LiveKeys \subseteq DOMAIN grants /\ IsPartial(Live, GrantKey, Grant)
    BY RestrictPartial DEF LiveKeys, Live
  <2>4. ASSUME NEW k \in GrantKey, NEW ttl \in Ttl, NEW uses \in 1..MaxUses,
               GrantApproval(k, ttl, uses)
        PROVE  TypeOK'
    <3>1. [expires |-> now + ttl, uses |-> uses] \in Grant
      BY BoundAssumption DEF Grant
    <3>2. IsPartial(grants', GrantKey, Grant)
      BY <2>3, <2>4, <3>1, PutPartial DEF GrantApproval
    <3>3. minted' \in [GrantKey -> Nat]
      BY <2>4, BoundAssumption DEF GrantApproval
    <3>4. QED
      BY <2>4, <3>2, <3>3 DEF GrantApproval, entryVars
  <2>5. ASSUME NEW k \in GrantKey, RevokeApproval(k) PROVE TypeOK'
    <3>1. IsPartial(grants', GrantKey, Grant)
      BY <2>3, <2>5, RestrictPartial DEF RevokeApproval
    <3>2. QED
      BY <2>5, <3>1 DEF RevokeApproval, entryVars, history
  <2>6. CASE Approvals
    BY <2>3, <2>6 DEF Approvals, entryVars, history
  <2>7. ASSUME NEW refs \in References, NEW tool \in Tool, NEW target \in Target,
               Resolve(refs, tool, target)
        PROVE  TypeOK'
    <3>1. \A k \in LiveKeys : Need(refs, tool, target, k) \in Nat
      BY NeedIsNat
    <3>2. IsPartial(grants', GrantKey, Grant)
      BY <2>3, <2>7, <3>1, BoundAssumption DEF Resolve, Charged, IsPartial, Authorized, Covered, Grant
    <3>3. spent' \in [GrantKey -> Nat]
      BY <2>7, NeedIsNat DEF Resolve
    <3>4. QED
      BY <2>7, <3>2, <3>3 DEF Resolve, entryVars
  <2>8. ASSUME NEW refs \in References, NEW tool \in Tool, NEW target \in Target,
               Refuse(refs, tool, target)
        PROVE  TypeOK'
    BY <2>3, <2>8 DEF Refuse, entryVars, history
  <2>9. CASE Dispose
    BY <2>9, EmptyPartial, BoundAssumption DEF Dispose, history
  <2>10. CASE Tick
    BY <2>10, BoundAssumption DEF Tick, entryVars, history
  <2>11. CASE UNCHANGED vars
    BY <2>11 DEF vars
  <2>12. QED
    BY <2>1, <2>2, <2>4, <2>5, <2>6, <2>7, <2>8, <2>9, <2>10, <2>11 DEF Next
<1>3. QED
  BY <1>1, <1>2, PTL DEF Spec

-----------------------------------------------------------------------------
(* The maps *)

(* A number that was never issued names no placeholder, so the collision   *)
(* branch of store is dead.                                                *)
LEMMA FreshToken ==
  ASSUME TypeOK, PlaceholdersAgree, NEW c \in Class
  PROVE  <<c, counters[c] + 1>> \notin DOMAIN byPlaceholder
<1>1. SUFFICES ASSUME <<c, counters[c] + 1>> \in DOMAIN byPlaceholder PROVE FALSE
  OBVIOUS
<1> DEFINE p == <<c, counters[c] + 1>>
<1>2. byPlaceholder[p].cls = c /\ p[2] <= counters[c]
  BY <1>1 DEF PlaceholdersAgree
<1>3. counters[c] \in Nat
  BY BoundAssumption DEF TypeOK
<1>4. QED
  BY <1>2, <1>3

(* The maps of the vault agree with each other, whatever is stored and     *)
(* disposed of, in whatever order.                                         *)
THEOREM MapsStayAgreed == Spec => []MapsAgree
<1> USE DEF MapsAgree
<1>1. Init => MapsAgree
  BY DEF Init, KeysAgree, PlaceholdersAgree, VariantsAgree
<1>2. TypeOK /\ MapsAgree /\ [Next]_vars => MapsAgree'
  <2> SUFFICES ASSUME TypeOK, MapsAgree, [Next]_vars PROVE MapsAgree'
    OBVIOUS
  <2>1. CASE UNCHANGED entryVars
    BY <2>1 DEF entryVars, KeysAgree, PlaceholdersAgree, VariantsAgree
  <2>2. ASSUME NEW c \in Class, NEW t \in Text, StoreKnown(c, t) PROVE MapsAgree'
    <3> DEFINE token == byKey[Key(c, t)]
    <3>1. /\ token \in DOMAIN byPlaceholder
          /\ byPlaceholder[token].cls = c
          /\ byPlaceholder[token].canonical = Canon[c][t]
      BY <2>2 DEF StoreKnown, KeysAgree, Key
    <3>2. UNCHANGED <<byKey, byPlaceholder, counters>>
      BY <2>2 DEF StoreKnown
    <3>3. variants' = IF t \in Scannable THEN Put(variants, t, token) ELSE variants
      BY <2>2 DEF StoreKnown, Remember
    <3>4. VariantsAgree'
      <4> HIDE DEF token
      <4>1. \A u \in DOMAIN variants' : \/ u \in DOMAIN variants /\ variants'[u] = variants[u]
                                        \/ u = t /\ variants'[u] = token
        BY <3>3 DEF Put
      <4>2. QED
        BY <3>1, <3>2, <4>1 DEF VariantsAgree
    <3>5. QED
      BY <3>2, <3>4 DEF KeysAgree, PlaceholdersAgree
  <2>3. ASSUME NEW c \in Class, NEW t \in Text, StoreNew(c, t) PROVE MapsAgree'
    <3> DEFINE token == <<c, counters[c] + 1>>
               key   == <<c, Canon[c][t]>>
               entry == [cls |-> c, value |-> t, canonical |-> Canon[c][t]]
    <3>1. token \notin DOMAIN byPlaceholder
      BY FreshToken
    <3>2. key \notin DOMAIN byKey
      BY <2>3 DEF StoreNew, Key
    <3>3. /\ byKey' = Put(byKey, key, token)
          /\ byPlaceholder' = Put(byPlaceholder, token, entry)
          /\ variants' = IF t \in Scannable THEN Put(variants, t, token) ELSE variants
          /\ counters' = [counters EXCEPT ![c] = @ + 1]
      BY <2>3, <3>1 DEF StoreNew, Remember, Key
    <3>4. /\ key[1] = c /\ key[2] = Canon[c][t]
          /\ entry.cls = c /\ entry.canonical = Canon[c][t] /\ entry.value = t
          /\ key = <<entry.cls, entry.canonical>>
      OBVIOUS
    <3>5. /\ token[1] = c /\ token[2] = counters'[c]
          /\ \A d \in Class : counters[d] <= counters'[d]
          /\ \A d \in Class : counters[d] \in Nat /\ counters'[d] \in Nat
      BY <3>3, BoundAssumption DEF TypeOK
    <3>6. /\ DOMAIN byPlaceholder' = DOMAIN byPlaceholder \cup {token}
          /\ byPlaceholder'[token] = entry
          /\ \A p \in DOMAIN byPlaceholder : p # token /\ byPlaceholder'[p] = byPlaceholder[p]
      BY <3>1, <3>3 DEF Put
    <3>7. /\ DOMAIN byKey' = DOMAIN byKey \cup {key}
          /\ byKey'[key] = token
          /\ \A k \in DOMAIN byKey : k # key /\ byKey'[k] = byKey[k]
      BY <3>2, <3>3 DEF Put
    <3>8. \A u \in DOMAIN variants' : \/ u \in DOMAIN variants /\ variants'[u] = variants[u]
                                      \/ u = t /\ variants'[u] = token
      BY <3>3 DEF Put
    <3> HIDE DEF token, key, entry
    <3>9. KeysAgree'
      BY <3>4, <3>6, <3>7 DEF KeysAgree
    <3>10. PlaceholdersAgree'
      <4> SUFFICES ASSUME NEW p \in DOMAIN byPlaceholder'
                   PROVE  LET e == byPlaceholder'[p] IN
                          /\ <<e.cls, e.canonical>> \in DOMAIN byKey'
                          /\ byKey'[<<e.cls, e.canonical>>] = p
                          /\ p[1] = e.cls
                          /\ p[2] <= counters'[e.cls]
                          /\ e.canonical = Canon[e.cls][e.value]
        BY DEF PlaceholdersAgree
      <4>1. CASE p = token
        BY <4>1, <3>4, <3>5, <3>6, <3>7
      <4>2. CASE p \in DOMAIN byPlaceholder
        <5> DEFINE e == byPlaceholder[p]
        <5>1. p \in Token /\ e.cls \in Class
          BY <4>2 DEF TypeOK, IsPartial, Entry
        <5>2. p[2] \in Nat
          BY <5>1 DEF Token
        <5>3. p[2] <= counters[e.cls]
          BY <4>2 DEF PlaceholdersAgree
        <5>4. p[2] <= counters'[e.cls]
          BY <3>5, <5>1, <5>2, <5>3
        <5>5. QED
          BY <3>6, <3>7, <4>2, <5>4 DEF PlaceholdersAgree
      <4>3. QED
        BY <3>6, <4>1, <4>2
    <3>11. VariantsAgree'
      BY <3>4, <3>6, <3>8 DEF VariantsAgree
    <3>12. QED
      BY <3>9, <3>10, <3>11
  <2>4. CASE Dispose
    BY <2>4 DEF Dispose, KeysAgree, PlaceholdersAgree, VariantsAgree
  <2>5. QED
    BY <2>1, <2>2, <2>3, <2>4
    DEF Next, vars, entryVars, GrantApproval, RevokeApproval, Approvals, Resolve, Refuse, Tick
<1>3. QED
  BY <1>1, <1>2, TypeCorrect, PTL DEF Spec

-----------------------------------------------------------------------------
(* Approvals *)

(* Only approval-gated placeholders that are in the vault have approvals.  *)
THEOREM ApprovalsStayBacked == Spec => []ApprovalsBacked
<1> USE DEF ApprovalsBacked, LevelOf
<1>1. Init => ApprovalsBacked
  BY DEF Init
<1>2. TypeOK /\ MapsAgree /\ ApprovalsBacked /\ [Next]_vars => ApprovalsBacked'
  <2> SUFFICES ASSUME TypeOK, MapsAgree, ApprovalsBacked, [Next]_vars
               PROVE  ApprovalsBacked'
    OBVIOUS
  <2>1. LiveKeys \subseteq DOMAIN grants /\ DOMAIN Live = LiveKeys
    BY DEF LiveKeys, Live, Restrict
  <2>2. ASSUME UNCHANGED byPlaceholder, DOMAIN grants' \subseteq DOMAIN grants
        PROVE  ApprovalsBacked'
    BY <2>2
  <2>3. ASSUME NEW c \in Class, NEW t \in Text, StoreKnown(c, t)
        PROVE  ApprovalsBacked'
    BY <2>2, <2>3 DEF StoreKnown
  <2>4. ASSUME NEW c \in Class, NEW t \in Text, StoreNew(c, t)
        PROVE  ApprovalsBacked'
    <3> DEFINE token == <<c, counters[c] + 1>>
               entry == [cls |-> c, value |-> t, canonical |-> Canon[c][t]]
    <3>1. token \notin DOMAIN byPlaceholder
      BY FreshToken DEF MapsAgree
    <3>2. byPlaceholder' = Put(byPlaceholder, token, entry) /\ UNCHANGED grants
      BY <2>4, <3>1 DEF StoreNew
    <3>3. entry.cls = c /\ Level[c] # "blocked"
      BY <2>4 DEF StoreNew
    <3> HIDE DEF token, entry
    <3>4. QED
      BY <3>1, <3>2, <3>3 DEF Put
  <2>5. ASSUME NEW k \in GrantKey, NEW ttl \in Ttl, NEW uses \in 1..MaxUses,
               GrantApproval(k, ttl, uses)
        PROVE  ApprovalsBacked'
    BY <2>1, <2>5 DEF GrantApproval, Put, entryVars
  <2>6. ASSUME NEW k \in GrantKey, RevokeApproval(k) PROVE ApprovalsBacked'
    BY <2>1, <2>2, <2>6 DEF RevokeApproval, Restrict, entryVars
  <2>7. CASE Approvals
    BY <2>1, <2>2, <2>7 DEF Approvals, entryVars
  <2>8. ASSUME NEW refs \in References, NEW tool \in Tool, NEW target \in Target,
               Resolve(refs, tool, target)
        PROVE  ApprovalsBacked'
    BY <2>1, <2>2, <2>8 DEF Resolve, Charged, entryVars
  <2>9. ASSUME NEW refs \in References, NEW tool \in Tool, NEW target \in Target,
               Refuse(refs, tool, target)
        PROVE  ApprovalsBacked'
    BY <2>1, <2>2, <2>9 DEF Refuse, entryVars
  <2>10. CASE Dispose
    BY <2>10 DEF Dispose
  <2>11. CASE Tick
    BY <2>2, <2>11 DEF Tick, entryVars
  <2>12. CASE UNCHANGED vars
    BY <2>2, <2>12 DEF vars
  <2>13. QED
    BY <2>3, <2>4, <2>5, <2>6, <2>7, <2>8, <2>9, <2>10, <2>11, <2>12 DEF Next
<1>3. QED
  BY <1>1, <1>2, TypeCorrect, MapsStayAgreed, PTL DEF Spec

(* What is left of a capability, expired or not.                           *)
Left(k) == IF k \in DOMAIN grants THEN grants[k].uses ELSE 0

(* No capability is used more often than it was granted.                   *)
THEOREM UsesStayBacked == Spec => []UsesBacked
<1> USE DEF UsesBacked, Left
<1>1. Init => UsesBacked
  BY DEF Init
<1>2. TypeOK /\ UsesBacked /\ [Next]_vars => UsesBacked'
  <2> SUFFICES ASSUME TypeOK, UsesBacked, [Next]_vars PROVE UsesBacked'
    OBVIOUS
  <2>1. \A k \in GrantKey : Left(k) \in Nat /\ spent[k] \in Nat /\ minted[k] \in Nat
    BY BoundAssumption DEF TypeOK, IsPartial, Grant
  <2>2. ASSUME UNCHANGED history, \A k \in GrantKey : Left(k)' \in {Left(k), 0}
        PROVE  UsesBacked'
    BY <2>1, <2>2 DEF history
  <2>3. /\ LiveKeys \subseteq DOMAIN grants
        /\ DOMAIN Live = LiveKeys
        /\ \A k \in LiveKeys : Live[k] = grants[k]
    BY DEF LiveKeys, Live, Restrict
  <2>4. CASE UNCHANGED <<grants, history>>
    BY <2>2, <2>4
  <2>5. ASSUME NEW k \in GrantKey, NEW ttl \in Ttl, NEW uses \in 1..MaxUses,
               GrantApproval(k, ttl, uses)
        PROVE  UsesBacked'
    <3> DEFINE new == [expires |-> now + ttl, uses |-> uses]
    <3>1. grants' = Put(Live, k, new) /\ new.uses = uses
      BY <2>5 DEF GrantApproval
    <3> HIDE DEF new
    <3>2. Left(k)' = uses /\ \A l \in GrantKey \ {k} : Left(l)' \in {Left(l), 0}
      BY <2>3, <3>1 DEF Put
    <3>3. /\ spent' = spent /\ minted'[k] = minted[k] + uses
          /\ \A l \in GrantKey \ {k} : minted'[l] = minted[l]
      BY <2>5 DEF GrantApproval, TypeOK
    <3>4. uses \in Nat /\ spent[k] <= minted[k]
      BY <2>1
    <3>5. QED
      BY <2>1, <3>2, <3>3, <3>4
  <2>6. ASSUME NEW k \in GrantKey, RevokeApproval(k) PROVE UsesBacked'
    BY <2>2, <2>3, <2>6 DEF RevokeApproval, Restrict
  <2>7. CASE Approvals
    BY <2>2, <2>3, <2>7 DEF Approvals
  <2>8. ASSUME NEW refs \in References, NEW tool \in Tool, NEW target \in Target,
               Resolve(refs, tool, target)
        PROVE  UsesBacked'
    <3> DEFINE need(k) == Need(refs, tool, target, k)
    <3>1. \A k \in GrantKey : need(k) \in Nat
      BY NeedIsNat
    <3>2. \A k \in LiveKeys : need(k) <= grants[k].uses
      BY <2>8 DEF Resolve, Authorized, Covered
    <3>3. \A k \in GrantKey : spent'[k] = spent[k] + IF k \in LiveKeys THEN need(k) ELSE 0
      BY <2>8 DEF Resolve
    <3>4. grants' = [k \in {l \in LiveKeys : grants[l].uses > need(l)} |->
                       [grants[k] EXCEPT !.uses = @ - need(k)]]
      BY <2>8 DEF Resolve, Charged
    <3> HIDE DEF need
    <3>5. \A k \in LiveKeys : grants[k] \in Grant /\ grants[k].uses \in Nat
      BY <2>3, BoundAssumption DEF TypeOK, IsPartial, Grant
    <3>6. \A k \in GrantKey : k \in LiveKeys => Left(k)' = Left(k) - need(k)
      BY <2>3, <3>1, <3>2, <3>4, <3>5 DEF Grant
    <3>7. \A k \in GrantKey : k \notin LiveKeys => Left(k)' = 0
      BY <3>4
    <3>8. minted' = minted
      BY <2>8 DEF Resolve
    <3>9. QED
      BY <2>1, <3>1, <3>3, <3>6, <3>7, <3>8
  <2>9. ASSUME NEW refs \in References, NEW tool \in Tool, NEW target \in Target,
               Refuse(refs, tool, target)
        PROVE  UsesBacked'
    BY <2>2, <2>3, <2>9 DEF Refuse
  <2>10. CASE Dispose
    BY <2>2, <2>10 DEF Dispose
  <2>11. QED
    BY <2>4, <2>5, <2>6, <2>7, <2>8, <2>9, <2>10 DEF Next, vars, StoreKnown, StoreNew, Tick, history
<1>3. QED
  BY <1>1, <1>2, TypeCorrect, PTL DEF Spec

-----------------------------------------------------------------------------
(* Meaning *)

(* No step changes what an issued placeholder stands for, or forgets one    *)
(* placeholder while it keeps others or an approval.                        *)
THEOREM MeaningIsKept == Spec => MeaningKept
<1>1. [Next]_vars => [EntriesKept]_vars
  <2> USE DEF EntriesKept
  <2>1. ASSUME byPlaceholder' = byPlaceholder PROVE EntriesKept
    BY <2>1
  <2>2. ASSUME NEW c \in Class, NEW t \in Text, StoreNew(c, t) PROVE EntriesKept
    <3>1. PICK token, entry : \/ byPlaceholder' = byPlaceholder
                              \/ /\ token \notin DOMAIN byPlaceholder
                                 /\ byPlaceholder' = Put(byPlaceholder, token, entry)
      BY <2>2 DEF StoreNew
    <3>2. QED
      BY <3>1 DEF Put
  <2>3. ASSUME Dispose PROVE EntriesKept
    <3>1. byPlaceholder' = << >> /\ grants' = << >>
      BY <2>3 DEF Dispose
    <3>2. QED
      BY <3>1
  <2> HIDE DEF EntriesKept
  <2>4. QED
    BY <2>1, <2>2, <2>3
    DEF Next, vars, entryVars, StoreKnown, GrantApproval, RevokeApproval, Approvals,
        Resolve, Refuse, Tick
<1>2. QED
  BY <1>1, PTL DEF Spec, MeaningKept

-----------------------------------------------------------------------------
(* Refinement *)

(* The vault implements the ledger: every operation, and the passing of    *)
(* time, mints, lapses or spends uses, or leaves the ledger alone.         *)
THEOREM VaultImplementsLedger == Spec => ImplementsLedger
<1> USE DEF Credit
<1>1. Init => Ledger!LedgerInit
  BY DEF Init, Ledger!LedgerInit, LiveKeys
<1>2. TypeOK /\ TypeOK' /\ [Next]_vars => [Ledger!LedgerNext]_<<Credit, minted, spent>>
  <2> SUFFICES ASSUME TypeOK, TypeOK', [Next]_vars
               PROVE  [Ledger!LedgerNext]_<<Credit, minted, spent>>
    OBVIOUS
  <2>1. LiveKeys \subseteq DOMAIN grants /\ LiveKeys' \subseteq DOMAIN grants'
    BY DEF LiveKeys
  <2>2. \A k \in DOMAIN grants : grants[k] \in Grant /\ grants[k].uses \in Nat \ {0}
    BY BoundAssumption DEF TypeOK, IsPartial, Grant
  <2>3. \A k \in DOMAIN grants' : grants'[k] \in Grant /\ grants'[k].uses \in Nat \ {0}
    BY BoundAssumption DEF TypeOK, IsPartial, Grant
  <2>4. Credit \in [GrantKey -> Nat] /\ Credit' \in [GrantKey -> Nat]
    BY <2>1, <2>2, <2>3
  <2>5. ASSUME UNCHANGED <<minted, spent>>,
               \A k \in GrantKey : Credit'[k] \in {Credit[k], 0}
        PROVE  Ledger!LedgerNext
    BY <2>4, <2>5 DEF Ledger!LedgerNext, Ledger!Lapse
  <2>6. ASSUME UNCHANGED history, UNCHANGED now,
               DOMAIN grants' \subseteq DOMAIN grants,
               \A k \in DOMAIN grants' : grants'[k] = grants[k]
        PROVE  Ledger!LedgerNext
    <3>1. \A k \in GrantKey : Credit'[k] \in {Credit[k], 0}
      BY <2>6 DEF LiveKeys
    <3>2. QED
      BY <2>5, <2>6, <3>1 DEF history
  <2>7. /\ DOMAIN Live = LiveKeys
        /\ \A k \in LiveKeys : Live[k] = grants[k]
    BY DEF Live, Restrict
  <2>8. ASSUME NEW k \in GrantKey, NEW ttl \in Ttl, NEW uses \in 1..MaxUses,
               GrantApproval(k, ttl, uses)
        PROVE  Ledger!LedgerNext
    <3> DEFINE new == [expires |-> now + ttl, uses |-> uses]
    <3>1. grants' = Put(Live, k, new) /\ new.uses = uses /\ new.expires = now + ttl
      BY <2>8 DEF GrantApproval
    <3>2. now' = now /\ spent' = spent /\ minted' = [minted EXCEPT ![k] = @ + uses]
      BY <2>8 DEF GrantApproval
    <3>3. now + ttl > now /\ uses > 0 /\ uses \in Nat
      BY BoundAssumption DEF TypeOK
    <3> HIDE DEF new
    <3>4. LiveKeys' = LiveKeys \cup {k}
      BY <2>7, <3>1, <3>2, <3>3 DEF Put, LiveKeys
    <3>5. Credit' = [Credit EXCEPT ![k] = uses]
      BY <2>7, <3>1, <3>4 DEF Put
    <3>6. minted'[k] - minted[k] = uses /\ minted[k] < minted'[k]
      BY <3>2, <3>3 DEF TypeOK
    <3>7. Ledger!Mint(k)
      BY <3>2, <3>5, <3>6 DEF Ledger!Mint, TypeOK
    <3>8. QED
      BY <3>7 DEF Ledger!LedgerNext
  <2>9. ASSUME NEW refs \in References, NEW tool \in Tool, NEW target \in Target,
               Resolve(refs, tool, target)
        PROVE  Ledger!LedgerNext
    <3> DEFINE need(k) == Need(refs, tool, target, k)
    <3>1. \A k \in GrantKey : need(k) \in Nat
      BY NeedIsNat
    <3>2. \A k \in LiveKeys : need(k) <= grants[k].uses
      BY <2>9 DEF Resolve, Authorized, Covered
    <3>3. spent' = [k \in GrantKey |-> spent[k] + IF k \in LiveKeys THEN need(k) ELSE 0]
      BY <2>9 DEF Resolve
    <3>4. grants' = [k \in {l \in LiveKeys : grants[l].uses > need(l)} |->
                       [grants[k] EXCEPT !.uses = @ - need(k)]]
      BY <2>9 DEF Resolve, Charged
    <3>5. now' = now /\ minted' = minted
      BY <2>9 DEF Resolve
    <3> HIDE DEF need
    <3>6. \A k \in LiveKeys : /\ grants[k].uses > need(k) => Credit'[k] = Credit[k] - need(k)
                              /\ grants[k].uses = need(k) => Credit'[k] = 0
                              /\ k \in GrantKey /\ Credit[k] = grants[k].uses
      <4> SUFFICES ASSUME NEW k \in LiveKeys
                   PROVE  /\ grants[k].uses > need(k) => Credit'[k] = Credit[k] - need(k)
                          /\ grants[k].uses = need(k) => Credit'[k] = 0
                          /\ k \in GrantKey /\ Credit[k] = grants[k].uses
        OBVIOUS
      <4>0. k \in GrantKey
        <5>1. k \in DOMAIN grants /\ DOMAIN grants \subseteq GrantKey
          BY <2>1 DEF TypeOK, IsPartial
        <5>2. QED
          BY <5>1
      <4>1. k \in GrantKey /\ Credit[k] = grants[k].uses
        BY <4>0
      <4>2. ASSUME grants[k].uses > need(k) PROVE Credit'[k] = Credit[k] - need(k)
        <5>1. /\ k \in DOMAIN grants'
              /\ grants'[k].uses = grants[k].uses - need(k)
              /\ grants'[k].expires = grants[k].expires
          BY <2>1, <2>2, <3>4, <4>2 DEF Grant
        <5>2. k \in LiveKeys'
          BY <2>3, <3>5, <5>1 DEF LiveKeys
        <5>3. QED
          BY <4>1, <5>1, <5>2
      <4>3. ASSUME grants[k].uses = need(k) PROVE Credit'[k] = 0
        <5>1. k \notin LiveKeys'
          BY <2>1, <2>2, <3>4, <4>3 DEF LiveKeys
        <5>2. QED
          BY <4>1, <5>1
      <4>4. QED
        BY <4>1, <4>2, <4>3
    <3>7. \A k \in GrantKey : k \notin LiveKeys => Credit[k] = 0 /\ Credit'[k] = 0
      BY <2>1, <3>4
    <3>8. ASSUME NEW k \in GrantKey
          PROVE  spent[k] <= spent'[k] /\ spent'[k] + Credit'[k] = spent[k] + Credit[k]
      <4>1. spent[k] \in Nat /\ Credit[k] \in Nat
        BY <2>4 DEF TypeOK
      <4>2. CASE k \in LiveKeys
        <5>1. grants[k].uses \in Nat /\ need(k) \in Nat /\ need(k) <= grants[k].uses
          BY <2>1, <2>2, <3>1, <3>2, <4>2
        <5>2. spent'[k] = spent[k] + need(k)
          BY <3>3, <4>2
        <5> HIDE DEF Credit
        <5>3. Credit[k] = grants[k].uses
          BY <3>6, <4>2
        <5>4. Credit'[k] = Credit[k] - need(k)
          <6>1. CASE grants[k].uses > need(k)
            BY <3>6, <4>2, <6>1
          <6>2. CASE grants[k].uses = need(k)
            BY <3>6, <4>2, <5>1, <5>3, <6>2
          <6>3. QED
            BY <5>1, <6>1, <6>2
        <5>5. QED
          BY <4>1, <5>1, <5>2, <5>3, <5>4
      <4>3. CASE k \notin LiveKeys
        BY <3>3, <3>7, <4>1, <4>3
      <4>4. QED
        BY <4>2, <4>3
    <3>9. Ledger!Spend
      BY <2>4, <3>5, <3>8 DEF Ledger!Spend, TypeOK
    <3>10. QED
      BY <3>9 DEF Ledger!LedgerNext
  <2>10. CASE Tick
    <3>1. now' > now /\ grants' = grants /\ minted' = minted /\ spent' = spent
      BY <2>10, BoundAssumption DEF Tick, TypeOK, history
    <3>2. now \in Nat /\ now' \in Nat /\ \A k \in DOMAIN grants : grants[k].expires \in Nat
      BY <2>2, BoundAssumption DEF TypeOK, Grant
    <3>3. LiveKeys' \subseteq LiveKeys
      BY <3>1, <3>2 DEF LiveKeys
    <3>4. \A k \in GrantKey : Credit'[k] \in {Credit[k], 0}
      BY <3>1, <3>3
    <3>5. QED
      BY <2>5, <3>1, <3>4
  <2>11. CASE UNCHANGED <<grants, now, history>>
    BY <2>11 DEF history, LiveKeys
  <2>12. ASSUME NEW k \in GrantKey, RevokeApproval(k) PROVE Ledger!LedgerNext
    BY <2>1, <2>6, <2>12 DEF RevokeApproval, Restrict
  <2>13. CASE Approvals
    BY <2>1, <2>6, <2>7, <2>13 DEF Approvals
  <2>14. ASSUME NEW refs \in References, NEW tool \in Tool, NEW target \in Target,
                Refuse(refs, tool, target)
         PROVE  Ledger!LedgerNext
    BY <2>1, <2>6, <2>7, <2>14 DEF Refuse
  <2>15. CASE Dispose
    BY <2>6, <2>15 DEF Dispose
  <2>16. QED
    BY <2>8, <2>9, <2>10, <2>11, <2>12, <2>13, <2>14, <2>15
    DEF Next, vars, StoreKnown, StoreNew, history
<1>3. QED
  BY <1>1, <1>2, TypeCorrect, PTL DEF Spec, ImplementsLedger, Ledger!LedgerSpec, Ledger!ledger

(* What implementing the ledger is worth: a behaviour of the vault's ledger *)
(* never spends more uses of a capability than were minted.                 *)
THEOREM LedgerWithinApproval == ImplementsLedger => []Ledger!WithinApproval
<1> DEFINE LedgerInv == Ledger!LedgerTypeOK /\ Ledger!WithinApproval
<1>1. Ledger!LedgerInit => LedgerInv
  BY DEF Ledger!LedgerInit, Ledger!LedgerTypeOK, Ledger!WithinApproval
<1>2. LedgerInv /\ [Ledger!LedgerNext]_<<Credit, minted, spent>> => LedgerInv'
  <2> SUFFICES ASSUME LedgerInv, [Ledger!LedgerNext]_<<Credit, minted, spent>>
               PROVE  LedgerInv'
    OBVIOUS
  <2> USE DEF Ledger!LedgerTypeOK, Ledger!WithinApproval
  <2>1. ASSUME NEW k \in GrantKey, Ledger!Mint(k) PROVE LedgerInv'
    BY <2>1 DEF Ledger!Mint
  <2>2. CASE Ledger!Lapse
    BY <2>2 DEF Ledger!Lapse
  <2>3. CASE Ledger!Spend
    BY <2>3 DEF Ledger!Spend
  <2>4. CASE UNCHANGED <<Credit, minted, spent>>
    BY <2>4
  <2>5. QED
    BY <2>1, <2>2, <2>3, <2>4 DEF Ledger!LedgerNext
<1>3. QED
  BY <1>1, <1>2, PTL DEF ImplementsLedger, Ledger!LedgerSpec, Ledger!ledger

-----------------------------------------------------------------------------
(* The event loop *)

(* While there are calls to treat, the current one is a call.              *)
LEMMA CurrentCall ==
  ASSUME LoopTypeOK, calls # << >>
  PROVE  /\ call \in Call /\ call.refs \in References
         /\ call.tool \in Tool /\ call.target \in Target
         /\ Tail(calls) \in Seq(Call)
<1>1. call \in Call /\ Tail(calls) \in Seq(Call)
  BY DEF LoopTypeOK, call
<1>2. QED
  BY <1>1 DEF Call

(* The event loop always treats a sequence of calls.                       *)
LEMMA LoopTyped == HookSpec => []LoopTypeOK
<1>1. HookInit => LoopTypeOK
  BY DEF HookInit, LoopTypeOK
<1>2. LoopTypeOK /\ [HookNext]_allVars => LoopTypeOK'
  <2> SUFFICES ASSUME LoopTypeOK, [HookNext]_allVars PROVE LoopTypeOK'
    OBVIOUS
  <2>1. ASSUME UNCHANGED <<phase, calls>> PROVE LoopTypeOK'
    BY <2>1 DEF LoopTypeOK
  <2>2. ASSUME Raise PROVE LoopTypeOK'
    BY <2>2 DEF Raise, LoopTypeOK
  <2>3. ASSUME NextCall, calls # << >> PROVE LoopTypeOK'
    BY <2>3, CurrentCall DEF NextCall, LoopTypeOK
  <2>4. ASSUME NEW completion \in Completion, Arrive(completion) PROVE LoopTypeOK'
    BY <2>4, CompletionAssumption DEF Arrive, LoopTypeOK
  <2>5. CASE Return
    BY <2>5 DEF Return, LoopTypeOK
  <2>6. CASE SkipAnswer \/ Nameless \/ Execute \/ Misplace \/ Deny
    BY <2>2, <2>3, <2>6 DEF SkipAnswer, Nameless, Execute, Misplace, Deny, Trying
  <2>7. CASE BeginConsult \/ EndConsult
    BY <2>2, <2>7 DEF BeginConsult, EndConsult, Trying, LoopTypeOK
  <2>8. ASSUME NEW r \in Reference,
               \/ SkipReference(r) \/ DenyReference(r) \/ AbortConsult(r)
               \/ \E ttl \in Ttl, uses \in 1..MaxUses : ApproveReference(r, ttl, uses)
        PROVE  LoopTypeOK'
    BY <2>1, <2>2, <2>8 DEF SkipReference, DenyReference, AbortConsult, ApproveReference
  <2>9. ASSUME UNCHANGED hookVars PROVE LoopTypeOK'
    BY <2>1, <2>9 DEF hookVars
  <2>10. CASE UNCHANGED allVars
    BY <2>1, <2>10 DEF allVars
  <2>11. QED
    BY <2>4, <2>5, <2>6, <2>7, <2>8, <2>9, <2>10
    DEF HookNext, HookStep, ViewerGrant, ViewerRevoke, RequestHookStores,
        RequestHookPrunes, Clock
<1>3. QED
  BY <1>1, <1>2, PTL DEF HookSpec

-----------------------------------------------------------------------------
(* The vault inside the composition *)

(* The capability an approval mints is one of the vault's.                 *)
LEMMA MintedKeyTyped ==
  ASSUME LoopTypeOK, NEW r \in Reference, Consulting(r), Grantable(r)
  PROVE  MintedKey(r) \in GrantKey
<1>1. call.tool \in Tool /\ call.target \in Target
  BY CurrentCall DEF Consulting, LoopTypeOK
<1>2. r[1] \in Token /\ NormPath[r[2]] \in Path
  BY ActionAssumption DEF Reference, Grantable
<1>3. QED
  BY <1>1, <1>2 DEF MintedKey, GrantKey

(* Every step of the composition is a vault operation or leaves the vault  *)
(* alone, so the composition implements the vault's specification.         *)
THEOREM HookKeepsVault == HookSpec => ImplementsVault
<1>1. HookInit => Init
  BY DEF HookInit
<1>2. LoopTypeOK /\ [HookNext]_allVars => [Next]_vars
  <2> SUFFICES ASSUME LoopTypeOK, [HookNext]_allVars PROVE [Next]_vars
    OBVIOUS
  <2>1. ASSUME UNCHANGED vaultVars PROVE [Next]_vars
    BY <2>1 DEF vaultVars
  <2>2. ASSUME Execute \/ Misplace \/ Deny \/ BeginConsult PROVE Next
    <3>1. /\ call.refs \in References /\ call.tool \in Tool /\ call.target \in Target
          /\ \/ Resolve(call.refs, call.tool, call.target)
             \/ Refuse(call.refs, call.tool, call.target)
      BY <2>2, CurrentCall DEF Execute, Misplace, Deny, BeginConsult, Trying
    <3>2. QED
      BY <3>1 DEF Next
  <2>3. ASSUME NEW r \in Reference, NEW ttl \in Ttl, NEW uses \in 1..MaxUses,
               ApproveReference(r, ttl, uses)
        PROVE  Next
    <3>1. MintedKey(r) \in GrantKey /\ GrantApproval(MintedKey(r), ttl, uses)
      BY <2>3, MintedKeyTyped DEF ApproveReference
    <3>2. QED
      BY <3>1 DEF Next
  <2>4. ASSUME NEW r \in Reference, SkipReference(r) \/ DenyReference(r) \/ AbortConsult(r)
        PROVE  UNCHANGED vaultVars
    BY <2>4 DEF SkipReference, DenyReference, AbortConsult
  <2>5. ASSUME NEW completion \in Completion, Arrive(completion) PROVE UNCHANGED vaultVars
    BY <2>5 DEF Arrive
  <2>6. CASE Return \/ SkipAnswer \/ Nameless \/ EndConsult
    BY <2>1, <2>6 DEF Return, SkipAnswer, Nameless, EndConsult
  <2>7. ASSUME NEW k \in GrantKey, NEW ttl \in Ttl, NEW uses \in 1..MaxUses,
               ViewerGrant(k, ttl, uses)
        PROVE  Next
    BY <2>7 DEF ViewerGrant, Next
  <2>8. ASSUME NEW k \in GrantKey, ViewerRevoke(k) PROVE Next
    BY <2>8 DEF ViewerRevoke, Next
  <2>9. ASSUME NEW c \in Class, NEW t \in Text, RequestHookStores(c, t) PROVE Next
    BY <2>9 DEF RequestHookStores, Next
  <2>10. CASE RequestHookPrunes \/ Clock
    BY <2>10 DEF RequestHookPrunes, Clock, Next
  <2>11. CASE UNCHANGED allVars
    BY <2>11 DEF allVars, vars
  <2>12. QED
    BY <2>1, <2>2, <2>3, <2>4, <2>5, <2>6, <2>7, <2>8, <2>9, <2>10, <2>11
    DEF HookNext, HookStep
<1>3. QED
  BY <1>1, <1>2, LoopTyped, PTL DEF HookSpec, Spec, ImplementsVault

(* The types of the vault and of the hook hold in the composition.         *)
THEOREM HookTypeCorrect == HookSpec => []HookTypeOK
<1> DEFINE ConsultTypeOK ==
             /\ manifest \subseteq Token
             /\ judged \in Nat
             /\ approved \subseteq Reference
             /\ deadline \in Nat
           UseTypeOK ==
             /\ staged \in [GrantKey -> Nat]
             /\ delivered \in [GrantKey -> Nat]
<1>1. HookInit => ConsultTypeOK /\ UseTypeOK
  BY DEF HookInit
<1>2. TypeOK /\ LoopTypeOK /\ ConsultTypeOK /\ [HookNext]_allVars => ConsultTypeOK'
  <2> SUFFICES ASSUME TypeOK, LoopTypeOK, ConsultTypeOK, [HookNext]_allVars
               PROVE  ConsultTypeOK'
    OBVIOUS
  <2>1. ASSUME UNCHANGED consultVars PROVE ConsultTypeOK'
    BY <2>1 DEF consultVars
  <2>2. ASSUME Raise \/ NextCall PROVE ConsultTypeOK'
    BY <2>2 DEF Raise, NextCall
  <2>3. CASE Return \/ SkipAnswer \/ Nameless \/ Execute \/ Misplace \/ Deny \/ EndConsult
    BY <2>1, <2>2, <2>3
    DEF Return, SkipAnswer, Nameless, Execute, Misplace, Deny, EndConsult
  <2>4. CASE BeginConsult
    BY <2>4 DEF BeginConsult, TypeOK, IsPartial
  <2>5. ASSUME NEW r \in Reference, SkipReference(r) \/ DenyReference(r) \/ AbortConsult(r)
        PROVE  ConsultTypeOK'
    BY <2>2, <2>5 DEF SkipReference, DenyReference, AbortConsult
  <2>6. ASSUME NEW r \in Reference, NEW ttl \in Ttl, NEW uses \in 1..MaxUses,
               ApproveReference(r, ttl, uses)
        PROVE  ConsultTypeOK'
    BY <2>6, BoundAssumption DEF ApproveReference, TypeOK
  <2>7. ASSUME UNCHANGED hookVars PROVE ConsultTypeOK'
    BY <2>7 DEF hookVars
  <2>8. ASSUME NEW completion \in Completion, Arrive(completion) PROVE ConsultTypeOK'
    BY <2>1, <2>8 DEF Arrive
  <2>9. CASE UNCHANGED allVars
    BY <2>9 DEF allVars
  <2> HIDE DEF ConsultTypeOK
  <2>10. QED
    BY <2>3, <2>4, <2>5, <2>6, <2>7, <2>8, <2>9
    DEF HookNext, HookStep, ViewerGrant, ViewerRevoke, RequestHookStores,
        RequestHookPrunes, Clock
<1>3. LoopTypeOK /\ UseTypeOK /\ [HookNext]_allVars => UseTypeOK'
  <2> SUFFICES ASSUME LoopTypeOK, UseTypeOK, [HookNext]_allVars PROVE UseTypeOK'
    OBVIOUS
  <2>1. ASSUME UNCHANGED <<staged, delivered>> PROVE UseTypeOK'
    BY <2>1
  <2>2. ASSUME Raise PROVE UseTypeOK'
    BY <2>2 DEF Raise
  <2>3. CASE Return
    BY <2>3 DEF Return
  <2>4. CASE Execute
    <3>1. \A k \in GrantKey : Need(call.refs, call.tool, call.target, k) \in Nat
      BY <2>4, CurrentCall, NeedIsNat DEF Execute, Trying
    <3>2. QED
      BY <2>4, <3>1 DEF Execute
  <2>5. CASE SkipAnswer \/ Nameless \/ Misplace \/ Deny \/ BeginConsult \/ EndConsult
    BY <2>1, <2>2, <2>5 DEF SkipAnswer, Nameless, Misplace, Deny, BeginConsult, EndConsult
  <2>6. ASSUME NEW r \in Reference,
               \/ SkipReference(r) \/ DenyReference(r) \/ AbortConsult(r)
               \/ \E ttl \in Ttl, uses \in 1..MaxUses : ApproveReference(r, ttl, uses)
        PROVE  UseTypeOK'
    BY <2>1, <2>2, <2>6 DEF SkipReference, DenyReference, AbortConsult, ApproveReference
  <2>7. ASSUME UNCHANGED hookVars PROVE UseTypeOK'
    BY <2>7 DEF hookVars
  <2>8. ASSUME NEW completion \in Completion, Arrive(completion) PROVE UseTypeOK'
    BY <2>8 DEF Arrive
  <2>9. CASE UNCHANGED allVars
    BY <2>9 DEF allVars
  <2> HIDE DEF UseTypeOK
  <2>10. QED
    BY <2>3, <2>4, <2>5, <2>6, <2>7, <2>8, <2>9
    DEF HookNext, HookStep, ViewerGrant, ViewerRevoke, RequestHookStores,
        RequestHookPrunes, Clock
<1>4. HookTypeOK <=> TypeOK /\ LoopTypeOK /\ ConsultTypeOK /\ UseTypeOK
  BY DEF HookTypeOK
<1> HIDE DEF ConsultTypeOK, UseTypeOK
<1>5. HookSpec => []TypeOK
  BY HookKeepsVault, TypeCorrect, PTL DEF ImplementsVault
<1>6. QED
  BY <1>1, <1>2, <1>3, <1>4, <1>5, LoopTyped, PTL DEF HookSpec

-----------------------------------------------------------------------------
(* What reaches the runtime *)

(* A gated value is delivered, and staged for delivery, only against uses  *)
(* that were charged: a step that stages charges the same amount, and a    *)
(* completion that is refused drops what it had staged.                    *)
THEOREM DeliveredWithinCharges == HookSpec => []DeliveredIsCharged
<1>1. HookInit => DeliveredIsCharged
  BY DEF HookInit, Init, DeliveredIsCharged
<1>2. HookTypeOK /\ DeliveredIsCharged /\ [HookNext]_allVars => DeliveredIsCharged'
  <2> SUFFICES ASSUME HookTypeOK, DeliveredIsCharged, [HookNext]_allVars
               PROVE  DeliveredIsCharged'
    OBVIOUS
  <2> USE DEF DeliveredIsCharged
  <2>1. /\ staged \in [GrantKey -> Nat] /\ delivered \in [GrantKey -> Nat]
        /\ spent \in [GrantKey -> Nat] /\ LoopTypeOK
    BY DEF HookTypeOK, TypeOK
  <2>2. ASSUME UNCHANGED <<staged, delivered, spent>> PROVE DeliveredIsCharged'
    BY <2>2
  <2>3. ASSUME Raise, \A k \in GrantKey : spent[k] <= spent'[k] /\ spent'[k] \in Nat
        PROVE  DeliveredIsCharged'
    BY <2>1, <2>3 DEF Raise
  <2>4. CASE Return
    BY <2>1, <2>4 DEF Return, vaultVars, vars
  <2>5. CASE Execute
    <3> DEFINE need(k) == Need(call.refs, call.tool, call.target, k)
    <3>1. \A k \in GrantKey : need(k) \in Nat
      BY <2>1, <2>5, CurrentCall, NeedIsNat DEF Execute, Trying
    <3>2. /\ staged' = [k \in GrantKey |-> staged[k] + IF k \in LiveKeys THEN need(k) ELSE 0]
          /\ spent' = [k \in GrantKey |-> spent[k] + IF k \in LiveKeys THEN need(k) ELSE 0]
          /\ delivered' = delivered
      BY <2>5 DEF Execute, Resolve
    <3> HIDE DEF need
    <3>3. QED
      BY <2>1, <3>1, <3>2
  <2>6. CASE Misplace
    <3> DEFINE need(k) == Need(call.refs, call.tool, call.target, k)
    <3>1. \A k \in GrantKey : need(k) \in Nat
      BY <2>1, <2>6, CurrentCall, NeedIsNat DEF Misplace, Trying
    <3>2. spent' = [k \in GrantKey |-> spent[k] + IF k \in LiveKeys THEN need(k) ELSE 0]
      BY <2>6 DEF Misplace, Resolve
    <3> HIDE DEF need
    <3>3. \A k \in GrantKey : spent[k] <= spent'[k] /\ spent'[k] \in Nat
      BY <2>1, <3>1, <3>2
    <3>4. QED
      BY <2>3, <2>6, <3>3 DEF Misplace
  <2>7. ASSUME Raise, UNCHANGED spent PROVE DeliveredIsCharged'
    BY <2>1, <2>3, <2>7
  <2>8. CASE Nameless \/ Deny \/ EndConsult \/ \E r \in Reference : AbortConsult(r)
    BY <2>2, <2>7, <2>8 DEF Nameless, Deny, Refuse, history, EndConsult, AbortConsult,
                            vaultVars, vars
  <2>9. CASE SkipAnswer \/ BeginConsult
    BY <2>2, <2>9 DEF SkipAnswer, BeginConsult, Refuse, history, vaultVars, vars
  <2>10. ASSUME NEW r \in Reference,
                \/ SkipReference(r) \/ DenyReference(r)
                \/ \E ttl \in Ttl, uses \in 1..MaxUses : ApproveReference(r, ttl, uses)
         PROVE  DeliveredIsCharged'
    BY <2>2, <2>10 DEF SkipReference, DenyReference, ApproveReference, GrantApproval,
                       vaultVars, vars
  <2>11. ASSUME UNCHANGED <<hookVars, spent>> PROVE DeliveredIsCharged'
    BY <2>2, <2>11 DEF hookVars
  <2>12. ASSUME NEW completion \in Completion, Arrive(completion) PROVE DeliveredIsCharged'
    BY <2>2, <2>12 DEF Arrive, vaultVars, vars
  <2>13. CASE UNCHANGED allVars
    BY <2>2, <2>13 DEF allVars
  <2> HIDE DEF DeliveredIsCharged
  <2>14. ASSUME NEW k \in GrantKey, NEW ttl \in Ttl, NEW uses \in 1..MaxUses,
                ViewerGrant(k, ttl, uses)
         PROVE  DeliveredIsCharged'
    BY <2>11, <2>14 DEF ViewerGrant, GrantApproval
  <2>15. ASSUME NEW k \in GrantKey, ViewerRevoke(k) PROVE DeliveredIsCharged'
    BY <2>11, <2>15 DEF ViewerRevoke, RevokeApproval, history
  <2>16. ASSUME NEW c \in Class, NEW t \in Text, RequestHookStores(c, t)
         PROVE  DeliveredIsCharged'
    BY <2>11, <2>16 DEF RequestHookStores, StoreKnown, StoreNew, history
  <2>17. CASE RequestHookPrunes \/ Clock
    BY <2>11, <2>17 DEF RequestHookPrunes, Clock, Approvals, Tick, history
  <2>18. QED
    BY <2>4, <2>5, <2>6, <2>8, <2>9, <2>10, <2>12, <2>13, <2>14, <2>15, <2>16, <2>17
    DEF HookNext, HookStep
<1>3. QED
  BY <1>1, <1>2, HookTypeCorrect, PTL DEF HookSpec

(* Hence the runtime receives a gated value no more often than the viewer  *)
(* and the mediator together approved its use.                             *)
THEOREM DeliveredWithinApproval ==
  HookSpec => [](\A k \in GrantKey : delivered[k] <= minted[k])
<1>1. HookTypeOK /\ DeliveredIsCharged /\ UsesBacked
        => \A k \in GrantKey : delivered[k] <= minted[k]
  <2> SUFFICES ASSUME HookTypeOK, DeliveredIsCharged, UsesBacked, NEW k \in GrantKey
               PROVE  delivered[k] <= minted[k]
    OBVIOUS
  <2>1. /\ staged[k] \in Nat /\ delivered[k] \in Nat /\ spent[k] \in Nat /\ minted[k] \in Nat
        /\ k \in DOMAIN grants => grants[k].uses \in Nat
    BY BoundAssumption DEF HookTypeOK, TypeOK, IsPartial, Grant
  <2>2. QED
    BY <2>1 DEF DeliveredIsCharged, UsesBacked
<1>2. HookSpec => []UsesBacked
  BY HookKeepsVault, UsesStayBacked, PTL DEF ImplementsVault
<1>3. QED
  BY <1>1, <1>2, HookTypeCorrect, DeliveredWithinCharges, PTL

-----------------------------------------------------------------------------
(* Approvals in force *)

(* What holds from the first verdict of a consultation to the retry: the   *)
(* grant of an approved reference is on the books, and good until the      *)
(* deadline.  Only the hook itself, the viewer and the clock take grants   *)
(* away, and the viewer is not served meanwhile.                           *)
GrantInForce(k) ==
  /\ k \in DOMAIN grants
  /\ deadline <= grants[k].expires
  /\ grants[k].uses > 0
ApprovalsInForce ==
  /\ approved # {} => phase \in {"consult", "retry"}
  /\ \A r \in approved : NormPath[r[2]] # InvalidPath /\ r[1] \in DOMAIN byPlaceholder
  /\ now < deadline => \A r \in approved : GrantInForce(MintedKey(r))

(* A grant in force is live until the deadline.                            *)
LEMMA InForceIsLive ==
  ASSUME TypeOK, deadline \in Nat, now < deadline, NEW k, GrantInForce(k)
  PROVE  k \in LiveKeys
<1>1. now \in Nat /\ grants[k].expires \in Nat
  BY BoundAssumption DEF TypeOK, IsPartial, GrantInForce, Grant
<1>2. QED
  BY <1>1 DEF GrantInForce, LiveKeys

(* Every step keeps the approvals of a consultation in force.              *)
LEMMA ApprovalsStayInForce == HookSpec => []ApprovalsInForce
<1>1. HookInit => ApprovalsInForce
  BY DEF HookInit, Init, ApprovalsInForce
<1>2. HookTypeOK /\ HookTypeOK' /\ ApprovalsInForce /\ [HookNext]_allVars => ApprovalsInForce'
  <2> SUFFICES ASSUME HookTypeOK, HookTypeOK', ApprovalsInForce, [HookNext]_allVars
               PROVE  ApprovalsInForce'
    OBVIOUS
  <2>1. /\ TypeOK /\ LoopTypeOK /\ TypeOK' /\ now \in Nat /\ now' \in Nat
        /\ deadline \in Nat /\ deadline' \in Nat
        /\ approved \subseteq Reference /\ approved' \subseteq Reference
    BY BoundAssumption DEF HookTypeOK, TypeOK
  <2>2. ASSUME approved' = {} PROVE ApprovalsInForce'
    BY <2>2 DEF ApprovalsInForce
  <2>3. ASSUME UNCHANGED <<approved, deadline>>, call' = call,
               approved # {} => phase' \in {"consult", "retry"},
               DOMAIN byPlaceholder \subseteq DOMAIN byPlaceholder',
               now <= now',
               \A k \in LiveKeys : now' < deadline => k \in DOMAIN grants' /\ grants'[k] = grants[k]
        PROVE  ApprovalsInForce'
    <3>1. ASSUME now' < deadline, NEW r \in approved PROVE GrantInForce(MintedKey(r))'
      <4>1. now < deadline
        BY <2>1, <2>3, <3>1
      <4>2. GrantInForce(MintedKey(r))
        BY <3>1, <4>1 DEF ApprovalsInForce
      <4>3. MintedKey(r) \in LiveKeys
        BY <2>1, <4>1, <4>2, InForceIsLive
      <4>4. MintedKey(r)' = MintedKey(r)
        BY <2>3 DEF MintedKey
      <4>5. QED
        BY <2>3, <3>1, <4>2, <4>3, <4>4 DEF GrantInForce
    <3>2. QED
      BY <2>3, <3>1 DEF ApprovalsInForce
  <2>4. ASSUME UNCHANGED <<phase, calls, approved, deadline>>,
               DOMAIN byPlaceholder \subseteq DOMAIN byPlaceholder',
               now <= now',
               \A k \in LiveKeys : now' < deadline => k \in DOMAIN grants' /\ grants'[k] = grants[k]
        PROVE  ApprovalsInForce'
    BY <2>3, <2>4 DEF ApprovalsInForce, call
  <2>5. /\ DOMAIN Live = LiveKeys /\ LiveKeys \subseteq DOMAIN grants
        /\ \A k \in LiveKeys : Live[k] = grants[k]
    BY DEF LiveKeys, Live, Restrict
  <2>6. ASSUME Raise \/ NextCall PROVE ApprovalsInForce'
    BY <2>2, <2>6 DEF Raise, NextCall
  <2>7. ASSUME approved = {}, UNCHANGED approved PROVE ApprovalsInForce'
    BY <2>2, <2>7
  <2>8. CASE SkipAnswer \/ Nameless \/ Execute \/ Misplace \/ Deny
    BY <2>6, <2>8 DEF SkipAnswer, Nameless, Execute, Misplace, Deny
  <2>9. CASE Return \/ BeginConsult \/ \E completion \in Completion : Arrive(completion)
    BY <2>7, <2>9 DEF Return, BeginConsult, Arrive, ApprovalsInForce, consultVars
  <2>10. CASE EndConsult
    <3>1. CASE approved = {}
      BY <2>6, <2>10, <3>1 DEF EndConsult
    <3>2. CASE approved # {}
      BY <2>1, <2>3, <2>10, <3>2 DEF EndConsult, consultVars, vaultVars, vars, call, LiveKeys
    <3>3. QED
      BY <3>1, <3>2
  <2>11. ASSUME NEW r \in Reference, AbortConsult(r) PROVE ApprovalsInForce'
    BY <2>6, <2>11 DEF AbortConsult
  <2>12. ASSUME NEW r \in Reference, SkipReference(r) \/ DenyReference(r)
         PROVE  ApprovalsInForce'
    BY <2>1, <2>4, <2>12 DEF SkipReference, DenyReference, vaultVars, vars, LiveKeys
  <2>13. ASSUME NEW r \in Reference, NEW ttl \in Ttl, NEW uses \in 1..MaxUses,
                ApproveReference(r, ttl, uses)
         PROVE  ApprovalsInForce'
    <3> DEFINE new == [expires |-> now + ttl, uses |-> uses]
    <3>1. /\ grants' = Put(Live, MintedKey(r), new)
          /\ new.expires = now + ttl /\ new.uses = uses
      BY <2>13 DEF ApproveReference, GrantApproval
    <3>2. /\ now' = now /\ byPlaceholder' = byPlaceholder
          /\ phase' = phase /\ calls' = calls /\ phase = "consult"
          /\ approved' = approved \cup {r}
          /\ r[1] \in DOMAIN byPlaceholder /\ NormPath[r[2]] # InvalidPath
      BY <2>13 DEF ApproveReference, GrantApproval, Consulting, Grantable, MintedKey, entryVars
    <3>3. /\ ttl \in Nat \ {0} /\ uses \in Nat \ {0} /\ deadline' <= now + ttl
          /\ approved # {} => deadline' <= deadline
      BY <2>1, <2>13, BoundAssumption DEF ApproveReference
    <3> HIDE DEF new
    <3>4. \A q : MintedKey(q)' = MintedKey(q)
      BY <3>2 DEF MintedKey, call
    <3>5. GrantInForce(MintedKey(r))'
      BY <3>1, <3>3, <3>4 DEF GrantInForce, Put
    <3>6. ASSUME now < deadline', NEW q \in approved PROVE GrantInForce(MintedKey(q))'
      <4>1. now < deadline /\ deadline' <= deadline
        BY <2>1, <3>3, <3>6
      <4>2. GrantInForce(MintedKey(q))
        BY <3>6, <4>1 DEF ApprovalsInForce
      <4>3. MintedKey(q) \in LiveKeys
        BY <2>1, <4>1, <4>2, InForceIsLive
      <4>4. CASE MintedKey(q) = MintedKey(r)
        BY <3>4, <3>5, <4>4
      <4>5. CASE MintedKey(q) # MintedKey(r)
        <5>1. /\ MintedKey(q) \in DOMAIN grants'
              /\ grants'[MintedKey(q)] = grants[MintedKey(q)]
          BY <2>5, <3>1, <4>3, <4>5 DEF Put
        <5>2. grants[MintedKey(q)].expires \in Nat
          BY <2>1, <4>2 DEF GrantInForce, TypeOK, IsPartial, Grant
        <5>3. QED
          BY <2>1, <3>4, <4>1, <4>2, <5>1, <5>2 DEF GrantInForce
      <4>6. QED
        BY <4>4, <4>5
    <3>7. QED
      BY <3>2, <3>5, <3>6 DEF ApprovalsInForce
  <2>14. ASSUME NEW k \in GrantKey,
                \/ ViewerRevoke(k)
                \/ \E ttl \in Ttl, uses \in 1..MaxUses : ViewerGrant(k, ttl, uses)
         PROVE  ApprovalsInForce'
    BY <2>7, <2>14 DEF ViewerRevoke, ViewerGrant, hookVars, ApprovalsInForce
  <2>15. ASSUME NEW c \in Class, NEW t \in Text, RequestHookStores(c, t)
         PROVE  ApprovalsInForce'
    <3>1. /\ UNCHANGED <<phase, calls, approved, deadline, now, grants>>
      BY <2>15 DEF RequestHookStores, StoreKnown, StoreNew, hookVars
    <3>2. DOMAIN byPlaceholder \subseteq DOMAIN byPlaceholder'
      <4>1. PICK token, entry : \/ byPlaceholder' = byPlaceholder
                                \/ byPlaceholder' = Put(byPlaceholder, token, entry)
        BY <2>15 DEF RequestHookStores, StoreKnown, StoreNew
      <4>2. QED
        BY <4>1 DEF Put
    <3>3. QED
      BY <2>1, <2>4, <2>5, <3>1, <3>2
  <2>16. CASE RequestHookPrunes
    BY <2>1, <2>4, <2>5, <2>16 DEF RequestHookPrunes, Approvals, hookVars, entryVars
  <2>17. CASE Clock
    <3>1. now <= now'
      BY <2>1, <2>17 DEF Clock, Tick
    <3>2. QED
      BY <2>4, <2>5, <2>17, <3>1 DEF Clock, Tick, hookVars, entryVars
  <2>18. CASE UNCHANGED allVars
    BY <2>1, <2>4, <2>5, <2>18 DEF allVars
  <2>19. QED
    BY <2>8, <2>9, <2>10, <2>11, <2>12, <2>13, <2>14, <2>15, <2>16, <2>17, <2>18
    DEF HookNext, HookStep
<1>3. QED
  BY <1>1, <1>2, HookTypeCorrect, PTL DEF HookSpec

(* A call needs at most one use of a capability when no two of its         *)
(* references draw on the same one.                                        *)
LEMMA SingleUseSuffices ==
  ASSUME NEW refs \in References, NEW tool, NEW target, NEW k,
         \A r, q \in Range(refs) :
            /\ LevelOf(r[1]) = "approval" /\ CapabilityFor(r, tool, target) = k
            /\ LevelOf(q[1]) = "approval" /\ CapabilityFor(q, tool, target) = k
            => r = q
  PROVE  Need(refs, tool, target, k) <= 1
<1> DEFINE drawn == {r \in Range(refs) : /\ LevelOf(r[1]) = "approval"
                                         /\ CapabilityFor(r, tool, target) = k}
<1>1. CASE drawn = {}
  BY <1>1, FS_EmptySet DEF Need
<1>2. CASE drawn # {}
  <2>1. PICK r : drawn = {r}
    BY <1>2
  <2>2. Cardinality(drawn) = 1
    BY <2>1, FS_Singleton
  <2>3. QED
    BY <2>2 DEF Need
<1>3. QED
  BY <1>1, <1>2

(* A fully approved call goes through on the retry, for every policy, set  *)
(* of calls and bound, whatever the worker threads do meanwhile.           *)
THEOREM ApprovedCallsGoThrough == HookSpec => []ApprovedGoesThrough
<1>1. HookTypeOK /\ ApprovalsInForce /\ ApprovalsBacked => ApprovedGoesThrough
  <2> SUFFICES ASSUME HookTypeOK, ApprovalsInForce, ApprovalsBacked,
                      phase = "retry", now < deadline, Unaliased(call.refs),
                      \A r \in Range(call.refs) :
                         /\ NormPath[r[2]] # InvalidPath
                         /\ r[1] \in DOMAIN byPlaceholder
                         /\ LevelOf(r[1]) = "approval" => r \in approved
               PROVE  Authorized(call.refs, call.tool, call.target)
    BY DEF ApprovedGoesThrough
  <2>1. call.refs \in References /\ TypeOK /\ deadline \in Nat
    BY CurrentCall DEF HookTypeOK, LoopTypeOK
  <2>2. ASSUME NEW r \in Range(call.refs), LevelOf(r[1]) = "approval"
        PROVE  /\ MintedKey(r) \in LiveKeys
               /\ CapabilityFor(r, call.tool, call.target) = MintedKey(r)
    <3>1. GrantInForce(MintedKey(r))
      BY <2>2 DEF ApprovalsInForce
    <3>2. MintedKey(r) \in LiveKeys
      BY <2>1, <3>1, InForceIsLive
    <3>3. QED
      BY <3>2 DEF MintedKey, CapabilityFor
  <2>3. ASSUME NEW r \in Range(call.refs) PROVE Fault(r, call.tool, call.target) = "none"
    BY <2>2, <2>3 DEF Fault, ApprovalsBacked
  <2>4. \A i \in DOMAIN call.refs : call.refs[i] \in Range(call.refs)
    BY DEF Range
  <2>5. Faulty(call.refs, call.tool, call.target) = {}
    BY <2>3, <2>4 DEF Faulty
  <2>6. ASSUME NEW k \in LiveKeys
        PROVE  Need(call.refs, call.tool, call.target, k) <= grants[k].uses
    <3>1. ASSUME NEW r \in Range(call.refs), NEW q \in Range(call.refs),
                 LevelOf(r[1]) = "approval", CapabilityFor(r, call.tool, call.target) = k,
                 LevelOf(q[1]) = "approval", CapabilityFor(q, call.tool, call.target) = k
          PROVE  r = q
      <4>1. MintedKey(r) = MintedKey(q)
        BY <2>2, <3>1
      <4>2. r[1] = q[1] /\ NormPath[r[2]] = NormPath[q[2]]
        BY <4>1 DEF MintedKey
      <4>3. QED
        BY <3>1, <4>2 DEF Unaliased
    <3>2. Need(call.refs, call.tool, call.target, k) <= 1
      BY <2>1, <3>1, SingleUseSuffices
    <3>3. Need(call.refs, call.tool, call.target, k) \in Nat
      BY <2>1, NeedIsNat
    <3>4. grants[k].uses \in Nat \ {0}
      BY <2>1, BoundAssumption DEF LiveKeys, TypeOK, IsPartial, Grant
    <3>5. QED
      BY <3>2, <3>3, <3>4
  <2>7. QED
    BY <2>5, <2>6 DEF Authorized, Covered
<1>2. HookSpec => []ApprovalsBacked
  BY HookKeepsVault, ApprovalsStayBacked, PTL DEF ImplementsVault
<1>3. QED
  BY <1>1, <1>2, HookTypeCorrect, ApprovalsStayInForce, PTL
=============================================================================
