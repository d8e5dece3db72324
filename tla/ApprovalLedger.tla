--------------------------- MODULE ApprovalLedger ---------------------------
(***************************************************************************)
(* What the approval machinery of the session vault promises, and nothing  *)
(* of how it keeps the promise: a local approval is a number of uses of    *)
(* one capability.  Uses can be minted, can lapse (expiry, revocation, a   *)
(* newer grant for the same capability, the end of the session) and can be *)
(* spent, several capabilities at once; an action never spends a use that  *)
(* is not there.  SessionVault (module Vault) implements this ledger.      *)
(***************************************************************************)
EXTENDS Naturals

CONSTANT Capability  \* the capabilities: (token, tool, argument path, target)

VARIABLES
  credit,            \* credit[k]: uses of k that an action may still spend
  minted,            \* minted[k]: uses ever granted for k
  spent              \* spent[k]:  uses ever consumed by executed actions

ledger == <<credit, minted, spent>>

LedgerTypeOK ==
  /\ credit \in [Capability -> Nat]
  /\ minted \in [Capability -> Nat]
  /\ spent  \in [Capability -> Nat]

LedgerInit ==
  /\ credit = [k \in Capability |-> 0]
  /\ minted = [k \in Capability |-> 0]
  /\ spent  = [k \in Capability |-> 0]

(* A new grant replaces what was left of an earlier one for the same key.  *)
Mint(k) ==
  /\ minted' \in [Capability -> Nat]
  /\ minted[k] < minted'[k]
  /\ \A l \in Capability \ {k} : minted'[l] = minted[l]
  /\ credit' = [credit EXCEPT ![k] = minted'[k] - minted[k]]
  /\ UNCHANGED spent

(* Any set of capabilities may lose what is left of them.                  *)
Lapse ==
  /\ credit' \in [Capability -> Nat]
  /\ \A k \in Capability : credit'[k] \in {credit[k], 0}
  /\ UNCHANGED <<minted, spent>>

(* One action: every capability it needs is charged, within its credit.    *)
Spend ==
  /\ spent' \in [Capability -> Nat]
  /\ credit' \in [Capability -> Nat]
  /\ \A k \in Capability : /\ spent[k] <= spent'[k]
                    /\ spent'[k] + credit'[k] = spent[k] + credit[k]
  /\ UNCHANGED minted

LedgerNext ==
  \/ \E k \in Capability : Mint(k)
  \/ Lapse
  \/ Spend

LedgerSpec == LedgerInit /\ [][LedgerNext]_ledger

(* Executed actions never consume more uses of a capability than were      *)
(* approved for it, counting over the whole session: minting adds the same *)
(* amount on both sides, spending moves uses from credit to spent, a lapse *)
(* only lowers the left side.                                              *)
WithinApproval == \A k \in Capability : spent[k] + credit[k] <= minted[k]
=============================================================================
