--------------------------- MODULE DecisionLedger ---------------------------
(***************************************************************************)
(* What the governed decision flow promises, without saying how.           *)
(*                                                                         *)
(* A case is raised, decided once by a first-order decision while it is    *)
(* pending, and from then on only replaced: a superseding decision takes   *)
(* the place of exactly one decision that nobody replaced before, and an   *)
(* appeal makes the case pending again.  A decision that has landed stays  *)
(* in the ledger for good.  A case nobody decides may be closed, and a     *)
(* closed case is never touched again.                                     *)
(*                                                                         *)
(* These are the moves of the BrokerCase aggregate of nostr-bbs-core, over *)
(* all cases at once.  GovernanceCase implements them with receipts, plans *)
(* and batches.                                                            *)
(***************************************************************************)
CONSTANTS
    Case,      \* the cases
    Decision,  \* the signed decisions
    None,      \* no decision
    caseOf,    \* the case a decision is about
    target     \* what a superseding decision replaces; None: first-order

VARIABLES
    life,    \* where each case is
    landed,  \* the ledger: decisions that took effect
    succ     \* what replaced a decision

vars == <<life, landed, succ>>

Undecided == {"open", "reopened"}
Life == Undecided \cup {"none", "settled", "superseded", "closed"}

FirstOrder == {d \in Decision : target[d] = None}
Superseding == Decision \ FirstOrder

Init ==
    /\ life = [c \in Case |-> "none"]
    /\ landed = {}
    /\ succ = [d \in Decision |-> None]

Move(c, to) == life' = [life EXCEPT ![c] = to]

Raise(c) ==
    /\ life[c] = "none"
    /\ Move(c, "open")
    /\ UNCHANGED <<landed, succ>>

Settle(d) ==
    /\ d \in FirstOrder \ landed
    /\ life[caseOf[d]] \in Undecided
    /\ Move(caseOf[d], "settled")
    /\ landed' = landed \cup {d}
    /\ UNCHANGED succ

Supersede(d) ==
    /\ d \in Superseding \ landed
    /\ life[caseOf[d]] \in {"settled", "superseded", "reopened"}
    /\ target[d] \in landed
    /\ caseOf[target[d]] = caseOf[d]
    /\ succ[target[d]] = None
    /\ Move(caseOf[d], "superseded")
    /\ landed' = landed \cup {d}
    /\ succ' = [succ EXCEPT ![target[d]] = d]

Reopen(c) ==
    /\ life[c] \in {"settled", "superseded"}
    /\ Move(c, "reopened")
    /\ UNCHANGED <<landed, succ>>

Expire(c) ==
    /\ life[c] \in Undecided
    /\ Move(c, "closed")
    /\ UNCHANGED <<landed, succ>>

Next ==
    \/ \E c \in Case : Raise(c) \/ Reopen(c) \/ Expire(c)
    \/ \E d \in Decision : Settle(d) \/ Supersede(d)

Spec == Init /\ [][Next]_vars

=============================================================================
