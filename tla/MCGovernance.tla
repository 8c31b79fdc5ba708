---------------------------- MODULE MCGovernance ----------------------------
(***************************************************************************)
(* Small worlds of the governed decision flow for TLC.  A world is a set   *)
(* of signed events that exist; which of them are delivered, when, how     *)
(* often and to which handler is up to the model.                          *)
(***************************************************************************)
EXTENDS GovernanceProperties, TLC

CONSTANTS w1, w2, p1, p2

Keys == {"agent", "ann", "bob", "owner", "rev"}
Admins == {"ann", "bob", "owner"}
Reviewers == {"rev"}
Ranks == [k \in Key |-> CASE k = "owner" -> 3
                           [] k \in {"ann", "bob"} -> 2
                           [] k = "rev" -> 1
                           [] OTHER -> 0]

Symmetry == Permutations({w1, w2}) \cup Permutations({p1, p2})

Signed(kind, signer, at, cites) ==
    [kind |-> kind, case |-> "c", signer |-> signer, at |-> at,
     cites |-> cites, outcome |-> "approve", to |-> signer, high |-> FALSE,
     expires |-> FALSE, human |-> TRUE, rationale |-> TRUE]

Ask(at) == Signed("request", "agent", at, None)
Answer(signer, at, cites, outcome) ==
    [Signed("response", signer, at, cites) EXCEPT !.outcome = outcome]
Replace(signer, at, cites, outcome) ==
    [Signed("supersession", signer, at, cites) EXCEPT !.outcome = outcome]
Contest(at, cites) == Signed("appeal", "agent", at, cites)

\* The same author re-posts a request, with a higher tier, while two admins and
\* a bot that signs with an admin's key answer one or the other.
RepostEvents == {"r1", "r2", "d1", "d2", "d3"}
RepostWorld ==
    [e \in RepostEvents |->
        CASE e = "r1" -> Ask(1)
          [] e = "r2" -> [Ask(2) EXCEPT !.high = TRUE]
          [] e = "d1" -> [Answer("ann", 3, "r1", "approve") EXCEPT !.human = FALSE]
          [] e = "d2" -> Answer("ann", 4, "r2", "reject")
          [] e = "d3" -> [Answer("bob", 5, "r2", "approve") EXCEPT !.rationale = FALSE]]

\* A proposal that may go stale: an admin approves it, the signer and a higher
\* role both replace that decision, the agent contests it, and another admin
\* delegates the case to a reviewer.
LifeEvents == {"r1", "d1", "s1", "s2", "a1", "d2"}
LifeWorld ==
    [e \in LifeEvents |->
        CASE e = "r1" -> [Ask(1) EXCEPT !.expires = TRUE]
          [] e = "d1" -> Answer("ann", 2, "r1", "approve")
          [] e = "s1" -> Replace("ann", 3, "d1", "reject")
          [] e = "s2" -> Replace("owner", 4, "d1", "amend")
          [] e = "a1" -> Contest(5, "d1")
          [] e = "d2" -> [Answer("bob", 6, "r1", "delegate") EXCEPT !.to = "rev"]]

\* A proposal that may go stale, its regenerated version that does not, and
\* an admin who answers the first.
ExpiryEvents == {"r1", "r2", "d1"}
ExpiryWorld ==
    [e \in ExpiryEvents |->
        CASE e = "r1" -> [Ask(1) EXCEPT !.expires = TRUE]
          [] e = "r2" -> Ask(2)
          [] e = "d1" -> Answer("ann", 3, "r1", "approve")]

\* A contested case is re-posted with a higher tier while a bot supersedes the
\* decision that was contested.
OverturnEvents == {"r1", "d1", "a1", "r2", "s1"}
OverturnWorld ==
    [e \in OverturnEvents |->
        CASE e = "r1" -> Ask(1)
          [] e = "d1" -> Answer("ann", 2, "r1", "approve")
          [] e = "a1" -> Contest(3, "d1")
          [] e = "r2" -> [Ask(4) EXCEPT !.high = TRUE]
          [] e = "s1" -> [Replace("ann", 5, "d1", "reject") EXCEPT !.human = FALSE]]

\* An approval the agent and an admin report on at the same time.
ReportKeys == {"agent", "ann"}
ReportAdmins == {"ann"}
ReportEvents == {"r1", "d1"}
ReportWorld ==
    [e \in ReportEvents |->
        CASE e = "r1" -> Ask(1)
          [] e = "d1" -> Answer("ann", 2, "r1", "approve")]

\* An approval that is contested and then rejected while it is reported on.
ContestEvents == {"r1", "d1", "a1", "d2"}
ContestWorld ==
    [e \in ContestEvents |->
        CASE e = "r1" -> Ask(1)
          [] e = "d1" -> Answer("ann", 2, "r1", "approve")
          [] e = "a1" -> Contest(3, "d1")
          [] e = "d2" -> Answer("ann", 4, "r1", "reject")]

=============================================================================
