------------------------ MODULE GovernanceProperties ------------------------
(***************************************************************************)
(* What the governed decision flow must guarantee, whatever the order of   *)
(* its statements.                                                         *)
(***************************************************************************)
EXTENDS GovernanceCase

TablesOK ==
    /\ held \subseteq Request
    /\ caseState \in [Case -> CaseState \cup {"none"}]
    /\ caseReq \in [Case -> Request \cup {None}]
    /\ caseBy \in [Case -> Key \cup {None}]
    /\ decided \subseteq Response \cup Supersession
    /\ prior \in [Event -> Event \cup {None}]
    /\ succ \in [Event -> Event \cup {None}]
    /\ stage \in [Event -> Stage \cup {"none"}]
    /\ delegation \subseteq Case \X Key
    /\ side \subseteq Case \X {"escalated-on-age", "expired"}

HandlersOK ==
    /\ pc \in [Worker -> HandlerPC]
    /\ cur \in [Worker -> Event \cup {None}]
    /\ seenState \in [Worker -> CaseState \cup {"none"}]
    /\ seenReq \in [Worker -> Event \cup {None}]
    /\ seenPrior \in [Worker -> Event \cup {None}]

ReportsOK ==
    /\ rpc \in [Reporter -> {"idle", "plan", "write"}]
    /\ rEvent \in [Reporter -> Event \cup {None}]
    /\ rStage \in [Reporter -> Stage \cup {"none"}]
    /\ rWant \in [Reporter -> ApplicationStage \cup {"none"}]
    /\ rKey \in [Reporter -> Key \cup {None}]

SweepOK ==
    /\ cron \in {"idle", "age", "expire", "close"}
    /\ cronCase \in Case \cup {None}

\* The tables hold what their columns may hold, and so do the registers of the
\* handlers, the endpoint and the cron.
TypeOK == TablesOK /\ HandlersOK /\ ReportsOK /\ SweepOK /\ faults \in 0..MaxFaults

-----------------------------------------------------------------------------
(* Decisions *)

Effective(d) == d \in decided /\ succ[d] = None

\* The forward link a supersession writes (superseded_by) and the backward link
\* of the row it appends (prior_decision_id) always agree: a decision has at
\* most one successor, on its own case, and it is replaced for good.  Two
\* supersessions of one decision race from the ingest gate to the batch.
ChainWellFormed ==
    /\ \A d \in Event : succ[d] # None =>
           /\ d \in decided
           /\ succ[d] \in decided \cap Supersession
           /\ ev[succ[d]].cites = d
    /\ \A s \in decided \cap Supersession :
           /\ ev[s].cites \in decided
           /\ ev[ev[s].cites].case = ev[s].case
           /\ prior[s] = ev[s].cites
           /\ succ[ev[s].cites] = s

\* The state column of broker_cases and the rows of broker_decisions tell one
\* story, although they are written by five handlers and a cron: an undecided
\* case has no decision; a resolved one is resolved by an effective first-order
\* decision on the very request the case points at; a superseded one has an
\* effective supersession.
CaseMatchesLedger ==
    \A c \in Case :
        /\ caseState[c] \in {"none", "open"} => DecisionsOf(c) = {}
        /\ caseState[c] \in Resolved =>
               \E d \in DecisionsOf(c) \cap Response :
                   /\ Effective(d)
                   /\ ev[d].cites = caseReq[c]
                   /\ StateAfter(ev[d].outcome) = caseState[c]
        /\ caseState[c] = "superseded" =>
               \E s \in DecisionsOf(c) \cap Supersession : Effective(s)
        /\ caseState[c] = "reopened" => DecisionsOf(c) # {}

\* However many admins answer a case at once, and however often their events
\* are delivered, one first-order decision lands; only an appeal makes room
\* for another.
OneDecisionUntilAppeal ==
    \A c \in Case :
        (\A a \in Appeal : ev[a].case = c => stage[a] \notin Landed) =>
            \A d, e \in DecisionsOf(c) \cap Response : d = e

\* A first-order decision lands only on the request it was signed for: a
\* re-post between the plan and the batch must make the batch fail.
DecidesHeldRequest ==
    [][\A d \in Response : d \in decided' \ decided =>
           ev[d].cites = caseReq[ev[d].case]]_vars

\* Only a human gives the first-order decision of a High or Critical case: the
\* tier that counts is the one the case has when the decision lands, not the
\* one the plan read.
HighTierAnsweredByHuman ==
    [][\A d \in Response \cap (decided' \ decided) :
           HighTier(ev[d].case) => ev[d].human]_vars

\* Only a human closes a High or Critical case, by a first-order decision or by
\* a supersession.
HighTierDecidedByHuman ==
    [][\A d \in decided' \ decided : HighTier(ev[d].case) => ev[d].human]_vars

\* Every time a case reopens, an appeal that had not taken effect takes effect:
\* one signed appeal reopens a case once.
ReopeningIsEarned ==
    [][\A c \in Case : caseState[c] # "reopened" /\ caseState'[c] = "reopened" =>
           \E a \in Appeal : /\ ev[a].case = c
                             /\ stage[a] # "projection-committed"
                             /\ stage'[a] = "projection-committed"]_vars

\* The cron closes a case without a decision and for good: no plan made before
\* the close lands after it, and no appeal brings the case back.
ClosedIsFinal ==
    [][\A c \in Case : caseState[c] = "closed" =>
           /\ caseState'[c] = "closed"
           /\ \A d \in decided' \ decided : ev[d].case # c]_vars

\* A closed case always carries the receipt that says why.
ClosedHasReceipt ==
    \A c \in Case : caseState[c] = "closed" => <<c, "expired">> \in side

-----------------------------------------------------------------------------
(* Receipts *)

\* A receipt says a decision landed if and only if the decision is in the
\* ledger, whichever of the concurrent deliveries wrote it last.  This holds as
\* long as no consumer reports: mark_projection_failed spares a receipt at
\* projection-committed, but not one that a report has taken further.
ReceiptMatchesLedger ==
    \A e \in Response \cup Supersession : stage[e] \in Landed <=> e \in decided

\* No receipt claims a projection, or anything that comes after it, for a
\* decision that did not land.
LandedIsDecided ==
    \A e \in Response \cup Supersession : stage[e] \in Landed => e \in decided

\* A late failure report never un-commits a receipt.
CommittedNeverFails ==
    [][\A e \in Event : stage[e] = "projection-committed" =>
           stage'[e] \notin Awaiting]_vars

\* Among the stages that follow the projection, two consumers that report at
\* once never take the receipt of a decision back down the ladder or over
\* another's verdict.
LadderNeverDescends ==
    [][\A e \in Response \cup Supersession :
           stage[e] \in Landed /\ stage'[e] \in Landed =>
               stage'[e] = stage[e] \/ LadderRank(stage'[e]) > LadderRank(stage[e])]_vars

-----------------------------------------------------------------------------
(* Delegation *)

Delegating(d) == d \in decided \cap Response /\ ev[d].outcome = "delegate"

\* A reviewer is admitted to a case only on the strength of a delegation that
\* landed: never of one that was planned, refused or lost its race.
DelegationHasDecision ==
    \A p \in delegation :
        \E d \in decided : Delegating(d) /\ p = <<ev[d].case, ev[d].to>>

-----------------------------------------------------------------------------
(* Progress *)

\* No receipt is left at relay-accepted unless a handler broke: every accepted
\* decision is seen to land or is seen to fail.
AcceptanceSettles ==
    \A e \in Event :
        stage[e] = "relay-accepted" ~> stage[e] # "relay-accepted" \/ faults > 0

Stale(c) == /\ caseState[c] \in Pending
            /\ caseReq[c] # None
            /\ ev[caseReq[c]].expires

\* A stale proposal is decided, replaced or closed in the end, even when a
\* sweep dies between the receipt and the close.
StaleProposalSettles == \A c \in Case : Stale(c) ~> ~Stale(c)

-----------------------------------------------------------------------------
(* What the proofs need to know about a handler, a report and the cron while   *)
(* they are under way.                                                         *)

HandlerKnows ==
    \A w \in Worker :
        /\ pc[w] # "idle" => cur[w] \in Event
        /\ pc[w] = "upsert" => cur[w] \in Request
        /\ pc[w] \notin {"idle", "upsert"} => cur[w] \notin Request
        /\ pc[w] = "latest" => cur[w] \in Response
        /\ pc[w] = "cited" => cur[w] \in Appeal
        /\ (pc[w] \in {"accept", "commit"} /\ cur[w] \in Response) =>
               ev[cur[w]].cites = seenReq[w]
        /\ pc[w] = "delegate" => Delegating(cur[w])

ReportKnows ==
    \A r \in Reporter :
        /\ rpc[r] # "idle" => rEvent[r] \in Event /\ rWant[r] \in ApplicationStage
        /\ rpc[r] = "write" => /\ rStage[r] \in Landed
                               /\ LadderRank(rWant[r]) > LadderRank(rStage[r])

SweepKnows ==
    /\ cron # "idle" => cronCase \in Case
    /\ cron = "close" => <<cronCase, "expired">> \in side

-----------------------------------------------------------------------------
(* The abstract ledger *)

Ledger == INSTANCE DecisionLedger WITH
              Decision <- Response \cup Supersession,
              caseOf <- [d \in Response \cup Supersession |-> ev[d].case],
              target <- [d \in Response \cup Supersession |->
                            IF d \in Supersession THEN ev[d].cites ELSE None],
              life <- [c \in Case |-> IF caseState[c] \in Resolved
                                      THEN "settled" ELSE caseState[c]],
              landed <- decided,
              succ <- [d \in Response \cup Supersession |-> succ[d]]

\* The statements, plans, receipts and retries together implement the ledger.
ImplementsLedger == Ledger!Spec

=============================================================================
