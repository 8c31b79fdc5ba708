--------------------------- MODULE GovernanceCase ---------------------------
(***************************************************************************)
(* The governed decision flow of the relay.                                *)
(*                                                                         *)
(* An agent publishes a signed 31402 (a request, or an appeal), a human    *)
(* publishes a signed 31403 (a first-order response, or a supersession).   *)
(* The relay worker gates an event, stores it, and then projects it onto   *)
(* the D1 tables broker_cases, broker_decisions and governance_receipts.   *)
(* The mutation owner reports what became of a decision through the auth   *)
(* worker, and a cron ages and expires the cases nobody decided.           *)
(*                                                                         *)
(* Every handler is a sequence of awaited D1 statements.  A step of this   *)
(* module is one statement (or one D1 batch, which is one transaction);    *)
(* between two of them any other handler, report or sweep may run, and the *)
(* isolate that runs the handler may be evicted.                           *)
(***************************************************************************)
EXTENDS Naturals

CONSTANTS
    Case,       \* the d tags that name cases
    Event,      \* the ids of the signed events that exist in the world
    Key,        \* public keys
    None,       \* "no event": SQL NULL
    ev,         \* what each event says: see EvAssumption
    Admin,      \* keys the relay's admin list holds
    Reviewer,   \* keys with the reviewer role
    Rank,       \* governance_rank of a key
    Worker,     \* concurrent event handlers of the relay worker
    Reporter,   \* concurrent requests to the application-receipt endpoint
    MaxFaults   \* bound: evictions and D1 failures in one behaviour

Kind == {"request", "appeal", "response", "supersession"}

Outcome == {"approve", "reject", "amend", "demote",
            "delegate", "promote", "precedent"}

(***************************************************************************)
(* A signed event never changes.  at orders events as the code does:       *)
(* created_at, then the decision id.  cites is the e tag: the request a    *)
(* response answers, the decision a supersession replaces or an appeal     *)
(* contests.  high: the request's effective tier is High or Critical.      *)
(* expires: the request is an ontology proposal with a stale_after.        *)
(* human: decided_by does not name a system actor.  rationale: the         *)
(* response carries at least 20 characters of reasoning.  to: the target   *)
(* of a delegation.                                                        *)
(***************************************************************************)
EventRecord == [kind : Kind, case : Case, signer : Key, at : Nat,
                cites : Event \cup {None}, outcome : Outcome, to : Key,
                high : BOOLEAN, expires : BOOLEAN,
                human : BOOLEAN, rationale : BOOLEAN]

ASSUME EvAssumption == ev \in [Event -> EventRecord]
ASSUME NoneAssumption == None \notin Event
ASSUME RoleAssumption == Admin \subseteq Key /\ Reviewer \subseteq Key
                         /\ Rank \in [Key -> Nat]
ASSUME BoundAssumption == MaxFaults \in Nat

Request      == {e \in Event : ev[e].kind = "request"}
Response     == {e \in Event : ev[e].kind = "response"}
Supersession == {e \in Event : ev[e].kind = "supersession"}
Appeal       == {e \in Event : ev[e].kind = "appeal"}

VARIABLES
    held,        \* events table: the 31402 requests the relay holds
    caseState,   \* broker_cases.state, "none" when there is no row
    caseReq,     \* broker_cases.nostr_event_id
    caseBy,      \* broker_cases.created_by
    decided,     \* broker_decisions: the events that have a row
    prior,       \* broker_decisions.prior_decision_id
    succ,        \* broker_decisions.superseded_by
    stage,       \* governance_receipts.stage, "none" when there is no row
    delegation,  \* case_delegations
    side,        \* case_side_receipts
    pc,          \* where each relay handler is
    cur,         \* the event it handles
    seenState,   \* the case state it read
    seenReq,     \* the nostr_event_id it read
    seenPrior,   \* the latest decision it read
    rpc,         \* where each report to the endpoint is
    rEvent,      \* the receipt it is about
    rStage,      \* the stage the endpoint read
    rWant,       \* the stage the caller wants recorded
    rKey,        \* the caller
    cron,        \* where the scheduled sweep is
    cronCase,    \* the case it works on
    faults       \* failures so far, at most MaxFaults

cases    == <<caseState, caseReq, caseBy>>
ledger   == <<decided, prior, succ>>
tables   == <<held, caseState, caseReq, caseBy, decided, prior, succ,
              stage, delegation, side>>
handlers == <<pc, cur, seenState, seenReq, seenPrior>>
reports  == <<rpc, rEvent, rStage, rWant, rKey>>
sweep    == <<cron, cronCase>>
vars     == <<held, cases, ledger, stage, delegation, side, handlers,
              reports, sweep, faults>>

-----------------------------------------------------------------------------
(* The vocabulary of states and stages *)

\* under_review is a legal column value, but nothing in the repository writes it.
Pending     == {"open", "reopened"}
Resolved    == {"decided", "delegated", "promoted", "precedent"}
Appealable  == Resolved \cup {"superseded"}
Supersedable == Resolved \cup {"superseded", "reopened"}
CaseState   == Pending \cup Resolved \cup {"superseded", "closed"}

ApplicationStage == {"consumer-received", "applied", "not-applied",
                     "applied-manually"}
Awaiting    == {"relay-accepted", "projection-failed"}
Landed      == {"projection-committed"} \cup ApplicationStage
Stage       == Awaiting \cup Landed

\* Position on the receipt ladder; projection-failed is not on it.
LadderRank(s) == CASE s = "relay-accepted" -> 1
                   [] s = "projection-committed" -> 2
                   [] s = "consumer-received" -> 3
                   [] OTHER -> 4

StateAfter(outcome) == CASE outcome = "delegate" -> "delegated"
                         [] outcome = "promote" -> "promoted"
                         [] outcome = "precedent" -> "precedent"
                         [] OTHER -> "decided"

HandlerPC == {"idle", "upsert", "check", "case", "latest", "target", "cited",
              "accept", "commit", "fail", "refuse", "delegate"}

DecisionsOf(c) == {d \in decided : ev[d].case = c}

Newest(c) == {d \in DecisionsOf(c) : \A x \in DecisionsOf(c) : ev[x].at <= ev[d].at}

\* SELECT .. ORDER BY decided_at DESC, decision_id DESC LIMIT 1
Latest(c) == IF Newest(c) = {} THEN None ELSE CHOOSE d \in Newest(c) : TRUE

HighTier(c) == caseReq[c] # None /\ ev[caseReq[c]].high

Init ==
    /\ held = {}
    /\ caseState = [c \in Case |-> "none"]
    /\ caseReq = [c \in Case |-> None]
    /\ caseBy = [c \in Case |-> None]
    /\ decided = {}
    /\ prior = [e \in Event |-> None]
    /\ succ = [e \in Event |-> None]
    /\ stage = [e \in Event |-> "none"]
    /\ delegation = {}
    /\ side = {}
    /\ pc = [w \in Worker |-> "idle"]
    /\ cur = [w \in Worker |-> None]
    /\ seenState = [w \in Worker |-> "none"]
    /\ seenReq = [w \in Worker |-> None]
    /\ seenPrior = [w \in Worker |-> None]
    /\ rpc = [r \in Reporter |-> "idle"]
    /\ rEvent = [r \in Reporter |-> None]
    /\ rStage = [r \in Reporter |-> "none"]
    /\ rWant = [r \in Reporter |-> "none"]
    /\ rKey = [r \in Reporter |-> None]
    /\ cron = "idle"
    /\ cronCase = None
    /\ faults = 0

-----------------------------------------------------------------------------
(* Moving a handler *)

\* A D1 statement fails, its reply is lost, or the isolate is evicted.
Fault == faults < MaxFaults /\ faults' = faults + 1

Goto(w, label) ==
    /\ pc' = [pc EXCEPT ![w] = label]
    /\ UNCHANGED <<cur, seenState, seenReq, seenPrior>>

Begin(w, e, label) ==
    /\ pc[w] = "idle"
    /\ pc' = [pc EXCEPT ![w] = label]
    /\ cur' = [cur EXCEPT ![w] = e]
    /\ UNCHANGED <<seenState, seenReq, seenPrior>>

\* The handler returns; nothing it read outlives it.
Finish(w) ==
    /\ pc' = [pc EXCEPT ![w] = "idle"]
    /\ cur' = [cur EXCEPT ![w] = None]
    /\ seenState' = [seenState EXCEPT ![w] = "none"]
    /\ seenReq' = [seenReq EXCEPT ![w] = None]
    /\ seenPrior' = [seenPrior EXCEPT ![w] = None]

-----------------------------------------------------------------------------
(* A 31402 request: store it, then follow it with the case *)

\* save_event: older versions of the same coordinate go, the event is inserted
\* unless its id is there already.  Either way the caller projects it.
DeliverRequest(w, e) ==
    /\ e \in Request
    /\ Begin(w, e, "upsert")
    /\ held' = {x \in held : \/ ev[x].signer # ev[e].signer
                             \/ ev[x].case # ev[e].case
                             \/ ev[x].at >= ev[e].at} \cup {e}
    /\ UNCHANGED <<cases, ledger, stage, delegation, side, reports, sweep, faults>>

\* The request the case points at is gone from the store, or is older than e.
Newer(e, c) == caseReq[c] \notin held \/ ev[e].at > ev[caseReq[c]].at

\* CASE_UPSERT_SQL's ON CONFLICT .. WHERE.
MayFollow(e, c) ==
    /\ caseBy[c] = ev[e].signer
    /\ caseState[c] \in Pending
    /\ caseReq[c] # e
    /\ Newer(e, c)

UpsertCase(w) ==
    LET e == cur[w]
        c == ev[e].case
    IN  /\ pc[w] = "upsert"
        /\ \/ /\ caseState[c] = "none"
              /\ caseState' = [caseState EXCEPT ![c] = "open"]
              /\ caseBy' = [caseBy EXCEPT ![c] = ev[e].signer]
              /\ caseReq' = [caseReq EXCEPT ![c] = e]
           \/ /\ caseState[c] # "none"
              /\ MayFollow(e, c)
              /\ caseReq' = [caseReq EXCEPT ![c] = e]
              /\ UNCHANGED <<caseState, caseBy>>
           \/ /\ caseState[c] # "none"
              /\ ~MayFollow(e, c)
              /\ UNCHANGED cases
        /\ Finish(w)
        /\ UNCHANGED <<held, ledger, stage, delegation, side, reports, sweep, faults>>

\* A kind-5 deletion or the NIP-40 expiry sweep removes a stored request.
DropRequest(e) ==
    /\ e \in held
    /\ held' = held \ {e}
    /\ UNCHANGED <<cases, ledger, stage, delegation, side, handlers, reports,
                   sweep, faults>>

-----------------------------------------------------------------------------
(* Admission of a 31403: every check runs before the event is stored *)

Delegated(c, k) == <<c, k>> \in delegation

Admitted(e) == \/ ev[e].signer \in Admin
               \/ /\ ev[e].signer \in Reviewer
                  /\ Delegated(ev[e].case, ev[e].signer)

RationaleOK(e) == \/ ~HighTier(ev[e].case)
                  \/ ev[e].outcome = "precedent"
                  \/ ev[e].rationale

\* supersede_authority
Authorised(d, e) == \/ ev[d].signer = ev[e].signer
                    \/ Rank[ev[e].signer] > Rank[ev[d].signer]

\* supersession_authorised: a redelivery of the effective successor passes.
SupersessionAdmitted(e) ==
    LET d == ev[e].cites
    IN  /\ d \in decided
        /\ ev[d].case = ev[e].case
        /\ succ[d] \in {None, e}
        /\ Authorised(d, e)

DeliverResponse(w, e) ==
    /\ e \in Response
    /\ Admitted(e)
    /\ RationaleOK(e)
    /\ Begin(w, e, "check")
    /\ UNCHANGED <<tables, reports, sweep, faults>>

DeliverSupersession(w, e) ==
    /\ e \in Supersession
    /\ Admitted(e)
    /\ RationaleOK(e)
    /\ SupersessionAdmitted(e)
    /\ Begin(w, e, "check")
    /\ UNCHANGED <<tables, reports, sweep, faults>>

DeliverAppeal(w, e) ==
    /\ e \in Appeal
    /\ Begin(w, e, "check")
    /\ UNCHANGED <<tables, reports, sweep, faults>>

-----------------------------------------------------------------------------
(* Projection: reads and plan *)

\* A receipt at projection-committed is a replay: counted, nothing re-run.
CheckReplay(w) ==
    /\ pc[w] = "check"
    /\ \/ stage[cur[w]] = "projection-committed" /\ Finish(w)
       \/ /\ stage[cur[w]] # "projection-committed"
          /\ Goto(w, IF cur[w] \in Supersession THEN "target" ELSE "case")
    /\ UNCHANGED <<tables, reports, sweep, faults>>

\* load_superseded_decision
ReadTarget(w) ==
    LET d == ev[cur[w]].cites
    IN  /\ pc[w] = "target"
        /\ Goto(w, IF /\ d \in decided
                      /\ ev[d].case = ev[cur[w]].case
                      /\ succ[d] = None
                   THEN "case" ELSE "refuse")
        /\ UNCHANGED <<tables, reports, sweep, faults>>

\* plan_supersession, once the case row is read
PlanSupersession(e) ==
    LET c == ev[e].case
    IN  /\ caseState[c] \in Supersedable
        /\ HighTier(c) => ev[e].human
        /\ Authorised(ev[e].cites, e)
        /\ caseBy[c] # ev[e].signer

\* What plan_action_response asks of the row; a missing row refuses as well.
PlanResponse(e) ==
    LET c == ev[e].case
    IN  /\ caseState[c] \in Pending
        /\ HighTier(c) => ev[e].human
        /\ caseBy[c] # ev[e].signer

\* What plan_appeal asks of the row.
PlanAppeal(e) ==
    LET c == ev[e].case
    IN  /\ caseState[c] \in Appealable
        /\ caseBy[c] = ev[e].signer

Planned(e) == CASE e \in Supersession -> PlanSupersession(e)
                [] e \in Appeal -> PlanAppeal(e)
                [] OTHER -> PlanResponse(e)

AfterCase(e) == CASE e \in Supersession -> "accept"
                  [] e \in Appeal -> "cited"
                  [] OTHER -> "latest"

ReadCase(w) ==
    LET e == cur[w]
        c == ev[e].case
    IN  /\ pc[w] = "case"
        /\ seenState' = [seenState EXCEPT ![w] = caseState[c]]
        /\ seenReq' = [seenReq EXCEPT ![w] = caseReq[c]]
        /\ pc' = [pc EXCEPT ![w] = IF Planned(e) THEN AfterCase(e) ELSE "refuse"]
        /\ UNCHANGED <<cur, seenPrior, tables, reports, sweep, faults>>

\* The plan is complete; one that was assembled from another request than the
\* response cites is dropped without a receipt (Commit::matches).  A failed
\* read of the latest decision is taken for "there is none".
ReadLatest(w) ==
    /\ pc[w] = "latest"
    /\ \/ /\ ev[cur[w]].cites = seenReq[w]
          /\ seenPrior' = [seenPrior EXCEPT ![w] = Latest(ev[cur[w]].case)]
          /\ pc' = [pc EXCEPT ![w] = "accept"]
          /\ UNCHANGED <<cur, seenState, seenReq>>
          /\ UNCHANGED faults
       \/ ev[cur[w]].cites # seenReq[w] /\ Finish(w) /\ UNCHANGED faults
       \/ /\ ev[cur[w]].cites = seenReq[w]
          /\ Fault
          /\ seenPrior' = [seenPrior EXCEPT ![w] = None]
          /\ pc' = [pc EXCEPT ![w] = "accept"]
          /\ UNCHANGED <<cur, seenState, seenReq>>
    /\ UNCHANGED <<tables, reports, sweep>>

ReadCited(w) ==
    LET d == ev[cur[w]].cites
    IN  /\ pc[w] = "cited"
        /\ Goto(w, IF d \in decided /\ ev[d].case = ev[cur[w]].case
                   THEN "accept" ELSE "refuse")
        /\ UNCHANGED <<tables, reports, sweep, faults>>

\* A failed read is taken for a row that is not there.
ReadFails(w) ==
    /\ pc[w] \in {"target", "case", "cited"}
    /\ Fault
    /\ Goto(w, "refuse")
    /\ UNCHANGED <<tables, reports, sweep>>

-----------------------------------------------------------------------------
(* Projection: the receipt stage machine (apply_with_receipt) *)

\* record_accepted: the receipt is created once, later deliveries count a replay.
Accepted(e) == [stage EXCEPT ![e] = IF @ = "none" THEN "relay-accepted" ELSE @]

\* The outcome is_applied: a committed delegation is written down separately.
AfterApplied(w) ==
    IF cur[w] \in Response /\ ev[cur[w]].outcome = "delegate"
    THEN Goto(w, "delegate") ELSE Finish(w)

RecordAccepted(w) ==
    LET e == cur[w]
    IN  /\ pc[w] = "accept"
        /\ stage' = Accepted(e)
        /\ IF stage[e] \in Landed THEN AfterApplied(w) ELSE Goto(w, "commit")
        /\ UNCHANGED <<held, cases, ledger, delegation, side, reports, sweep, faults>>

\* Mutated form: the batch trusts the plan's snapshot of the case.
ResponseFitsStale(w) ==
    LET e == cur[w]
    IN  /\ e \in Response
        /\ caseReq[ev[e].case] = seenReq[w]
        /\ stage[e] \in Awaiting
        /\ e \notin decided

\* Mutated form: the batch does not compare nostr_event_id.
ResponseFitsAnyRequest(w) ==
    LET e == cur[w]
        c == ev[e].case
    IN  /\ e \in Response
        /\ caseState[c] = seenState[w]
        /\ caseState[c] \in Pending
        /\ Latest(c) = seenPrior[w]
        /\ stage[e] \in Awaiting
        /\ e \notin decided

\* PROJECTION_DECISION_SQL and the primary key of broker_decisions
ResponseFits(w) ==
    LET e == cur[w]
        c == ev[e].case
    IN  /\ e \in Response
        /\ caseState[c] = seenState[w]
        /\ caseState[c] \in Pending
        /\ caseReq[c] = seenReq[w]
        /\ Latest(c) = seenPrior[w]
        /\ stage[e] \in Awaiting
        /\ e \notin decided

\* Mutated form: neither statement asks for superseded_by IS NULL.
SupersessionFitsTwice(w) ==
    LET e == cur[w]
        d == ev[e].cites
        c == ev[e].case
    IN  /\ e \in Supersession
        /\ caseState[c] \in Supersedable
        /\ d \in decided
        /\ ev[d].case = c
        /\ stage[e] \in Awaiting
        /\ e \notin decided

\* SUPERSESSION_DECISION_SQL and SUPERSESSION_MARK_SQL
SupersessionFits(w) ==
    LET e == cur[w]
        d == ev[e].cites
        c == ev[e].case
    IN  /\ e \in Supersession
        /\ caseState[c] = seenState[w]
        /\ caseState[c] \in Supersedable
        /\ d \in decided
        /\ ev[d].case = c
        /\ succ[d] = None
        /\ stage[e] \in Awaiting
        /\ e \notin decided

\* APPEAL_REOPEN_SQL
AppealFits(w) ==
    LET e == cur[w]
        d == ev[e].cites
        c == ev[e].case
    IN  /\ e \in Appeal
        /\ caseBy[c] = ev[e].signer
        /\ caseState[c] \in Appealable
        /\ d \in decided
        /\ ev[d].case = c

\* After a batch that was applied: its reply arrives, or is lost and the
\* handler takes the batch for failed.
Reply(w) == \/ AfterApplied(w) /\ UNCHANGED faults
            \/ Fault /\ Goto(w, "fail")

CommitResponse(w) ==
    LET e == cur[w]
    IN  /\ pc[w] = "commit"
        /\ ResponseFits(w)
        /\ decided' = decided \cup {e}
        /\ prior' = [prior EXCEPT ![e] = seenPrior[w]]
        /\ caseState' = [caseState EXCEPT ![ev[e].case] = StateAfter(ev[e].outcome)]
        /\ stage' = [stage EXCEPT ![e] = "projection-committed"]
        /\ Reply(w)
        /\ UNCHANGED <<held, caseReq, caseBy, succ, delegation, side, reports, sweep>>

\* Mutated form: the batch leaves out the case row.
CommitSupersessionAlone(w) ==
    LET e == cur[w]
        d == ev[e].cites
    IN  /\ pc[w] = "commit"
        /\ SupersessionFits(w)
        /\ decided' = decided \cup {e}
        /\ prior' = [prior EXCEPT ![e] = d]
        /\ succ' = [succ EXCEPT ![d] = e]
        /\ stage' = [stage EXCEPT ![e] = "projection-committed"]
        /\ Reply(w)
        /\ UNCHANGED <<held, cases, delegation, side, reports, sweep>>

CommitSupersession(w) ==
    LET e == cur[w]
        d == ev[e].cites
    IN  /\ pc[w] = "commit"
        /\ SupersessionFits(w)
        /\ decided' = decided \cup {e}
        /\ prior' = [prior EXCEPT ![e] = d]
        /\ succ' = [succ EXCEPT ![d] = e]
        /\ caseState' = [caseState EXCEPT ![ev[e].case] = "superseded"]
        /\ stage' = [stage EXCEPT ![e] = "projection-committed"]
        /\ Reply(w)
        /\ UNCHANGED <<held, caseReq, caseBy, delegation, side, reports, sweep>>

CommitAppeal(w) ==
    LET e == cur[w]
    IN  /\ pc[w] = "commit"
        /\ AppealFits(w)
        /\ caseState' = [caseState EXCEPT ![ev[e].case] = "reopened"]
        /\ stage' = [stage EXCEPT ![e] = "projection-committed"]
        /\ Reply(w)
        /\ UNCHANGED <<held, caseReq, caseBy, ledger, delegation, side, reports, sweep>>

\* Mutated form: a batch that wrote nothing is not recorded as failed.
CommitRefusedSilently(w) ==
    /\ pc[w] = "commit"
    /\ ~ResponseFits(w) /\ ~SupersessionFits(w) /\ ~AppealFits(w)
    /\ Finish(w)
    /\ UNCHANGED <<tables, reports, sweep, faults>>

\* A statement of the batch changed no row, or D1 refused it: nothing is written.
CommitRefused(w) ==
    /\ pc[w] = "commit"
    /\ \/ /\ ~ResponseFits(w) /\ ~SupersessionFits(w) /\ ~AppealFits(w)
          /\ UNCHANGED faults
       \/ Fault
    /\ Goto(w, "fail")
    /\ UNCHANGED <<tables, reports, sweep>>

\* refuse_projection, first half: the refused event still gets its receipt.
RecordRefused(w) ==
    /\ pc[w] = "refuse"
    /\ stage' = Accepted(cur[w])
    /\ Goto(w, "fail")
    /\ UNCHANGED <<held, cases, ledger, delegation, side, reports, sweep, faults>>

\* Mutated form: the failure is written over whatever stage the receipt reached.
MarkFailedAlways(w) ==
    /\ pc[w] = "fail"
    /\ stage' = [stage EXCEPT ![cur[w]] = "projection-failed"]
    /\ Finish(w)
    /\ UNCHANGED <<held, cases, ledger, delegation, side, reports, sweep, faults>>

\* Mutated form: the delegation is written without asking is_applied.
MarkFailedDelegates(w) ==
    LET e == cur[w]
    IN  /\ pc[w] = "fail"
        /\ stage' = [stage EXCEPT ![e] =
                         IF @ = "projection-committed" THEN @ ELSE "projection-failed"]
        /\ AfterApplied(w)
        /\ UNCHANGED <<held, cases, ledger, delegation, side, reports, sweep, faults>>

\* mark_projection_failed: WHERE stage != 'projection-committed'
MarkFailed(w) ==
    LET e == cur[w]
    IN  /\ pc[w] = "fail"
        /\ stage' = [stage EXCEPT ![e] =
                         IF @ = "projection-committed" THEN @ ELSE "projection-failed"]
        /\ Finish(w)
        /\ UNCHANGED <<held, cases, ledger, delegation, side, reports, sweep, faults>>

RecordDelegation(w) ==
    LET e == cur[w]
    IN  /\ pc[w] = "delegate"
        /\ delegation' = delegation \cup {<<ev[e].case, ev[e].to>>}
        /\ Finish(w)
        /\ UNCHANGED <<held, cases, ledger, stage, side, reports, sweep, faults>>

\* The isolate is evicted, or a statement other than the batch fails.
Evict(w) ==
    /\ pc[w] # "idle"
    /\ Fault
    /\ Finish(w)
    /\ UNCHANGED <<tables, reports, sweep>>

-----------------------------------------------------------------------------
(* POST /api/governance/receipts/{id}/application, in the auth worker *)

EndReport(r) ==
    /\ rpc' = [rpc EXCEPT ![r] = "idle"]
    /\ rEvent' = [rEvent EXCEPT ![r] = None]
    /\ rStage' = [rStage EXCEPT ![r] = "none"]
    /\ rWant' = [rWant EXCEPT ![r] = "none"]
    /\ rKey' = [rKey EXCEPT ![r] = None]

ReadReceipt(r, e, want, k) ==
    /\ rpc[r] = "idle"
    /\ stage[e] # "none"
    /\ rpc' = [rpc EXCEPT ![r] = "plan"]
    /\ rEvent' = [rEvent EXCEPT ![r] = e]
    /\ rStage' = [rStage EXCEPT ![r] = stage[e]]
    /\ rWant' = [rWant EXCEPT ![r] = want]
    /\ rKey' = [rKey EXCEPT ![r] = k]
    /\ UNCHANGED <<tables, handlers, sweep, faults>>

\* Mutated form: the ladder is compared, but not against projection-committed.
CanAdvanceUnprojected(from, to) ==
    /\ from # "none"
    /\ LadderRank(to) > LadderRank(from)
    /\ to \in {"applied", "not-applied"} => from = "consumer-received"

\* can_advance_stage
CanAdvance(from, to) ==
    /\ from \in Landed
    /\ LadderRank(to) > LadderRank(from)
    /\ to \in {"applied", "not-applied"} => from = "consumer-received"

\* The receipt of an appeal is filed under the appeal's own d tag, which names
\* no case: nobody owns it and nothing was approved on it.
OwnsCase(k, e) == e \notin Appeal /\ caseBy[ev[e].case] = k

ApprovedCase(e) ==
    LET c == ev[e].case
    IN  /\ e \notin Appeal
        /\ caseState[c] = "decided"
        /\ Latest(c) # None
        /\ ev[Latest(c)].outcome = "approve"

\* plan_application_advance
ReportPlanned(e, k, from, to) ==
    /\ k \in Admin \/ OwnsCase(k, e)
    /\ to = "applied-manually" => k \in Admin /\ ApprovedCase(e)
    /\ CanAdvance(from, to)

PlanReport(r) ==
    /\ rpc[r] = "plan"
    /\ \/ /\ ReportPlanned(rEvent[r], rKey[r], rStage[r], rWant[r])
          /\ rpc' = [rpc EXCEPT ![r] = "write"]
          /\ UNCHANGED <<rEvent, rStage, rWant, rKey>>
       \/ /\ ~ReportPlanned(rEvent[r], rKey[r], rStage[r], rWant[r])
          /\ EndReport(r)
    /\ UNCHANGED <<tables, handlers, sweep, faults>>

\* Mutated form: the write does not compare the stage it read.
WriteReportBlind(r) ==
    /\ rpc[r] = "write"
    /\ stage' = [stage EXCEPT ![rEvent[r]] = rWant[r]]
    /\ EndReport(r)
    /\ UNCHANGED <<held, cases, ledger, delegation, side, handlers, sweep, faults>>

\* The compare-and-swap on the stage the endpoint read.
WriteReport(r) ==
    LET e == rEvent[r]
    IN  /\ rpc[r] = "write"
        /\ stage' = [stage EXCEPT ![e] = IF @ = rStage[r] THEN rWant[r] ELSE @]
        /\ EndReport(r)
        /\ UNCHANGED <<held, cases, ledger, delegation, side, handlers, sweep, faults>>

-----------------------------------------------------------------------------
(* The scheduled sweeps, one case at a time *)

StartSweep(c, label) ==
    /\ cron = "idle"
    /\ caseState[c] \in Pending
    /\ cron' = label
    /\ cronCase' = c
    /\ UNCHANGED <<tables, handlers, reports, faults>>

EndSweep == cron' = "idle" /\ cronCase' = None

\* escalate_stale_cases: the SELECT, then the side receipt
FindOverdue(c) == StartSweep(c, "age")

Escalate ==
    /\ cron = "age"
    /\ side' = side \cup {<<cronCase, "escalated-on-age">>}
    /\ EndSweep
    /\ UNCHANGED <<held, cases, ledger, stage, delegation, handlers, reports, faults>>

\* Mutated form: the close comes before the receipt.
FindExpiredCloseFirst(c) ==
    caseReq[c] # None /\ ev[caseReq[c]].expires /\ StartSweep(c, "close")

\* Mutated form: a case that carries an expired receipt is not looked at again.
FindExpiredOnce(c) ==
    /\ caseReq[c] # None /\ ev[caseReq[c]].expires
    /\ <<c, "expired">> \notin side
    /\ StartSweep(c, "expire")

\* expire_stale_proposals: the SELECT, the side receipt, then the close
FindExpired(c) == caseReq[c] # None /\ ev[caseReq[c]].expires /\ StartSweep(c, "expire")

RecordExpired ==
    /\ cron = "expire"
    /\ side' = side \cup {<<cronCase, "expired">>}
    /\ cron' = "close"
    /\ UNCHANGED <<cronCase, held, cases, ledger, stage, delegation, handlers,
                   reports, faults>>

CloseExpired ==
    /\ cron = "close"
    /\ caseState' = [caseState EXCEPT ![cronCase] = IF @ \in Pending THEN "closed" ELSE @]
    /\ EndSweep
    /\ UNCHANGED <<held, caseReq, caseBy, ledger, stage, delegation, side,
                   handlers, reports, faults>>

AbortSweep ==
    /\ cron # "idle"
    /\ Fault
    /\ EndSweep
    /\ UNCHANGED <<tables, handlers, reports>>

-----------------------------------------------------------------------------
HandlerStep(w) ==
    \/ UpsertCase(w) \/ CheckReplay(w) \/ ReadTarget(w) \/ ReadCase(w)
    \/ ReadLatest(w) \/ ReadCited(w) \/ RecordAccepted(w)
    \/ CommitResponse(w) \/ CommitSupersession(w) \/ CommitAppeal(w)
    \/ CommitRefused(w) \/ RecordRefused(w) \/ MarkFailed(w)
    \/ RecordDelegation(w)

Deliver(w, e) == \/ DeliverRequest(w, e) \/ DeliverResponse(w, e)
                 \/ DeliverSupersession(w, e) \/ DeliverAppeal(w, e)

ReportStep(r) == PlanReport(r) \/ WriteReport(r)

SweepStep == Escalate \/ RecordExpired \/ CloseExpired

Next ==
    \/ \E w \in Worker : HandlerStep(w) \/ ReadFails(w) \/ Evict(w)
    \/ \E w \in Worker, e \in Event : Deliver(w, e)
    \/ \E e \in Event : DropRequest(e)
    \/ \E r \in Reporter : ReportStep(r)
    \/ \E r \in Reporter, e \in Event, want \in ApplicationStage, k \in Key :
           ReadReceipt(r, e, want, k)
    \/ \E c \in Case : FindOverdue(c) \/ FindExpired(c)
    \/ SweepStep \/ AbortSweep

Spec == Init /\ [][Next]_vars

\* Handlers run to their end, the endpoint answers, a sweep that began goes on;
\* the five-minute cron comes back to every proposal that stays expired.
Fairness ==
    /\ \A w \in Worker : WF_vars(HandlerStep(w))
    /\ \A r \in Reporter : WF_vars(ReportStep(r))
    /\ WF_vars(SweepStep)
    /\ \A c \in Case : SF_vars(FindExpired(c))

FairSpec == Spec /\ Fairness

=============================================================================
