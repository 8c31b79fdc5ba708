------------------------------ MODULE CaseSweep ------------------------------
(***************************************************************************)
(* The five-minute cron over the pending cases of the relay: every tick    *)
(* receipts the overdue cases (escalate_stale_cases), then receipts and    *)
(* closes the expired proposals (expire_stale_proposals).                  *)
(*                                                                         *)
(* GovernanceCase follows one case through a sweep.  This module is about  *)
(* many cases and one sweep: each SELECT is ordered by deadline and cut at *)
(* AGEING_BATCH_SIZE rows, the page is then worked off one awaited         *)
(* statement at a time while cases are decided, reopened and raised, a     *)
(* statement may fail, and the tick may die.                               *)
(***************************************************************************)
EXTENDS Naturals, Sequences, FiniteSets

CONSTANTS
    Case,      \* the cases
    None,      \* no stale_after, no row
    asked,     \* the requests (31402) the owner of a case signed for it
    Batch,     \* AGEING_BATCH_SIZE
    MaxTime,   \* bound: the clock stops here
    MaxFaults, \* bound: failed statements and dead ticks
    MaxAppeals \* bound: the appeals that were ever signed

\* What a request says of time: the ageing deadline, created_at +
\* max_pending_hours, and stale_after, which only proposals declare.
Term == [due : Nat, stale : Nat \cup {None}]

\* A row of a SELECT: a case and the deadline it had then.
Row == [case : Case, deadline : Nat]

ASSUME SweepAssumption ==
    /\ None \notin Nat /\ None \notin Row
    /\ asked \in [Case -> Seq(Term)]
    /\ Batch \in Nat \ {0} /\ {MaxTime, MaxFaults, MaxAppeals} \subseteq Nat

VARIABLES
    now,     \* the clock
    status,  \* broker_cases.state: none, pending, decided or closed
    request, \* the request the row of a case was last written from, 0 for none
    posted,  \* the requests it was ever written from; nothing in the code
    side,    \* case_side_receipts
    phase,   \* what the tick is doing
    page,    \* the rows of its SELECT it has not worked off
    at,      \* the row it is about to close
    faults,  \* failures so far
    appeals  \* appeals so far

versions == <<request, posted>>
vars == <<now, status, versions, side, phase, page, at, faults, appeals>>

Pending(c) == status[c] = "pending"
Due(c) == asked[c][request[c]].due
Stale(c) == asked[c][request[c]].stale

\* stale_after IS NOT NULL AND stale_after < now
PastStale(c) == Stale(c) # None /\ Stale(c) < now

Overdue == {c \in Case : Pending(c) /\ Due(c) < now}
Expired == {c \in Case : Pending(c) /\ PastStale(c)}

\* ORDER BY deadline ASC: ties come in any order.
Foremost(P, R) == \A r \in P, q \in R \ P : r.deadline <= q.deadline

\* LIMIT Batch
Pages(R) ==
    {P \in SUBSET R : /\ Foremost(P, R)
                      /\ P = R \/ Cardinality(P) = Batch
                      /\ Cardinality(P) <= Batch}

First(P) == {r \in P : Foremost({r}, P)}

Init ==
    /\ now = 0
    /\ status = [c \in Case |-> "none"]
    /\ request = [c \in Case |-> 0]
    /\ posted = [c \in Case |-> {}]
    /\ side = {}
    /\ phase = "idle"
    /\ page = {}
    /\ at = None
    /\ faults = 0
    /\ appeals = 0

Fault == faults < MaxFaults /\ faults' = faults + 1

Tick ==
    /\ now < MaxTime
    /\ now' = now + 1
    /\ UNCHANGED <<status, versions, side, phase, page, at, faults, appeals>>

\* CASE_UPSERT_SQL: a request opens its case, and rewrites the deadlines of one
\* that is pending.  The newer of two replaces the older; if the one a case was
\* written from has been deleted, any other does, so their order is left open.
Upsert(c, n) ==
    /\ n \in DOMAIN asked[c] /\ n # request[c]
    /\ status[c] \in {"none", "pending"}
    /\ request' = [request EXCEPT ![c] = n]
    /\ posted' = [posted EXCEPT ![c] = @ \cup {n}]
    /\ status' = [status EXCEPT ![c] = "pending"]
    /\ UNCHANGED <<now, side, phase, page, at, faults, appeals>>

\* A decision, an appeal: see GovernanceCase.
SetStatus(c, from, to) ==
    /\ status[c] = from
    /\ status' = [status EXCEPT ![c] = to]
    /\ UNCHANGED <<now, versions, side, phase, page, at, faults>>

Decide(c) == SetStatus(c, "pending", "decided") /\ UNCHANGED appeals
Reopen(c) ==
    /\ appeals < MaxAppeals
    /\ appeals' = appeals + 1
    /\ SetStatus(c, "decided", "pending")

\* escalate_stale_cases: the SELECT does not ask which cases have a receipt.
FetchOverdue ==
    /\ phase = "idle"
    /\ phase' = "escalate"
    /\ page' \in Pages({[case |-> c, deadline |-> Due(c)] : c \in Overdue})
    /\ UNCHANGED <<now, status, versions, side, at, faults, appeals>>

\* INSERT OR IGNORE of one row; a failure is counted and the page goes on.
Escalate(r) ==
    /\ phase = "escalate"
    /\ page' = page \ {r}
    /\ \/ side' = side \cup {<<r.case, "escalated-on-age">>} /\ UNCHANGED faults
       \/ Fault /\ UNCHANGED side
    /\ UNCHANGED <<now, status, versions, phase, at, appeals>>

EscalateNext == \E r \in First(page) : Escalate(r)

FetchExpired ==
    /\ phase = "escalate"
    /\ page = {}
    /\ phase' = "expire"
    /\ page' \in Pages({[case |-> c, deadline |-> Stale(c)] : c \in Expired})
    /\ UNCHANGED <<now, status, versions, side, at, faults, appeals>>

\* Mutated form: only a fresh receipt is followed by the close.
RecordFresh(r) ==
    LET fresh == <<r.case, "expired">> \notin side
    IN  /\ phase = "expire"
        /\ page' = page \ {r}
        /\ side' = side \cup {<<r.case, "expired">>}
        /\ phase' = IF fresh THEN "close" ELSE phase
        /\ at' = IF fresh THEN r ELSE at
        /\ UNCHANGED <<now, status, versions, faults, appeals>>

\* The receipt is written before the close; if it fails, the row is skipped.
Record(r) ==
    /\ phase = "expire"
    /\ page' = page \ {r}
    /\ \/ /\ side' = side \cup {<<r.case, "expired">>}
          /\ phase' = "close"
          /\ at' = r
          /\ UNCHANGED faults
       \/ /\ Fault
          /\ UNCHANGED <<side, phase, at>>
    /\ UNCHANGED <<now, status, versions, appeals>>

RecordNext == \E r \in First(page) : Record(r)

\* Mutated form: the close does not look at the state.
CloseNextBlind ==
    /\ phase = "close"
    /\ phase' = "expire"
    /\ at' = None
    /\ status' = [status EXCEPT ![at.case] = "closed"]
    /\ UNCHANGED <<now, versions, side, page, faults, appeals>>

\* The state guard leaves alone a case that was decided since the SELECT.  It
\* is the only guard: a case that was re-posted since is closed all the same.
CloseNext ==
    /\ phase = "close"
    /\ phase' = "expire"
    /\ at' = None
    /\ \/ /\ status' = [status EXCEPT ![at.case] = IF @ = "pending" THEN "closed" ELSE @]
          /\ UNCHANGED faults
       \/ Fault /\ UNCHANGED status
    /\ UNCHANGED <<now, versions, side, page, appeals>>

EndTick ==
    /\ phase = "expire"
    /\ page = {}
    /\ phase' = "idle"
    /\ UNCHANGED <<now, status, versions, side, page, at, faults, appeals>>

\* The isolate is evicted, or a SELECT fails: the tick is over.
Die ==
    /\ phase # "idle"
    /\ Fault
    /\ phase' = "idle"
    /\ page' = {}
    /\ at' = None
    /\ UNCHANGED <<now, status, versions, side, appeals>>

SweepStep == \/ FetchOverdue \/ EscalateNext \/ FetchExpired
             \/ RecordNext \/ CloseNext \/ EndTick

Next ==
    \/ Tick \/ SweepStep \/ Die
    \/ \E c \in Case : \E n \in DOMAIN asked[c] : Upsert(c, n)
    \/ \E c \in Case : Decide(c) \/ Reopen(c)

Spec == Init /\ [][Next]_vars /\ WF_vars(SweepStep)

-----------------------------------------------------------------------------
\* A row is at hand exactly while its close is due, and a case that is there
\* was opened by one of its requests.
TypeOK ==
    /\ now \in 0..MaxTime
    /\ status \in [Case -> {"none", "pending", "decided", "closed"}]
    /\ request \in [Case -> Nat]
    /\ posted \in [Case -> SUBSET Nat]
    /\ \A c \in Case : IF status[c] = "none"
                      THEN request[c] = 0 /\ posted[c] = {}
                      ELSE request[c] \in posted[c] /\ posted[c] \subseteq DOMAIN asked[c]
    /\ side \subseteq Case \X {"escalated-on-age", "expired"}
    /\ phase \in {"idle", "escalate", "expire", "close"}
    /\ page \subseteq Row
    /\ at \in Row \cup {None}
    /\ (phase = "close") <=> (at # None)
    /\ faults \in 0..MaxFaults
    /\ appeals \in 0..MaxAppeals

\* The sweep closes only what nobody decided: a decision made while the page is
\* worked off is never overwritten, and every close has its receipt.
CloseSparesDecided ==
    [][\A c \in Case : status[c] # "closed" /\ status'[c] = "closed" =>
           status[c] = "pending" /\ <<c, "expired">> \in side]_vars

\* A proposal that stays expired is closed (or somebody decides or re-posts it),
\* whatever the page ceiling cuts and whichever statement fails half way.  About
\* the SELECT of the expired: that of the overdue also returns the cases whose
\* receipt is there, which may keep the others off the page.
ExpiredIsSettled == \A c \in Case : c \in Expired ~> c \notin Expired

=============================================================================
