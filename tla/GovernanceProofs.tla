--------------------------- MODULE GovernanceProofs ---------------------------
(***************************************************************************)
(* Proofs about the governed decision flow, for any number of cases,       *)
(* events, keys, handlers, reports and failures: what handlers, reports    *)
(* and the cron know at each of their steps, the ledger of decisions they  *)
(* keep, the refinement of DecisionLedger, what a step may never do to a   *)
(* receipt or a closed case, and what holds while no consumer reports.     *)
(***************************************************************************)
EXTENDS GovernanceProperties, TLAPS

-----------------------------------------------------------------------------
(* The world and its vocabulary *)

LEMMA EventFields ==
    ASSUME NEW e \in Event
    PROVE  /\ ev[e].case \in Case
           /\ ev[e].signer \in Key
           /\ ev[e].to \in Key
           /\ ev[e].cites \in Event \cup {None}
           /\ ev[e].outcome \in Outcome
           /\ ev[e].kind \in Kind
  BY EvAssumption DEF EventRecord

\* An event is a request, a response, a supersession or an appeal, and one of
\* them only.
LEMMA KindsPartition ==
    /\ Event = Request \cup Response \cup Supersession \cup Appeal
    /\ Request \cap (Response \cup Supersession \cup Appeal) = {}
    /\ Response \cap Supersession = {}
    /\ Appeal \cap (Response \cup Supersession) = {}
  BY EventFields DEF Request, Response, Supersession, Appeal, Kind

\* Every outcome of a decision resolves its case.
LEMMA StateAfterResolved == \A o \in Outcome : StateAfter(o) \in Resolved
  BY DEF Outcome, StateAfter, Resolved

\* latest_decision finds an event of the world, or nothing.
LEMMA LatestType ==
    ASSUME TablesOK, NEW c \in Case
    PROVE  Latest(c) \in Event \cup {None}
  BY DEF Latest, Newest, DecisionsOf, TablesOK, Response, Supersession

-----------------------------------------------------------------------------
(* Types and registers *)

Invariants == TypeOK /\ HandlerKnows /\ ReportKnows /\ SweepKnows /\ LandedIsDecided

\* Empty tables and idle handlers satisfy the invariant.
LEMMA InitInvariants == Init => Invariants
  <1> SUFFICES ASSUME Init PROVE Invariants
    OBVIOUS
  <1>1. TablesOK
    BY DEF Init, TablesOK
  <1>2. HandlersOK
    BY DEF Init, HandlersOK, HandlerPC
  <1>3. ReportsOK /\ SweepOK /\ faults \in 0..MaxFaults
    BY BoundAssumption DEF Init, ReportsOK, SweepOK
  <1>4. HandlerKnows /\ ReportKnows /\ SweepKnows
    BY DEF Init, HandlerKnows, ReportKnows, SweepKnows
  <1>5. LandedIsDecided
    BY DEF Init, LandedIsDecided, Landed, ApplicationStage, Response, Supersession
  <1> QED
    BY <1>1, <1>2, <1>3, <1>4, <1>5 DEF Invariants, TypeOK

USE DEF cases, ledger, tables, handlers, reports, sweep

-----------------------------------------------------------------------------
(* What the moves of a handler, and the parts of the state a step leaves alone,*)
(* preserve                                                                    *)

LEMMA GotoKeeps ==
    ASSUME TypeOK, HandlerKnows, decided \subseteq decided',
           NEW w \in Worker, NEW l \in HandlerPC \ {"idle", "upsert", "cited"}, Goto(w, l),
           pc[w] \notin {"idle", "upsert"},
           l = "latest" => cur[w] \in Response,
           (l \in {"accept", "commit"} /\ cur[w] \in Response) => ev[cur[w]].cites = seenReq[w],
           l = "delegate" => Delegating(cur[w])'
    PROVE  HandlersOK' /\ HandlerKnows'
  <1>1. HandlersOK'
    BY DEF Goto, TypeOK, HandlersOK
  <1>2. HandlerKnows'
    BY DEF Goto, TypeOK, HandlersOK, HandlerKnows, Delegating
  <1> QED
    BY <1>1, <1>2

\* A handler that ends holds nothing to be known.
LEMMA FinishKeeps ==
    ASSUME TypeOK, HandlerKnows, decided \subseteq decided', NEW w \in Worker, Finish(w)
    PROVE  HandlersOK' /\ HandlerKnows'
  <1>1. HandlersOK'
    BY DEF Finish, TypeOK, HandlersOK, HandlerPC
  <1>2. HandlerKnows'
    BY DEF Finish, TypeOK, HandlersOK, HandlerKnows, Delegating
  <1> QED
    BY <1>1, <1>2

\* A handler that takes an event starts where its kind starts.
LEMMA BeginKeeps ==
    ASSUME TypeOK, HandlerKnows, UNCHANGED decided,
           NEW w \in Worker, NEW e \in Event, NEW l \in {"upsert", "check"}, Begin(w, e, l),
           l = "upsert" <=> e \in Request
    PROVE  HandlersOK' /\ HandlerKnows'
  <1>1. HandlersOK'
    BY DEF Begin, TypeOK, HandlersOK, HandlerPC
  <1>2. HandlerKnows'
    BY DEF Begin, TypeOK, HandlersOK, HandlerKnows, Delegating
  <1> QED
    BY <1>1, <1>2

\* What handlers hold stays true while others only add decisions.
LEMMA HandlersFrame ==
    ASSUME HandlersOK, HandlerKnows, UNCHANGED handlers, decided \subseteq decided'
    PROVE  HandlersOK' /\ HandlerKnows'
  BY DEF HandlersOK, HandlerKnows, Delegating

\* What a report holds stays true while its registers and the ladder do.
LEMMA ReportsFrame ==
    ASSUME ReportsOK, ReportKnows, UNCHANGED reports
    PROVE  ReportsOK' /\ ReportKnows'
  BY DEF ReportsOK, ReportKnows

\* What the cron holds stays true while others only add receipts to cases.
LEMMA SweepFrame ==
    ASSUME SweepOK, SweepKnows, UNCHANGED sweep, side \subseteq side'
    PROVE  SweepOK' /\ SweepKnows'
  BY DEF SweepOK, SweepKnows

\* The tables keep their types, and landed decisions stay landed, in a step
\* that writes no table.
LEMMA TablesFrame ==
    ASSUME TablesOK, LandedIsDecided, UNCHANGED tables
    PROVE  TablesOK' /\ LandedIsDecided'
  BY DEF TablesOK, LandedIsDecided

\* A failure counts one, up to the bound.
LEMMA FaultType ==
    ASSUME faults \in 0..MaxFaults, Fault
    PROVE  faults' \in 0..MaxFaults
  BY BoundAssumption DEF Fault

\* A handler whose batch landed goes on to the delegation row of a decision in
\* the ledger.
LEMMA AfterAppliedKeeps ==
    ASSUME TypeOK, HandlerKnows, decided \subseteq decided',
           NEW w \in Worker, AfterApplied(w), pc[w] \in {"accept", "commit"},
           cur[w] \in Response => cur[w] \in decided'
    PROVE  HandlersOK' /\ HandlerKnows'
  <1>1. CASE cur[w] \in Response /\ ev[cur[w]].outcome = "delegate"
    <2>1. Goto(w, "delegate")
      BY <1>1 DEF AfterApplied
    <2>2. Delegating(cur[w])'
      BY <1>1, <2>1 DEF Goto, Delegating
    <2> QED
      BY <2>1, <2>2, GotoKeeps DEF HandlerPC
  <1>2. CASE ~(cur[w] \in Response /\ ev[cur[w]].outcome = "delegate")
    <2>1. Finish(w)
      BY <1>2 DEF AfterApplied
    <2> QED
      BY <2>1, FinishKeeps
  <1> QED
    BY <1>1, <1>2

\* So does one whose batch landed and whose reply may be lost.
LEMMA ReplyKeeps ==
    ASSUME TypeOK, HandlerKnows, decided \subseteq decided',
           NEW w \in Worker, Reply(w), pc[w] = "commit",
           cur[w] \in Response => cur[w] \in decided'
    PROVE  HandlersOK' /\ HandlerKnows' /\ faults' \in 0..MaxFaults
  <1>1. CASE AfterApplied(w) /\ UNCHANGED faults
    BY <1>1, AfterAppliedKeeps DEF TypeOK
  <1>2. CASE Fault /\ Goto(w, "fail")
    BY <1>2, GotoKeeps, FaultType DEF TypeOK, HandlerPC
  <1> QED
    BY <1>1, <1>2 DEF Reply

\* A step that only moves one handler.
LEMMA MoveInvariants ==
    ASSUME Invariants, UNCHANGED tables, UNCHANGED reports, UNCHANGED sweep,
           HandlersOK' /\ HandlerKnows', faults' \in 0..MaxFaults
    PROVE  Invariants'
  BY TablesFrame, ReportsFrame, SweepFrame DEF Invariants, TypeOK

-----------------------------------------------------------------------------
(* The steps of a handler *)

LEMMA DeliverInvariants ==
    ASSUME Invariants, NEW w \in Worker, NEW e \in Event, Deliver(w, e)
    PROVE  Invariants'
  <1> USE DEF Invariants
  <1>1. CASE DeliverRequest(w, e)
    <2>1. HandlersOK' /\ HandlerKnows'
      BY <1>1, BeginKeeps DEF DeliverRequest
    <2>2. TablesOK' /\ LandedIsDecided'
      BY <1>1 DEF DeliverRequest, TypeOK, TablesOK, LandedIsDecided, Request
    <2> QED
      BY <1>1, <2>1, <2>2, ReportsFrame, SweepFrame DEF DeliverRequest, TypeOK
  <1>2. CASE DeliverResponse(w, e)
    BY <1>2, BeginKeeps, MoveInvariants, KindsPartition DEF DeliverResponse, TypeOK
  <1>3. CASE DeliverSupersession(w, e)
    BY <1>3, BeginKeeps, MoveInvariants, KindsPartition DEF DeliverSupersession, TypeOK
  <1>4. CASE DeliverAppeal(w, e)
    BY <1>4, BeginKeeps, MoveInvariants, KindsPartition DEF DeliverAppeal, TypeOK
  <1> QED
    BY <1>1, <1>2, <1>3, <1>4 DEF Deliver

\* CASE_UPSERT_SQL keeps the invariant.
LEMMA UpsertCaseInvariants ==
    ASSUME Invariants, NEW w \in Worker, UpsertCase(w)
    PROVE  Invariants'
  <1> USE DEF Invariants
  <1>1. cur[w] \in Request /\ cur[w] \in Event
    BY DEF UpsertCase, HandlerKnows
  <1>2. ev[cur[w]].case \in Case /\ ev[cur[w]].signer \in Key
    BY <1>1, EventFields
  <1>3. TablesOK' /\ LandedIsDecided'
    BY <1>1, <1>2 DEF UpsertCase, TypeOK, TablesOK, LandedIsDecided, CaseState, Pending
  <1>4. HandlersOK' /\ HandlerKnows'
    BY FinishKeeps DEF UpsertCase
  <1> QED
    BY <1>3, <1>4, ReportsFrame, SweepFrame DEF UpsertCase, TypeOK

\* So do the reads a projection makes before its batch.
LEMMA ReadInvariants ==
    ASSUME Invariants, NEW w \in Worker,
           \/ CheckReplay(w) \/ ReadTarget(w) \/ ReadCase(w) \/ ReadLatest(w)
           \/ ReadCited(w) \/ ReadFails(w)
    PROVE  Invariants'
  <1> USE DEF Invariants
  <1>0. faults \in 0..MaxFaults
    BY DEF TypeOK
  <1>1. CASE CheckReplay(w)
    <2>1. HandlersOK' /\ HandlerKnows'
      <3>1. Finish(w) \/ Goto(w, "target") \/ Goto(w, "case")
        BY <1>1 DEF CheckReplay
      <3>2. pc[w] = "check" /\ decided \subseteq decided'
        BY <1>1 DEF CheckReplay
      <3>3. CASE Finish(w)
        BY <3>2, <3>3, FinishKeeps
      <3>4. CASE Goto(w, "target")
        BY <3>2, <3>4, GotoKeeps DEF HandlerPC
      <3>5. CASE Goto(w, "case")
        BY <3>2, <3>5, GotoKeeps DEF HandlerPC
      <3> QED
        BY <3>1, <3>3, <3>4, <3>5
    <2> QED
      BY <1>0, <1>1, <2>1, MoveInvariants DEF CheckReplay
  <1>2. CASE ReadTarget(w)
    <2>1. HandlersOK' /\ HandlerKnows'
      <3>1. Goto(w, "case") \/ Goto(w, "refuse")
        BY <1>2 DEF ReadTarget
      <3>2. pc[w] = "target" /\ decided \subseteq decided'
        BY <1>2 DEF ReadTarget
      <3>3. CASE Goto(w, "case")
        BY <3>2, <3>3, GotoKeeps DEF HandlerPC
      <3>4. CASE Goto(w, "refuse")
        BY <3>2, <3>4, GotoKeeps DEF HandlerPC
      <3> QED
        BY <3>1, <3>3, <3>4
    <2> QED
      BY <1>0, <1>2, <2>1, MoveInvariants DEF ReadTarget
  <1>3. CASE ReadCase(w)
    <2>1. cur[w] \in Event \ Request
      BY <1>3 DEF ReadCase, HandlerKnows
    <2>2. ev[cur[w]].case \in Case
      BY <2>1, EventFields
    <2>3. /\ AfterCase(cur[w]) \in {"accept", "cited", "latest"}
          /\ AfterCase(cur[w]) = "latest" => cur[w] \in Response
          /\ AfterCase(cur[w]) = "cited" => cur[w] \in Appeal
          /\ AfterCase(cur[w]) = "accept" => cur[w] \notin Response
      BY <2>1, KindsPartition DEF AfterCase
    <2>4. HandlersOK'
      BY <1>3, <2>2, <2>3 DEF ReadCase, TypeOK, HandlersOK, TablesOK, HandlerPC, Request
    <2>5. HandlerKnows'
      BY <1>3, <2>1, <2>3 DEF ReadCase, TypeOK, HandlersOK, HandlerKnows, Delegating
    <2> QED
      BY <1>0, <1>3, <2>4, <2>5, MoveInvariants DEF ReadCase
  <1>4. CASE ReadLatest(w)
    <2>1. cur[w] \in Response /\ cur[w] \in Event
      BY <1>4 DEF ReadLatest, HandlerKnows
    <2>2. Latest(ev[cur[w]].case) \in Event \cup {None}
      BY <2>1, EventFields, LatestType DEF TypeOK
    <2>3. CASE Finish(w) /\ UNCHANGED faults
      BY <1>0, <1>4, <2>3, FinishKeeps, MoveInvariants DEF ReadLatest
    <2>4. CASE /\ ev[cur[w]].cites = seenReq[w]
               /\ \E p \in Event \cup {None} : seenPrior' = [seenPrior EXCEPT ![w] = p]
               /\ pc' = [pc EXCEPT ![w] = "accept"]
               /\ UNCHANGED <<cur, seenState, seenReq>>
      <3>1. HandlersOK'
        BY <2>4 DEF TypeOK, HandlersOK, HandlerPC
      <3>2. HandlerKnows'
        BY <1>4, <2>1, <2>4 DEF ReadLatest, TypeOK, HandlersOK, HandlerKnows, Delegating
      <3>3. faults' \in 0..MaxFaults
        BY <1>0, <1>4, FaultType DEF ReadLatest
      <3> QED
        BY <1>4, <3>1, <3>2, <3>3, MoveInvariants DEF ReadLatest
    <2> QED
      BY <1>4, <2>2, <2>3, <2>4 DEF ReadLatest
  <1>5. CASE ReadCited(w)
    <2>1. HandlersOK' /\ HandlerKnows'
      <3>1. Goto(w, "accept") \/ Goto(w, "refuse")
        BY <1>5 DEF ReadCited
      <3>2. pc[w] = "cited" /\ decided \subseteq decided'
        BY <1>5 DEF ReadCited
      <3>3. CASE Goto(w, "accept")
        <4>1. cur[w] \notin Response
          BY <3>2, KindsPartition DEF HandlerKnows
        <4> QED
          BY <3>2, <3>3, <4>1, GotoKeeps DEF HandlerPC
      <3>4. CASE Goto(w, "refuse")
        BY <3>2, <3>4, GotoKeeps DEF HandlerPC
      <3> QED
        BY <3>1, <3>3, <3>4
    <2> QED
      BY <1>0, <1>5, <2>1, MoveInvariants DEF ReadCited
  <1>6. CASE ReadFails(w)
    BY <1>0, <1>6, GotoKeeps, FaultType, MoveInvariants DEF ReadFails, HandlerPC
  <1> QED
    BY <1>1, <1>2, <1>3, <1>4, <1>5, <1>6

\* So do the statements that write the receipt alone, or the delegation row.
LEMMA RecordInvariants ==
    ASSUME Invariants, NEW w \in Worker,
           \/ RecordAccepted(w) \/ RecordRefused(w) \/ MarkFailed(w)
           \/ RecordDelegation(w) \/ CommitRefused(w) \/ Evict(w)
    PROVE  Invariants'
  <1> USE DEF Invariants
  <1>0. faults \in 0..MaxFaults
    BY DEF TypeOK
  <1>1. CASE RecordAccepted(w)
    <2>1. cur[w] \in Event
      BY <1>1 DEF RecordAccepted, HandlerKnows
    <2>2. TablesOK' /\ LandedIsDecided'
      BY <1>1, <2>1 DEF RecordAccepted, Accepted, TypeOK, TablesOK, LandedIsDecided, Stage,
                        Awaiting, Landed, ApplicationStage
    <2>3. HandlersOK' /\ HandlerKnows'
      <3>1. CASE stage[cur[w]] \in Landed /\ AfterApplied(w)
        <4>1. cur[w] \in Response => cur[w] \in decided'
          BY <1>1, <3>1 DEF RecordAccepted, LandedIsDecided
        <4> QED
          BY <1>1, <3>1, <4>1, AfterAppliedKeeps DEF RecordAccepted
      <3>2. CASE Goto(w, "commit")
        <4>1. cur[w] \in Response => ev[cur[w]].cites = seenReq[w]
          BY <1>1 DEF RecordAccepted, HandlerKnows
        <4> QED
          BY <1>1, <3>2, <4>1, GotoKeeps DEF RecordAccepted, HandlerPC
      <3> QED
        BY <1>1, <3>1, <3>2 DEF RecordAccepted
    <2> QED
      BY <1>0, <1>1, <2>2, <2>3, ReportsFrame, SweepFrame DEF RecordAccepted, TypeOK
  <1>2. CASE RecordRefused(w)
    <2>1. cur[w] \in Event
      BY <1>2 DEF RecordRefused, HandlerKnows
    <2>2. TablesOK' /\ LandedIsDecided'
      BY <1>2, <2>1 DEF RecordRefused, Accepted, TypeOK, TablesOK, LandedIsDecided, Stage,
                        Awaiting, Landed, ApplicationStage
    <2>3. HandlersOK' /\ HandlerKnows'
      BY <1>2, GotoKeeps DEF RecordRefused, HandlerPC
    <2> QED
      BY <1>0, <1>2, <2>2, <2>3, ReportsFrame, SweepFrame DEF RecordRefused, TypeOK
  <1>3. CASE MarkFailed(w)
    <2>1. cur[w] \in Event
      BY <1>3 DEF MarkFailed, HandlerKnows
    <2>2. TablesOK' /\ LandedIsDecided'
      BY <1>3, <2>1 DEF MarkFailed, TypeOK, TablesOK, LandedIsDecided, Stage,
                        Awaiting, Landed, ApplicationStage
    <2>3. HandlersOK' /\ HandlerKnows'
      BY <1>3, FinishKeeps DEF MarkFailed
    <2> QED
      BY <1>0, <1>3, <2>2, <2>3, ReportsFrame, SweepFrame DEF MarkFailed, TypeOK
  <1>4. CASE RecordDelegation(w)
    <2>1. cur[w] \in Event
      BY <1>4 DEF RecordDelegation, HandlerKnows
    <2>2. TablesOK' /\ LandedIsDecided'
      BY <1>4, <2>1, EventFields DEF RecordDelegation, TypeOK, TablesOK, LandedIsDecided
    <2>3. HandlersOK' /\ HandlerKnows'
      BY <1>4, FinishKeeps DEF RecordDelegation
    <2> QED
      BY <1>0, <1>4, <2>2, <2>3, ReportsFrame, SweepFrame DEF RecordDelegation, TypeOK
  <1>5. CASE CommitRefused(w)
    <2>1. HandlersOK' /\ HandlerKnows'
      BY <1>5, GotoKeeps DEF CommitRefused, HandlerPC
    <2>2. faults' \in 0..MaxFaults
      BY <1>0, <1>5, FaultType DEF CommitRefused
    <2> QED
      BY <1>5, <2>1, <2>2, MoveInvariants DEF CommitRefused
  <1>6. CASE Evict(w)
    <2>1. HandlersOK' /\ HandlerKnows'
      BY <1>6, FinishKeeps DEF Evict
    <2> QED
      BY <1>0, <1>6, <2>1, FaultType, MoveInvariants DEF Evict
  <1> QED
    BY <1>1, <1>2, <1>3, <1>4, <1>5, <1>6

\* So do the three batches: response, supersession, appeal.
LEMMA CommitInvariants ==
    ASSUME Invariants, NEW w \in Worker,
           CommitResponse(w) \/ CommitSupersession(w) \/ CommitAppeal(w)
    PROVE  Invariants'
  <1> USE DEF Invariants
  <1>1. pc[w] = "commit"
    BY DEF CommitResponse, CommitSupersession, CommitAppeal
  <1>2. cur[w] \in Event
    BY <1>1 DEF HandlerKnows
  <1>3. /\ ev[cur[w]].case \in Case
        /\ ev[cur[w]].cites \in Event \cup {None}
        /\ StateAfter(ev[cur[w]].outcome) \in Resolved
    BY <1>2, EventFields, StateAfterResolved
  <1>4. CASE CommitResponse(w)
    <2>1. cur[w] \in Response
      BY <1>4 DEF CommitResponse, ResponseFits
    <2>2. TablesOK' /\ LandedIsDecided'
      <3>1. TablesOK'
        BY <1>2, <1>3, <1>4, <2>1 DEF CommitResponse, TypeOK, TablesOK, HandlersOK, CaseState,
                                      Stage, Landed
      <3>2. LandedIsDecided'
        BY <1>4, <2>1 DEF CommitResponse, TypeOK, TablesOK, LandedIsDecided
      <3> QED
        BY <3>1, <3>2
    <2>3. HandlersOK' /\ HandlerKnows' /\ faults' \in 0..MaxFaults
      BY <1>1, <1>4, ReplyKeeps DEF CommitResponse
    <2> QED
      BY <1>4, <2>2, <2>3, ReportsFrame, SweepFrame DEF CommitResponse, TypeOK
  <1>5. CASE CommitSupersession(w)
    <2>1. cur[w] \in Supersession
      BY <1>5 DEF CommitSupersession, SupersessionFits
    <2>2. TablesOK' /\ LandedIsDecided'
      <3>1. TablesOK'
        BY <1>2, <1>3, <1>5, <2>1 DEF CommitSupersession, TypeOK, TablesOK, CaseState, Stage,
                                      Landed
      <3>2. LandedIsDecided'
        BY <1>5, <2>1 DEF CommitSupersession, TypeOK, TablesOK, LandedIsDecided
      <3> QED
        BY <3>1, <3>2
    <2>3. HandlersOK' /\ HandlerKnows' /\ faults' \in 0..MaxFaults
      BY <1>1, <1>5, <2>1, KindsPartition, ReplyKeeps DEF CommitSupersession
    <2> QED
      BY <1>5, <2>2, <2>3, ReportsFrame, SweepFrame DEF CommitSupersession, TypeOK
  <1>6. CASE CommitAppeal(w)
    <2>1. cur[w] \in Appeal
      BY <1>6 DEF CommitAppeal, AppealFits
    <2>2. TablesOK' /\ LandedIsDecided'
      <3>1. TablesOK'
        BY <1>2, <1>3, <1>6 DEF CommitAppeal, TypeOK, TablesOK, CaseState, Pending, Stage,
                                Landed
      <3>2. LandedIsDecided'
        BY <1>6, <2>1, KindsPartition DEF CommitAppeal, TypeOK, TablesOK, LandedIsDecided
      <3> QED
        BY <3>1, <3>2
    <2>3. HandlersOK' /\ HandlerKnows' /\ faults' \in 0..MaxFaults
      BY <1>1, <1>6, <2>1, KindsPartition, ReplyKeeps DEF CommitAppeal
    <2> QED
      BY <1>6, <2>2, <2>3, ReportsFrame, SweepFrame DEF CommitAppeal, TypeOK
  <1> QED
    BY <1>4, <1>5, <1>6

\* Every step of a handler, failed or evicted, keeps the invariant.
LEMMA HandlerStepInvariants ==
    ASSUME Invariants, NEW w \in Worker, HandlerStep(w) \/ ReadFails(w) \/ Evict(w)
    PROVE  Invariants'
  BY UpsertCaseInvariants, ReadInvariants, RecordInvariants, CommitInvariants DEF HandlerStep

-----------------------------------------------------------------------------
(* The steps of the endpoint, of the cron and of the store *)

LEMMA ReportInvariants ==
    ASSUME Invariants, NEW r \in Reporter,
           \/ ReportStep(r)
           \/ \E e \in Event, want \in ApplicationStage, k \in Key : ReadReceipt(r, e, want, k)
    PROVE  Invariants'
  <1> USE DEF Invariants
  <1>1. ASSUME NEW e \in Event, NEW want \in ApplicationStage, NEW k \in Key,
               ReadReceipt(r, e, want, k)
        PROVE  Invariants'
    <2>1. ReportsOK' /\ ReportKnows'
      BY <1>1 DEF ReadReceipt, TypeOK, TablesOK, ReportsOK, ReportKnows
    <2> QED
      BY <1>1, <2>1, TablesFrame, HandlersFrame, SweepFrame DEF ReadReceipt, TypeOK
  <1>2. CASE PlanReport(r)
    <2>1. ReportsOK' /\ ReportKnows'
      <3>1. CASE /\ ReportPlanned(rEvent[r], rKey[r], rStage[r], rWant[r])
                 /\ rpc' = [rpc EXCEPT ![r] = "write"]
                 /\ UNCHANGED <<rEvent, rStage, rWant, rKey>>
        <4>1. rStage[r] \in Landed /\ LadderRank(rWant[r]) > LadderRank(rStage[r])
          BY <3>1 DEF ReportPlanned, CanAdvance
        <4> QED
          BY <1>2, <3>1, <4>1 DEF PlanReport, TypeOK, ReportsOK, ReportKnows
      <3>2. CASE EndReport(r)
        BY <1>2, <3>2 DEF PlanReport, EndReport, TypeOK, ReportsOK, ReportKnows
      <3> QED
        BY <1>2, <3>1, <3>2 DEF PlanReport
    <2> QED
      BY <1>2, <2>1, TablesFrame, HandlersFrame, SweepFrame DEF PlanReport, TypeOK
  <1>3. CASE WriteReport(r)
    <2>1. /\ rEvent[r] \in Event
          /\ rWant[r] \in ApplicationStage
          /\ rStage[r] \in Landed
      BY <1>3 DEF WriteReport, ReportKnows
    <2>2. TablesOK' /\ LandedIsDecided'
      BY <1>3, <2>1 DEF WriteReport, TypeOK, TablesOK, LandedIsDecided, Stage, Landed
    <2>3. ReportsOK' /\ ReportKnows'
      BY <1>3 DEF WriteReport, EndReport, TypeOK, ReportsOK, ReportKnows
    <2> QED
      BY <1>3, <2>2, <2>3, HandlersFrame, SweepFrame DEF WriteReport, TypeOK
  <1> QED
    BY <1>1, <1>2, <1>3 DEF ReportStep

\* So does every step of the cron.
LEMMA SweepInvariants ==
    ASSUME Invariants,
           \/ \E c \in Case : FindOverdue(c) \/ FindExpired(c)
           \/ SweepStep \/ AbortSweep
    PROVE  Invariants'
  <1> USE DEF Invariants
  <1>1. ASSUME NEW c \in Case, FindOverdue(c) \/ FindExpired(c)
        PROVE  Invariants'
    <2>1. StartSweep(c, "age") \/ StartSweep(c, "expire")
      BY <1>1 DEF FindOverdue, FindExpired
    <2>2. SweepOK' /\ SweepKnows'
      BY <2>1 DEF StartSweep, SweepOK, SweepKnows
    <2> QED
      BY <2>1, <2>2, TablesFrame, HandlersFrame, ReportsFrame DEF StartSweep, TypeOK
  <1>2. CASE Escalate
    <2>1. TablesOK' /\ LandedIsDecided' /\ SweepOK' /\ SweepKnows'
      BY <1>2 DEF Escalate, EndSweep, TypeOK, TablesOK, LandedIsDecided, SweepOK, SweepKnows
    <2> QED
      BY <1>2, <2>1, HandlersFrame, ReportsFrame DEF Escalate, TypeOK
  <1>3. CASE RecordExpired
    <2>1. TablesOK' /\ LandedIsDecided' /\ SweepOK' /\ SweepKnows'
      BY <1>3 DEF RecordExpired, TypeOK, TablesOK, LandedIsDecided, SweepOK, SweepKnows
    <2> QED
      BY <1>3, <2>1, HandlersFrame, ReportsFrame DEF RecordExpired, TypeOK
  <1>4. CASE CloseExpired
    <2>1. TablesOK' /\ LandedIsDecided' /\ SweepOK' /\ SweepKnows'
      BY <1>4 DEF CloseExpired, EndSweep, TypeOK, TablesOK, LandedIsDecided, SweepOK,
                  SweepKnows, CaseState, Pending
    <2> QED
      BY <1>4, <2>1, HandlersFrame, ReportsFrame DEF CloseExpired, TypeOK
  <1>5. CASE AbortSweep
    <2>1. SweepOK' /\ SweepKnows'
      BY <1>5 DEF AbortSweep, EndSweep, SweepOK, SweepKnows
    <2> QED
      BY <1>5, <2>1, TablesFrame, HandlersFrame, ReportsFrame, FaultType DEF AbortSweep, TypeOK
  <1> QED
    BY <1>1, <1>2, <1>3, <1>4, <1>5 DEF SweepStep

\* So does the removal of a stored request.
LEMMA DropInvariants ==
    ASSUME Invariants, NEW e \in Event, DropRequest(e)
    PROVE  Invariants'
  <1> USE DEF Invariants
  <1>1. TablesOK' /\ LandedIsDecided'
    BY DEF DropRequest, TypeOK, TablesOK, LandedIsDecided
  <1> QED
    BY <1>1, HandlersFrame, ReportsFrame, SweepFrame DEF DropRequest, TypeOK

\* The invariant is inductive.
LEMMA StepInvariants == Invariants /\ [Next]_vars => Invariants'
  <1> SUFFICES ASSUME Invariants, [Next]_vars PROVE Invariants'
    OBVIOUS
  <1>1. CASE UNCHANGED vars
    BY <1>1, TablesFrame, HandlersFrame, ReportsFrame, SweepFrame DEF vars, Invariants, TypeOK
  <1>2. CASE Next
    BY <1>2, DeliverInvariants, HandlerStepInvariants, ReportInvariants, SweepInvariants,
       DropInvariants DEF Next
  <1> QED
    BY <1>1, <1>2

\* Invariants holds in every state the handlers, the endpoint and the cron can
\* reach.
THEOREM AlwaysInvariants == Spec => []Invariants
  BY InitInvariants, StepInvariants, PTL DEF Spec

\* The tables and every register only ever hold what they are declared to hold.
THEOREM TypeCorrect == Spec => []TypeOK
  BY AlwaysInvariants, PTL DEF Invariants

\* However deliveries, reports and failures interleave, no receipt claims a
\* projection, or anything after it, for a decision that did not land.
THEOREM ReceiptsAreHonest == Spec => []LandedIsDecided
  BY AlwaysInvariants, PTL DEF Invariants

-----------------------------------------------------------------------------
(* The ledger of decisions: its chain, the case rows that must agree with it, *)
(* and what a closed case and a delegation rest on                             *)

\* The variables the ledger's invariants speak of.
ledgerVars == <<caseState, caseReq, decided, prior, succ, delegation>>

LedgerInvariants ==
    ChainWellFormed /\ CaseMatchesLedger /\ DelegationHasDecision /\ ClosedHasReceipt

\* Empty tables satisfy the invariants of the ledger.
LEMMA InitLedger == Init => LedgerInvariants
  <1> SUFFICES ASSUME Init PROVE LedgerInvariants
    OBVIOUS
  <1>1. ChainWellFormed
    BY DEF Init, ChainWellFormed
  <1>2. CaseMatchesLedger /\ ClosedHasReceipt
    BY DEF Init, CaseMatchesLedger, ClosedHasReceipt, DecisionsOf, Resolved
  <1>3. DelegationHasDecision
    BY DEF Init, DelegationHasDecision
  <1> QED
    BY <1>1, <1>2, <1>3 DEF LedgerInvariants

\* A step that writes neither decisions, cases nor delegations keeps them.
LEMMA LedgerFrame ==
    ASSUME LedgerInvariants, UNCHANGED ledgerVars, side \subseteq side'
    PROVE  LedgerInvariants'
  <1> USE DEF LedgerInvariants, ledgerVars
  <1>1. ChainWellFormed'
    BY DEF ChainWellFormed
  <1>2. CaseMatchesLedger' /\ ClosedHasReceipt'
    BY DEF CaseMatchesLedger, ClosedHasReceipt, DecisionsOf, Effective
  <1>3. DelegationHasDecision'
    BY DEF DelegationHasDecision, Delegating
  <1> QED
    BY <1>1, <1>2, <1>3

\* The five kinds of step that change what the ledger's invariants speak of.
LEMMA LedgerSteps ==
    ASSUME [Next]_vars
    PROVE  \/ \E w \in Worker : \/ UpsertCase(w) \/ CommitResponse(w)
                                \/ CommitSupersession(w) \/ CommitAppeal(w)
                                \/ RecordDelegation(w)
           \/ CloseExpired
           \/ UNCHANGED ledgerVars /\ side \subseteq side'
  <1> USE DEF ledgerVars
  <1>1. CASE UNCHANGED vars
    BY <1>1 DEF vars
  <1>2. ASSUME NEW w \in Worker, NEW e \in Event, Deliver(w, e)
        PROVE  UNCHANGED ledgerVars /\ side \subseteq side'
    BY <1>2 DEF Deliver, DeliverRequest, DeliverResponse, DeliverSupersession, DeliverAppeal
  <1>3. ASSUME NEW w \in Worker, HandlerStep(w) \/ ReadFails(w) \/ Evict(w),
               ~(\/ UpsertCase(w) \/ CommitResponse(w) \/ CommitSupersession(w)
                 \/ CommitAppeal(w) \/ RecordDelegation(w))
        PROVE  UNCHANGED ledgerVars /\ side \subseteq side'
    <2>1. CASE \/ CheckReplay(w) \/ ReadTarget(w) \/ ReadCase(w) \/ ReadLatest(w)
               \/ ReadCited(w) \/ ReadFails(w) \/ Evict(w)
      BY <2>1 DEF CheckReplay, ReadTarget, ReadCase, ReadLatest, ReadCited, ReadFails, Evict
    <2>2. CASE \/ RecordAccepted(w) \/ CommitRefused(w) \/ RecordRefused(w) \/ MarkFailed(w)
      BY <2>2 DEF RecordAccepted, CommitRefused, RecordRefused, MarkFailed
    <2> QED
      BY <1>3, <2>1, <2>2 DEF HandlerStep
  <1>4. ASSUME NEW r \in Reporter,
               \/ ReportStep(r)
               \/ \E e \in Event, want \in ApplicationStage, k \in Key :
                      ReadReceipt(r, e, want, k)
        PROVE  UNCHANGED ledgerVars /\ side \subseteq side'
    BY <1>4 DEF ReportStep, PlanReport, WriteReport, ReadReceipt
  <1>5. CASE \/ \E c \in Case : FindOverdue(c) \/ FindExpired(c)
             \/ Escalate \/ RecordExpired \/ AbortSweep
    BY <1>5 DEF FindOverdue, FindExpired, StartSweep, Escalate, RecordExpired, AbortSweep
  <1>6. CASE \E e \in Event : DropRequest(e)
    BY <1>6 DEF DropRequest
  <1> QED
    BY <1>1, <1>2, <1>3, <1>4, <1>5, <1>6 DEF Next, SweepStep

-----------------------------------------------------------------------------
(* What a commit puts into the ledger *)

LEMMA ResponseLands ==
    ASSUME Invariants, NEW w \in Worker, CommitResponse(w)
    PROVE  /\ cur[w] \in Response \ decided
           /\ ev[cur[w]].case \in Case
           /\ ev[cur[w]].cites = caseReq[ev[cur[w]].case]
           /\ caseState[ev[cur[w]].case] \in Pending
           /\ StateAfter(ev[cur[w]].outcome) \in Resolved
           /\ decided' = decided \cup {cur[w]}
           /\ caseState' = [caseState EXCEPT ![ev[cur[w]].case] =
                                StateAfter(ev[cur[w]].outcome)]
           /\ UNCHANGED <<caseReq, succ, delegation, side>>
           /\ \A e \in Event \ {cur[w]} : prior'[e] = prior[e]
  <1>1. cur[w] \in Event
    BY DEF Invariants, CommitResponse, HandlerKnows
  <1>2. cur[w] \in Response \ decided
    BY DEF CommitResponse, ResponseFits
  <1>3. ev[cur[w]].cites = seenReq[w]
    BY <1>2 DEF Invariants, CommitResponse, HandlerKnows
  <1> QED
    BY <1>1, <1>2, <1>3, EventFields, StateAfterResolved
    DEF CommitResponse, ResponseFits, Invariants, TypeOK, TablesOK

\* A supersession lands on a cited decision of its own case that nothing has
\* superseded yet.
LEMMA SupersessionLands ==
    ASSUME Invariants, NEW w \in Worker, CommitSupersession(w)
    PROVE  /\ cur[w] \in Supersession \ decided
           /\ ev[cur[w]].case \in Case
           /\ ev[cur[w]].cites \in decided
           /\ ev[ev[cur[w]].cites].case = ev[cur[w]].case
           /\ succ[ev[cur[w]].cites] = None
           /\ caseState[ev[cur[w]].case] \in Supersedable
           /\ decided' = decided \cup {cur[w]}
           /\ prior' = [prior EXCEPT ![cur[w]] = ev[cur[w]].cites]
           /\ succ' = [succ EXCEPT ![ev[cur[w]].cites] = cur[w]]
           /\ caseState' = [caseState EXCEPT ![ev[cur[w]].case] = "superseded"]
           /\ UNCHANGED <<caseReq, delegation, side>>
  <1>1. cur[w] \in Event
    BY DEF Invariants, CommitSupersession, HandlerKnows
  <1> QED
    BY <1>1, EventFields DEF CommitSupersession, SupersessionFits

\* The ledger holds events of the world.
LEMMA DecidedAreEvents ==
    ASSUME Invariants
    PROVE  decided \subseteq Event
  BY DEF Invariants, TypeOK, TablesOK, Response, Supersession

-----------------------------------------------------------------------------
(* The chain *)

LEMMA ChainSteps ==
    ASSUME Invariants, ChainWellFormed, NEW w \in Worker,
           CommitResponse(w) \/ CommitSupersession(w)
    PROVE  ChainWellFormed'
  <1>1. CASE CommitResponse(w)
    BY <1>1, ResponseLands, KindsPartition, DecidedAreEvents DEF ChainWellFormed
  <1>2. CASE CommitSupersession(w)
    <2> DEFINE e == cur[w]
               d == ev[e].cites
    <2>1. /\ e \in Supersession \ decided
          /\ e \in Event
          /\ d \in decided
          /\ d \in Event
          /\ ev[d].case = ev[e].case
          /\ succ[d] = None
          /\ decided' = decided \cup {e}
          /\ prior' = [prior EXCEPT ![e] = d]
          /\ succ' = [succ EXCEPT ![d] = e]
      BY <1>2, SupersessionLands, KindsPartition, DecidedAreEvents
    <2>2. /\ succ \in [Event -> Event \cup {None}]
          /\ prior \in [Event -> Event \cup {None}]
      BY DEF Invariants, TypeOK, TablesOK
    <2>3. e # None
      BY <2>1, NoneAssumption
    <2> HIDE DEF e, d
    <2>4. ASSUME NEW x \in Event, succ'[x] # None
          PROVE  /\ x \in decided'
                 /\ succ'[x] \in decided' \cap Supersession
                 /\ ev[succ'[x]].cites = x
      <3>1. CASE x = d
        BY <2>1, <2>2, <3>1 DEF d
      <3>2. CASE x # d
        BY <2>1, <2>2, <2>4, <3>2 DEF ChainWellFormed
      <3> QED
        BY <3>1, <3>2
    <2>5. ASSUME NEW s \in decided' \cap Supersession
          PROVE  /\ ev[s].cites \in decided'
                 /\ ev[ev[s].cites].case = ev[s].case
                 /\ prior'[s] = ev[s].cites
                 /\ succ'[ev[s].cites] = s
      <3>1. CASE s = e
        BY <2>1, <2>2, <3>1 DEF d
      <3>2. CASE s # e
        <4>1. /\ s \in decided \cap Supersession
              /\ s \in Event
          BY <2>1, <3>2, DecidedAreEvents
        <4>2. /\ ev[s].cites \in decided
              /\ ev[ev[s].cites].case = ev[s].case
              /\ prior[s] = ev[s].cites
              /\ succ[ev[s].cites] = s
          BY <4>1 DEF ChainWellFormed
        <4>3. ev[s].cites \in Event /\ ev[s].cites # d
          BY <2>1, <4>1, <4>2, DecidedAreEvents, NoneAssumption
        <4> QED
          BY <2>1, <2>2, <3>2, <4>1, <4>2, <4>3
      <3> QED
        BY <3>1, <3>2
    <2> QED
      BY <2>4, <2>5 DEF ChainWellFormed
  <1> QED
    BY <1>1, <1>2

-----------------------------------------------------------------------------
(* The case rows *)

LEMMA ChainFrame ==
    ASSUME ChainWellFormed, UNCHANGED <<decided, prior, succ>>
    PROVE  ChainWellFormed'
  BY DEF ChainWellFormed

\* A case whose row, decisions and successors a step leaves alone stays in
\* agreement with the ledger.
RowMatches(c) ==
    /\ caseState[c] \in {"none", "open"} => DecisionsOf(c) = {}
    /\ caseState[c] \in Resolved =>
           \E d \in DecisionsOf(c) \cap Response :
               /\ Effective(d)
               /\ ev[d].cites = caseReq[c]
               /\ StateAfter(ev[d].outcome) = caseState[c]
    /\ caseState[c] = "superseded" =>
           \E s \in DecisionsOf(c) \cap Supersession : Effective(s)
    /\ caseState[c] = "reopened" => DecisionsOf(c) # {}

\* A case row stays right while it, its decisions and their successors do.
LEMMA RowFrame ==
    ASSUME NEW c \in Case, RowMatches(c),
           caseState'[c] = caseState[c], caseReq'[c] = caseReq[c],
           DecisionsOf(c)' = DecisionsOf(c),
           \A d \in DecisionsOf(c) : succ'[d] = succ[d]
    PROVE  RowMatches(c)'
  <1>1. \A d \in DecisionsOf(c) : Effective(d) => Effective(d)'
    BY DEF Effective, DecisionsOf
  <1> QED
    BY <1>1 DEF RowMatches

\* Case rows stay right when a request is inserted or re-posted.
LEMMA RowAfterUpsert ==
    ASSUME Invariants, CaseMatchesLedger, NEW w \in Worker, UpsertCase(w), NEW c \in Case
    PROVE  RowMatches(c)'
  <1> DEFINE k == ev[cur[w]].case
  <1>1. k \in Case
    BY EventFields DEF UpsertCase, Invariants, HandlerKnows
  <1>2. /\ caseState \in [Case -> CaseState \cup {"none"}]
        /\ caseReq \in [Case -> Request \cup {None}]
    BY DEF Invariants, TypeOK, TablesOK
  <1>3. RowMatches(c)
    BY DEF CaseMatchesLedger, RowMatches
  <1>4. DecisionsOf(c)' = DecisionsOf(c) /\ UNCHANGED succ
    BY DEF UpsertCase, DecisionsOf
  <1>5. CASE UNCHANGED cases
    BY <1>3, <1>4, <1>5, RowFrame
  <1>6. CASE c # k
    <2>1. caseState'[c] = caseState[c] /\ caseReq'[c] = caseReq[c]
      BY <1>2, <1>6 DEF UpsertCase
    <2> QED
      BY <2>1, <1>3, <1>4, RowFrame
  <1>7. CASE c = k /\ caseState[k] = "none" /\ caseState'[k] = "open"
    BY <1>3, <1>4, <1>7 DEF RowMatches, Resolved
  <1>8. CASE c = k /\ caseState[k] \in Pending /\ caseState'[k] = caseState[k]
    BY <1>3, <1>4, <1>8 DEF RowMatches, Resolved, Pending
  <1> QED
    BY <1>1, <1>2, <1>5, <1>6, <1>7, <1>8 DEF UpsertCase, MayFollow

\* They stay right when a decision, a supersession or an appeal lands.
LEMMA RowAfterCommit ==
    ASSUME Invariants, ChainWellFormed, CaseMatchesLedger, NEW w \in Worker,
           CommitResponse(w) \/ CommitSupersession(w) \/ CommitAppeal(w), NEW c \in Case
    PROVE  RowMatches(c)'
  <1>0. PICK e \in Event : e = cur[w]
    BY DEF CommitResponse, CommitSupersession, CommitAppeal, Invariants, HandlerKnows
  <1> DEFINE k == ev[e].case
  <1>1. RowMatches(c)
    BY DEF CaseMatchesLedger, RowMatches
  <1>2. caseState \in [Case -> CaseState \cup {"none"}] /\ succ \in [Event -> Event \cup {None}]
    BY DEF Invariants, TypeOK, TablesOK
  <1>3. CASE CommitResponse(w)
    <2>1. /\ e \in Response \ decided
          /\ k \in Case
          /\ ev[e].cites = caseReq[k]
          /\ StateAfter(ev[e].outcome) \in Resolved
          /\ decided' = decided \cup {e}
          /\ caseState' = [caseState EXCEPT ![k] = StateAfter(ev[e].outcome)]
          /\ UNCHANGED <<caseReq, succ>>
      BY <1>0, <1>3, ResponseLands
    <2>2. succ[e] = None
      BY <2>1, KindsPartition DEF ChainWellFormed
    <2> HIDE DEF k
    <2>3. CASE c # k
      <3>1. DecisionsOf(c)' = DecisionsOf(c)
        BY <2>1, <2>3 DEF DecisionsOf, k
      <3> QED
        BY <1>1, <1>2, <2>1, <2>3, <3>1, RowFrame
    <2>4. CASE c = k
      <3>1. e \in DecisionsOf(c)' /\ Effective(e)'
        BY <2>1, <2>2, <2>4 DEF DecisionsOf, Effective, k
      <3>2. caseState'[c] = StateAfter(ev[e].outcome) /\ caseState'[c] \in Resolved
        BY <1>2, <2>1, <2>4
      <3> QED
        BY <2>1, <2>4, <3>1, <3>2 DEF RowMatches, Resolved
    <2> QED
      BY <2>3, <2>4
  <1>4. CASE CommitSupersession(w)
    <2> DEFINE d == ev[e].cites
    <2>1. /\ e \in Supersession \ decided
          /\ k \in Case
          /\ d \in decided
          /\ ev[d].case = k
          /\ decided' = decided \cup {e}
          /\ succ' = [succ EXCEPT ![d] = e]
          /\ caseState' = [caseState EXCEPT ![k] = "superseded"]
          /\ UNCHANGED caseReq
      BY <1>0, <1>4, SupersessionLands
    <2>2. succ[e] = None /\ e # d
      BY <2>1, KindsPartition DEF ChainWellFormed
    <2> HIDE DEF k, d
    <2>3. CASE c # k
      <3>1. DecisionsOf(c)' = DecisionsOf(c) /\ d \notin DecisionsOf(c)
        BY <2>1, <2>3 DEF DecisionsOf, k
      <3>2. \A x \in DecisionsOf(c) : succ'[x] = succ[x]
        BY <1>2, <2>1, <3>1
      <3> QED
        BY <1>1, <1>2, <2>1, <2>3, <3>1, <3>2, RowFrame
    <2>4. CASE c = k
      <3>1. e \in DecisionsOf(c)' /\ Effective(e)'
        BY <1>2, <2>1, <2>2, <2>4 DEF DecisionsOf, Effective, k
      <3>2. caseState'[c] = "superseded"
        BY <1>2, <2>1, <2>4
      <3> QED
        BY <2>1, <3>1, <3>2 DEF RowMatches, Resolved
    <2> QED
      BY <2>3, <2>4
  <1>5. CASE CommitAppeal(w)
    <2>1. /\ caseState' = [caseState EXCEPT ![k] = "reopened"]
          /\ DecisionsOf(k) # {}
          /\ UNCHANGED <<caseReq, decided, succ>>
      BY <1>0, <1>5 DEF CommitAppeal, AppealFits, DecisionsOf
    <2> HIDE DEF k
    <2>2. DecisionsOf(c)' = DecisionsOf(c)
      BY <2>1 DEF DecisionsOf
    <2>3. CASE c # k
      BY <1>1, <1>2, <2>1, <2>2, <2>3, RowFrame
    <2>4. CASE c = k
      <3>1. caseState'[c] = "reopened"
        BY <1>2, <2>1, <2>4
      <3> QED
        BY <2>1, <2>2, <2>4, <3>1 DEF RowMatches, Resolved
    <2> QED
      BY <2>3, <2>4
  <1> QED
    BY <1>3, <1>4, <1>5

\* They stay right when the cron closes an expired proposal.
LEMMA RowAfterClose ==
    ASSUME Invariants, CaseMatchesLedger, CloseExpired, NEW c \in Case
    PROVE  RowMatches(c)'
  <1>1. RowMatches(c)
    BY DEF CaseMatchesLedger, RowMatches
  <1>2. caseState \in [Case -> CaseState \cup {"none"}]
    BY DEF Invariants, TypeOK, TablesOK
  <1>3. DecisionsOf(c)' = DecisionsOf(c) /\ UNCHANGED <<caseReq, succ>>
    BY DEF CloseExpired, DecisionsOf
  <1>4. caseState'[c] = caseState[c] \/ caseState'[c] = "closed"
    BY <1>2 DEF CloseExpired
  <1>5. CASE caseState'[c] = caseState[c]
    BY <1>1, <1>3, <1>5, RowFrame
  <1>6. CASE caseState'[c] = "closed"
    BY <1>6 DEF RowMatches, Resolved
  <1> QED
    BY <1>4, <1>5, <1>6

-----------------------------------------------------------------------------
(* The invariants of the ledger *)

LEMMA StepLedger == Invariants /\ LedgerInvariants /\ [Next]_vars => LedgerInvariants'
  <1> SUFFICES ASSUME Invariants, LedgerInvariants, [Next]_vars PROVE LedgerInvariants'
    OBVIOUS
  <1> USE DEF LedgerInvariants
  <1>0. caseState \in [Case -> CaseState \cup {"none"}]
    BY DEF Invariants, TypeOK, TablesOK
  <1>1. ASSUME NEW w \in Worker, UpsertCase(w)
        PROVE  LedgerInvariants'
    <2>1. ChainWellFormed'
      BY <1>1, ChainFrame DEF UpsertCase
    <2>2. CaseMatchesLedger'
      BY <1>1, RowAfterUpsert DEF CaseMatchesLedger, RowMatches
    <2>3. DelegationHasDecision'
      BY <1>1 DEF UpsertCase, DelegationHasDecision, Delegating
    <2>4. ClosedHasReceipt'
      BY <1>0, <1>1 DEF UpsertCase, ClosedHasReceipt
    <2> QED
      BY <2>1, <2>2, <2>3, <2>4
  <1>2. ASSUME NEW w \in Worker,
               CommitResponse(w) \/ CommitSupersession(w) \/ CommitAppeal(w)
        PROVE  LedgerInvariants'
    <2>1. ChainWellFormed'
      BY <1>2, ChainSteps, ChainFrame DEF CommitAppeal
    <2>2. CaseMatchesLedger'
      BY <1>2, RowAfterCommit DEF CaseMatchesLedger, RowMatches
    <2>3. DelegationHasDecision'
      BY <1>2 DEF CommitResponse, CommitSupersession, CommitAppeal,
                  DelegationHasDecision, Delegating
    <2>4. ClosedHasReceipt'
      <3>1. \A c \in Case : caseState'[c] = "closed" => caseState[c] = "closed"
        <4>1. CASE CommitResponse(w)
          BY <1>0, <4>1, ResponseLands DEF Resolved
        <4>2. CASE CommitSupersession(w)
          BY <1>0, <4>2, SupersessionLands
        <4>3. CASE CommitAppeal(w)
          BY <1>0, <4>3 DEF CommitAppeal
        <4> QED
          BY <1>2, <4>1, <4>2, <4>3
      <3> QED
        BY <1>2, <3>1 DEF CommitResponse, CommitSupersession, CommitAppeal, ClosedHasReceipt
    <2> QED
      BY <2>1, <2>2, <2>3, <2>4
  <1>3. ASSUME NEW w \in Worker, RecordDelegation(w)
        PROVE  LedgerInvariants'
    <2>1. ChainWellFormed'
      BY <1>3, ChainFrame DEF RecordDelegation
    <2>2. CaseMatchesLedger' /\ ClosedHasReceipt'
      BY <1>3 DEF RecordDelegation, CaseMatchesLedger, ClosedHasReceipt, DecisionsOf, Effective
    <2>3. DelegationHasDecision'
      BY <1>3 DEF RecordDelegation, DelegationHasDecision, Delegating, Invariants, HandlerKnows
    <2> QED
      BY <2>1, <2>2, <2>3
  <1>4. CASE CloseExpired
    <2>1. ChainWellFormed'
      BY <1>4, ChainFrame DEF CloseExpired
    <2>2. CaseMatchesLedger'
      BY <1>4, RowAfterClose DEF CaseMatchesLedger, RowMatches
    <2>3. DelegationHasDecision'
      BY <1>4 DEF CloseExpired, DelegationHasDecision, Delegating
    <2>4. ClosedHasReceipt'
      BY <1>0, <1>4 DEF CloseExpired, ClosedHasReceipt, Invariants, SweepKnows
    <2> QED
      BY <2>1, <2>2, <2>3, <2>4
  <1> QED
    BY <1>1, <1>2, <1>3, <1>4, LedgerSteps, LedgerFrame

\* The invariants of the ledger hold in every reachable state.
LEMMA AlwaysLedger == Spec => [](Invariants /\ LedgerInvariants)
  <1>1. Init => Invariants /\ LedgerInvariants
    BY InitInvariants, InitLedger
  <1>2. Invariants /\ LedgerInvariants /\ [Next]_vars => (Invariants /\ LedgerInvariants)'
    BY StepInvariants, StepLedger
  <1> QED
    BY <1>1, <1>2, PTL DEF Spec

\* The forward and the backward links of supersessions are one chain, however
\* many supersessions of one decision race through the relay worker.
THEOREM ChainIsWellFormed == Spec => []ChainWellFormed
  BY AlwaysLedger, PTL DEF LedgerInvariants

\* The state column of a case and its rows in broker_decisions tell one story.
THEOREM CaseAgreesWithLedger == Spec => []CaseMatchesLedger
  BY AlwaysLedger, PTL DEF LedgerInvariants

\* Nobody is delegated to by a decision that did not land.
THEOREM DelegationsAreDecided == Spec => []DelegationHasDecision
  BY AlwaysLedger, PTL DEF LedgerInvariants

\* No case is closed without its expired receipt.
THEOREM ClosedCarriesReceipt == Spec => []ClosedHasReceipt
  BY AlwaysLedger, PTL DEF LedgerInvariants

-----------------------------------------------------------------------------
(* The refinement *)

Decisions == Response \cup Supersession

\* The initial states map to the abstract ledger's.
LEMMA InitRefines == Init => Ledger!Init
  <1> SUFFICES ASSUME Init PROVE Ledger!Init
    OBVIOUS
  <1>1. \A c \in Case : caseState[c] = "none"
    BY DEF Init
  <1>2. \A d \in Decisions : succ[d] = None
    BY KindsPartition DEF Init, Decisions
  <1> QED
    BY <1>1, <1>2 DEF Init, Ledger!Init, Resolved, Decisions

\* A step that touches no part of the ledger maps to a stutter.
LEMMA LedgerFrameRefines ==
    ASSUME UNCHANGED ledgerVars
    PROVE  UNCHANGED Ledger!vars
  BY DEF ledgerVars, Ledger!vars, Resolved

\* A request opens a case, or leaves the ledger as it is.
LEMMA UpsertRefines ==
    ASSUME Invariants, NEW w \in Worker, UpsertCase(w)
    PROVE  Ledger!Next \/ UNCHANGED Ledger!vars
  <1>1. PICK c \in Case : c = ev[cur[w]].case
    BY EventFields DEF UpsertCase, Invariants, HandlerKnows
  <1>2. caseState \in [Case -> CaseState \cup {"none"}]
    BY DEF Invariants, TypeOK, TablesOK
  <1>3. UNCHANGED <<decided, succ>>
    BY DEF UpsertCase
  <1>4. CASE UNCHANGED caseState
    BY <1>3, <1>4 DEF Ledger!vars, Resolved
  <1>5. CASE caseState[c] = "none" /\ caseState' = [caseState EXCEPT ![c] = "open"]
    <2>1. Ledger!Raise(c)
      BY <1>2, <1>3, <1>5 DEF Ledger!Raise, Ledger!Move, Resolved
    <2> QED
      BY <2>1 DEF Ledger!Next
  <1> QED
    BY <1>1, <1>4, <1>5 DEF UpsertCase

\* A response that lands decides an open case.
LEMMA ResponseRefines ==
    ASSUME Invariants, NEW w \in Worker, CommitResponse(w)
    PROVE  Ledger!Next
  <1>1. PICK e \in Event : e = cur[w]
    BY DEF CommitResponse, Invariants, HandlerKnows
  <1>2. /\ e \in Response \ decided
        /\ ev[e].case \in Case
        /\ caseState[ev[e].case] \in Pending
        /\ StateAfter(ev[e].outcome) \in Resolved
        /\ decided' = decided \cup {e}
        /\ caseState' = [caseState EXCEPT ![ev[e].case] = StateAfter(ev[e].outcome)]
        /\ UNCHANGED succ
    BY <1>1, ResponseLands
  <1>3. caseState \in [Case -> CaseState \cup {"none"}]
    BY DEF Invariants, TypeOK, TablesOK
  <1>4. e \notin Supersession
    BY <1>2, KindsPartition
  <1>5. Ledger!Settle(e)
    BY <1>2, <1>3, <1>4 DEF Ledger!Settle, Ledger!Move, Ledger!FirstOrder,
                            Ledger!Undecided, Resolved, Pending
  <1> QED
    BY <1>2, <1>5 DEF Ledger!Next

\* A supersession that lands overturns the effective decision.
LEMMA SupersessionRefines ==
    ASSUME Invariants, NEW w \in Worker, CommitSupersession(w)
    PROVE  Ledger!Next
  <1>1. PICK e \in Event : e = cur[w]
    BY DEF CommitSupersession, Invariants, HandlerKnows
  <1> DEFINE d == ev[e].cites
  <1>2. /\ e \in Supersession \ decided
        /\ ev[e].case \in Case
        /\ d \in decided
        /\ ev[d].case = ev[e].case
        /\ succ[d] = None
        /\ caseState[ev[e].case] \in Supersedable
        /\ decided' = decided \cup {e}
        /\ succ' = [succ EXCEPT ![d] = e]
        /\ caseState' = [caseState EXCEPT ![ev[e].case] = "superseded"]
    BY <1>1, SupersessionLands
  <1>3. /\ caseState \in [Case -> CaseState \cup {"none"}]
        /\ succ \in [Event -> Event \cup {None}]
        /\ decided \subseteq Decisions
        /\ Decisions \subseteq Event
        /\ None \notin Event
    BY KindsPartition, NoneAssumption DEF Invariants, TypeOK, TablesOK, Decisions
  <1>4. e \in Ledger!Superseding
    BY <1>2, <1>3 DEF Ledger!Superseding, Ledger!FirstOrder
  <1>5. Ledger!Supersede(e)
    BY <1>2, <1>3, <1>4 DEF Ledger!Supersede, Ledger!Move, Resolved, Supersedable, Decisions
  <1> QED
    BY <1>2, <1>5 DEF Ledger!Next

\* An appeal that lands reopens the case.
LEMMA AppealRefines ==
    ASSUME Invariants, NEW w \in Worker, CommitAppeal(w)
    PROVE  Ledger!Next
  <1>1. PICK c \in Case : c = ev[cur[w]].case
    BY EventFields DEF CommitAppeal, Invariants, HandlerKnows
  <1>2. caseState \in [Case -> CaseState \cup {"none"}]
    BY DEF Invariants, TypeOK, TablesOK
  <1>3. /\ caseState[c] \in Appealable
        /\ caseState' = [caseState EXCEPT ![c] = "reopened"]
        /\ UNCHANGED <<decided, succ>>
    BY <1>1 DEF CommitAppeal, AppealFits
  <1>4. Ledger!Reopen(c)
    BY <1>2, <1>3 DEF Appealable, Ledger!Reopen, Ledger!Move, Resolved
  <1> QED
    BY <1>4 DEF Ledger!Next

\* A close ends an open case, or finds it no longer open.
LEMMA CloseRefines ==
    ASSUME Invariants, CloseExpired
    PROVE  Ledger!Next \/ UNCHANGED Ledger!vars
  <1>1. PICK c \in Case : c = cronCase
    BY DEF CloseExpired, Invariants, SweepKnows
  <1>2. caseState \in [Case -> CaseState \cup {"none"}]
    BY DEF Invariants, TypeOK, TablesOK
  <1>3. UNCHANGED <<decided, succ>>
    BY DEF CloseExpired
  <1>4. CASE caseState[c] \in Pending
    <2>1. caseState' = [caseState EXCEPT ![c] = "closed"]
      BY <1>1, <1>2, <1>4 DEF CloseExpired
    <2>2. Ledger!Expire(c)
      BY <1>2, <1>3, <1>4, <2>1 DEF Ledger!Expire, Ledger!Move,
                                    Ledger!Undecided, Pending, Resolved
    <2> QED
      BY <2>2 DEF Ledger!Next
  <1>5. CASE caseState[c] \notin Pending
    <2>1. UNCHANGED caseState
      BY <1>1, <1>2, <1>5 DEF CloseExpired
    <2> QED
      BY <1>3, <2>1 DEF Ledger!vars, Resolved
  <1> QED
    BY <1>4, <1>5

\* Every step maps to a move of the abstract ledger or to a stutter.
LEMMA StepRefines == Invariants /\ [Next]_vars => [Ledger!Next]_(Ledger!vars)
  <1> SUFFICES ASSUME Invariants, [Next]_vars PROVE Ledger!Next \/ UNCHANGED Ledger!vars
    OBVIOUS
  <1>1. ASSUME NEW w \in Worker, RecordDelegation(w)
        PROVE  UNCHANGED Ledger!vars
    BY <1>1 DEF RecordDelegation, Ledger!vars, Resolved
  <1> QED
    BY <1>1, LedgerSteps, LedgerFrameRefines, UpsertRefines, ResponseRefines,
       SupersessionRefines, AppealRefines, CloseRefines

\* The relay's statements, plans, receipts and retries, interleaved in any way
\* and cut off anywhere, implement the abstract ledger of decisions.
THEOREM FlowImplementsLedger == Spec => ImplementsLedger
  <1>1. Spec => []Invariants
    BY AlwaysLedger, PTL
  <1> QED
    BY <1>1, InitRefines, StepRefines, PTL DEF Spec, ImplementsLedger, Ledger!Spec

-----------------------------------------------------------------------------
(* What no step does to a receipt or to a closed case *)

\* The steps that write a receipt.
LEMMA StageSteps ==
    ASSUME Invariants, [Next]_vars
    PROVE  \/ UNCHANGED stage
           \/ \E w \in Worker : stage' = Accepted(cur[w]) \/ MarkFailed(w)
           \/ \E w \in Worker : CommitResponse(w) \/ CommitSupersession(w) \/ CommitAppeal(w)
           \/ \E r \in Reporter : WriteReport(r)
  <1>1. ASSUME NEW w \in Worker, HandlerStep(w) \/ ReadFails(w) \/ Evict(w)
        PROVE  \/ UNCHANGED stage
               \/ stage' = Accepted(cur[w]) \/ MarkFailed(w)
               \/ CommitResponse(w) \/ CommitSupersession(w) \/ CommitAppeal(w)
    <2>1. CASE RecordAccepted(w) \/ RecordRefused(w)
      BY <2>1 DEF RecordAccepted, RecordRefused
    <2>2. CASE UpsertCase(w) \/ CheckReplay(w) \/ ReadTarget(w) \/ ReadCase(w) \/ ReadLatest(w)
      BY <2>2 DEF UpsertCase, CheckReplay, ReadTarget, ReadCase, ReadLatest
    <2>3. CASE \/ ReadCited(w) \/ CommitRefused(w) \/ RecordDelegation(w)
               \/ ReadFails(w) \/ Evict(w)
      BY <2>3 DEF ReadCited, CommitRefused, RecordDelegation, ReadFails, Evict
    <2> QED
      BY <1>1, <2>1, <2>2, <2>3 DEF HandlerStep
  <1>2. ASSUME NEW w \in Worker, NEW x \in Event, Deliver(w, x)
        PROVE  UNCHANGED stage
    BY <1>2 DEF Deliver, DeliverRequest, DeliverResponse, DeliverSupersession, DeliverAppeal
  <1>3. ASSUME NEW r \in Reporter,
               \/ PlanReport(r)
               \/ \E x \in Event, want \in ApplicationStage, k \in Key :
                      ReadReceipt(r, x, want, k)
        PROVE  UNCHANGED stage
    BY <1>3 DEF PlanReport, ReadReceipt
  <1>4. CASE \/ \E c \in Case : FindOverdue(c) \/ FindExpired(c)
             \/ SweepStep \/ AbortSweep
             \/ \E x \in Event : DropRequest(x)
    BY <1>4 DEF FindOverdue, FindExpired, StartSweep, SweepStep, Escalate,
                RecordExpired, CloseExpired, AbortSweep, DropRequest
  <1>5. CASE UNCHANGED vars
    BY <1>5 DEF vars
  <1> QED
    BY <1>1, <1>2, <1>3, <1>4, <1>5 DEF Next, ReportStep

\* A batch that landed writes its own receipt, and no other.
LEMMA CommitStage ==
    ASSUME Invariants, NEW w \in Worker,
           CommitResponse(w) \/ CommitSupersession(w) \/ CommitAppeal(w)
    PROVE  /\ cur[w] \in Event
           /\ stage' = [stage EXCEPT ![cur[w]] = "projection-committed"]
           /\ cur[w] \in Response \cup Supersession => stage[cur[w]] \in Awaiting
  <1>1. cur[w] \in Event
    BY DEF CommitResponse, CommitSupersession, CommitAppeal, Invariants, HandlerKnows
  <1>2. CASE CommitResponse(w) \/ CommitSupersession(w)
    BY <1>1, <1>2 DEF CommitResponse, CommitSupersession, ResponseFits, SupersessionFits
  <1>3. CASE CommitAppeal(w)
    <2>1. cur[w] \notin Response \cup Supersession
      BY <1>3, KindsPartition DEF CommitAppeal, AppealFits
    <2> QED
      BY <1>1, <1>3, <2>1 DEF CommitAppeal
  <1> QED
    BY <1>2, <1>3

\* No step returns a committed receipt to one that waits for its projection,
\* and without reports none moves it.
LEMMA CommittedStays ==
    ASSUME Invariants, [Next]_vars, NEW e \in Event, stage[e] = "projection-committed"
    PROVE  /\ stage'[e] \notin Awaiting
           /\ Reporter = {} => stage'[e] = "projection-committed"
  <1> USE DEF Awaiting, Landed, ApplicationStage
  <1>0. stage \in [Event -> Stage \cup {"none"}]
    BY DEF Invariants, TypeOK, TablesOK
  <1>1. CASE UNCHANGED stage
    BY <1>1
  <1>2. ASSUME NEW w \in Worker, stage' = Accepted(cur[w]) \/ MarkFailed(w)
        PROVE  stage'[e] = "projection-committed"
    BY <1>0, <1>2 DEF Accepted, MarkFailed
  <1>3. ASSUME NEW w \in Worker,
               CommitResponse(w) \/ CommitSupersession(w) \/ CommitAppeal(w)
        PROVE  stage'[e] = "projection-committed"
    BY <1>0, <1>3, CommitStage
  <1>4. ASSUME NEW r \in Reporter, WriteReport(r)
        PROVE  stage'[e] \notin Awaiting
    BY <1>0, <1>4 DEF WriteReport, Invariants, ReportKnows
  <1> QED
    BY <1>1, <1>2, <1>3, <1>4, StageSteps

\* No late failure report un-commits a receipt, whatever is under way when it
\* arrives.
THEOREM CommittedReceiptsStay == Spec => CommittedNeverFails
  <1>1. Invariants /\ [Next]_vars =>
            [\A e \in Event : stage[e] = "projection-committed" =>
                 stage'[e] \notin Awaiting]_vars
    BY CommittedStays
  <1> QED
    BY <1>1, AlwaysLedger, PTL DEF Spec, CommittedNeverFails

\* Once its decision landed, a receipt moves up the ladder or to
\* projection-failed: the endpoint's write is a compare-and-swap on the stage
\* its plan found to be lower than the one it records.
LEMMA LadderClimbs ==
    ASSUME Invariants, [Next]_vars, NEW e \in Response \cup Supersession,
           stage[e] \in Landed, stage'[e] \in Landed
    PROVE  stage'[e] = stage[e] \/ LadderRank(stage'[e]) > LadderRank(stage[e])
  <1>0. stage \in [Event -> Stage \cup {"none"}] /\ e \in Event
    BY KindsPartition DEF Invariants, TypeOK, TablesOK
  <1>1. ASSUME NEW w \in Worker, stage' = Accepted(cur[w]) \/ MarkFailed(w)
        PROVE  stage'[e] = stage[e]
    BY <1>0, <1>1 DEF Accepted, MarkFailed, Landed, ApplicationStage
  <1>2. ASSUME NEW w \in Worker,
               CommitResponse(w) \/ CommitSupersession(w) \/ CommitAppeal(w)
        PROVE  stage'[e] = stage[e]
    <2>1. e # cur[w]
      BY <1>2, CommitStage DEF Awaiting, Landed, ApplicationStage
    <2> QED
      BY <1>0, <1>2, <2>1, CommitStage
  <1>3. ASSUME NEW r \in Reporter, WriteReport(r)
        PROVE  stage'[e] = stage[e] \/ LadderRank(stage'[e]) > LadderRank(stage[e])
    <2>1. LadderRank(rWant[r]) > LadderRank(rStage[r])
      BY <1>3 DEF WriteReport, Invariants, ReportKnows
    <2>2. stage' = [stage EXCEPT ![rEvent[r]] =
                        IF stage[rEvent[r]] = rStage[r] THEN rWant[r] ELSE stage[rEvent[r]]]
      BY <1>3 DEF WriteReport
    <2>3. stage'[e] = stage[e] \/ (stage[e] = rStage[r] /\ stage'[e] = rWant[r])
      BY <1>0, <2>2
    <2> QED
      BY <2>1, <2>3
  <1> QED
    BY <1>1, <1>2, <1>3, StageSteps

\* Consumers that report at once never take a receipt down the ladder or over
\* another's verdict, for any number of reports under way.
THEOREM LadderIsClimbed == Spec => LadderNeverDescends
  <1>1. Invariants /\ [Next]_vars =>
            [\A e \in Response \cup Supersession :
                 stage[e] \in Landed /\ stage'[e] \in Landed =>
                     stage'[e] = stage[e] \/ LadderRank(stage'[e]) > LadderRank(stage[e])]_vars
    BY LadderClimbs
  <1> QED
    BY <1>1, AlwaysLedger, PTL DEF Spec, LadderNeverDescends

\* A closed case keeps its state and gets no decision.
LEMMA ClosedStays ==
    ASSUME Invariants, [Next]_vars, NEW c \in Case, caseState[c] = "closed"
    PROVE  caseState'[c] = "closed" /\ \A d \in decided' \ decided : ev[d].case # c
  <1>0. caseState \in [Case -> CaseState \cup {"none"}]
    BY DEF Invariants, TypeOK, TablesOK
  <1>1. CASE UNCHANGED <<caseState, decided>>
    BY <1>1
  <1>2. ASSUME NEW w \in Worker, UpsertCase(w)
        PROVE  caseState'[c] = "closed" /\ UNCHANGED decided
    BY <1>0, <1>2 DEF UpsertCase
  <1>3. ASSUME NEW w \in Worker, CommitResponse(w)
        PROVE  caseState'[c] = "closed" /\ \A d \in decided' \ decided : ev[d].case # c
    BY <1>0, <1>3, ResponseLands DEF Pending
  <1>4. ASSUME NEW w \in Worker, CommitSupersession(w)
        PROVE  caseState'[c] = "closed" /\ \A d \in decided' \ decided : ev[d].case # c
    BY <1>0, <1>4, SupersessionLands DEF Supersedable, Resolved
  <1>5. ASSUME NEW w \in Worker, CommitAppeal(w)
        PROVE  caseState'[c] = "closed" /\ UNCHANGED decided
    BY <1>0, <1>5 DEF CommitAppeal, AppealFits, Appealable, Resolved
  <1>6. CASE CloseExpired
    BY <1>0, <1>6 DEF CloseExpired
  <1>7. ASSUME NEW w \in Worker, RecordDelegation(w)
        PROVE  UNCHANGED <<caseState, decided>>
    BY <1>7 DEF RecordDelegation
  <1> QED
    BY <1>1, <1>2, <1>3, <1>4, <1>5, <1>6, <1>7, LedgerSteps DEF ledgerVars

\* The cron's close is for good.
THEOREM ClosedStaysClosed == Spec => ClosedIsFinal
  <1>1. Invariants /\ [Next]_vars =>
            [\A c \in Case : caseState[c] = "closed" =>
                 /\ caseState'[c] = "closed"
                 /\ \A d \in decided' \ decided : ev[d].case # c]_vars
    BY ClosedStays
  <1> QED
    BY <1>1, AlwaysLedger, PTL DEF Spec, ClosedIsFinal

-----------------------------------------------------------------------------
(* What lands is what was asked, and who answered it *)

LEMMA OnlyCommitsDecide ==
    ASSUME Invariants, [Next]_vars, NEW d, d \in decided', d \notin decided
    PROVE  \E w \in Worker : d = cur[w] /\ (CommitResponse(w) \/ CommitSupersession(w))
  <1>1. PICK w \in Worker : CommitResponse(w) \/ CommitSupersession(w)
    BY LedgerSteps DEF ledgerVars, UpsertCase, CommitAppeal, RecordDelegation, CloseExpired
  <1>2. d = cur[w]
    BY <1>1 DEF CommitResponse, CommitSupersession
  <1> QED
    BY <1>1, <1>2

\* A response enters the ledger only by the batch of a handler that holds it.
LEMMA OnlyResponsesAnswer ==
    ASSUME Invariants, [Next]_vars, NEW d \in Response, d \in decided', d \notin decided
    PROVE  \E w \in Worker : d = cur[w] /\ CommitResponse(w)
  <1>1. PICK w \in Worker : d = cur[w] /\ (CommitResponse(w) \/ CommitSupersession(w))
    BY OnlyCommitsDecide
  <1>2. CASE CommitSupersession(w)
    BY <1>1, <1>2, SupersessionLands, KindsPartition
  <1> QED
    BY <1>1, <1>2

\* A first-order decision lands only on the request it was signed for, however
\* often the request was re-posted while the response was under way.
THEOREM DecisionsAnswerTheirRequest == Spec => DecidesHeldRequest
  <1>1. Invariants /\ [Next]_vars =>
            [\A d \in Response : d \in decided' \ decided =>
                 ev[d].cites = caseReq[ev[d].case]]_vars
    <2> SUFFICES ASSUME Invariants, [Next]_vars, NEW d \in Response, d \in decided' \ decided
                 PROVE  ev[d].cites = caseReq[ev[d].case]
      OBVIOUS
    <2>1. PICK w \in Worker : d = cur[w] /\ CommitResponse(w)
      BY OnlyResponsesAnswer
    <2> QED
      BY <2>1, ResponseLands
  <1> QED
    BY <1>1, AlwaysLedger, PTL DEF Spec, DecidesHeldRequest

\* Past the plan, a response to a High or Critical request is a human's.  The
\* tier is that of the request the plan read: the batch compares it again.
AnswerKnows ==
    \A w \in Worker :
        (/\ pc[w] \in {"latest", "accept", "commit"}
         /\ cur[w] \in Response
         /\ seenReq[w] # None
         /\ ev[seenReq[w]].high) => ev[cur[w]].human

\* What a handler knows of the request it answers depends on its own registers
\* only.
LEMMA AnswerFrame ==
    ASSUME AnswerKnows, UNCHANGED <<pc, cur, seenReq>>
    PROVE  AnswerKnows'
  BY DEF AnswerKnows

\* It survives a move to another place of the same plan.
LEMMA AnswerMove ==
    ASSUME HandlersOK, AnswerKnows, NEW w \in Worker, NEW l \in HandlerPC,
           pc' = [pc EXCEPT ![w] = l], UNCHANGED <<cur, seenReq>>,
           l \in {"latest", "accept", "commit"} =>
               pc[w] \in {"latest", "accept", "commit"} \/ cur[w] \notin Response
    PROVE  AnswerKnows'
  BY DEF HandlersOK, AnswerKnows

\* It survives the end of a handler.
LEMMA AnswerFinish ==
    ASSUME HandlersOK, AnswerKnows, NEW w \in Worker, Finish(w)
    PROVE  AnswerKnows'
  BY DEF HandlersOK, AnswerKnows, Finish

\* It survives the start of one.
LEMMA AnswerBegin ==
    ASSUME HandlersOK, AnswerKnows, NEW w \in Worker, NEW e \in Event,
           Begin(w, e, "upsert") \/ Begin(w, e, "check")
    PROVE  AnswerKnows'
  <1>1. PICK l \in {"upsert", "check"} : Begin(w, e, l)
    OBVIOUS
  <1> QED
    BY <1>1 DEF HandlersOK, AnswerKnows, Begin

\* project_action_response plans on the case row it has just read.
LEMMA AnswerReadCase ==
    ASSUME Invariants, AnswerKnows, NEW w \in Worker, ReadCase(w)
    PROVE  AnswerKnows'
  <1>1. HandlersOK
    BY DEF Invariants, TypeOK
  <1>2. PICK e \in Event : e = cur[w]
    BY DEF ReadCase, Invariants, HandlerKnows
  <1>3. /\ UNCHANGED cur
        /\ seenReq' = [seenReq EXCEPT ![w] = caseReq[ev[e].case]]
        /\ pc' = [pc EXCEPT ![w] = IF Planned(e) THEN AfterCase(e) ELSE "refuse"]
    BY <1>2 DEF ReadCase
  <1>4. ASSUME e \in Response, pc'[w] \in {"latest", "accept", "commit"},
               seenReq'[w] # None, ev[seenReq'[w]].high
        PROVE  ev[e].human
    <2>1. Planned(e)
      BY <1>1, <1>3, <1>4 DEF HandlersOK
    <2>2. PlanResponse(e)
      BY <1>4, <2>1, KindsPartition DEF Planned
    <2> QED
      BY <1>1, <1>3, <1>4, <2>2 DEF HandlersOK, PlanResponse, HighTier
  <1>5. ASSUME NEW x \in Worker \ {w}
        PROVE  pc'[x] = pc[x] /\ seenReq'[x] = seenReq[x]
    BY <1>1, <1>3 DEF HandlersOK
  <1> QED
    BY <1>2, <1>3, <1>4, <1>5 DEF AnswerKnows

\* It survives the step after the batch.
LEMMA AnswerAfterApplied ==
    ASSUME HandlersOK, AnswerKnows, NEW w \in Worker, AfterApplied(w)
    PROVE  AnswerKnows'
  <1>1. Goto(w, "delegate") \/ Finish(w)
    BY DEF AfterApplied
  <1> QED
    BY <1>1, AnswerMove, AnswerFinish DEF Goto, HandlerPC

\* Every step of a handler preserves it.
LEMMA AnswerHandler ==
    ASSUME Invariants, AnswerKnows, NEW w \in Worker, HandlerStep(w) \/ ReadFails(w) \/ Evict(w)
    PROVE  AnswerKnows'
  <1>0. HandlersOK
    BY DEF Invariants, TypeOK
  <1>1. ASSUME NEW l \in HandlerPC, Goto(w, l),
               l \in {"latest", "accept", "commit"} =>
                   pc[w] \in {"latest", "accept", "commit"} \/ cur[w] \notin Response
        PROVE  AnswerKnows'
    BY <1>0, <1>1, AnswerMove DEF Goto
  <1> USE DEF HandlerPC
  <1>2. CASE UpsertCase(w) \/ RecordDelegation(w) \/ Evict(w) \/ MarkFailed(w)
    BY <1>0, <1>2, AnswerFinish DEF UpsertCase, RecordDelegation, Evict, MarkFailed
  <1>3. CASE CheckReplay(w)
    <2>1. Finish(w) \/ Goto(w, "target") \/ Goto(w, "case")
      BY <1>3 DEF CheckReplay
    <2> QED
      BY <1>0, <1>1, <2>1, AnswerFinish
  <1>4. CASE ReadTarget(w)
    <2>1. Goto(w, "case") \/ Goto(w, "refuse")
      BY <1>4 DEF ReadTarget
    <2> QED
      BY <1>1, <2>1
  <1>5. CASE ReadCase(w)
    BY <1>5, AnswerReadCase
  <1>6. CASE ReadLatest(w)
    <2>1. \/ Finish(w)
          \/ /\ pc[w] = "latest"
             /\ pc' = [pc EXCEPT ![w] = "accept"]
             /\ UNCHANGED <<cur, seenReq>>
      BY <1>6 DEF ReadLatest
    <2> QED
      BY <1>0, <2>1, AnswerFinish, AnswerMove
  <1>7. CASE ReadCited(w)
    <2>1. cur[w] \notin Response
      BY <1>7, KindsPartition DEF ReadCited, Invariants, HandlerKnows
    <2>2. Goto(w, "accept") \/ Goto(w, "refuse")
      BY <1>7 DEF ReadCited
    <2> QED
      BY <1>1, <2>1, <2>2
  <1>8. CASE RecordAccepted(w)
    <2>1. pc[w] = "accept" /\ (AfterApplied(w) \/ Goto(w, "commit"))
      BY <1>8 DEF RecordAccepted
    <2> QED
      BY <1>0, <1>1, <2>1, AnswerAfterApplied
  <1>9. CASE CommitResponse(w) \/ CommitSupersession(w) \/ CommitAppeal(w)
    <2>1. AfterApplied(w) \/ Goto(w, "fail")
      BY <1>9 DEF CommitResponse, CommitSupersession, CommitAppeal, Reply
    <2> QED
      BY <1>0, <1>1, <2>1, AnswerAfterApplied
  <1>10. CASE CommitRefused(w) \/ RecordRefused(w)
    <2>1. Goto(w, "fail")
      BY <1>10 DEF CommitRefused, RecordRefused
    <2> QED
      BY <1>1, <2>1
  <1>11. CASE ReadFails(w)
    <2>1. Goto(w, "refuse")
      BY <1>11 DEF ReadFails
    <2> QED
      BY <1>1, <2>1
  <1> QED
    BY <1>2, <1>3, <1>4, <1>5, <1>6, <1>7, <1>8, <1>9, <1>10, <1>11 DEF HandlerStep

\* Every step preserves it.
LEMMA StepAnswer == Invariants /\ AnswerKnows /\ [Next]_vars => AnswerKnows'
  <1> SUFFICES ASSUME Invariants, AnswerKnows, [Next]_vars PROVE AnswerKnows'
    OBVIOUS
  <1>0. HandlersOK
    BY DEF Invariants, TypeOK
  <1>1. CASE UNCHANGED handlers
    BY <1>1, AnswerFrame
  <1>2. ASSUME NEW w \in Worker, NEW e \in Event, Deliver(w, e)
        PROVE  AnswerKnows'
    <2>1. Begin(w, e, "upsert") \/ Begin(w, e, "check")
      BY <1>2 DEF Deliver, DeliverRequest, DeliverResponse, DeliverSupersession, DeliverAppeal
    <2> QED
      BY <1>0, <2>1, AnswerBegin
  <1>3. ASSUME NEW r \in Reporter,
               \/ ReportStep(r)
               \/ \E e \in Event, want \in ApplicationStage, k \in Key :
                      ReadReceipt(r, e, want, k)
        PROVE  UNCHANGED handlers
    BY <1>3 DEF ReportStep, PlanReport, WriteReport, ReadReceipt
  <1>4. CASE \/ \E c \in Case : FindOverdue(c) \/ FindExpired(c)
             \/ SweepStep \/ AbortSweep
             \/ \E e \in Event : DropRequest(e)
    BY <1>1, <1>4 DEF FindOverdue, FindExpired, StartSweep, SweepStep, Escalate,
                      RecordExpired, CloseExpired, AbortSweep, DropRequest
  <1> QED
    BY <1>1, <1>2, <1>3, <1>4, AnswerHandler DEF Next, vars

\* A response that lands on a high-tier request was signed by a human.
LEMMA HumanLands ==
    ASSUME Invariants, AnswerKnows, [Next]_vars,
           NEW d \in Response \cap (decided' \ decided), HighTier(ev[d].case)
    PROVE  ev[d].human
  <1>0. d \in Response /\ d \in decided' /\ d \notin decided
    OBVIOUS
  <1>1. PICK w \in Worker : d = cur[w] /\ CommitResponse(w)
    BY <1>0, OnlyResponsesAnswer
  <1> QED
    BY <1>1 DEF CommitResponse, ResponseFits, AnswerKnows, HighTier

\* Only a human gives the first-order decision of a High or Critical case, even
\* when the tier rises between the plan and the batch.
THEOREM HumansAnswerHighTier == Spec => HighTierAnsweredByHuman
  <1>1. Init => AnswerKnows
    BY DEF Init, AnswerKnows
  <1>2. Invariants /\ AnswerKnows /\ [Next]_vars =>
            [\A d \in Response \cap (decided' \ decided) :
                 HighTier(ev[d].case) => ev[d].human]_vars
    BY HumanLands
  <1> QED
    BY <1>1, <1>2, StepAnswer, AlwaysLedger, PTL DEF Spec, HighTierAnsweredByHuman

\* A decision in the ledger has a receipt that says more than "accepted": it
\* landed, or a failure was written after a report.
DecidedIsReceipted ==
    \A e \in decided : stage[e] \in Landed \cup {"projection-failed"}

\* No step puts a decision into the ledger, or moves its receipt, without
\* leaving the receipt landed.
LEMMA StepReceipted == Invariants /\ DecidedIsReceipted /\ [Next]_vars => DecidedIsReceipted'
  <1> SUFFICES ASSUME Invariants, DecidedIsReceipted, [Next]_vars, NEW e \in decided'
               PROVE  stage'[e] \in Landed \cup {"projection-failed"}
    BY DEF DecidedIsReceipted
  <1>0. stage \in [Event -> Stage \cup {"none"}]
    BY DEF Invariants, TypeOK, TablesOK
  <1>1. CASE e \notin decided
    <2>1. PICK w \in Worker : e = cur[w] /\ (CommitResponse(w) \/ CommitSupersession(w))
      BY <1>1, OnlyCommitsDecide
    <2> QED
      BY <1>0, <2>1, CommitStage DEF Landed
  <1>2. CASE e \in decided
    <2>0. e \in Event /\ stage[e] \in Landed \cup {"projection-failed"}
      BY <1>2, DecidedAreEvents DEF DecidedIsReceipted
    <2>1. ASSUME NEW w \in Worker, stage' = Accepted(cur[w]) \/ MarkFailed(w)
          PROVE  stage'[e] \in {stage[e], "projection-failed"}
      BY <1>0, <2>0, <2>1 DEF Accepted, MarkFailed, Landed, ApplicationStage
    <2>2. ASSUME NEW w \in Worker,
                 CommitResponse(w) \/ CommitSupersession(w) \/ CommitAppeal(w)
          PROVE  stage'[e] \in {stage[e], "projection-committed"}
      BY <1>0, <2>0, <2>2, CommitStage
    <2>3. ASSUME NEW r \in Reporter, WriteReport(r)
          PROVE  stage'[e] = stage[e] \/ stage'[e] \in ApplicationStage
      BY <1>0, <2>0, <2>3 DEF WriteReport, Invariants, ReportKnows
    <2> QED
      BY <2>0, <2>1, <2>2, <2>3, StageSteps DEF Landed
  <1> QED
    BY <1>1, <1>2

\* No decision is ever in the ledger without a receipt, or with one that still
\* waits for it, whatever consumers report: what reports and late failures can
\* do to the receipt of a decision that landed is to say projection-failed.
THEOREM DecisionsAreReceipted == Spec => []DecidedIsReceipted
  <1>1. Init => DecidedIsReceipted
    BY DEF Init, DecidedIsReceipted
  <1> QED
    BY <1>1, StepReceipted, AlwaysInvariants, PTL DEF Spec

-----------------------------------------------------------------------------
(* While no consumer reports                                                   *)

\* A decision that landed keeps its receipt at projection-committed, and a case
\* that reopened or was decided twice has an appeal whose receipt stays there.
Appealed(c) == \E a \in Appeal : ev[a].case = c /\ stage[a] = "projection-committed"

QuietInvariants ==
    /\ \A e \in decided : stage[e] = "projection-committed"
    /\ \A c \in Case :
          \/ Appealed(c)
          \/ /\ caseState[c] # "reopened"
             /\ \A d, e \in DecisionsOf(c) \cap Response : d = e

\* Empty tables satisfy what holds without reports.
LEMMA InitQuiet == Init => QuietInvariants
  BY DEF Init, QuietInvariants, DecisionsOf

\* Without reports the receipt of a decision in the ledger is and stays
\* projection-committed.
LEMMA DecidedStaysCommitted ==
    ASSUME Reporter = {}, Invariants, QuietInvariants, [Next]_vars, NEW e \in decided'
    PROVE  stage'[e] = "projection-committed"
  <1>1. CASE e \in decided
    BY <1>1, CommittedStays, DecidedAreEvents DEF QuietInvariants
  <1>2. CASE e \notin decided
    <2>1. PICK w \in Worker : e = cur[w] /\ (CommitResponse(w) \/ CommitSupersession(w))
      BY <1>2, OnlyCommitsDecide
    <2>2. stage \in [Event -> Stage \cup {"none"}]
      BY DEF Invariants, TypeOK, TablesOK
    <2> QED
      BY <2>1, <2>2, CommitStage
  <1> QED
    BY <1>1, <1>2

\* A case reopens by an appeal that is committed with it, and a second
\* first-order decision lands only on a case that reopened.
LEMMA OneUntilAppealed ==
    ASSUME Reporter = {}, Invariants, LedgerInvariants, QuietInvariants, [Next]_vars,
           NEW c \in Case, ~Appealed(c)'
    PROVE  caseState'[c] # "reopened" /\ \A d, e \in (DecisionsOf(c) \cap Response)' : d = e
  <1>0. caseState \in [Case -> CaseState \cup {"none"}] /\ stage \in [Event -> Stage \cup {"none"}]
    BY DEF Invariants, TypeOK, TablesOK
  <1>1. ~Appealed(c)
    <2>1. SUFFICES ASSUME NEW a \in Appeal, ev[a].case = c, stage[a] = "projection-committed"
                   PROVE  FALSE
      BY DEF Appealed
    <2>2. stage'[a] = "projection-committed"
      BY <2>1, CommittedStays DEF Appeal
    <2> QED
      BY <2>1, <2>2 DEF Appealed
  <1>2. caseState[c] # "reopened" /\ \A d, e \in DecisionsOf(c) \cap Response : d = e
    BY <1>1 DEF QuietInvariants
  <1>3. CASE UNCHANGED <<caseState, decided>>
    BY <1>2, <1>3 DEF DecisionsOf
  <1>4. ASSUME NEW w \in Worker, UpsertCase(w)
        PROVE  caseState'[c] # "reopened" /\ UNCHANGED decided
    BY <1>0, <1>2, <1>4 DEF UpsertCase
  <1>5. CASE CloseExpired
    <2>1. caseState'[c] # "reopened" /\ UNCHANGED decided
      BY <1>0, <1>2, <1>5 DEF CloseExpired
    <2> QED
      BY <1>2, <2>1 DEF DecisionsOf
  <1>6. ASSUME NEW w \in Worker, CommitAppeal(w)
        PROVE  caseState'[c] # "reopened" /\ UNCHANGED decided
    <2>1. /\ cur[w] \in Appeal /\ UNCHANGED decided
          /\ caseState' = [caseState EXCEPT ![ev[cur[w]].case] = "reopened"]
      BY <1>6 DEF CommitAppeal, AppealFits
    <2>2. stage'[cur[w]] = "projection-committed"
      BY <1>0, <1>6, CommitStage
    <2>3. ev[cur[w]].case # c
      BY <2>1, <2>2 DEF Appealed
    <2> QED
      BY <1>0, <1>2, <2>1, <2>3
  <1>7. ASSUME NEW w \in Worker, CommitSupersession(w)
        PROVE  /\ caseState'[c] # "reopened"
               /\ (DecisionsOf(c) \cap Response)' = DecisionsOf(c) \cap Response
    <2>1. /\ cur[w] \notin Response /\ decided' = decided \cup {cur[w]}
          /\ caseState' = [caseState EXCEPT ![ev[cur[w]].case] = "superseded"]
      BY <1>7, SupersessionLands, KindsPartition
    <2> QED
      BY <1>0, <1>2, <2>1 DEF DecisionsOf
  <1>8. ASSUME NEW w \in Worker, CommitResponse(w)
        PROVE  /\ caseState'[c] # "reopened"
               /\ \A d, e \in (DecisionsOf(c) \cap Response)' : d = e
    <2>1. /\ decided' = decided \cup {cur[w]}
          /\ caseState[ev[cur[w]].case] \in Pending
          /\ StateAfter(ev[cur[w]].outcome) \in Resolved
          /\ caseState' = [caseState EXCEPT ![ev[cur[w]].case] = StateAfter(ev[cur[w]].outcome)]
      BY <1>8, ResponseLands
    <2>2. caseState'[c] # "reopened"
      BY <1>0, <1>2, <2>1 DEF Resolved
    <2>3. CASE ev[cur[w]].case = c
      <3>1. DecisionsOf(c) = {}
        BY <1>2, <2>1, <2>3 DEF Pending, LedgerInvariants, CaseMatchesLedger
      <3>2. DecisionsOf(c)' \subseteq {cur[w]}
        BY <2>1, <3>1 DEF DecisionsOf
      <3> QED
        BY <2>2, <3>2
    <2>4. CASE ev[cur[w]].case # c
      <3>1. DecisionsOf(c)' = DecisionsOf(c)
        BY <2>1, <2>4 DEF DecisionsOf
      <3> QED
        BY <1>2, <2>2, <3>1
    <2> QED
      BY <2>3, <2>4
  <1>9. ASSUME NEW w \in Worker, RecordDelegation(w)
        PROVE  UNCHANGED <<caseState, decided>>
    BY <1>9 DEF RecordDelegation
  <1>10. ASSUME caseState'[c] # "reopened", UNCHANGED decided
         PROVE  \A d, e \in (DecisionsOf(c) \cap Response)' : d = e
    BY <1>2, <1>10 DEF DecisionsOf
  <1>11. ASSUME (DecisionsOf(c) \cap Response)' = DecisionsOf(c) \cap Response
         PROVE  \A d, e \in (DecisionsOf(c) \cap Response)' : d = e
    BY <1>2, <1>11
  <1> QED
    BY <1>3, <1>4, <1>5, <1>6, <1>7, <1>8, <1>9, <1>10, <1>11, LedgerSteps DEF ledgerVars

\* Without reports, one decision lands per case between two appeals, and its
\* receipt is committed.
LEMMA AlwaysQuiet ==
    ASSUME Reporter = {}
    PROVE  Spec => [](Invariants /\ LedgerInvariants /\ QuietInvariants)
  <1>1. Invariants /\ LedgerInvariants /\ QuietInvariants /\ [Next]_vars => QuietInvariants'
    <2> SUFFICES ASSUME Invariants, LedgerInvariants, QuietInvariants, [Next]_vars
                 PROVE  QuietInvariants'
      OBVIOUS
    <2>1. \A e \in decided' : stage'[e] = "projection-committed"
      BY DecidedStaysCommitted
    <2>2. \A c \in Case : Appealed(c)' \/ (caseState'[c] # "reopened"
                           /\ \A d, e \in (DecisionsOf(c) \cap Response)' : d = e)
      BY OneUntilAppealed
    <2> QED
      BY <2>1, <2>2 DEF QuietInvariants
  <1> QED
    BY <1>1, InitQuiet, AlwaysLedger, PTL DEF Spec

\* While no consumer reports, a receipt says a decision landed if and only if it
\* did, whatever deliveries, refusals and lost replies raced for the receipt.
THEOREM ReceiptsMatchLedger ==
    ASSUME Reporter = {}
    PROVE  Spec => []ReceiptMatchesLedger
  <1>1. Invariants /\ QuietInvariants => ReceiptMatchesLedger
    BY DEF Invariants, LandedIsDecided, QuietInvariants, ReceiptMatchesLedger, Landed
  <1> QED
    BY <1>1, AlwaysQuiet, PTL

\* While no consumer reports, one first-order decision of a case lands until an
\* appeal makes room for another.
THEOREM OneDecisionLands ==
    ASSUME Reporter = {}
    PROVE  Spec => []OneDecisionUntilAppeal
  <1>1. QuietInvariants => OneDecisionUntilAppeal
    BY DEF QuietInvariants, Appealed, OneDecisionUntilAppeal, Landed
  <1> QED
    BY <1>1, AlwaysQuiet, PTL

===============================================================================
