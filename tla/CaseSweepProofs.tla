--------------------------- MODULE CaseSweepProofs ---------------------------
(***************************************************************************)
(* What the five-minute cron may never do to a case, for any cases,        *)
(* requests, page ceiling and failures.                                    *)
(***************************************************************************)
EXTENDS CaseSweep, TLAPS

USE SweepAssumption

\* The row that is about to be closed has its receipt.
CloseHasReceipt == phase = "close" => <<at.case, "expired">> \in side

IInv == TypeOK /\ CloseHasReceipt

-----------------------------------------------------------------------------
\* What the row of a case says of time has the types a request declares.
LEMMA TermOfRow ==
    ASSUME TypeOK, NEW c \in Case, status[c] # "none"
    PROVE  Due(c) \in Nat /\ Stale(c) \in Nat \cup {None}
  <1>1. asked[c] \in Seq(Term) /\ request[c] \in DOMAIN asked[c]
    BY DEF TypeOK
  <1>2. asked[c][request[c]] \in Term
    BY <1>1
  <1> QED
    BY <1>2 DEF Term, Due, Stale

\* A page is made of rows, and a row of the page it is taken from.
LEMMA PageOfRows ==
    ASSUME TypeOK
    PROVE  /\ \A P \in Pages({[case |-> c, deadline |-> Due(c)] : c \in Overdue}) : P \subseteq Row
           /\ \A P \in Pages({[case |-> c, deadline |-> Stale(c)] : c \in Expired}) : P \subseteq Row
           /\ First(page) \subseteq page
  <1>1. ASSUME NEW c \in Overdue PROVE [case |-> c, deadline |-> Due(c)] \in Row
    BY TermOfRow DEF Overdue, Pending, Row
  <1>2. ASSUME NEW c \in Expired PROVE [case |-> c, deadline |-> Stale(c)] \in Row
    BY TermOfRow DEF Expired, Pending, PastStale, Row
  <1> QED
    BY <1>1, <1>2 DEF Pages, First

\* A cron that has not ticked closed nothing.
LEMMA InitIInv == Init => IInv
  BY DEF Init, IInv, TypeOK, CloseHasReceipt

\* The steps of the world and of the tick.
LEMMA StepIInv == IInv /\ [Next]_vars => IInv'
  <1> SUFFICES ASSUME IInv, [Next]_vars PROVE IInv'
    OBVIOUS
  <1> USE DEF IInv
  <1>1. ASSUME NEW c \in Case, NEW n \in DOMAIN asked[c], Upsert(c, n) PROVE IInv'
    <2>1. n \in Nat
      BY <1>1
    <2> QED
      BY <1>1, <2>1 DEF Upsert, TypeOK, CloseHasReceipt
  <1>2. ASSUME NEW c \in Case, Decide(c) \/ Reopen(c) PROVE IInv'
    <2>1. TypeOK'
      <3>1. status' \in [Case -> {"none", "pending", "decided", "closed"}]
        BY <1>2 DEF Decide, Reopen, SetStatus, TypeOK, versions
      <3>2. ASSUME NEW d \in Case PROVE (status[d] = "none") <=> (status'[d] = "none")
        BY <1>2 DEF Decide, Reopen, SetStatus, TypeOK, versions
      <3> QED
        BY <1>2, <3>1, <3>2 DEF Decide, Reopen, SetStatus, TypeOK, versions
    <2>2. CloseHasReceipt'
      BY <1>2 DEF Decide, Reopen, SetStatus, CloseHasReceipt
    <2> QED
      BY <2>1, <2>2
  <1>3. CASE Tick \/ Die \/ EndTick
    <2>1. TypeOK'
      BY <1>3 DEF Tick, Die, EndTick, Fault, TypeOK, versions
    <2>2. CloseHasReceipt'
      BY <1>3 DEF Tick, Die, EndTick, CloseHasReceipt
    <2> QED
      BY <2>1, <2>2
  <1>4. CASE FetchOverdue \/ FetchExpired
    <2>1. page' \subseteq Row
      BY <1>4, PageOfRows DEF FetchOverdue, FetchExpired
    <2> QED
      BY <1>4, <2>1 DEF FetchOverdue, FetchExpired, TypeOK, CloseHasReceipt, versions
  <1>5. ASSUME NEW r \in First(page), Escalate(r) \/ Record(r) PROVE IInv'
    <2>1. r \in Row /\ r.case \in Case
      BY PageOfRows DEF TypeOK, Row
    <2>2. TypeOK'
      <3>1. CASE Escalate(r)
        BY <2>1, <3>1 DEF Escalate, Fault, TypeOK, versions
      <3>2. CASE Record(r)
        <4>1. r # None
          BY <2>1
        <4> QED
          BY <2>1, <3>2, <4>1 DEF Record, Fault, TypeOK, versions
      <3> QED
        BY <1>5, <3>1, <3>2
    <2>3. CloseHasReceipt'
      BY <1>5, <2>1 DEF Escalate, Record, CloseHasReceipt
    <2> QED
      BY <2>2, <2>3
  <1>6. CASE CloseNext
    <2>1. status' \in [Case -> {"none", "pending", "decided", "closed"}]
      BY <1>6 DEF CloseNext, TypeOK
    <2>2. ASSUME NEW d \in Case PROVE (status[d] = "none") <=> (status'[d] = "none")
      BY <1>6 DEF CloseNext, TypeOK
    <2>3. TypeOK'
      BY <1>6, <2>1, <2>2 DEF CloseNext, Fault, TypeOK, versions
    <2> QED
      BY <1>6, <2>3 DEF CloseNext, CloseHasReceipt
  <1>7. CASE UNCHANGED vars
    BY <1>7 DEF vars, versions, TypeOK, CloseHasReceipt
  <1> QED
    BY <1>1, <1>2, <1>3, <1>4, <1>5, <1>6, <1>7 DEF Next, SweepStep, EscalateNext, RecordNext

\* IInv holds at every step of the cron, the escalations and closes in between
\* included.
THEOREM Safety == Spec => []IInv
  BY InitIInv, StepIInv, PTL DEF Spec

\* The tables, the page and the row at hand keep their types.
THEOREM TypeCorrect == Spec => []TypeOK
  BY Safety, PTL DEF IInv

\* A case is closed only by the close of the row at hand, while it is pending.
LEMMA OnlyTheRowAtHand ==
    ASSUME IInv, [Next]_vars, NEW c \in Case, status[c] # "closed", status'[c] = "closed"
    PROVE  CloseNext /\ c = at.case /\ status[c] = "pending"
  <1>0. status \in [Case -> {"none", "pending", "decided", "closed"}]
    BY DEF IInv, TypeOK
  <1>1. ASSUME NEW d \in Case, NEW n, Upsert(d, n) \/ Decide(d) \/ Reopen(d) PROVE FALSE
    BY <1>0, <1>1 DEF Upsert, Decide, Reopen, SetStatus
  <1>2. CASE CloseNext
    BY <1>0, <1>2 DEF CloseNext
  <1>3. CASE UNCHANGED status
    BY <1>3
  <1> QED
    BY <1>1, <1>2, <1>3 DEF Next, SweepStep, Tick, Die, FetchOverdue, EscalateNext, Escalate,
                            FetchExpired, RecordNext, Record, EndTick, vars, versions

\* The cron closes only a case that is pending at that very statement, and only
\* after the receipt that says why, whatever was decided since the SELECT.
THEOREM SweepSparesDecided == Spec => CloseSparesDecided
  <1>1. IInv /\ [Next]_vars =>
            [\A c \in Case : status[c] # "closed" /\ status'[c] = "closed" =>
                 status[c] = "pending" /\ <<c, "expired">> \in side]_vars
    <2> SUFFICES ASSUME IInv, [Next]_vars, NEW c \in Case,
                        status[c] # "closed", status'[c] = "closed"
                 PROVE  status[c] = "pending" /\ <<c, "expired">> \in side
      OBVIOUS
    <2>1. CloseNext /\ c = at.case /\ status[c] = "pending"
      BY OnlyTheRowAtHand
    <2> QED
      BY <2>1 DEF CloseNext, IInv, CloseHasReceipt
  <1> QED
    BY <1>1, Safety, PTL DEF Spec, CloseSparesDecided

-----------------------------------------------------------------------------
(* What a close goes by, when the case may have been rewritten since the    *)
(* SELECT: a request it was written from before.                           *)

\* Request n of c declared an expiry, and it has passed.
Lapsed(c, n) == asked[c][n].stale # None /\ asked[c][n].stale < now

\* The row r was read from the case as one of its requests had written it, and
\* that request's expiry has passed.
ReadLapsed(r) ==
    \E n \in posted[r.case] : asked[r.case][n].stale = r.deadline /\ Lapsed(r.case, n)

\* So is every row a tick still has to expire, and the one it is about to close.
LapsedInv ==
    /\ phase \in {"expire", "close"} => \A r \in page : ReadLapsed(r)
    /\ phase = "close" => ReadLapsed(at)

\* The clock does not go back, and what a case was written from stays on record.
LEMMA OnlyForward ==
    ASSUME IInv, [Next]_vars
    PROVE  /\ now' \in Nat /\ now <= now'
           /\ \A c \in Case : posted[c] \subseteq posted'[c]
  <1>0. now \in Nat /\ posted \in [Case -> SUBSET Nat]
    BY DEF IInv, TypeOK
  <1>1. ASSUME NEW d \in Case, NEW n, Upsert(d, n)
        PROVE  now' = now /\ \A c \in Case : posted[c] \subseteq posted'[c]
    BY <1>0, <1>1 DEF Upsert
  <1>2. CASE Tick
    BY <1>0, <1>2 DEF Tick, versions
  <1>3. CASE UNCHANGED <<now, posted>>
    BY <1>0, <1>3
  <1> QED
    BY <1>0, <1>1, <1>2, <1>3 DEF Next, SweepStep, Decide, Reopen, SetStatus, Die,
        FetchOverdue, EscalateNext, Escalate, FetchExpired, RecordNext, Record, CloseNext,
        EndTick, vars, versions

\* A row that was read from a lapsed request goes on having been.
LEMMA StaysLapsed ==
    ASSUME IInv, [Next]_vars, NEW r \in Row, ReadLapsed(r)
    PROVE  ReadLapsed(r)'
  <1>0. now \in Nat /\ r.case \in Case
    BY DEF IInv, TypeOK, Row
  <1>1. PICK n \in posted[r.case] :
            asked[r.case][n].stale = r.deadline /\ Lapsed(r.case, n)
    BY DEF ReadLapsed
  <1>2. r.deadline \in Nat /\ r.deadline < now
    BY <1>1 DEF Lapsed, Row
  <1>3. n \in posted'[r.case] /\ r.deadline < now'
    BY <1>0, <1>1, <1>2, OnlyForward
  <1> QED
    BY <1>1, <1>3 DEF ReadLapsed, Lapsed

\* The SELECT of the expired proposals reads lapsed rows only.
LEMMA SelectLapsed ==
    ASSUME TypeOK, NEW c \in Expired
    PROVE  ReadLapsed([case |-> c, deadline |-> Stale(c)])
  <1>1. request[c] \in posted[c]
    BY DEF TypeOK, Expired, Pending
  <1> QED
    BY <1>1 DEF ReadLapsed, Lapsed, Expired, PastStale, Stale

\* No step puts a row on the page, or at hand, that had not lapsed.
LEMMA StepLapsed == IInv /\ LapsedInv /\ [Next]_vars => LapsedInv'
  <1> SUFFICES ASSUME IInv, LapsedInv, [Next]_vars PROVE LapsedInv'
    OBVIOUS
  <1>1. TypeOK /\ page \subseteq Row /\ (phase = "close" => at \in Row)
    BY DEF IInv, TypeOK
  <1>2. ASSUME NEW r \in Row, ReadLapsed(r) PROVE ReadLapsed(r)'
    BY <1>2, StaysLapsed
  <1>3. CASE FetchExpired
    <2>1. ASSUME NEW r \in page' PROVE r \in Row /\ ReadLapsed(r)
      <3>1. PICK c \in Expired : r = [case |-> c, deadline |-> Stale(c)]
        BY <1>3 DEF FetchExpired, Pages
      <3>2. r \in Row
        BY <1>1, <1>3, PageOfRows DEF FetchExpired
      <3> QED
        BY <1>1, <3>1, <3>2, SelectLapsed
    <2> QED
      BY <1>2, <1>3, <2>1 DEF FetchExpired, LapsedInv
  <1>4. ASSUME NEW r \in First(page), Record(r) PROVE LapsedInv'
    <2>1. r \in page
      BY <1>1, PageOfRows
    <2> QED
      BY <1>1, <1>2, <1>4, <2>1 DEF Record, LapsedInv
  <1>5. CASE CloseNext
    BY <1>1, <1>2, <1>5 DEF CloseNext, LapsedInv
  <1>6. CASE phase' \notin {"expire", "close"}
    BY <1>6 DEF LapsedInv
  <1>7. CASE UNCHANGED <<phase, page, at>>
    BY <1>1, <1>2, <1>7 DEF LapsedInv
  <1> QED
    BY <1>3, <1>4, <1>5, <1>6, <1>7 DEF Next, SweepStep, Tick, Upsert, Decide, Reopen,
        SetStatus, Die, FetchOverdue, EscalateNext, Escalate, RecordNext, EndTick, vars, versions

\* The cron closes a case that is expired, or one that was when its SELECT ran
\* and was re-posted since: then it is closed on another request the case was
\* written from, whose expiry has passed.  A case that was never written with an
\* expiry that passed is not closed.
CloseWasDue ==
    [][\A c \in Case : status[c] # "closed" /\ status'[c] = "closed" =>
           \/ c \in Expired
           \/ /\ Stale(c) # at.deadline
              /\ \E n \in posted[c] \ {request[c]} :
                     asked[c][n].stale = at.deadline /\ Lapsed(c, n)]_vars

\* Nothing the tick meets between its SELECT and the close, not a re-post that
\* moves the expiry, takes the cron to a case that no request let it close.
THEOREM ClosesWereDue == Spec => CloseWasDue
  <1>1. Init => LapsedInv
    BY DEF Init, LapsedInv
  <1>2. IInv /\ LapsedInv /\ [Next]_vars =>
            [\A c \in Case : status[c] # "closed" /\ status'[c] = "closed" =>
                 \/ c \in Expired
                 \/ /\ Stale(c) # at.deadline
                    /\ \E n \in posted[c] \ {request[c]} :
                           asked[c][n].stale = at.deadline /\ Lapsed(c, n)]_vars
    <2> SUFFICES ASSUME IInv, LapsedInv, [Next]_vars, NEW c \in Case,
                        status[c] # "closed", status'[c] = "closed", c \notin Expired
                 PROVE  /\ Stale(c) # at.deadline
                        /\ \E n \in posted[c] \ {request[c]} :
                               asked[c][n].stale = at.deadline /\ Lapsed(c, n)
      OBVIOUS
    <2>1. CloseNext /\ c = at.case /\ Pending(c)
      BY OnlyTheRowAtHand DEF Pending
    <2>2. PICK n \in posted[c] : asked[c][n].stale = at.deadline /\ Lapsed(c, n)
      BY <2>1 DEF CloseNext, LapsedInv, ReadLapsed
    <2>3. Stale(c) # at.deadline
      BY <2>1, <2>2 DEF Expired, PastStale, Lapsed
    <2> QED
      BY <2>2, <2>3 DEF Stale
  <1> QED
    BY <1>1, <1>2, StepLapsed, Safety, PTL DEF Spec, CloseWasDue

=============================================================================
