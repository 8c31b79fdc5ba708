-------------------------- MODULE TrustSweepProofs --------------------------
(***************************************************************************)
(* Proofs about TrustSweep: what a demotion needs at the moment it is      *)
(* written, and that paging through a query whose rows the sweep itself    *)
(* removes neither repeats nor skips a member.                             *)
(***************************************************************************)
EXTENDS TrustSweep, FiniteSetTheorems, TLAPS

(* Time runs forward under a tick, and no flush is as old as the window.   *)
ClockInv ==
    /\ sweep.at <= now
    /\ \A m \in Member : flush[m].step # "none" =>
           now - flush[m].time < Idle

(* The rest of the query, as the tick sees it. *)
Ahead(m, r) == r.active <= sweep.at - Idle /\ After(sweep.cur, m, r)

(* Whoever was met is behind the cursor or has come back: the key a row is *)
(* paged by changes only when its member is seen again.                    *)
MetInv ==
    sweep.phase # "idle" =>
        /\ Cardinality(met) = sweep.scanned
        /\ \A m \in met : ~Ahead(m, row[m])

(* What is left of a page is ahead of the cursor and was not met, and each *)
(* of its rows is still where it was read unless its member has come back. *)
PageInv ==
    sweep.phase = "row" =>
        /\ DOMAIN page # {}
        /\ \A m \in DOMAIN page :
              /\ m \notin met
              /\ Ahead(m, page[m])
              /\ row[m].active = page[m].active \/ row[m].active > sweep.at - Idle
              /\ m \in owed => row[m] = page[m]

(* A member that is owed a visit is on the page or after all of it.        *)
OwedInv ==
    \A m \in owed \ met :
        /\ sweep.phase \in {"fetch", "row", "clear"} =>
              Candidate(row[m], sweep.at) /\ After(sweep.cur, m, row[m])
        /\ sweep.phase = "row" /\ m \notin DOMAIN page =>
              /\ sweep.full
              /\ \A n \in DOMAIN page : Before(Cursor(n, page[n]), Cursor(m, row[m]))
        /\ sweep.phase # "clear"

SweepInv == TypeOK /\ ClockInv /\ MetInv /\ PageInv /\ OwedInv

-----------------------------------------------------------------------------
(* The order of the pages *)

(* The order of the cursors is strict and transitive.                      *)
LEMMA BeforeOrder ==
    ASSUME NEW a \in [active : Nat, who : Member],
           NEW b \in [active : Nat, who : Member],
           NEW c \in [active : Nat, who : Member]
    PROVE  /\ ~Before(a, a)
           /\ Before(a, b) /\ Before(b, c) => Before(a, c)
<1>1. rank[a.who] \in Nat /\ rank[b.who] \in Nat /\ rank[c.who] \in Nat
  BY TrustAssumption
<1> QED
  BY <1>1 DEF Before

(* A cursor says where a row lies.                                         *)
LEMMA CursorType ==
    ASSUME NEW m \in Member, NEW r \in Row
    PROVE  /\ Cursor(m, r) \in [active : Nat, who : Member]
           /\ Cursor(m, r) # None
  BY TrustAssumption DEF Cursor, Row

(* What lies after a row that lies after the cursor lies after the cursor. *)
LEMMA AfterMoves ==
    ASSUME NEW cur \in Place, NEW m \in Member, NEW r \in Row,
           NEW n \in Member, NEW q \in Row
    PROVE  /\ ~After(Cursor(m, r), m, r)
           /\ After(cur, m, r) /\ After(Cursor(m, r), n, q) => After(cur, n, q)
           /\ After(Cursor(m, r), n, q) <=> Before(Cursor(m, r), Cursor(n, q))
<1>1. Cursor(m, r) # None
  BY CursorType
<1>2. ~Before(Cursor(m, r), Cursor(m, r))
  BY CursorType, BeforeOrder
<1>3. cur # None /\ Before(cur, Cursor(m, r)) /\ Before(Cursor(m, r), Cursor(n, q))
          => Before(cur, Cursor(n, q))
  <2>1. cur # None => cur \in [active : Nat, who : Member]
    BY DEF Place
  <2> QED
    BY <2>1, CursorType, BeforeOrder
<1> QED
  BY <1>1, <1>2, <1>3 DEF After

(* Where a row lies depends on nothing but the time its member was seen.   *)
LEMMA AfterSame ==
    ASSUME NEW cur, NEW m, NEW r, NEW q, r.active = q.active
    PROVE  After(cur, m, r) <=> After(cur, m, q)
  BY DEF After, Cursor

(* A demotion lands on a lower level.                                      *)
LEMMA LoweredType ==
    ASSUME NEW r \in Row, r.level \in {1, 2}
    PROVE  Lowered(r) \in Level /\ Lowered(r) < r.level
  BY DEF Lowered, Level, Row

-----------------------------------------------------------------------------
(* Steps of others *)

(* Whatever others write, a tick stays sound as long as a row moves in the *)
(* order of the pages only out of the window's reach, and a row somebody   *)
(* wrote to is owed nothing.                                               *)
LEMMA RowsMove ==
    ASSUME SweepInv, row' \in [Member -> Row],
           UNCHANGED <<sweep, page, met>>, owed' \subseteq owed,
           \A n \in Member : \/ row'[n].active = row[n].active
                             \/ row'[n].active > sweep.at - Idle,
           \A n \in owed' : row'[n] = row[n]
    PROVE  MetInv' /\ PageInv' /\ OwedInv'
<1>1. \A n \in Member : Ahead(n, row'[n]) => Ahead(n, row[n])
  <2> SUFFICES ASSUME NEW n \in Member, Ahead(n, row'[n]) PROVE Ahead(n, row[n])
    OBVIOUS
  <2>1. row'[n].active = row[n].active
    <3>1. row'[n].active <= sweep.at - Idle
      BY DEF Ahead
    <3>2. row'[n].active \in Nat /\ sweep.at \in Nat /\ Idle \in Nat
      BY TrustAssumption DEF SweepInv, TypeOK, Row
    <3> QED
      BY <3>1, <3>2
  <2> QED
    BY <2>1, AfterSame DEF Ahead
<1>2. met \subseteq Member /\ DOMAIN page \subseteq Member /\ owed \subseteq Member
  BY DEF SweepInv, TypeOK
<1>3. MetInv'
  BY <1>1, <1>2 DEF SweepInv, MetInv, Ahead
<1>4. PageInv'
  <2> SUFFICES ASSUME sweep.phase = "row", NEW m \in DOMAIN page
               PROVE  \/ row'[m].active = page[m].active
                      \/ row'[m].active > sweep.at - Idle
    BY DEF SweepInv, PageInv, Ahead
  <2> QED
    BY <1>2 DEF SweepInv, PageInv
<1>5. OwedInv'
  BY DEF SweepInv, OwedInv
<1> QED
  BY <1>3, <1>4, <1>5

(* The count of days and posts earns one of the levels the code grants.    *)
LEMMA EarnedType == ASSUME NEW r PROVE Earned(r) \in Level
  BY DEF Earned, Level

(* A post, a count of reads, a role and a mod action leave a row where it  *)
(* is in the order of the pages.                                           *)
LEMMA PlainWrites ==
    ASSUME NEW r \in Row
    PROVE  /\ [r EXCEPT !.posts = @ + 1] \in Row
           /\ [r EXCEPT !.posts = @ + 1].active = r.active
           /\ [r EXCEPT !.admin = ~@] \in Row
           /\ [r EXCEPT !.admin = ~@].active = r.active
           /\ [r EXCEPT !.mod = TRUE] \in Row
           /\ [r EXCEPT !.mod = TRUE].active = r.active
<1>1. [r EXCEPT !.posts = @ + 1] \in Row /\ [r EXCEPT !.posts = @ + 1].active = r.active
  BY DEF Row
<1>2. [r EXCEPT !.admin = ~@] \in Row /\ [r EXCEPT !.admin = ~@].active = r.active
  BY DEF Row
<1>3. [r EXCEPT !.mod = TRUE] \in Row /\ [r EXCEPT !.mod = TRUE].active = r.active
  BY DEF Row
<1> QED
  BY <1>1, <1>2, <1>3

(* A new level leaves a row where it is too.                               *)
LEMMA LevelWrites ==
    ASSUME NEW r \in Row, NEW l \in Level
    PROVE  /\ [r EXCEPT !.level = l] \in Row
           /\ [r EXCEPT !.level = l].active = r.active
           /\ \A n \in Nat : /\ [r EXCEPT !.level = l, !.updated = n] \in Row
                            /\ [r EXCEPT !.level = l, !.updated = n].active = r.active
<1>1. [r EXCEPT !.level = l] \in Row /\ [r EXCEPT !.level = l].active = r.active
  BY DEF Row
<1>2. ASSUME NEW n \in Nat
      PROVE  /\ [r EXCEPT !.level = l, !.updated = n] \in Row
             /\ [r EXCEPT !.level = l, !.updated = n].active = r.active
  BY DEF Row
<1> QED
  BY <1>1, <1>2

(* A flush keeps the time it took until it is over.                        *)
LEMMA FlushSteps ==
    ASSUME NEW m \in Member, flush \in [Member -> FlushInfo], FlushStep(m)
    PROVE  /\ flush' \in [Member -> FlushInfo]
           /\ \A n \in Member : flush'[n].step # "none" =>
                  flush[n].step # "none" /\ flush'[n].time = flush[n].time
<1>1. Still \in FlushInfo /\ Still.step = "none"
  BY DEF Still, Doing, FlushInfo, Level
<1>2. CASE flush' = [flush EXCEPT ![m] = Still]
  BY <1>1, <1>2
<1>3. ASSUME NEW b \in BOOLEAN, flush[m].step = "look",
             flush' = [flush EXCEPT ![m].step = "stamp", ![m].newDay = b]
      PROVE  /\ flush' \in [Member -> FlushInfo]
             /\ \A n \in Member : flush'[n].step # "none" =>
                    flush[n].step # "none" /\ flush'[n].time = flush[n].time
  BY <1>3 DEF FlushInfo
<1>4. CASE flush[m].step = "stamp" /\ flush' = [flush EXCEPT ![m].step = "check"]
  BY <1>4 DEF FlushInfo
<1>5. CASE /\ flush[m].step = "check"
           /\ flush' = [flush EXCEPT ![m].step = "raise", ![m].to = Earned(row[m])]
  <2>1. Earned(row[m]) \in Level
    BY EarnedType
  <2> QED
    BY <1>5, <2>1 DEF FlushInfo
<1>6. CASE ReadStamp(m)
  <2>1. (row[m].active < flush[m].time) \in BOOLEAN
    OBVIOUS
  <2> QED
    BY <1>3, <1>6, <2>1 DEF ReadStamp
<1>7. CASE WriteStamp(m)
  BY <1>4, <1>7 DEF WriteStamp
<1>8. CASE CheckPromotion(m)
  BY <1>2, <1>5, <1>8 DEF CheckPromotion
<1>9. CASE Promote(m)
  BY <1>2, <1>9 DEF Promote
<1> QED
  BY <1>6, <1>7, <1>8, <1>9 DEF FlushStep

(* A write by hand, a post or a flush step writes at most one row, and     *)
(* moves it in the order of the pages only out of the window's reach.      *)
LEMMA OthersWrite ==
    ASSUME TypeOK, ClockInv, NEW m \in Member,
           Post(m) \/ CountReads(m) \/ FlushStep(m) \/ SetAdmin(m) \/ SetByHand(m)
    PROVE  \/ UNCHANGED <<row, owed>>
           \/ \E r \in Row : /\ Write(m, r)
                             /\ r.active = row[m].active \/ r.active > sweep.at - Idle
<1>0. /\ now \in Nat /\ row[m] \in Row /\ flush[m].time \in Nat /\ flush[m].to \in Level
      /\ sweep.at \in Nat /\ flush[m].newDay \in BOOLEAN /\ Idle \in Nat
  BY TrustAssumption DEF TypeOK, FlushInfo
<1>1. CASE WriteStamp(m)
  <2> DEFINE d == IF flush[m].newDay THEN row[m].days + 1 ELSE row[m].days
             r == [row[m] EXCEPT !.active = flush[m].time, !.days = d]
  <2>1. r \in Row /\ r.active = flush[m].time
    <3>1. d \in Nat
      BY <1>0 DEF Row
    <3>2. \A x \in Nat :
              /\ [row[m] EXCEPT !.active = flush[m].time, !.days = x] \in Row
              /\ [row[m] EXCEPT !.active = flush[m].time, !.days = x].active = flush[m].time
      BY <1>0 DEF Row
    <3> HIDE DEF d
    <3> QED
      BY <3>1, <3>2
  <2>2. flush[m].time > sweep.at - Idle
    BY <1>0, <1>1 DEF WriteStamp, ClockInv
  <2>3. Write(m, r) \/ UNCHANGED <<row, owed>>
    BY <1>1 DEF WriteStamp
  <2> HIDE DEF r
  <2> QED
    BY <2>1, <2>2, <2>3
<1>2. CASE Promote(m)
  <2> DEFINE r == [row[m] EXCEPT !.level = flush[m].to, !.updated = now]
  <2>1. r \in Row /\ r.active = row[m].active
    BY <1>0, LevelWrites
  <2>2. Write(m, r) \/ UNCHANGED <<row, owed>>
    BY <1>2 DEF Promote
  <2> HIDE DEF r
  <2> QED
    BY <2>1, <2>2
<1>3. CASE Post(m) \/ CountReads(m)
  BY <1>0, <1>3, PlainWrites DEF Post, CountReads
<1>4. CASE SetAdmin(m)
  <2> DEFINE r == [row[m] EXCEPT !.admin = ~@]
  <2>1. r \in Row /\ r.active = row[m].active
    BY <1>0, PlainWrites
  <2>2. Write(m, r)
    BY <1>4 DEF SetAdmin
  <2> HIDE DEF r
  <2> QED
    BY <2>1, <2>2
<1>5. CASE SetByHand(m)
  <2>1. CASE Write(m, [row[m] EXCEPT !.mod = TRUE])
    BY <1>0, <2>1, PlainWrites
  <2>2. CASE \E l \in Level : Write(m, [row[m] EXCEPT !.level = l])
    <3>1. PICK l \in Level : Write(m, [row[m] EXCEPT !.level = l])
      BY <2>2
    <3> DEFINE r == [row[m] EXCEPT !.level = l]
    <3>2. r \in Row /\ r.active = row[m].active
      BY <1>0, LevelWrites
    <3>3. Write(m, r)
      BY <3>1
    <3> HIDE DEF r
    <3> QED
      BY <3>2, <3>3
  <2> QED
    BY <1>5, <2>1, <2>2 DEF SetByHand
<1>6. CASE ReadStamp(m) \/ CheckPromotion(m)
  BY <1>6 DEF ReadStamp, CheckPromotion
<1> QED
  BY <1>1, <1>2, <1>3, <1>4, <1>5, <1>6 DEF FlushStep

(* They keep the invariant.                                                *)
LEMMA OthersKeep ==
    ASSUME SweepInv, NEW m \in Member,
           Post(m) \/ CountReads(m) \/ FlushStep(m) \/ SetAdmin(m) \/ SetByHand(m)
    PROVE  SweepInv'
<1> USE DEF SweepInv
<1>1. UNCHANGED <<now, log, saved, sweep, page, met>>
  BY DEF Post, CountReads, FlushStep, ReadStamp, WriteStamp, CheckPromotion, Promote,
         SetAdmin, SetByHand, tick
<1>2. faults' \in Nat /\ ops' \in Nat
  BY DEF Post, CountReads, FlushStep, ReadStamp, WriteStamp, CheckPromotion, Promote,
         SetAdmin, SetByHand, Fault, TypeOK
<1>3. /\ flush' \in [Member -> FlushInfo]
      /\ \A n \in Member : flush'[n].step # "none" => now - flush'[n].time < Idle
  <2>1. CASE UNCHANGED flush
    BY <2>1 DEF TypeOK, ClockInv
  <2>2. CASE CountReads(m)
    <3>1. now \in Nat /\ Idle \in Nat \ {0}
      BY TrustAssumption DEF TypeOK
    <3>2. Doing("look", now) \in FlushInfo /\ Doing("look", now).time = now
      BY <3>1 DEF Doing, FlushInfo, Level
    <3> QED
      BY <2>2, <3>1, <3>2 DEF TypeOK, ClockInv, CountReads
  <2>3. CASE FlushStep(m)
    BY <2>3, FlushSteps DEF TypeOK, ClockInv
  <2> QED
    BY <2>1, <2>2, <2>3 DEF Post, SetAdmin, SetByHand
<1>4. /\ row' \in [Member -> Row] /\ owed' \subseteq owed
      /\ \A n \in Member : \/ row'[n].active = row[n].active
                           \/ row'[n].active > sweep.at - Idle
      /\ \A n \in owed' : row'[n] = row[n]
  <2>1. row \in [Member -> Row] /\ owed \subseteq Member
    BY DEF TypeOK
  <2>2. CASE UNCHANGED <<row, owed>>
    BY <2>1, <2>2
  <2>3. CASE \E r \in Row : /\ Write(m, r)
                            /\ r.active = row[m].active \/ r.active > sweep.at - Idle
    <3>1. PICK r \in Row : /\ Write(m, r)
                           /\ r.active = row[m].active \/ r.active > sweep.at - Idle
      BY <2>3
    <3>2. Write(m, r)
      BY <3>1
    <3>3. row' = [row EXCEPT ![m] = r] /\ owed' = owed \ {m}
      BY <3>2 DEF Write
    <3> QED
      BY <2>1, <3>1, <3>3
  <2> QED
    BY <2>2, <2>3, OthersWrite
<1>5. TypeOK'
  BY <1>1, <1>2, <1>3, <1>4 DEF TypeOK
<1>6. ClockInv'
  BY <1>1, <1>3 DEF ClockInv
<1>7. MetInv' /\ PageInv' /\ OwedInv'
  BY <1>1, <1>4, RowsMove
<1> QED
  BY <1>5, <1>6, <1>7

-----------------------------------------------------------------------------
(* Steps of the sweep *)

(* A tick that is over has met nobody and owes nobody.                     *)
LEMMA EndKeeps ==
    ASSUME SweepInv, EndOfTick, UNCHANGED <<now, row, log, flush, ops>>,
           saved' \in Place, faults' \in Nat
    PROVE  SweepInv'
<1>1. /\ sweep' = [phase |-> "idle", at |-> 0, cur |-> None, scanned |-> 0, full |-> FALSE]
      /\ page' = [m \in {} |-> row[m]] /\ met' = {} /\ owed' = {}
  BY DEF EndOfTick, Resting
<1>2. TypeOK'
  BY <1>1 DEF SweepInv, TypeOK, Phase, Place
<1>3. ClockInv'
  BY <1>1 DEF SweepInv, TypeOK, ClockInv
<1>4. MetInv' /\ PageInv' /\ OwedInv'
  BY <1>1 DEF MetInv, PageInv, OwedInv
<1> QED
  BY <1>2, <1>3, <1>4 DEF SweepInv

(* A tick starts owing a visit to every candidate after its cursor.        *)
LEMMA StartKeeps == SweepInv /\ StartTick => SweepInv'
<1> SUFFICES ASSUME SweepInv, StartTick PROVE SweepInv'
  OBVIOUS
<1>1. /\ sweep' = [phase |-> "fetch", at |-> now, cur |-> saved, scanned |-> 0, full |-> FALSE]
      /\ page' = [m \in {} |-> row[m]] /\ met' = {} /\ owed' = Candidates(saved, now)
      /\ UNCHANGED <<now, row, log, saved, flush, faults, ops>>
  BY DEF StartTick, Resting
<1>2. Candidates(saved, now) \subseteq Member
  BY DEF Candidates
<1>3. TypeOK'
  BY <1>1, <1>2 DEF SweepInv, TypeOK, Phase
<1>4. ClockInv'
  BY <1>1 DEF SweepInv, TypeOK, ClockInv
<1>5. MetInv'
  BY <1>1, FS_EmptySet DEF MetInv
<1>6. PageInv' /\ OwedInv'
  BY <1>1 DEF PageInv, OwedInv, Candidates
<1> QED
  BY <1>3, <1>4, <1>5, <1>6 DEF SweepInv

(* A page holds the first of the rows that are left: whoever is owed a     *)
(* visit is on it or after it, and an empty page leaves nobody.            *)
LEMMA FetchKeeps == SweepInv /\ FetchPage => SweepInv'
<1> SUFFICES ASSUME SweepInv, FetchPage PROVE SweepInv'
  OBVIOUS
<1>1. /\ sweep.phase = "fetch" /\ UNCHANGED <<now, row, log, saved, flush, ops>>
      /\ faults' \in Nat
  <2>1. faults \in Nat /\ (faults' = faults \/ faults' = faults + 1)
    BY DEF FetchPage, Fault, SweepInv, TypeOK
  <2>2. faults' \in Nat
    BY <2>1
  <2> QED
    BY <2>2 DEF FetchPage
<1>2. CASE EndOfTick
  BY <1>1, <1>2, EndKeeps DEF SweepInv, TypeOK
<1>3. CASE sweep' = [sweep EXCEPT !.phase = "save"] /\ UNCHANGED <<page, met, owed>>
  <2>1. /\ sweep'.phase = "save" /\ sweep'.at = sweep.at /\ sweep'.cur = sweep.cur
        /\ sweep'.scanned = sweep.scanned
        /\ sweep' \in [phase : Phase, at : Nat, cur : Place, scanned : Nat, full : BOOLEAN]
    BY <1>3 DEF SweepInv, TypeOK, Phase
  <2>2. TypeOK'
    BY <1>1, <1>3, <2>1 DEF SweepInv, TypeOK
  <2>3. ClockInv' /\ MetInv'
    BY <1>1, <1>3, <2>1 DEF SweepInv, ClockInv, MetInv, Ahead
  <2>4. PageInv' /\ OwedInv'
    BY <2>1 DEF PageInv, OwedInv
  <2> QED
    BY <2>2, <2>3, <2>4 DEF SweepInv
<1>4. ASSUME NEW found \in SUBSET Member,
             FirstPage(found, Candidates(sweep.cur, sweep.at)),
             sweep' = [sweep EXCEPT !.phase = IF found = {} THEN "clear" ELSE "row",
                                    !.full = Cardinality(found) = PageSize],
             page' = [m \in found |-> row[m]],
             UNCHANGED <<faults, met, owed>>
      PROVE  SweepInv'
  <2> DEFINE rest == Candidates(sweep.cur, sweep.at)
  <2>1. /\ sweep'.phase = IF found = {} THEN "clear" ELSE "row"
        /\ sweep'.at = sweep.at /\ sweep'.cur = sweep.cur
        /\ sweep'.scanned = sweep.scanned
        /\ sweep'.full <=> Cardinality(found) = PageSize
        /\ sweep' \in [phase : Phase, at : Nat, cur : Place, scanned : Nat, full : BOOLEAN]
    BY <1>4 DEF SweepInv, TypeOK, Phase
  <2>2. /\ DOMAIN page' = found /\ \A m \in found : page'[m] = row[m] /\ row[m] \in Row
    BY <1>4 DEF SweepInv, TypeOK
  <2>3. TypeOK'
    BY <1>1, <1>4, <2>1, <2>2 DEF SweepInv, TypeOK
  <2>4. ClockInv' /\ MetInv'
    BY <1>1, <1>4, <2>1 DEF SweepInv, ClockInv, MetInv, Ahead
  <2>5. /\ found \subseteq rest
        /\ found = rest \/ Cardinality(found) = PageSize
        /\ \A m \in found, n \in rest \ found :
               Before(Cursor(m, row[m]), Cursor(n, row[n]))
    BY <1>4 DEF FirstPage
  <2>6. PageInv'
    <3> SUFFICES ASSUME NEW m \in found
                 PROVE  m \notin met /\ Ahead(m, row[m])
      BY <1>1, <1>4, <2>1, <2>2 DEF PageInv, Ahead
    <3>1. Ahead(m, row[m])
      BY <2>5 DEF Candidates, Candidate, Ahead
    <3> QED
      BY <1>1, <3>1 DEF SweepInv, MetInv
  <2>7. OwedInv'
    <3> SUFFICES ASSUME NEW m \in owed \ met
                 PROVE  /\ Candidate(row[m], sweep.at) /\ After(sweep.cur, m, row[m])
                        /\ found # {}
                        /\ m \notin found =>
                              /\ Cardinality(found) = PageSize
                              /\ \A n \in found :
                                    Before(Cursor(n, row[n]), Cursor(m, row[m]))
      BY <1>1, <1>4, <2>1, <2>2 DEF OwedInv
    <3>1. Candidate(row[m], sweep.at) /\ After(sweep.cur, m, row[m])
      BY <1>1 DEF SweepInv, OwedInv
    <3>2. m \in rest
      BY <3>1 DEF Candidates, SweepInv, TypeOK
    <3>3. found # {}
      BY <2>5, <3>2, FS_EmptySet, TrustAssumption
    <3> QED
      BY <2>5, <3>1, <3>2, <3>3
  <2> QED
    BY <2>3, <2>4, <2>6, <2>7 DEF SweepInv
<1> QED
  BY <1>2, <1>3, <1>4 DEF FetchPage

(* A commit lowers one row and moves none in the order of the pages.       *)
LEMMA CommitWrites ==
    ASSUME TypeOK, NEW m \in DOMAIN page, Commit(m)
    PROVE  /\ row' \in [Member -> Row]
           /\ \A n \in Member : row'[n].active = row[n].active
           /\ \A n \in Member \ {m} : row'[n] = row[n]
           /\ row'[m].level = Lowered(page[m])
           /\ log' \subseteq [who : Member, from : Level, to : Level, at : Nat]
<1> DEFINE r == [row[m] EXCEPT !.level = Lowered(page[m]), !.updated = sweep.at]
<1>1. /\ m \in Member /\ page[m] \in Row /\ row \in [Member -> Row] /\ sweep.at \in Nat
      /\ page[m].level \in {1, 2} /\ row[m] = page[m] /\ page[m].level \in Level
  BY DEF TypeOK, Commit, Demotable, Row
<1>2. Lowered(page[m]) \in Level
  BY <1>1, LoweredType
<1>3. r \in Row /\ r.active = row[m].active /\ r.level = Lowered(page[m])
  BY <1>1, <1>2 DEF Row
<1>4. row' = [row EXCEPT ![m] = r]
  BY DEF Commit
<1>5. log' \subseteq [who : Member, from : Level, to : Level, at : Nat]
  BY <1>1, <1>2 DEF TypeOK, Commit
<1> HIDE DEF r
<1> QED
  BY <1>1, <1>3, <1>4, <1>5

(* What working off a row does to the tick, whether it is demoted or not.  *)
LEMMA WorkSteps ==
    ASSUME SweepInv, NEW m \in Member, WorkRow(m)
    PROVE  /\ m \in DOMAIN page /\ page[m] \in Row /\ IsNext(m) /\ sweep.phase = "row"
           /\ sweep' \in [phase : Phase, at : Nat, cur : Place, scanned : Nat, full : BOOLEAN]
           /\ sweep'.at = sweep.at /\ sweep'.full = sweep.full
           /\ sweep'.cur = Cursor(m, page[m]) /\ sweep'.scanned = sweep.scanned + 1
           /\ met' = met \cup {m} /\ owed' = owed
           /\ DOMAIN page' \subseteq DOMAIN page \ {m}
           /\ \A n \in DOMAIN page' : page'[n] = page[n]
           /\ sweep'.phase # "save" => DOMAIN page' = DOMAIN page \ {m}
           /\ sweep'.phase \in {"save", "row", "fetch", "clear"}
           /\ sweep'.phase = "row" => DOMAIN page' # {}
           /\ sweep'.phase = "fetch" => DOMAIN page' = {} /\ sweep.full
           /\ sweep'.phase = "clear" => DOMAIN page' = {} /\ ~sweep.full
           /\ row' \in [Member -> Row] /\ faults' \in Nat
           /\ log' \subseteq [who : Member, from : Level, to : Level, at : Nat]
           /\ \A n \in Member : row'[n].active = row[n].active
           /\ \A n \in Member \ {m} : row'[n] = row[n]
<1> DEFINE full == sweep.scanned + 1 >= MaxRows
           left == IF full THEN {} ELSE DOMAIN page \ {m}
           phase == CASE full -> "save"
                      [] ~full /\ left # {} -> "row"
                      [] ~full /\ left = {} /\ sweep.full -> "fetch"
                      [] ~full /\ left = {} /\ ~sweep.full -> "clear"
<1>1. m \in DOMAIN page /\ page[m] \in Row /\ IsNext(m) /\ sweep.phase = "row"
  BY DEF WorkRow, IsNext, SweepInv, TypeOK
<1>2. sweep \in [phase : Phase, at : Nat, cur : Place, scanned : Nat, full : BOOLEAN]
  BY DEF SweepInv, TypeOK
<1>3. Cursor(m, page[m]) \in Place /\ phase \in {"save", "row", "fetch", "clear"}
  BY <1>1, <1>2, CursorType DEF Place
<1>4. /\ phase # "save" => left = DOMAIN page \ {m}
      /\ phase = "row" => left # {}
      /\ phase = "fetch" => left = {} /\ sweep.full
      /\ phase = "clear" => left = {} /\ ~sweep.full
  BY <1>2
<1>5. /\ sweep' = [sweep EXCEPT !.cur = Cursor(m, page[m]), !.scanned = @ + 1, !.phase = phase]
      /\ page' = [n \in left |-> page[n]]
      /\ met' = met \cup {m} /\ owed' = owed
  BY DEF WorkRow
<1>6. left \subseteq DOMAIN page \ {m}
  OBVIOUS
<1>7. /\ row' \in [Member -> Row]
      /\ log' \subseteq [who : Member, from : Level, to : Level, at : Nat]
      /\ \A n \in Member : row'[n].active = row[n].active
      /\ \A n \in Member \ {m} : row'[n] = row[n]
  <2>1. CASE Commit(m)
    BY <1>1, <2>1, CommitWrites DEF SweepInv
  <2>2. CASE UNCHANGED <<row, log>>
    BY <2>2 DEF SweepInv, TypeOK
  <2> QED
    BY <2>1, <2>2 DEF WorkRow
<1>8. faults' \in Nat
  <2>1. faults \in Nat /\ (faults' = faults \/ faults' = faults + 1)
    BY DEF WorkRow, Fault, SweepInv, TypeOK
  <2> QED
    BY <2>1
<1> HIDE DEF full, left, phase
<1>9. /\ sweep' \in [phase : Phase, at : Nat, cur : Place, scanned : Nat, full : BOOLEAN]
      /\ sweep'.at = sweep.at /\ sweep'.full = sweep.full /\ sweep'.phase = phase
      /\ sweep'.cur = Cursor(m, page[m]) /\ sweep'.scanned = sweep.scanned + 1
  <2>1. sweep.scanned + 1 \in Nat /\ phase \in Phase
    BY <1>2, <1>3 DEF Phase
  <2> DEFINE there == Cursor(m, page[m])
             count == sweep.scanned + 1
  <2>2. sweep' = [sweep EXCEPT !.cur = there, !.scanned = count, !.phase = phase]
    BY <1>5
  <2>3. there \in Place /\ count \in Nat
    BY <1>3, <2>1
  <2> HIDE DEF there, count
  <2>4. /\ sweep' \in [phase : Phase, at : Nat, cur : Place, scanned : Nat, full : BOOLEAN]
        /\ sweep'.at = sweep.at /\ sweep'.full = sweep.full /\ sweep'.phase = phase
        /\ sweep'.cur = there /\ sweep'.scanned = count
    BY <1>2, <2>1, <2>2, <2>3
  <2> QED
    BY <2>4 DEF there, count
<1> QED
  BY <1>1, <1>3, <1>4, <1>5, <1>6, <1>7, <1>8, <1>9

(* The next row of the page is worked off: it ends up behind the cursor,   *)
(* and the rest of the page and all that is owed stays ahead.              *)
LEMMA WorkKeeps == ASSUME SweepInv, NEW m \in Member, WorkRow(m) PROVE SweepInv'
<1>0. /\ row \in [Member -> Row] /\ met \subseteq Member /\ owed \subseteq Member
      /\ DOMAIN page \subseteq Member /\ \A n \in DOMAIN page : page[n] \in Row
      /\ sweep.cur \in Place /\ sweep.at \in Nat /\ sweep.scanned \in Nat /\ Idle \in Nat
      /\ UNCHANGED <<now, saved, flush, ops>>
  BY TrustAssumption DEF SweepInv, TypeOK, WorkRow
<1>1. /\ m \notin met /\ Ahead(m, page[m])
      /\ row[m].active = page[m].active \/ row[m].active > sweep.at - Idle
      /\ \A n \in DOMAIN page \ {m} : Before(Cursor(m, page[m]), Cursor(n, page[n]))
  BY WorkSteps DEF SweepInv, PageInv, IsNext
<1>2. TypeOK'
  <2>1. DOMAIN page' \subseteq Member /\ \A n \in DOMAIN page' : page'[n] \in Row
    BY <1>0, WorkSteps
  <2>2. met' \subseteq Member /\ owed' \subseteq Member
    BY <1>0, WorkSteps
  <2>3. /\ now' \in Nat /\ saved' \in Place /\ ops' \in Nat
        /\ flush' \in [Member -> FlushInfo]
    BY <1>0 DEF SweepInv, TypeOK
  <2> QED
    BY <2>1, <2>2, <2>3, WorkSteps DEF TypeOK
<1>3. ClockInv'
  BY <1>0, WorkSteps DEF SweepInv, ClockInv
<1>4. \A n \in Member, q \in Row :
          After(Cursor(m, page[m]), n, q) => After(sweep.cur, n, q)
  <2>1. page[m] \in Row /\ After(sweep.cur, m, page[m])
    BY <1>0, <1>1, WorkSteps DEF Ahead
  <2> QED
    BY <1>0, <2>1, AfterMoves
<1>5. MetInv'
  <2>1. Cardinality(met \cup {m}) = sweep.scanned + 1
    <3>1. IsFiniteSet(met) /\ Cardinality(met) = sweep.scanned
      BY <1>0, WorkSteps, FS_Subset, TrustAssumption DEF SweepInv, MetInv
    <3> QED
      BY <1>1, <3>1, FS_AddElement
  <2>2. ASSUME NEW n \in met, n # m PROVE ~Ahead(n, row[n])'
    <3>1. ~Ahead(n, row[n])
      BY WorkSteps DEF SweepInv, MetInv
    <3>2. row'[n] = row[n] /\ row[n] \in Row /\ n \in Member
      BY <1>0, <2>2, WorkSteps
    <3> QED
      BY <1>4, <3>1, <3>2, WorkSteps DEF Ahead
  <2>3. ~Ahead(m, row[m])'
    <3>1. CASE row[m].active = page[m].active
      <4>1. After(Cursor(m, page[m]), m, row'[m]) <=> After(Cursor(m, page[m]), m, page[m])
        BY <3>1, WorkSteps, AfterSame
      <4>2. ~After(Cursor(m, page[m]), m, page[m])
        BY <1>0, WorkSteps, AfterMoves
      <4> QED
        BY <4>1, <4>2, WorkSteps DEF Ahead
    <3>2. CASE row[m].active > sweep.at - Idle
      <4>1. row'[m].active > sweep.at - Idle /\ row'[m].active \in Nat
        BY <1>0, <3>2, WorkSteps DEF Row
      <4>2. ~(row'[m].active <= sweep.at - Idle)
        BY <1>0, <4>1
      <4> QED
        BY <4>2, WorkSteps DEF Ahead
    <3> QED
      BY <1>1, <3>1, <3>2
  <2> QED
    BY <2>1, <2>2, <2>3, WorkSteps DEF MetInv
<1>6. PageInv'
  <2> SUFFICES ASSUME NEW n \in DOMAIN page'
               PROVE  /\ n \notin met' /\ Ahead(n, page[n])'
                      /\ row'[n].active = page[n].active \/ row'[n].active > sweep.at - Idle
                      /\ n \in owed => row'[n] = page[n]
    BY WorkSteps DEF PageInv
  <2>1. n \in DOMAIN page \ {m} /\ n \in Member /\ page[n] \in Row /\ page'[n] = page[n]
    BY <1>0, WorkSteps
  <2>2. /\ n \notin met /\ Ahead(n, page[n])
        /\ row[n].active = page[n].active \/ row[n].active > sweep.at - Idle
        /\ n \in owed => row[n] = page[n]
    BY <2>1, WorkSteps DEF SweepInv, PageInv
  <2>3. After(Cursor(m, page[m]), n, page[n])
    BY <1>1, <2>1 DEF After
  <2> QED
    BY <2>1, <2>2, <2>3, WorkSteps DEF Ahead
<1>7. ASSUME NEW n \in owed \ (met \cup {m})
      PROVE  /\ Candidate(row[n], sweep.at)
             /\ Before(Cursor(m, page[m]), Cursor(n, row[n]))
             /\ After(Cursor(m, page[m]), n, row[n])
             /\ n \notin DOMAIN page =>
                   /\ sweep.full
                   /\ \A x \in DOMAIN page : Before(Cursor(x, page[x]), Cursor(n, row[n]))
  <2>1. /\ Candidate(row[n], sweep.at)
        /\ n \notin DOMAIN page =>
              /\ sweep.full
              /\ \A x \in DOMAIN page : Before(Cursor(x, page[x]), Cursor(n, row[n]))
    BY WorkSteps DEF SweepInv, OwedInv
  <2>2. n \in DOMAIN page => row[n] = page[n]
    BY WorkSteps DEF SweepInv, PageInv
  <2>3. Before(Cursor(m, page[m]), Cursor(n, row[n]))
    BY <1>1, <2>1, <2>2, WorkSteps
  <2>4. n \in Member /\ row[n] \in Row
    BY <1>0
  <2>5. After(Cursor(m, page[m]), n, row[n])
    BY <2>3 DEF After
  <2> QED
    BY <2>1, <2>3, <2>5
<1>8. OwedInv'
  <2> SUFFICES ASSUME NEW n \in (owed \ met)'
               PROVE  /\ sweep'.phase \in {"fetch", "row", "clear"} =>
                            Candidate(row[n], sweep.at)' /\ After(sweep.cur, n, row[n])'
                      /\ sweep'.phase = "row" /\ n \notin DOMAIN page' =>
                            /\ sweep'.full
                            /\ \A x \in DOMAIN page' :
                                  Before(Cursor(x, page[x]), Cursor(n, row[n]))'
                      /\ sweep'.phase # "clear"
    BY DEF OwedInv
  <2>1. n \in owed \ (met \cup {m}) /\ row'[n] = row[n] /\ n \in Member
    BY <1>0, WorkSteps
  <2>2. Candidate(row[n], sweep.at)' /\ After(sweep.cur, n, row[n])'
    BY <1>7, <2>1, WorkSteps
  <2>3. n \in DOMAIN page \/ sweep.full
    BY <1>7, <2>1
  <2>4. sweep'.phase # "clear"
    BY <2>1, <2>3, WorkSteps
  <2>5. ASSUME sweep'.phase = "row", n \notin DOMAIN page'
        PROVE  /\ sweep'.full
               /\ \A x \in DOMAIN page' : Before(Cursor(x, page[x]), Cursor(n, row[n]))'
    <3>1. n \notin DOMAIN page
      BY <2>1, <2>5, WorkSteps
    <3> QED
      BY <1>7, <2>1, <3>1, WorkSteps
  <2> QED
    BY <2>2, <2>4, <2>5
<1> QED
  BY <1>2, <1>3, <1>5, <1>6, <1>8 DEF SweepInv

-----------------------------------------------------------------------------
(* The theorems *)

(* The whitelist starts with no tick and no flush under way.               *)
LEMMA SweepStarts == Init => SweepInv
<1> SUFFICES ASSUME Init PROVE SweepInv
  OBVIOUS
<1>1. row \in [Member -> Row]
  BY TrustAssumption DEF Init
<1>2. Still \in FlushInfo /\ Still.step = "none"
  BY DEF Still, Doing, FlushInfo, Level
<1>3. TypeOK
  BY <1>1, <1>2 DEF Init, TypeOK, Resting, Phase, Place
<1>4. ClockInv
  BY <1>2 DEF Init, ClockInv, Resting
<1>5. MetInv /\ PageInv /\ OwedInv
  BY DEF Init, Resting, MetInv, PageInv, OwedInv
<1> QED
  BY <1>3, <1>4, <1>5 DEF SweepInv

(* Every step keeps the invariant.                                         *)
LEMMA SweepSteps == SweepInv /\ [Next]_vars => SweepInv'
<1> SUFFICES ASSUME SweepInv, [Next]_vars PROVE SweepInv'
  OBVIOUS
<1>1. CASE SaveCursor \/ ClearCursor \/ Die
  <2>1. EndOfTick /\ UNCHANGED <<now, row, log, flush, ops>>
    BY <1>1 DEF SaveCursor, ClearCursor, Die
  <2>2. saved' \in Place
    BY <1>1 DEF SaveCursor, ClearCursor, Die, SweepInv, TypeOK, Place
  <2>3. faults \in Nat /\ (faults' = faults \/ faults' = faults + 1)
    BY <1>1 DEF SaveCursor, ClearCursor, Die, Fault, SweepInv, TypeOK
  <2>4. faults' \in Nat
    BY <2>3
  <2> QED
    BY <2>1, <2>2, <2>4, EndKeeps
<1>2. CASE Tick
  <2>1. /\ now \in Nat /\ now' = now + 1 /\ sweep.at \in Nat
        /\ UNCHANGED <<row, log, saved, sweep, page, met, flush, faults, ops, owed>>
        /\ \A m \in Member : flush[m].step # "none" => now + 1 - flush[m].time < Idle
    BY <1>2 DEF Tick, tick, SweepInv, TypeOK
  <2>2. TypeOK'
    BY <2>1 DEF SweepInv, TypeOK
  <2>3. ClockInv'
    <3>1. sweep.at <= now + 1
      BY <2>1 DEF SweepInv, ClockInv
    <3>2. sweep'.at <= now' /\ flush' = flush /\ now' = now + 1
      BY <2>1, <3>1
    <3>3. ASSUME NEW m \in Member, flush[m].step # "none"
          PROVE  now' - flush[m].time < Idle
      <4>1. flush[m].time \in Nat /\ now \in Nat /\ Idle \in Nat
        BY TrustAssumption DEF SweepInv, TypeOK, FlushInfo
      <4>2. now + 1 - flush[m].time < Idle
        BY <2>1, <3>3
      <4> QED
        BY <3>2, <4>1, <4>2
    <3> QED
      BY <3>2, <3>3 DEF ClockInv
  <2>4. MetInv' /\ PageInv' /\ OwedInv'
    BY <2>1 DEF SweepInv, MetInv, PageInv, OwedInv, Ahead
  <2> QED
    BY <2>2, <2>3, <2>4 DEF SweepInv
<1>3. CASE UNCHANGED vars
  BY <1>3 DEF vars, tick, SweepInv, TypeOK, ClockInv, MetInv, PageInv, OwedInv, Ahead
<1>4. CASE \E m \in Busy : \/ Post(m) \/ CountReads(m) \/ FlushStep(m)
                          \/ SetAdmin(m) \/ SetByHand(m)
  BY <1>4, OthersKeep, TrustAssumption
<1> QED
  BY <1>1, <1>2, <1>3, <1>4, StartKeeps, FetchKeeps, WorkKeeps DEF Next, SweepStep

(* Every reachable state satisfies the invariant.                          *)
THEOREM SweepInvariant == Spec => []SweepInv
BY SweepStarts, SweepSteps, PTL DEF Spec

(* The rows, the cursor, the page and the flushes have their types.        *)
THEOREM TrustTypes == Spec => []TypeOK
<1>1. SweepInv => TypeOK
  BY DEF SweepInv
<1> QED
  BY <1>1, SweepInvariant, PTL

(* Keyset paging meets every member it owes a visit once: none is skipped  *)
(* when rows leave the query, none is met twice when rows come back.       *)
THEOREM SweepMeetsOnce == Spec => []EachMetOnce
<1>1. SweepInv => EachMetOnce
  BY DEF SweepInv, EachMetOnce, MetInv, OwedInv
<1> QED
  BY <1>1, SweepInvariant, PTL

(* A demotion is written down exactly when it happens, to a member who     *)
(* deserves it then.                                                       *)
THEOREM DemotionsAreEarned == Spec => DemotionIsEarned
<1> DEFINE Earnt == \A e \in log' \ log :
               LET r == row[e.who]
               IN  /\ Demotable(r, now) /\ e.from = r.level
                   /\ e.to < e.from /\ row'[e.who].level = e.to
<1>1. SweepInv /\ [Next]_vars => [Earnt]_vars
  <2> SUFFICES ASSUME SweepInv, Next PROVE Earnt
    OBVIOUS
  <2>1. CASE UNCHANGED log
    BY <2>1
  <2>2. ASSUME NEW m \in Member, WorkRow(m), Commit(m) PROVE Earnt
    <3>1. m \in DOMAIN page /\ row[m] = page[m] /\ row[m] \in Row
      BY <2>2, WorkSteps DEF Commit
    <3>2. log' = log \cup {[who |-> m, from |-> row[m].level, to |-> Lowered(row[m]),
                            at |-> sweep.at]}
      BY <2>2, <3>1 DEF Commit
    <3>3. row'[m].level = Lowered(row[m])
      BY <2>2, <3>1, CommitWrites DEF SweepInv
    <3>4. Demotable(row[m], sweep.at) /\ row[m].level \in {1, 2}
      BY <2>2, <3>1 DEF Commit, Demotable
    <3>5. Demotable(row[m], now)
      <4>1. /\ sweep.at \in Nat /\ now \in Nat /\ sweep.at <= now
            /\ row[m].active \in Nat /\ Idle \in Nat
        BY <3>1, TrustAssumption DEF SweepInv, TypeOK, ClockInv, Row
      <4>2. sweep.at - row[m].active >= Idle
        BY <3>4 DEF Demotable
      <4>3. now - row[m].active >= Idle
        BY <4>1, <4>2
      <4> QED
        BY <3>4, <4>3 DEF Demotable
    <3>6. Lowered(row[m]) < row[m].level
      BY <3>1, <3>4, LoweredType
    <3> QED
      BY <3>2, <3>3, <3>5, <3>6
  <2>3. ASSUME NEW m \in Member, WorkRow(m) PROVE Commit(m) \/ UNCHANGED log
    BY <2>3 DEF WorkRow
  <2>4. SaveCursor \/ ClearCursor \/ Die \/ StartTick \/ FetchPage \/ Tick => UNCHANGED log
    BY DEF SaveCursor, ClearCursor, Die, StartTick, FetchPage, Tick
  <2>5. ASSUME NEW m \in Busy,
               Post(m) \/ CountReads(m) \/ FlushStep(m) \/ SetAdmin(m) \/ SetByHand(m)
        PROVE  UNCHANGED log
    BY <2>5 DEF Post, CountReads, FlushStep, ReadStamp, WriteStamp, CheckPromotion,
       Promote, SetAdmin, SetByHand
  <2> QED
    BY <2>1, <2>2, <2>3, <2>4, <2>5 DEF Next, SweepStep
<1> QED
  BY <1>1, SweepInvariant, PTL DEF Spec, DemotionIsEarned
=============================================================================
