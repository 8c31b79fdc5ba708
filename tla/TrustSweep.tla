----------------------------- MODULE TrustSweep -----------------------------
(***************************************************************************)
(* Trust levels of the relay's whitelist: the cron that lowers the level   *)
(* of members who stay away (sweep_inactive_demotions), and the flush of a *)
(* member's activity that raises it (flush_activity, check_promotion).     *)
(*                                                                         *)
(* The sweep reads its candidates a page at a time, ordered by             *)
(* (last_active_at, pubkey) after a cursor, decides on the rows as it read *)
(* them and commits each demotion on the condition that the row still      *)
(* looks the same.  A tick that reaches its ceiling, or cannot read a      *)
(* page, leaves its cursor to the next one.  Meanwhile members come back,  *)
(* post, become admins and are promoted, one awaited statement at a time,  *)
(* any statement may fail and the tick may die.                            *)
(*                                                                         *)
(* posts stands for posts_read and posts_created, which are counted and    *)
(* compared alike; a unit of the clock is a UTC day.  The settings do not  *)
(* change, rows are not removed, and of the admin_log only the entries of  *)
(* demotions are kept.                                                     *)
(***************************************************************************)
EXTENDS Integers, FiniteSets

CONSTANTS
    Member,    \* the pubkeys on the whitelist
    Busy,      \* bound: the members who come back or are changed by hand
    None,      \* no cursor
    rank,      \* the order of the pubkeys
    Start,     \* the rows a member may start with
    need,      \* the counts that earn level 1 and level 2
    keep,      \* the counts that keep them: demotion_hysteresis_pct of need
    Idle,      \* inactivity_demotion_secs
    PageSize,  \* DEMOTION_BATCH_SIZE
    MaxRows,   \* DEMOTION_MAX_ROWS
    MaxTime,   \* bound: the clock stops here
    MaxPosts,  \* bound: the highest post count
    MaxFaults, \* bound: failed statements and dead ticks
    MaxOps     \* bound: the changes an operator makes by hand

Level == 0..3
Count == [days : Nat, posts : Nat]
Row == [level : Level, days : Nat, posts : Nat, mod : BOOLEAN,
        admin : BOOLEAN, active : Nat, updated : Nat]

ASSUME TrustAssumption ==
    /\ IsFiniteSet(Member) /\ Busy \subseteq Member
    /\ rank \in [Member -> Nat] /\ \A m, n \in Member : rank[m] = rank[n] => m = n
    /\ Start \in [Member -> SUBSET Row]
    /\ need \in [1..2 -> Count] /\ keep \in [1..2 -> Count]
    /\ {Idle, PageSize, MaxRows} \subseteq Nat \ {0}
    /\ {MaxTime, MaxPosts, MaxFaults, MaxOps} \subseteq Nat
    /\ None \notin [active : Nat, who : Member]

VARIABLES
    now,    \* the clock
    row,    \* whitelist
    log,    \* admin_log: the demotions
    saved,  \* trust_sweep_state: the cursor a tick leaves behind
    sweep,  \* what the tick is doing
    page,   \* the rows of its page it has not worked off, as it read them
    flush,  \* what the flush of a member is doing
    faults, \* failures so far
    ops,    \* changes by hand so far
    met,    \* history: the members this tick has worked off
    owed    \* history: the candidates it started with, untouched since

tick == <<sweep, page, met>>
vars == <<now, row, log, saved, tick, flush, faults, ops, owed>>

Fault == faults < MaxFaults /\ faults' = faults + 1

-----------------------------------------------------------------------------
(* The policy (trust.rs) *)

Reaches(r, least) == r.days >= least.days /\ r.posts >= least.posts

\* compute_trust_level
Earned(r) ==
    IF Reaches(r, need[2]) /\ ~r.mod THEN 2
    ELSE IF Reaches(r, need[1]) THEN 1 ELSE 0

BreaksBand(r) == ~Reaches(r, keep[r.level]) \/ (r.level = 2 /\ r.mod)

\* decide_demotion: whether, and where to.
Demotable(r, time) ==
    /\ r.level \in {1, 2}
    /\ ~r.admin
    /\ time - r.active >= Idle
    /\ BreaksBand(r)

Lowered(r) == IF r.level = 2 /\ Earned(r) >= 1 THEN 1 ELSE 0

-----------------------------------------------------------------------------
(* The sweep (trust_sweep.rs) *)

Cursor(m, r) == [active |-> r.active, who |-> m]

\* The order of the pages: last_active_at, then pubkey.
Before(a, b) ==
    \/ a.active < b.active
    \/ a.active = b.active /\ rank[a.who] < rank[b.who]

After(cur, m, r) == cur = None \/ Before(cur, Cursor(m, r))

Candidate(r, time) == /\ r.level \in {1, 2}
                      /\ r.active <= time - Idle
                      /\ ~r.admin

Candidates(cur, time) ==
    {m \in Member : Candidate(row[m], time) /\ After(cur, m, row[m])}

\* Mutated form: ORDER BY last_active_at alone.
FirstPageTied(S, rest) ==
    /\ S \subseteq rest
    /\ Cardinality(S) <= PageSize
    /\ S = rest \/ Cardinality(S) = PageSize
    /\ \A m \in S, n \in rest \ S : row[m].active <= row[n].active

\* ORDER BY last_active_at, pubkey LIMIT PageSize
FirstPage(S, rest) ==
    /\ S \subseteq rest
    /\ Cardinality(S) <= PageSize
    /\ S = rest \/ Cardinality(S) = PageSize
    /\ \A m \in S, n \in rest \ S : Before(Cursor(m, row[m]), Cursor(n, row[n]))

Resting == [phase |-> "idle", at |-> 0, cur |-> None, scanned |-> 0, full |-> FALSE]

EndOfTick ==
    /\ sweep' = Resting
    /\ page' = [m \in {} |-> row[m]]
    /\ met' = {}
    /\ owed' = {}

\* The tick takes the time and reads the cursor the last one left.
StartTick ==
    /\ sweep.phase = "idle"
    /\ sweep' = [Resting EXCEPT !.phase = "fetch", !.at = now, !.cur = saved]
    /\ page' = [m \in {} |-> row[m]]
    /\ met' = {}
    /\ owed' = Candidates(saved, now)
    /\ UNCHANGED <<now, row, log, saved, flush, faults, ops>>

\* A page that cannot be read aborts the tick, which saves how far it came.
FetchPage ==
    /\ sweep.phase = "fetch"
    /\ \/ \E found \in SUBSET Member :
              /\ FirstPage(found, Candidates(sweep.cur, sweep.at))
              /\ sweep' = [sweep EXCEPT
                     !.phase = IF found = {} THEN "clear" ELSE "row",
                     !.full = Cardinality(found) = PageSize]
              /\ page' = [m \in found |-> row[m]]
              /\ UNCHANGED <<faults, met, owed>>
       \/ Fault /\ sweep.scanned = 0 /\ EndOfTick
       \/ /\ Fault
          /\ sweep.scanned # 0
          /\ sweep' = [sweep EXCEPT !.phase = "save"]
          /\ UNCHANGED <<page, met, owed>>
    /\ UNCHANGED <<now, row, log, saved, flush, ops>>

IsNext(m) ==
    /\ m \in DOMAIN page
    /\ \A n \in DOMAIN page \ {m} : Before(Cursor(m, page[m]), Cursor(n, page[n]))

\* Mutated form: the commit is conditioned on the level alone.
CommitOnLevel(m) ==
    LET old == page[m]
        to == Lowered(old)
    IN  /\ Demotable(old, sweep.at)
        /\ row[m].level = old.level
        /\ row' = [row EXCEPT ![m].level = to, ![m].updated = sweep.at]
        /\ log' = log \cup {[who |-> m, from |-> old.level, to |-> to, at |-> sweep.at]}

\* commit_demotion_d1: the UPDATE and its audit are one batch, and every column
\* the decision looked at must be as it was read.
Commit(m) ==
    LET old == page[m]
        to == Lowered(old)
    IN  /\ Demotable(old, sweep.at)
        /\ row[m] = old
        /\ row' = [row EXCEPT ![m].level = to, ![m].updated = sweep.at]
        /\ log' = log \cup {[who |-> m, from |-> old.level, to |-> to, at |-> sweep.at]}

\* The cursor moves over every row: one that is demoted, one that is held or has
\* changed, and one whose batch fails.  The ceiling is looked at after each.
WorkRow(m) ==
    LET due == Demotable(page[m], sweep.at) /\ row[m] = page[m]
        full == sweep.scanned + 1 >= MaxRows
        left == IF full THEN {} ELSE DOMAIN page \ {m}
    IN  /\ sweep.phase = "row"
        /\ IsNext(m)
        /\ \/ Commit(m) /\ UNCHANGED faults
           \/ due /\ Fault /\ UNCHANGED <<row, log>>
           \/ ~due /\ UNCHANGED <<row, log, faults>>
        /\ sweep' = [sweep EXCEPT
               !.cur = Cursor(m, page[m]),
               !.scanned = @ + 1,
               !.phase = CASE full -> "save"
                           [] ~full /\ left # {} -> "row"
                           [] ~full /\ left = {} /\ sweep.full -> "fetch"
                           [] ~full /\ left = {} /\ ~sweep.full -> "clear"]
        /\ page' = [n \in left |-> page[n]]
        /\ met' = met \cup {m}
        /\ UNCHANGED <<now, saved, flush, ops, owed>>

\* Mutated form: a tick that reached its ceiling leaves no cursor.
SaveNothing ==
    /\ sweep.phase = "save"
    /\ EndOfTick
    /\ UNCHANGED <<now, row, log, saved, flush, faults, ops>>

\* trust_sweep_state after a tick that was cut short.
SaveCursor ==
    /\ sweep.phase = "save"
    /\ \/ saved' = sweep.cur /\ UNCHANGED faults
       \/ Fault /\ UNCHANGED saved
    /\ EndOfTick
    /\ UNCHANGED <<now, row, log, flush, ops>>

\* The candidates are exhausted: the next tick starts at the first.
ClearCursor ==
    /\ sweep.phase = "clear"
    /\ \/ saved' = None /\ UNCHANGED faults
       \/ Fault /\ UNCHANGED saved
    /\ EndOfTick
    /\ UNCHANGED <<now, row, log, flush, ops>>

\* The tick is evicted: what it committed stays, its cursor is lost.
Die ==
    /\ sweep.phase # "idle"
    /\ Fault
    /\ EndOfTick
    /\ UNCHANGED <<now, row, log, saved, flush, ops>>

-----------------------------------------------------------------------------
(* The activity of a member (trust.rs, nip_handlers.rs) *)

Doing(step, time) == [step |-> step, time |-> time, to |-> 0, newDay |-> FALSE]
Still == Doing("none", 0)

\* Other code than the sweep's writes the row of m.
Write(m, r) ==
    /\ row' = [row EXCEPT ![m] = r]
    /\ owed' = owed \ {m}

\* increment_posts_created, once for every accepted event.
Post(m) ==
    /\ row[m].posts < MaxPosts
    /\ Write(m, [row[m] EXCEPT !.posts = @ + 1])
    /\ UNCHANGED <<now, log, saved, tick, flush, faults, ops>>

\* flush_activity: the reads of the window, if there were any and the write
\* does not fail; then the time is taken.
CountReads(m) ==
    /\ flush[m].step = "none"
    /\ \/ /\ row[m].posts < MaxPosts
          /\ Write(m, [row[m] EXCEPT !.posts = @ + 1])
       \/ UNCHANGED <<row, owed>>
    /\ flush' = [flush EXCEPT ![m] = Doing("look", now)]
    /\ UNCHANGED <<now, log, saved, tick, faults, ops>>

\* update_last_active reads when the member was last seen; a failed read counts
\* as never.
ReadStamp(m) ==
    /\ flush[m].step = "look"
    /\ \/ /\ flush' = [flush EXCEPT ![m].step = "stamp",
                                   ![m].newDay = row[m].active < flush[m].time]
          /\ UNCHANGED faults
       \/ /\ flush' = [flush EXCEPT ![m].step = "stamp", ![m].newDay = TRUE]
          /\ Fault
    /\ UNCHANGED <<now, row, log, saved, tick, ops, owed>>

WriteStamp(m) ==
    /\ flush[m].step = "stamp"
    /\ flush' = [flush EXCEPT ![m].step = "check"]
    /\ \/ /\ Write(m, [row[m] EXCEPT
                !.active = flush[m].time,
                !.days = IF flush[m].newDay THEN @ + 1 ELSE @])
          /\ UNCHANGED faults
       \/ Fault /\ UNCHANGED <<row, owed>>
    /\ UNCHANGED <<now, log, saved, tick, ops>>

\* check_promotion reads the row, and raises only a level below 3 that is below
\* what the counts earn.
CheckPromotion(m) ==
    /\ flush[m].step = "check"
    /\ \/ /\ row[m].level # 3 /\ Earned(row[m]) > row[m].level
          /\ flush' = [flush EXCEPT ![m].step = "raise", ![m].to = Earned(row[m])]
          /\ UNCHANGED faults
       \/ /\ row[m].level # 3 => Earned(row[m]) <= row[m].level
          /\ flush' = [flush EXCEPT ![m] = Still]
          /\ UNCHANGED faults
       \/ Fault /\ flush' = [flush EXCEPT ![m] = Still]
    /\ UNCHANGED <<now, row, log, saved, tick, ops, owed>>

\* The UPDATE names the row and nothing else.
Promote(m) ==
    /\ flush[m].step = "raise"
    /\ flush' = [flush EXCEPT ![m] = Still]
    /\ \/ /\ Write(m, [row[m] EXCEPT !.level = flush[m].to, !.updated = now])
          /\ UNCHANGED faults
       \/ Fault /\ UNCHANGED <<row, owed>>
    /\ UNCHANGED <<now, log, saved, tick, ops>>

-----------------------------------------------------------------------------
\* The whitelist endpoint gives or takes the admin role.
SetAdmin(m) ==
    /\ ops < MaxOps
    /\ ops' = ops + 1
    /\ Write(m, [row[m] EXCEPT !.admin = ~@])
    /\ UNCHANGED <<now, log, saved, tick, flush, faults>>

\* No code of the repository grants a level or counts a mod action: an operator
\* does, in the database.
SetByHand(m) ==
    /\ ops < MaxOps
    /\ ops' = ops + 1
    /\ \/ \E l \in Level \ {row[m].level} : Write(m, [row[m] EXCEPT !.level = l])
       \/ ~row[m].mod /\ Write(m, [row[m] EXCEPT !.mod = TRUE])
    /\ UNCHANGED <<now, log, saved, tick, flush, faults>>

\* A flush takes seconds, the window is half a year: none outlives it.
Tick ==
    /\ now < MaxTime
    /\ \A m \in Member : flush[m].step # "none" => now + 1 - flush[m].time < Idle
    /\ now' = now + 1
    /\ UNCHANGED <<row, log, saved, tick, flush, faults, ops, owed>>

Init ==
    /\ now = 1
    /\ row \in [Member -> UNION {Start[m] : m \in Member}]
    /\ \A m \in Member : row[m] \in Start[m]
    /\ log = {}
    /\ saved = None
    /\ sweep = Resting
    /\ page = [m \in {} |-> row[m]]
    /\ flush = [m \in Member |-> Still]
    /\ faults = 0
    /\ ops = 0
    /\ met = {}
    /\ owed = {}

SweepStep ==
    \/ StartTick \/ FetchPage \/ SaveCursor \/ ClearCursor
    \/ \E m \in Member : WorkRow(m)

FlushStep(m) == ReadStamp(m) \/ WriteStamp(m) \/ CheckPromotion(m) \/ Promote(m)

Next ==
    \/ SweepStep \/ Die \/ Tick
    \/ \E m \in Busy : \/ Post(m) \/ CountReads(m) \/ FlushStep(m)
                        \/ SetAdmin(m) \/ SetByHand(m)

Spec == Init /\ [][Next]_vars

\* The cron runs every tick again, and a statement is answered.
FairSpec == Spec /\ WF_vars(SweepStep)

-----------------------------------------------------------------------------
Phase == {"idle", "fetch", "row", "save", "clear"}
FlushInfo == [step : {"none", "look", "stamp", "check", "raise"},
              time : Nat, to : Level, newDay : BOOLEAN]
Place == [active : Nat, who : Member] \cup {None}

TypeOK ==
    /\ now \in Nat
    /\ row \in [Member -> Row]
    /\ log \subseteq [who : Member, from : Level, to : Level, at : Nat]
    /\ saved \in Place
    /\ sweep \in [phase : Phase, at : Nat, cur : Place, scanned : Nat, full : BOOLEAN]
    /\ DOMAIN page \subseteq Member
    /\ \A m \in DOMAIN page : page[m] \in Row
    /\ flush \in [Member -> FlushInfo]
    /\ faults \in Nat /\ ops \in Nat
    /\ met \subseteq Member /\ owed \subseteq Member

\* A demotion is written down if and only if it happened, and it happens only to
\* a member who, at that moment and not just when the page was read, is no
\* admin, is at level 1 or 2, has been away for the whole window and no longer
\* keeps the level.
DemotionIsEarned ==
    [][\A e \in log' \ log :
           LET r == row[e.who]
           IN  /\ Demotable(r, now) /\ e.from = r.level
               /\ e.to < e.from /\ row'[e.who].level = e.to]_vars

\* Within a tick no member is worked off twice, and a tick that reaches the end
\* of the candidates has met each one that was due for it when it started and
\* that nobody wrote to since, though its own demotions remove rows from the
\* query it pages through.
EachMetOnce ==
    /\ sweep.phase # "idle" => Cardinality(met) = sweep.scanned
    /\ sweep.phase = "clear" => owed \subseteq met

\* A member who is due for a demotion gets it or ceases to be due: the rows the
\* policy holds, the ceiling of a tick and its failures only delay it.
IdleAreDemoted == \A m \in Member : Demotable(row[m], now) ~> ~Demotable(row[m], now)

=============================================================================
