------------------------- MODULE RelaySessionProofs -------------------------
(***************************************************************************)
(* Proofs about RelaySession: the invariants that keep session ids,        *)
(* identities and subscriptions apart across sleeps and restarts, then the *)
(* delivery of what is published and the refinement of a relay that never  *)
(* sleeps.                                                                 *)
(***************************************************************************)
EXTENDS RelaySession, FiniteSetTheorems, TLAPS

(* Only an open socket is in the map; the runtime loses all of the map or  *)
(* none of it; an open socket's id lies below the mark and, once it is in  *)
(* the map, below the counter.                                             *)
MapInv ==
    /\ \A s \in Socket : Tracked(s) => s \in Open
    /\ \A s \in Socket : ~Tracked(s) => session[s] = NoSession
    /\ \A s, r \in Open : Tracked(s) => Tracked(r)
    /\ \A s \in Open : /\ sid[s] \in Id /\ sid[s] < mark
                       /\ Tracked(s) => sid[s] < next

Dirty(id) == rows[id].subs # {} \/ rows[id].authed # None
Orphan(id) == Dirty(id) /\ \A s \in Open : sid[s] # id

(* Rows left behind by a restart lie below every id still to be issued.    *)
OrphanInv ==
    \A id \in Id :
        Orphan(id) => /\ id < mark
                      /\ next = 1 \/ id < next
                      /\ \A s \in Open : id < sid[s]

(* An identity in memory or in a row is that of the socket's own client.   *)
OwnInv ==
    \A s \in Open : /\ session[s].authed \in {None} \cup ({s} \cap proved)
                    /\ rows[sid[s]].authed \in {None} \cup ({s} \cap proved)

(* Where no storage call failed, memory and rows say the same.             *)
SameInv ==
    \A s \in Open \ spoiled :
        Tracked(s) => /\ session[s].subs = rows[sid[s]].subs
                      /\ session[s].authed = rows[sid[s]].authed

SessionInv == TypeOK /\ MapInv /\ DistinctIds /\ OrphanInv /\ OwnInv /\ SameInv

-----------------------------------------------------------------------------
(* Recovery.                                                               *)

LEMMA NoTypes ==
    /\ NoChallenge \in Challenge /\ NoRows \in Row /\ NoSession \in SessionInfo
    /\ NoReq \in Request
BY DEF NoChallenge, Challenge, NoRows, Row, NoSession, SessionInfo, NoReq, Request

\* A loaded row holds what was stored, or nothing where a read failed.
LEMMA LoadedRow ==
    ASSUME TypeOK, NEW bad, NEW id \in Id
    PROVE  /\ Loaded(id, bad) \in Row
           /\ Loaded(id, bad).subs \in {{}, rows[id].subs}
           /\ Loaded(id, bad).authed \in {None, rows[id].authed}
<1>1. rows[id] \in Row
  BY DEF TypeOK
<1>2. NoChallenge \in Challenge
  BY NoTypes
<1> QED
  BY <1>1, <1>2 DEF Loaded, Row

(* A recovery touches the sessions that were missing only, and restores    *)
(* what their rows hold, or nothing where a read failed.                   *)
LEMMA Recovered ==
    ASSUME TypeOK, MapInv, NEW bad
    PROVE  /\ SessionsFound(bad) \in [Socket -> SessionInfo]
           /\ \A s \in Socket \ Missing : SessionsFound(bad)[s] = session[s]
           /\ \A s \in Missing :
                 /\ SessionsFound(bad)[s].on
                 /\ SessionsFound(bad)[s].subs \in {{}, rows[sid[s]].subs}
                 /\ SessionsFound(bad)[s].authed \in {None, rows[sid[s]].authed}
           /\ \A s \in Missing \ Spoilt(bad) :
                 /\ SessionsFound(bad)[s].subs = rows[sid[s]].subs
                 /\ SessionsFound(bad)[s].authed = rows[sid[s]].authed
<1>1. Missing \subseteq Socket /\ \A s \in Missing : s \in Open /\ sid[s] \in Id
  BY DEF Missing, MapInv, Open
<1>2. \A s \in Missing : Fresh(s) \in Challenge
  BY <1>1 DEF Fresh, Challenge, TypeOK
<1>3. \A s \in Missing : Loaded(sid[s], bad) \in Row
  BY <1>1, LoadedRow
<1>4. SessionsFound(bad) \in [Socket -> SessionInfo]
  <2>1. ASSUME NEW s \in Socket PROVE SessionsFound(bad)[s] \in SessionInfo
    <3>1. CASE s \in Missing
      BY <3>1, <1>2, <1>3 DEF SessionsFound, SessionInfo, Row
    <3>2. CASE s \notin Missing
      BY <3>2 DEF SessionsFound, TypeOK
    <3> QED
      BY <3>1, <3>2
  <2> QED
    BY <2>1 DEF SessionsFound
<1>5. \A s \in Socket \ Missing : SessionsFound(bad)[s] = session[s]
  BY DEF SessionsFound
<1>6. \A s \in Missing : /\ SessionsFound(bad)[s].on
                         /\ SessionsFound(bad)[s].subs = Loaded(sid[s], bad).subs
                         /\ SessionsFound(bad)[s].authed = Loaded(sid[s], bad).authed
  BY <1>1 DEF SessionsFound
<1>7. ASSUME NEW s \in Missing, s \notin Spoilt(bad)
      PROVE  /\ Loaded(sid[s], bad).subs = rows[sid[s]].subs
             /\ Loaded(sid[s], bad).authed = rows[sid[s]].authed
  <2>1. \A b \in bad : b[2] # sid[s]
    BY <1>1, <1>7 DEF Spoilt
  <2>2. <<"get", sid[s], "subs">> \notin bad /\ <<"get", sid[s], "authed">> \notin bad
    BY <2>1
  <2> QED
    BY <2>2 DEF Loaded
<1> QED
  BY <1>1, <1>4, <1>5, <1>6, <1>7, LoadedRow

\* A recovery leaves stored subscriptions and identities as they are.
LEMMA RecoveredRows ==
    ASSUME TypeOK, NEW bad
    PROVE  /\ RowsFound(bad) \in [Id -> Row]
           /\ \A id \in Id : /\ RowsFound(bad)[id].subs = rows[id].subs
                             /\ RowsFound(bad)[id].authed = rows[id].authed
<1>1. ASSUME NEW id \in Id
      PROVE  /\ RowsFound(bad)[id] \in Row
             /\ RowsFound(bad)[id].subs = rows[id].subs
             /\ RowsFound(bad)[id].authed = rows[id].authed
  <2>0. rows[id] \in Row
    BY DEF TypeOK
  <2>1. CASE Persisted(id, bad) = {}
    BY <2>0, <2>1 DEF RowsFound
  <2>2. CASE Persisted(id, bad) # {}
    <3> DEFINE r == CHOOSE s \in Persisted(id, bad) : TRUE
    <3>1. r \in Persisted(id, bad)
      BY <2>2
    <3>2. RowsFound(bad)[id] = [rows[id] EXCEPT !.chal = Fresh(r)]
      BY <2>2 DEF RowsFound
    <3> HIDE DEF r
    <3>3. Fresh(r) \in Challenge
      BY <3>1 DEF Persisted, Reissued, Missing, Open, Fresh, Challenge, TypeOK
    <3> QED
      BY <2>0, <3>2, <3>3 DEF Row
  <2> QED
    BY <2>1, <2>2
<1> QED
  BY <1>1 DEF RowsFound

\* It counts the challenges it sends.
LEMMA RecoveredHeard ==
    ASSUME TypeOK, NEW bad
    PROVE  HeardFound(bad) \in [Socket -> Nat]
BY DEF HeardFound, TypeOK

(* The counter a recovery ends with lies ahead of every open socket.       *)
LEMMA AheadOfOpen ==
    ASSUME TypeOK, MapInv, NEW n, AheadOfAll(n), n \in Nat
    PROVE  /\ n >= next
           /\ \A s \in Open : sid[s] < n
<1>1. n >= next /\ \A s \in Missing : n > sid[s]
  BY DEF AheadOfAll, Ahead
<1>2. ASSUME NEW s \in Open PROVE sid[s] < n
  <2>1. CASE Tracked(s)
    BY <1>1, <2>1 DEF MapInv, TypeOK, Id
  <2>2. CASE ~Tracked(s)
    BY <1>1, <1>2, <2>2 DEF MapInv, TypeOK, Id, Missing
  <2> QED
    BY <2>1, <2>2
<1> QED
  BY <1>1, <1>2

(* The id a new connection gets is above every open socket's and every     *)
(* orphan's, so its rows are clean but for a challenge.                    *)
LEMMA NewId ==
    ASSUME TypeOK, MapInv, OrphanInv, NEW n \in 1 .. MaxId, AheadOfAll(n),
           NEW bad, <<"mark", 0, "get">> \notin bad
    PROVE  /\ Allocated(n, bad) \in Nat \ {0}
           /\ Allocated(n, bad) >= n
           /\ \A s \in Open : sid[s] < Allocated(n, bad)
           /\ \A id \in Id : Orphan(id) => id < Allocated(n, bad)
<1> DEFINE new == Allocated(n, bad)
<1>1. n \in Nat \ {0} /\ next \in Nat \ {0} /\ mark \in Nat
  BY SessionAssumption DEF TypeOK
<1>2. n >= next /\ \A s \in Open : sid[s] < n /\ sid[s] \in Nat \ {0}
  BY <1>1, AheadOfOpen DEF MapInv, Id
<1>3. CASE n = 1
  <2>1. Open = {} /\ next = 1
    BY <1>1, <1>2, <1>3
  <2>2. new = IF mark > 1 THEN mark ELSE 1
    BY <1>3 DEF Allocated
  <2>3. \A id \in Id : Orphan(id) => id < mark
    BY DEF OrphanInv
  <2>4. \A id \in Id : Orphan(id) => id < new
    BY <1>1, <2>2, <2>3 DEF Id
  <2> HIDE DEF new
  <2> QED
    BY <1>1, <1>3, <2>1, <2>2, <2>4 DEF new
<1>4. CASE n # 1
  <2>1. new = n
    BY <1>4 DEF Allocated
  <2>2. ASSUME NEW id \in Id, Orphan(id) PROVE id < n
    <3>1. CASE next # 1
      BY <1>1, <1>2, <2>2, <3>1 DEF OrphanInv, Id
    <3>2. CASE next = 1
      <4>1. 1 \in 1 .. n - 1 /\ ~Ahead(1)
        BY <1>1, <1>4 DEF AheadOfAll
      <4>2. PICK s \in Missing : ~(1 > sid[s])
        BY <3>2, <4>1 DEF Ahead
      <4>3. s \in Open /\ sid[s] < n
        BY <1>2, <4>2 DEF Missing
      <4> QED
        BY <1>1, <1>2, <2>2, <4>3 DEF OrphanInv, Id
    <3> QED
      BY <3>1, <3>2
  <2> QED
    BY <1>1, <1>2, <2>1, <2>2
<1> QED
  BY <1>3, <1>4

-----------------------------------------------------------------------------
(* The session invariant, action by action.                                *)

LEMMA InitSession == Init => SessionInv
<1> SUFFICES ASSUME Init PROVE SessionInv
  OBVIOUS
<1>1. TypeOK
  <2>1. MaxId \in Nat /\ 1 \in 1 .. MaxId + 1 /\ 0 \in 0 .. MaxId /\ 0 \in 0 .. MaxId + 1
    BY SessionAssumption
  <2> QED
    BY <2>1, NoTypes DEF Init, TypeOK
<1>2. Open = {} /\ \A s \in Socket : ~Tracked(s) /\ session[s] = NoSession
  BY DEF Init, Open, Tracked, NoSession
<1>3. \A id \in Id : ~Orphan(id)
  BY DEF Init, Orphan, Dirty, NoRows
<1> QED
  BY <1>1, <1>2, <1>3 DEF SessionInv, MapInv, DistinctIds, OrphanInv, OwnInv, SameInv

(* A step that leaves sessions, rows and connections alone.                *)
LEMMA AsideStep ==
    ASSUME SessionInv, TypeOK', UNCHANGED <<conn, sid, session, next, mark, rows, proved>>,
           spoiled \subseteq spoiled'
    PROVE  SessionInv'
<1>1. Open' = Open /\ \A s \in Socket : Tracked(s)' <=> Tracked(s)
  BY DEF Open, Tracked
<1>2. MapInv'
  BY <1>1 DEF SessionInv, MapInv, Open
<1>3. DistinctIds'
  BY <1>1 DEF SessionInv, DistinctIds
<1>4. OrphanInv'
  BY <1>1 DEF SessionInv, OrphanInv, Orphan, Dirty
<1>5. OwnInv'
  BY <1>1 DEF SessionInv, OwnInv
<1>6. SameInv'
  BY <1>1 DEF SessionInv, SameInv, Open
<1> QED
  BY <1>2, <1>3, <1>4, <1>5, <1>6 DEF SessionInv

(* A frame of a tracked session s: it ends with subscriptions subs and     *)
(* identity who, saved unless a write failed.                              *)
LEMMA FrameStep ==
    ASSUME SessionInv, TypeOK', NEW s \in Socket, Tracked(s),
           UNCHANGED <<conn, sid, next, mark>>,
           NEW subs, NEW who \in {None} \cup ({s} \cap proved'), proved \subseteq proved',
           \A r \in Socket \ {s} : session'[r] = session[r],
           session'[s].on, session'[s].subs = subs, session'[s].authed = who,
           \A id \in Id \ {sid[s]} : rows'[id] = rows[id],
           rows'[sid[s]].authed \in {rows[sid[s]].authed, who},
           spoiled \subseteq spoiled',
           s \notin spoiled' => rows'[sid[s]].subs = subs /\ rows'[sid[s]].authed = who
    PROVE  SessionInv'
<1>1. Open' = Open /\ s \in Open /\ \A r \in Socket : Tracked(r)' <=> Tracked(r)
  <2>1. Open' = Open /\ s \in Open
    BY DEF Open, SessionInv, MapInv
  <2>2. Tracked(s)'
    BY DEF Tracked
  <2>3. ASSUME NEW r \in Socket PROVE Tracked(r)' <=> Tracked(r)
    BY <2>2 DEF Tracked
  <2> QED
    BY <2>1, <2>3
<1>2. \A r \in Open : sid[r] \in Id /\ (r # s => sid[r] # sid[s] /\ rows'[sid[r]] = rows[sid[r]])
  BY <1>1 DEF SessionInv, MapInv, DistinctIds
<1>3. \A r \in Socket : r # s => session'[r] = session[r]
  OBVIOUS
<1>4. MapInv'
  BY <1>1, <1>3 DEF SessionInv, MapInv, Open
<1>5. DistinctIds'
  BY <1>1 DEF SessionInv, DistinctIds
<1>6. OrphanInv'
  <2>1. \A id \in Id : Orphan(id)' => Orphan(id)
    BY <1>1 DEF Orphan, Dirty
  <2> QED
    BY <1>1, <2>1 DEF SessionInv, OrphanInv
<1>7. OwnInv'
  <2>1. ASSUME NEW r \in Open
        PROVE  /\ session'[r].authed \in {None} \cup ({r} \cap proved')
               /\ rows'[sid[r]].authed \in {None} \cup ({r} \cap proved')
    <3>1. /\ session[r].authed \in {None} \cup ({r} \cap proved)
          /\ rows[sid[r]].authed \in {None} \cup ({r} \cap proved)
      BY DEF SessionInv, OwnInv
    <3>2. r \in Socket
      BY DEF Open
    <3> QED
      BY <1>2, <1>3, <3>1, <3>2
  <2> QED
    BY <1>1, <2>1 DEF OwnInv
<1>8. SameInv'
  <2>1. ASSUME NEW r \in Open, r \notin spoiled', Tracked(r)
        PROVE  /\ session'[r].subs = rows'[sid[r]].subs
               /\ session'[r].authed = rows'[sid[r]].authed
    <3>1. r \in Socket
      BY DEF Open
    <3>2. CASE r = s
      BY <2>1, <3>2
    <3>3. CASE r # s
      BY <1>2, <1>3, <2>1, <3>1, <3>3 DEF SessionInv, SameInv
    <3> QED
      BY <3>2, <3>3
  <2> QED
    BY <1>1, <2>1 DEF SameInv, Open
<1> QED
  BY <1>4, <1>5, <1>6, <1>7, <1>8 DEF SessionInv

\* Failed storage calls are counted, and the connections they hit are noted.
LEMMA SufferSpoilt ==
    ASSUME TypeOK, NEW bad, Suffer(bad), spoiled' = spoiled \cup Spoilt(bad)
    PROVE  faults' \in Nat /\ spoiled' \subseteq Socket
BY DEF TypeOK, Suffer, Spoilt, Open

\* AUTH keeps the session invariant.
LEMMA AuthSession ==
    ASSUME SessionInv, NEW s \in Socket, Auth(s)
    PROVE  SessionInv'
<1>1. PICK bad : /\ rows' = SavedAuth(sid[s], s, bad)
                 /\ spoiled' = spoiled \cup Spoilt(bad) /\ Suffer(bad)
  BY DEF Auth
<1>2. s \in Open /\ sid[s] \in Id /\ rows[sid[s]] \in Row /\ session[s] \in SessionInfo
  BY DEF Auth, SessionInv, MapInv, TypeOK
<1>3. <<"put", sid[s], "authed">> \in bad => s \in spoiled'
  BY <1>1, <1>2 DEF Spoilt
<1>4. TypeOK'
  <2>1. rows' \in [Id -> Row]
    BY <1>1, <1>2 DEF SavedAuth, SessionInv, TypeOK, Row
  <2>2. session' \in [Socket -> SessionInfo]
    BY <1>2 DEF Auth, SessionInv, TypeOK, SessionInfo
  <2>3. faults' \in Nat /\ spoiled' \subseteq Socket
    BY <1>1, SufferSpoilt DEF SessionInv
  <2> QED
    BY <2>1, <2>2, <2>3 DEF Auth, SessionInv, TypeOK, reading, posting
<1>5. /\ rows' \in [Id -> Row] /\ \A id \in Id \ {sid[s]} : rows'[id] = rows[id]
      /\ rows'[sid[s]].authed \in {rows[sid[s]].authed, s}
      /\ rows'[sid[s]].subs = rows[sid[s]].subs
      /\ s \notin spoiled' => rows'[sid[s]].authed = s
  BY <1>1, <1>2, <1>3, <1>4 DEF SavedAuth, TypeOK, SessionInv, Row
<1>6. s \notin spoiled' => rows'[sid[s]].subs = session[s].subs
  BY <1>1, <1>2, <1>5 DEF Auth, SessionInv, SameInv
<1>7. /\ session'[s].on /\ session'[s].subs = session[s].subs /\ session'[s].authed = s
      /\ \A r \in Socket \ {s} : session'[r] = session[r]
  BY <1>2 DEF Auth, SessionInv, TypeOK, SessionInfo, Tracked
<1>8. UNCHANGED <<conn, sid, next, mark>> /\ Tracked(s)
      /\ proved' = proved \cup {s} /\ spoiled \subseteq spoiled'
  BY <1>1 DEF Auth
<1> QED
  BY <1>4, <1>5, <1>6, <1>7, <1>8, FrameStep

\* So does REQ.
LEMMA ReqSession ==
    ASSUME SessionInv, NEW s \in Socket, NEW t \in Topic, Req(s, t)
    PROVE  SessionInv'
<1> DEFINE subs == session[s].subs \cup {t}
<1>1. PICK bad : /\ rows' = SavedSubscriptions(sid[s], subs, bad)
                 /\ spoiled' = spoiled \cup Spoilt(bad) /\ Suffer(bad)
  BY DEF Req
<1>2. s \in Open /\ sid[s] \in Id /\ rows[sid[s]] \in Row /\ session[s] \in SessionInfo
  BY DEF Req, SessionInv, MapInv, TypeOK
<1>3. <<"put", sid[s], "subs">> \in bad => s \in spoiled'
  BY <1>1, <1>2 DEF Spoilt
<1>4. TypeOK'
  <2>1. subs \in SUBSET Topic /\ [NoReq EXCEPT !.on = TRUE, !.topic = t, !.as = session[s].authed] \in Request
    BY <1>2 DEF SessionInfo, NoReq, Request
  <2> HIDE DEF subs
  <2>2. rows' \in [Id -> Row]
    BY <1>1, <1>2, <2>1 DEF SavedSubscriptions, SessionInv, TypeOK, Row
  <2>3. session' \in [Socket -> SessionInfo]
    BY <1>2, <2>1 DEF Req, SessionInv, TypeOK, SessionInfo, subs
  <2>4. faults' \in Nat /\ spoiled' \subseteq Socket
    BY <1>1, SufferSpoilt DEF SessionInv
  <2>5. req' \in [Socket -> Request]
    BY <2>1 DEF Req, SessionInv, TypeOK
  <2> QED
    BY <2>2, <2>3, <2>4, <2>5 DEF Req, SessionInv, TypeOK, client, posting
<1>5. /\ \A id \in Id \ {sid[s]} : rows'[id] = rows[id]
      /\ rows'[sid[s]].authed = rows[sid[s]].authed
      /\ s \notin spoiled' => rows'[sid[s]].subs = subs
  BY <1>1, <1>2, <1>3 DEF SavedSubscriptions, TypeOK, SessionInv, Row
<1>6. s \notin spoiled' => rows'[sid[s]].authed = session[s].authed
  BY <1>1, <1>2, <1>5 DEF Req, SessionInv, SameInv
<1>7. /\ session'[s].on /\ session'[s].subs = subs /\ session'[s].authed = session[s].authed
      /\ \A r \in Socket \ {s} : session'[r] = session[r]
  BY <1>2 DEF Req, SessionInv, TypeOK, SessionInfo, Tracked
<1>8. UNCHANGED <<conn, sid, next, mark, proved>> /\ Tracked(s) /\ spoiled \subseteq spoiled'
  BY <1>1 DEF Req, client
<1>9. session[s].authed \in {None} \cup ({s} \cap proved')
  BY <1>2, <1>8 DEF SessionInv, OwnInv
<1> HIDE DEF subs
<1> QED
  BY <1>4, <1>5, <1>6, <1>7, <1>8, <1>9, FrameStep

\* So does CLOSE.
LEMMA UnsubscribeSession ==
    ASSUME SessionInv, NEW s \in Socket, NEW t \in Topic, Unsubscribe(s, t)
    PROVE  SessionInv'
<1> DEFINE subs == session[s].subs \ {t}
<1>1. PICK bad : /\ rows' = SavedSubscriptions(sid[s], subs, bad)
                 /\ spoiled' = spoiled \cup Spoilt(bad) /\ Suffer(bad)
  BY DEF Unsubscribe
<1>2. s \in Open /\ sid[s] \in Id /\ rows[sid[s]] \in Row /\ session[s] \in SessionInfo
  BY DEF Unsubscribe, SessionInv, MapInv, TypeOK
<1>3. <<"put", sid[s], "subs">> \in bad => s \in spoiled'
  BY <1>1, <1>2 DEF Spoilt
<1>4. TypeOK'
  <2>1. subs \in SUBSET Topic
    BY <1>2 DEF SessionInfo
  <2> HIDE DEF subs
  <2>2. rows' \in [Id -> Row]
    BY <1>1, <1>2, <2>1 DEF SavedSubscriptions, SessionInv, TypeOK, Row
  <2>3. session' \in [Socket -> SessionInfo]
    BY <1>2, <2>1 DEF Unsubscribe, SessionInv, TypeOK, SessionInfo, subs
  <2>4. faults' \in Nat /\ spoiled' \subseteq Socket
    BY <1>1, SufferSpoilt DEF SessionInv
  <2>5. acked' \in [Socket -> SUBSET Topic]
    BY DEF Unsubscribe, SessionInv, TypeOK
  <2> QED
    BY <2>2, <2>3, <2>4, <2>5 DEF Unsubscribe, SessionInv, TypeOK, reading, posting
<1>5. /\ \A id \in Id \ {sid[s]} : rows'[id] = rows[id]
      /\ rows'[sid[s]].authed = rows[sid[s]].authed
      /\ s \notin spoiled' => rows'[sid[s]].subs = subs
  BY <1>1, <1>2, <1>3 DEF SavedSubscriptions, TypeOK, SessionInv, Row
<1>6. s \notin spoiled' => rows'[sid[s]].authed = session[s].authed
  BY <1>1, <1>2, <1>5 DEF Unsubscribe, SessionInv, SameInv
<1>7. /\ session'[s].on /\ session'[s].subs = subs /\ session'[s].authed = session[s].authed
      /\ \A r \in Socket \ {s} : session'[r] = session[r]
  BY <1>2 DEF Unsubscribe, SessionInv, TypeOK, SessionInfo, Tracked
<1>8. UNCHANGED <<conn, sid, next, mark, proved>> /\ Tracked(s) /\ spoiled \subseteq spoiled'
  BY <1>1 DEF Unsubscribe
<1>9. session[s].authed \in {None} \cup ({s} \cap proved')
  BY <1>2, <1>8 DEF SessionInv, OwnInv
<1> HIDE DEF subs
<1> QED
  BY <1>4, <1>5, <1>6, <1>7, <1>8, <1>9, FrameStep

(* The steps of a REQ or an EVENT that wait for D1, and the alarm.         *)
LEMMA DatabaseSession ==
    ASSUME SessionInv,
           \/ \E s \in Socket : QueryEvents(s) \/ Eose(s)
           \/ \E s \in Socket, e \in Event : Publish(s, e)
           \/ \E e \in Event : SaveEvent(e) \/ BroadcastEvent(e)
           \/ Alarm
    PROVE  SessionInv'
<1> USE DEF memory, storage, client, reading, posting
<1>1. ASSUME NEW s \in Socket, QueryEvents(s) PROVE SessionInv'
  <2>0. {e \in stored : About[e] = req[s].topic} \in SUBSET Event /\ req[s] \in Request
    BY DEF SessionInv, TypeOK
  <2>1. req' \in [Socket -> Request]
    <3>1. CASE req' = [req EXCEPT ![s].asked = TRUE,
                                  ![s].found = {e \in stored : About[e] = req[s].topic}]
      <4> DEFINE found == {e \in stored : About[e] = req[s].topic}
      <4>1. found \in SUBSET Event /\ req' = [req EXCEPT ![s] = [req[s] EXCEPT !.asked = TRUE, !.found = found]]
        BY <2>0, <3>1 DEF SessionInv, TypeOK
      <4> HIDE DEF found
      <4>2. [req[s] EXCEPT !.asked = TRUE, !.found = found] \in Request
        BY <2>0, <4>1 DEF Request
      <4> QED
        BY <4>1, <4>2 DEF SessionInv, TypeOK
    <3>2. CASE req' = [req EXCEPT ![s].asked = TRUE]
      BY <2>0, <3>2 DEF SessionInv, TypeOK, Request
    <3> QED
      BY <1>1, <3>1, <3>2 DEF QueryEvents
  <2>2. TypeOK'
    BY <1>1, <2>1 DEF QueryEvents, SessionInv, TypeOK, Open
  <2> QED
    BY <1>1, <2>2, AsideStep DEF QueryEvents
<1>2. ASSUME NEW s \in Socket, Eose(s) PROVE SessionInv'
  <2>1. req' \in [Socket -> Request]
    BY <1>2, NoTypes DEF Eose, SessionInv, TypeOK
  <2>2. req[s].found \subseteq Event /\ session[s].subs \subseteq Topic
    BY DEF SessionInv, TypeOK, Request, SessionInfo
  <2>3. got' \in [Socket -> SUBSET Event] /\ acked' \in [Socket -> SUBSET Topic]
    BY <1>2, <2>2 DEF Eose, SessionInv, TypeOK
  <2>4. TypeOK'
    BY <1>2, <2>1, <2>3 DEF Eose, SessionInv, TypeOK
  <2> QED
    BY <1>2, <2>4, AsideStep DEF Eose
<1>3. ASSUME NEW s \in Socket, NEW e \in Event, Publish(s, e) PROVE SessionInv'
  <2>1. TypeOK'
    BY <1>3 DEF Publish, SessionInv, TypeOK
  <2> QED
    BY <1>3, <2>1, AsideStep DEF Publish
<1>4. ASSUME NEW e \in Event, SaveEvent(e) PROVE SessionInv'
  <2>1. TypeOK'
    BY <1>4 DEF SaveEvent, SessionInv, TypeOK
  <2> QED
    BY <1>4, <2>1, AsideStep DEF SaveEvent
<1>5. ASSUME NEW e \in Event, BroadcastEvent(e) PROVE SessionInv'
  <2>1. TypeOK'
    BY <1>5 DEF BroadcastEvent, SessionInv, TypeOK
  <2> QED
    BY <1>5, <2>1, AsideStep DEF BroadcastEvent
<1>6. ASSUME Alarm PROVE SessionInv'
  <2>1. TypeOK'
    BY <1>6 DEF Alarm, SessionInv, TypeOK
  <2> QED
    BY <1>6, <2>1, AsideStep DEF Alarm
<1> QED
  BY <1>1, <1>2, <1>3, <1>4, <1>5, <1>6

\* What a sleep or a restart leaves in memory.
LEMMA Forgotten ==
    ASSUME Forget
    PROVE  /\ next' = 1 /\ slots' = 0
           /\ \A s \in Socket : session'[s] = NoSession /\ ~Tracked(s)'
           /\ session' = [s \in Socket |-> NoSession]
BY DEF Forget, NoSession, Tracked

\* A sleep keeps the session invariant: sockets and rows stay.
LEMMA HibernateSession ==
    ASSUME SessionInv, Hibernate
    PROVE  SessionInv'
<1>1. /\ next' = 1 /\ slots' = 0 /\ session' = [s \in Socket |-> NoSession]
      /\ \A s \in Socket : session'[s] = NoSession /\ ~Tracked(s)'
  BY Forgotten DEF Hibernate
<1>2. Open' = Open /\ UNCHANGED <<conn, sid, mark, rows, heard, proved, acked, req, got,
                                  post, stored, spoiled, faults>>
  BY DEF Hibernate, Open, storage, client, reading, posting
<1>3. TypeOK'
  <2>1. 1 \in 1 .. MaxId + 1
    BY SessionAssumption
  <2> QED
    BY <1>1, <1>2, <2>1, NoTypes DEF SessionInv, TypeOK
<1>4. MapInv'
  BY <1>1, <1>2 DEF SessionInv, MapInv, Open
<1>5. DistinctIds'
  BY <1>2 DEF SessionInv, DistinctIds
<1>6. OrphanInv'
  BY <1>1, <1>2 DEF SessionInv, OrphanInv, Orphan, Dirty
<1>7. OwnInv'
  BY <1>1, <1>2 DEF SessionInv, OwnInv, Open, NoSession
<1>8. SameInv'
  BY <1>1, <1>2 DEF SameInv, Open
<1> QED
  BY <1>3, <1>4, <1>5, <1>6, <1>7, <1>8 DEF SessionInv

\* A restart keeps it: the sockets are gone and their rows lie behind.
LEMMA RestartSession ==
    ASSUME SessionInv, Restart
    PROVE  SessionInv'
<1>1. /\ next' = 1 /\ slots' = 0 /\ session' = [s \in Socket |-> NoSession]
      /\ \A s \in Socket : session'[s] = NoSession /\ ~Tracked(s)'
  BY Forgotten DEF Restart
<1>2. UNCHANGED <<mark, rows>> /\ Open' = {}
  BY DEF Restart, storage, Open
<1>3. TypeOK'
  <2>1. 1 \in 1 .. MaxId + 1 /\ 0 \in 0 .. MaxId
    BY SessionAssumption
  <2>2. conn' \in [Socket -> {"new", "open", "gone"}]
    BY DEF Restart, SessionInv, TypeOK
  <2>3. post' \in [Event -> {"new", "saving", "saved", "done", "refused"}]
    BY DEF Restart, SessionInv, TypeOK
  <2>4. /\ sid' \in [Socket -> 0 .. MaxId] /\ heard' \in [Socket -> Nat] /\ faults' \in Nat
        /\ proved' \subseteq Socket /\ acked' \in [Socket -> SUBSET Topic]
        /\ req' \in [Socket -> Request] /\ got' \in [Socket -> SUBSET Event]
        /\ spoiled' \subseteq Socket /\ stored' \subseteq Event
    BY <2>1, NoTypes DEF Restart, SessionInv, TypeOK
  <2> QED
    BY <1>1, <1>2, <2>1, <2>2, <2>3, <2>4, NoTypes DEF SessionInv, TypeOK
<1>4. MapInv'
  BY <1>1, <1>2 DEF MapInv
<1>5. ASSUME NEW id \in Id, Dirty(id) PROVE id < mark
  BY <1>5, SessionAssumption DEF SessionInv, OrphanInv, Orphan, MapInv, TypeOK, Id
<1>6. OrphanInv'
  BY <1>1, <1>2, <1>5 DEF OrphanInv, Orphan, Dirty
<1> QED
  BY <1>2, <1>3, <1>4, <1>6 DEF SessionInv, DistinctIds, OwnInv, SameInv

\* So does the end of a connection, which deletes its rows.
LEMMA CloseSession ==
    ASSUME SessionInv, Reliable, NEW s \in Socket, Close(s)
    PROVE  SessionInv'
<1>1. s \in Open /\ sid[s] \in Id
  BY DEF Close, Open, SessionInv, MapInv
<1>2. /\ rows' = [rows EXCEPT ![sid[s]] = Left(sid[s], {})] /\ UNCHANGED faults
  <2>1. Failures("delete", {sid[s]}, What) = {}
    BY DEF Failures, Reliable
  <2> QED
    BY <2>1 DEF Close, Suffer
<1>3. Left(sid[s], {}) = NoRows
  BY DEF Left, NoRows
<1>4. /\ conn' = [conn EXCEPT ![s] = "gone"] /\ session' = [session EXCEPT ![s] = NoSession]
      /\ slots' = Released(s) /\ sid' = [sid EXCEPT ![s] = 0] /\ heard' = [heard EXCEPT ![s] = 0]
      /\ proved' = proved \ {s} /\ acked' = [acked EXCEPT ![s] = {}] /\ got' = [got EXCEPT ![s] = {}]
      /\ spoiled' = spoiled \ {s} /\ UNCHANGED <<next, mark, req, post, stored>>
  BY DEF Close, posting
<1>5. TypeOK'
  <2>1. 0 \in 0 .. MaxId /\ slots' \in Nat
    BY <1>4, SessionAssumption DEF SessionInv, TypeOK, Released
  <2> QED
    BY <1>1, <1>2, <1>3, <1>4, <2>1, NoTypes DEF SessionInv, TypeOK
<1>6. /\ Open' = Open \ {s} /\ ~Tracked(s)'
      /\ \A r \in Socket \ {s} : sid'[r] = sid[r] /\ session'[r] = session[r] /\ (Tracked(r)' <=> Tracked(r))
      /\ session'[s] = NoSession
  BY <1>4 DEF Open, SessionInv, TypeOK, Tracked, NoSession
<1>7. /\ \A id \in Id \ {sid[s]} : rows'[id] = rows[id]
      /\ rows'[sid[s]] = NoRows
  BY <1>1, <1>2, <1>3 DEF SessionInv, TypeOK
<1>8. MapInv'
  BY <1>4, <1>6 DEF SessionInv, MapInv, Open
<1>9. DistinctIds'
  BY <1>6 DEF SessionInv, DistinctIds, Open
<1>10. OrphanInv'
  <2>1. ASSUME NEW id \in Id, Orphan(id)' PROVE Orphan(id)
    <3>1. id # sid[s]
      BY <1>7, <2>1 DEF Orphan, Dirty, NoRows
    <3> QED
      BY <1>6, <1>7, <2>1, <3>1 DEF Orphan, Dirty, Open
  <2> QED
    BY <1>4, <1>6, <2>1 DEF SessionInv, OrphanInv, Open
<1>11. ASSUME NEW r \in Open' PROVE r \in Open /\ r # s /\ r \in Socket /\ sid'[r] = sid[r]
                                  /\ rows'[sid[r]] = rows[sid[r]] /\ session'[r] = session[r]
  BY <1>1, <1>6, <1>7, <1>11 DEF SessionInv, MapInv, DistinctIds, Open
<1>12. OwnInv'
  BY <1>4, <1>11 DEF SessionInv, OwnInv
<1>13. SameInv'
  BY <1>4, <1>11 DEF SessionInv, SameInv, Tracked
<1> QED
  BY <1>5, <1>8, <1>9, <1>10, <1>12, <1>13 DEF SessionInv

\* So does the recovery of a session from its rows.
LEMMA RecoverStep ==
    ASSUME SessionInv, NEW s \in Socket, RecoverSession(s)
    PROVE  SessionInv'
<1>1. PICK bad : /\ session' = SessionsFound(bad) /\ rows' = RowsFound(bad)
                 /\ heard' = HeardFound(bad) /\ spoiled' = spoiled \cup Spoilt(bad) /\ Suffer(bad)
  BY DEF RecoverSession
<1>2. /\ next' \in 1 .. MaxId + 1 /\ AheadOfAll(next') /\ s \in Missing
      /\ UNCHANGED <<conn, sid, slots, mark, proved, acked, req, got, post, stored>>
  BY DEF RecoverSession, client, reading, posting
<1>3. TypeOK /\ MapInv
  BY DEF SessionInv
<1>4. TypeOK'
  BY <1>1, <1>2, <1>3, Recovered, RecoveredRows, RecoveredHeard, SufferSpoilt DEF TypeOK
<1>5. Open' = Open /\ Missing \subseteq Open /\ Open \subseteq Socket
  BY <1>2 DEF Open, Missing
<1>6. /\ \A r \in Socket \ Missing : session'[r] = session[r]
      /\ \A r \in Missing : /\ session'[r].on
                            /\ session'[r].authed \in {None, rows[sid[r]].authed}
      /\ \A r \in Missing \ Spoilt(bad) : /\ session'[r].subs = rows[sid[r]].subs
                                          /\ session'[r].authed = rows[sid[r]].authed
  BY <1>1, <1>3, Recovered
<1>7. \A id \in Id : rows'[id].subs = rows[id].subs /\ rows'[id].authed = rows[id].authed
  BY <1>1, <1>3, RecoveredRows
<1>8. \A r \in Open : Tracked(r)'
  BY <1>5, <1>6 DEF Missing, Tracked
<1>9. \A r \in Socket \ Open : session'[r] = NoSession /\ ~Tracked(r)'
  BY <1>3, <1>5, <1>6 DEF MapInv, Tracked, NoSession
<1>10. next' \in Nat /\ next' >= next /\ \A r \in Open : sid[r] < next'
  BY <1>2, <1>3, AheadOfOpen
<1>11. MapInv'
  BY <1>2, <1>3, <1>5, <1>8, <1>9, <1>10 DEF MapInv
<1>12. DistinctIds'
  BY <1>2, <1>5 DEF SessionInv, DistinctIds
<1>13. OrphanInv'
  <2>1. ASSUME NEW id \in Id PROVE Orphan(id)' <=> Orphan(id)
    BY <1>2, <1>5, <1>7 DEF Orphan, Dirty
  <2>2. ASSUME NEW id \in Id, Orphan(id) PROVE id < next'
    <3>1. s \in Open /\ id < sid[s] /\ sid[s] < next' /\ sid[s] \in Nat
      BY <1>2, <1>3, <1>5, <1>10, <2>2 DEF SessionInv, OrphanInv, MapInv, Id
    <3> QED
      BY <1>10, <3>1 DEF Id
  <2> QED
    BY <1>2, <1>5, <2>1, <2>2 DEF SessionInv, OrphanInv
<1>14. OwnInv'
  <2>1. ASSUME NEW r \in Open
        PROVE  /\ session'[r].authed \in {None} \cup ({r} \cap proved)
               /\ rows'[sid[r]].authed \in {None} \cup ({r} \cap proved)
    BY <1>3, <1>5, <1>6, <1>7 DEF SessionInv, OwnInv, MapInv
  <2> QED
    BY <1>2, <1>5, <2>1 DEF OwnInv
<1>15. SameInv'
  <2>1. ASSUME NEW r \in Open, r \notin spoiled'
        PROVE  /\ session'[r].subs = rows'[sid[r]].subs
               /\ session'[r].authed = rows'[sid[r]].authed
    <3>1. r \notin spoiled /\ r \notin Spoilt(bad) /\ sid[r] \in Id /\ r \in Socket
      BY <1>1, <1>3, <1>5, <2>1 DEF MapInv
    <3>2. CASE r \in Missing
      BY <1>6, <1>7, <3>1, <3>2
    <3>3. CASE r \notin Missing
      BY <1>6, <1>7, <2>1, <3>1, <3>3 DEF SessionInv, SameInv, Missing
    <3> QED
      BY <3>2, <3>3
  <2> QED
    BY <1>2, <1>5, <2>1 DEF SameInv
<1> QED
  BY <1>4, <1>11, <1>12, <1>13, <1>14, <1>15 DEF SessionInv

(* What Connect does with the id it allocates, when the mark does not fail. *)
LEMMA Connected ==
    ASSUME SessionInv, Reliable, NEW s \in Socket, Connect(s)
    PROVE  \E bad, new :
              /\ new \in Id /\ new <= MaxId /\ next' = new + 1 /\ mark' = new + 1
              /\ sid' = [sid EXCEPT ![s] = new]
              /\ session' = [SessionsFound(bad) EXCEPT
                               ![s] = [on |-> TRUE, subs |-> {}, authed |-> None, chal |-> <<s, 1>>]]
              /\ \/ rows' = RowsFound(bad)
                 \/ rows' = [RowsFound(bad) EXCEPT ![new].chal = <<s, 1>>]
              /\ heard' = [HeardFound(bad) EXCEPT ![s] = 1]
              /\ spoiled \cup Spoilt(bad) \subseteq spoiled'
              /\ spoiled' \subseteq spoiled \cup Spoilt(bad) \cup {s} /\ Suffer(bad)
              /\ \A r \in Open : sid[r] < new
              /\ \A id \in Id : Orphan(id) => id < new
<1>1. PICK n \in {k \in 1 .. MaxId : AheadOfAll(k)} :
         \E bad \in {{}} \cup FailedRecovery(Socket) \cup FailedMark
                       \cup Failures("put", {Allocated(n, {})}, {"chal"}) :
            /\ Allocated(n, bad) <= MaxId
            /\ sid' = [sid EXCEPT ![s] = Allocated(n, bad)]
            /\ next' = Allocated(n, bad) + 1
            /\ mark' = IF <<"mark", 0, "put">> \in bad THEN mark ELSE Allocated(n, bad) + 1
            /\ session' = [SessionsFound(bad) EXCEPT
                             ![s] = [on |-> TRUE, subs |-> {}, authed |-> None, chal |-> <<s, 1>>]]
            /\ rows' = IF <<"put", Allocated(n, bad), "chal">> \in bad THEN RowsFound(bad)
                       ELSE [RowsFound(bad) EXCEPT ![Allocated(n, bad)].chal = <<s, 1>>]
            /\ heard' = [HeardFound(bad) EXCEPT ![s] = 1]
            /\ spoiled' = spoiled \cup Spoilt(bad) \cup {r \in {s} : \E b \in bad : b[2] = Allocated(n, bad)}
            /\ Suffer(bad)
  BY DEF Connect
<1>2. PICK bad \in {{}} \cup FailedRecovery(Socket) \cup FailedMark
                      \cup Failures("put", {Allocated(n, {})}, {"chal"}) :
            /\ Allocated(n, bad) <= MaxId
            /\ sid' = [sid EXCEPT ![s] = Allocated(n, bad)]
            /\ next' = Allocated(n, bad) + 1
            /\ mark' = IF <<"mark", 0, "put">> \in bad THEN mark ELSE Allocated(n, bad) + 1
            /\ session' = [SessionsFound(bad) EXCEPT
                             ![s] = [on |-> TRUE, subs |-> {}, authed |-> None, chal |-> <<s, 1>>]]
            /\ rows' = IF <<"put", Allocated(n, bad), "chal">> \in bad THEN RowsFound(bad)
                       ELSE [RowsFound(bad) EXCEPT ![Allocated(n, bad)].chal = <<s, 1>>]
            /\ heard' = [HeardFound(bad) EXCEPT ![s] = 1]
            /\ spoiled' = spoiled \cup Spoilt(bad) \cup {r \in {s} : \E b \in bad : b[2] = Allocated(n, bad)}
            /\ Suffer(bad)
  BY <1>1
<1>3. FailedMark = {}
  BY DEF FailedMark, Reliable
<1>4. \A b \in bad : b[1] # "mark"
  BY <1>2, <1>3 DEF FailedRecovery, Failures
<1>5. <<"mark", 0, "get">> \notin bad /\ <<"mark", 0, "put">> \notin bad
  BY <1>4
<1>6. /\ Allocated(n, bad) \in Nat \ {0} /\ \A r \in Open : sid[r] < Allocated(n, bad)
      /\ \A id \in Id : Orphan(id) => id < Allocated(n, bad)
  BY <1>1, <1>5, NewId DEF SessionInv
<1>7. Allocated(n, bad) \in Id
  BY <1>2, <1>6, SessionAssumption DEF Id
<1>8. mark' = Allocated(n, bad) + 1
  BY <1>2, <1>5
<1>9. /\ spoiled \cup Spoilt(bad) \subseteq spoiled'
      /\ spoiled' \subseteq spoiled \cup Spoilt(bad) \cup {s}
  BY <1>2
<1>10. \/ rows' = RowsFound(bad)
       \/ rows' = [RowsFound(bad) EXCEPT ![Allocated(n, bad)].chal = <<s, 1>>]
  BY <1>2, Zenon
<1>11. WITNESS bad, Allocated(n, bad)
<1> QED
  BY <1>2, <1>6, <1>7, <1>8, <1>9, <1>10

\* So does a new connection, on an object that knows all its sessions or none.
LEMMA ConnectSession ==
    ASSUME SessionInv, Reliable, NEW s \in Socket, Connect(s)
    PROVE  SessionInv'
<1>1. PICK bad, new :
              /\ new \in Id /\ new <= MaxId /\ next' = new + 1 /\ mark' = new + 1
              /\ sid' = [sid EXCEPT ![s] = new]
              /\ session' = [SessionsFound(bad) EXCEPT
                               ![s] = [on |-> TRUE, subs |-> {}, authed |-> None, chal |-> <<s, 1>>]]
              /\ \/ rows' = RowsFound(bad)
                 \/ rows' = [RowsFound(bad) EXCEPT ![new].chal = <<s, 1>>]
              /\ heard' = [HeardFound(bad) EXCEPT ![s] = 1]
              /\ spoiled \cup Spoilt(bad) \subseteq spoiled'
              /\ spoiled' \subseteq spoiled \cup Spoilt(bad) \cup {s} /\ Suffer(bad)
              /\ \A r \in Open : sid[r] < new
              /\ \A id \in Id : Orphan(id) => id < new
  BY Connected
<1>2. /\ conn[s] = "new" /\ conn' = [conn EXCEPT ![s] = "open"] /\ slots' = slots + 1
      /\ UNCHANGED <<proved, acked, req, got, post, stored>>
  BY DEF Connect, client, reading, posting
<1>3. TypeOK /\ MapInv /\ new \in Nat \ {0}
  BY <1>1, SessionAssumption DEF SessionInv, Id
<1>4. /\ SessionsFound(bad) \in [Socket -> SessionInfo] /\ RowsFound(bad) \in [Id -> Row]
      /\ HeardFound(bad) \in [Socket -> Nat]
  BY <1>3, Recovered, RecoveredRows, RecoveredHeard
<1>5. TypeOK'
  <2>1. <<s, 1>> \in Challenge /\ [on |-> TRUE, subs |-> {}, authed |-> None, chal |-> <<s, 1>>] \in SessionInfo
    BY DEF Challenge, SessionInfo
  <2>2. session' \in [Socket -> SessionInfo]
    BY <1>1, <1>4, <2>1
  <2>3. rows' \in [Id -> Row]
    <3>1. RowsFound(bad)[new] \in Row
      BY <1>1, <1>4
    <3>2. [RowsFound(bad)[new] EXCEPT !.chal = <<s, 1>>] \in Row
      BY <2>1, <3>1 DEF Row
    <3> QED
      BY <1>1, <1>4, <3>2
  <2>4. faults' \in Nat /\ Spoilt(bad) \subseteq Socket
    BY <1>1, <1>3 DEF Suffer, TypeOK, Spoilt, Open
  <2>5. new + 1 \in 1 .. MaxId + 1 /\ new \in 0 .. MaxId /\ mark' \in 0 .. MaxId + 1
    BY <1>1, <1>3, SessionAssumption
  <2>6. heard' \in [Socket -> Nat] /\ sid' \in [Socket -> 0 .. MaxId] /\ slots' \in Nat
        /\ conn' \in [Socket -> {"new", "open", "gone"}] /\ next' \in 1 .. MaxId + 1
        /\ spoiled' \subseteq Socket
    BY <1>1, <1>2, <1>3, <1>4, <2>4, <2>5 DEF TypeOK
  <2> QED
    BY <1>2, <1>3, <2>2, <2>3, <2>4, <2>5, <2>6 DEF TypeOK
<1>6. /\ s \notin Open /\ s \notin Missing /\ Open' = Open \cup {s}
      /\ Missing \subseteq Open /\ Open \subseteq Socket
  BY <1>2, <1>3 DEF Open, Missing, TypeOK
<1>7. /\ session'[s] = [on |-> TRUE, subs |-> {}, authed |-> None, chal |-> <<s, 1>>]
      /\ \A r \in Socket \ (Missing \cup {s}) : session'[r] = session[r]
      /\ \A r \in Missing : /\ session'[r].on
                            /\ session'[r].authed \in {None, rows[sid[r]].authed}
      /\ \A r \in Missing \ Spoilt(bad) : /\ session'[r].subs = rows[sid[r]].subs
                                          /\ session'[r].authed = rows[sid[r]].authed
  BY <1>1, <1>3, <1>4, <1>6, Recovered
<1>8. \A id \in Id : rows'[id].subs = rows[id].subs /\ rows'[id].authed = rows[id].authed
  <2>1. \A id \in Id : RowsFound(bad)[id].subs = rows[id].subs /\ RowsFound(bad)[id].authed = rows[id].authed
    BY <1>3, RecoveredRows
  <2> QED
    BY <1>1, <1>4, <2>1 DEF Row
<1>9. \A r \in Open' : Tracked(r)'
  BY <1>6, <1>7 DEF Missing, Tracked
<1>10. \A r \in Socket \ Open' : session'[r] = NoSession /\ ~Tracked(r)'
  BY <1>3, <1>6, <1>7 DEF MapInv, Tracked, NoSession
<1>11. sid'[s] = new /\ \A r \in Open : sid'[r] = sid[r] /\ sid[r] \in Id /\ sid[r] < new /\ r # s
  BY <1>1, <1>3, <1>6 DEF TypeOK, MapInv
<1>12. MapInv'
  <2>1. \A r \in Open' : sid'[r] \in Id /\ sid'[r] < mark' /\ sid'[r] < next'
    BY <1>1, <1>3, <1>6, <1>11 DEF Id
  <2> QED
    BY <1>9, <1>10, <2>1 DEF MapInv
<1>13. DistinctIds'
  <2>1. ASSUME NEW r \in Open', NEW q \in Open', sid'[r] = sid'[q] PROVE r = q
    BY <1>3, <1>6, <1>11, <2>1 DEF SessionInv, DistinctIds, Id
  <2> QED
    BY <2>1 DEF DistinctIds
<1>14. OrphanInv'
  <2>1. ASSUME NEW id \in Id, Orphan(id)' PROVE Orphan(id)
    BY <1>6, <1>8, <1>11, <2>1 DEF Orphan, Dirty
  <2>2. ASSUME NEW id \in Id, Orphan(id)' PROVE id < new /\ \A r \in Open : id < sid[r]
    BY <1>1, <2>1, <2>2 DEF SessionInv, OrphanInv
  <2> QED
    BY <1>1, <1>3, <1>6, <1>11, <2>2 DEF OrphanInv, Id
<1>15. rows[new].subs = {} /\ rows[new].authed = None
  <2>1. ~Orphan(new) /\ \A r \in Open : sid[r] # new
    BY <1>1, <1>3, <1>11 DEF Id
  <2> QED
    BY <2>1 DEF Orphan, Dirty
<1>16. OwnInv'
  <2>1. ASSUME NEW r \in Open
        PROVE  /\ session'[r].authed \in {None} \cup ({r} \cap proved)
               /\ rows'[sid[r]].authed \in {None} \cup ({r} \cap proved)
    BY <1>3, <1>6, <1>7, <1>8, <1>11 DEF SessionInv, OwnInv
  <2>2. session'[s].authed = None /\ rows'[sid'[s]].authed = None
    BY <1>1, <1>7, <1>8, <1>11, <1>15
  <2> QED
    BY <1>2, <1>6, <1>11, <2>1, <2>2 DEF OwnInv
<1>17. SameInv'
  <2>1. ASSUME NEW r \in Open, r \notin spoiled'
        PROVE  /\ session'[r].subs = rows'[sid[r]].subs
               /\ session'[r].authed = rows'[sid[r]].authed
    <3>1. r \notin spoiled /\ r \notin Spoilt(bad) /\ sid[r] \in Id /\ r \in Socket /\ r # s
      BY <1>1, <1>6, <1>11, <2>1
    <3>2. CASE r \in Missing
      BY <1>7, <1>8, <3>1, <3>2
    <3>3. CASE r \notin Missing
      BY <1>7, <1>8, <2>1, <3>1, <3>3 DEF SessionInv, SameInv, Missing
    <3> QED
      BY <3>2, <3>3
  <2>2. session'[s].subs = {} /\ session'[s].authed = None
    BY <1>7
  <2>3. rows'[sid'[s]].subs = {} /\ rows'[sid'[s]].authed = None
    BY <1>1, <1>8, <1>11, <1>15
  <2> QED
    BY <1>6, <1>11, <2>1, <2>2, <2>3 DEF SameInv
<1> QED
  BY <1>5, <1>12, <1>13, <1>14, <1>16, <1>17 DEF SessionInv

\* Every step keeps the session invariant while deletes and the mark do not
\* fail.
LEMMA NextSession ==
    ASSUME SessionInv, Reliable, [Next]_vars
    PROVE  SessionInv'
<1>1. ASSUME UNCHANGED vars PROVE SessionInv'
  <2>1. UNCHANGED <<conn, sid, session, next, slots, mark, rows, heard, proved, acked, req, got,
                    post, stored, spoiled, faults>>
    BY <1>1 DEF vars, memory, storage, client, reading, posting
  <2>2. TypeOK'
    BY <2>1 DEF SessionInv, TypeOK
  <2> QED
    BY <2>1, <2>2, AsideStep
<1>2. ASSUME Next PROVE SessionInv'
  BY <1>2, RecoverStep, ConnectSession, CloseSession, AuthSession, ReqSession, UnsubscribeSession,
     HibernateSession, RestartSession, DatabaseSession DEF Next
<1> QED
  BY <1>1, <1>2

-----------------------------------------------------------------------------
(* Theorems.                                                               *)

(* While deletes and the mark do not fail, the session invariant holds     *)
(* from the first connection on, across every sleep and restart.           *)
THEOREM SessionInvariant ==
    ASSUME Reliable PROVE Spec => []SessionInv
<1>1. SessionInv /\ [Next]_vars => SessionInv'
  BY NextSession
<1> QED
  BY <1>1, InitSession, PTL DEF Spec

(* Variables keep their types.                                             *)
THEOREM SessionTypes ==
    ASSUME Reliable PROVE Spec => []TypeOK
<1>1. SessionInv => TypeOK
  BY DEF SessionInv
<1> QED
  BY <1>1, SessionInvariant, PTL

(* No two live sockets carry the same session id: allocate_session_id with *)
(* the recovery before it never hands out an id in use.                    *)
THEOREM IdsStayDistinct ==
    ASSUME Reliable PROVE Spec => []DistinctIds
<1>1. SessionInv => DistinctIds
  BY DEF SessionInv
<1> QED
  BY <1>1, SessionInvariant, PTL

(* No connection takes over the identity another client proved, neither in *)
(* memory nor through the rows it will be recovered from.                  *)
THEOREM IdentityStaysOwn ==
    ASSUME Reliable PROVE Spec => []OwnIdentity
<1>1. SessionInv => OwnIdentity
  BY DEF SessionInv, OwnIdentity, OwnInv, Held
<1> QED
  BY <1>1, SessionInvariant, PTL

-----------------------------------------------------------------------------
(* Delivery *)

(* What a subscriber counts on: the subscriptions it was told are complete *)
(* are held, the events already broadcast have reached it or are in the    *)
(* answer its REQ is about to send, and no session is missing from the map *)
(* while an event is on its way.                                           *)
AckInv ==
    /\ spoiled \subseteq Open
    /\ \A s \in Socket : s \notin Open => acked[s] = {}
    /\ \A s \in Socket : conn[s] = "new" => req[s] = NoReq
    /\ \A s \in Open \ spoiled : acked[s] \subseteq Held(s).subs

GateInv ==
    /\ \A s \in Open : req[s].on /\ req[s].topic \in Protected => req[s].as = s
    /\ \A s \in Open \ spoiled, t \in Protected : t \in Held(s).subs => Held(s).authed = s

AwakeInv ==
    /\ \A e \in Event : post[e] \in {"saving", "saved"} => \A s \in Open : Tracked(s)
    /\ \A s \in Socket : req[s].asked => req[s].on
    /\ \A e \in Event : post[e] \in {"saved", "done"} => e \in stored

Answered(s, e) ==
    /\ About[e] \in acked[s] => e \in got[s]
    /\ req[s].asked /\ req[s].topic = About[e] /\ About[e] \in Held(s).subs
          => e \in got[s] \cup req[s].found

ReachInv ==
    \A s \in Open \ spoiled, e \in Event :
        post[e] = "done" /\ Readable(e, s) => Answered(s, e)

DeliveryInv == AckInv /\ GateInv /\ AwakeInv /\ ReachInv

-----------------------------------------------------------------------------
(* What the relay holds for a connection storage did not fail is what the  *)
(* rows of its id say.                                                     *)
LEMMA HeldRow ==
    ASSUME SessionInv, NEW s \in Open, s \notin spoiled
    PROVE  Held(s) = [subs |-> rows[sid[s]].subs, authed |-> rows[sid[s]].authed]
BY DEF SessionInv, SameInv, Held

\* Of a session in the map the relay holds what the map says.
LEMMA HeldSession ==
    ASSUME SessionInv, NEW s \in Open, Tracked(s)
    PROVE  Held(s) = [subs |-> session[s].subs, authed |-> session[s].authed]
BY DEF Held

\* Of a socket that is not open it holds nothing.
LEMMA HeldNothing ==
    ASSUME NEW s \in Socket, s \notin Open
    PROVE  Held(s) = [subs |-> {}, authed |-> None]
BY DEF Held

\* What it holds of a session depends on the rows of its id only.
LEMMA HeldKept ==
    ASSUME SessionInv, SessionInv', NEW s \in Socket, s \in Open <=> s \in Open',
           s \notin spoiled, s \notin spoiled',
           s \in Open => /\ sid'[s] = sid[s]
                         /\ rows'[sid[s]].subs = rows[sid[s]].subs
                         /\ rows'[sid[s]].authed = rows[sid[s]].authed
    PROVE  Held(s)' = Held(s)
<1>1. CASE s \notin Open
  BY <1>1 DEF Held
<1>2. CASE s \in Open
  <2>1. Held(s) = [subs |-> rows[sid[s]].subs, authed |-> rows[sid[s]].authed]
    BY <1>2, HeldRow
  <2>2. Held(s)' = [subs |-> rows'[sid'[s]].subs, authed |-> rows'[sid'[s]].authed]
    BY <1>2 DEF SessionInv, SameInv, Held
  <2> QED
    BY <1>2, <2>1, <2>2
<1> QED
  BY <1>1, <1>2

(* The relay acts for nobody but a connection's own client.                *)
LEMMA HeldOwn ==
    ASSUME SessionInv, NEW s \in Socket
    PROVE  Held(s).authed \in {None, s}
BY DEF SessionInv, OwnInv, Held, Open

\* After a step, too, an identity held is the client's own.
LEMMA HeldOwnNext ==
    ASSUME SessionInv', NEW s \in Socket
    PROVE  Held(s)'.authed \in {None, s}
BY DEF SessionInv, OwnInv, Held, Open

-----------------------------------------------------------------------------
(* What each action does to what the relay holds.                          *)

Undisturbed == \A s \in Socket \ spoiled' : Held(s)' = Held(s)

\* A recovery disturbs nothing that is held.
LEMMA RecoverEffect ==
    ASSUME SessionInv, NEW s \in Socket, RecoverSession(s)
    PROVE  /\ Open' = Open /\ spoiled \subseteq spoiled' /\ spoiled' \subseteq spoiled \cup Open
           /\ \A r \in Open : Tracked(r)'
           /\ Undisturbed
<1>1. PICK bad : /\ session' = SessionsFound(bad) /\ rows' = RowsFound(bad)
                 /\ spoiled' = spoiled \cup Spoilt(bad)
  BY DEF RecoverSession
<1>2. Open' = Open /\ UNCHANGED sid /\ Missing \subseteq Open /\ Open \subseteq Socket
  BY DEF RecoverSession, Open, Missing
<1>3. SessionInv' /\ TypeOK /\ MapInv
  BY RecoverStep DEF SessionInv
<1>4. \A r \in Open : Tracked(r)'
  BY <1>1, <1>2, <1>3, Recovered DEF Missing, Tracked
<1>5. \A id \in Id : rows'[id].subs = rows[id].subs /\ rows'[id].authed = rows[id].authed
  BY <1>1, <1>3, RecoveredRows
<1>6. Undisturbed
  <2>1. ASSUME NEW r \in Socket, r \notin spoiled' PROVE Held(r)' = Held(r)
    <3>1. r \in Open => sid[r] \in Id
      BY <1>3 DEF MapInv
    <3> QED
      BY <1>1, <1>2, <1>3, <1>5, <2>1, <3>1, HeldKept
  <2> QED
    BY <2>1 DEF Undisturbed
<1> QED
  BY <1>1, <1>2, <1>4, <1>6 DEF Spoilt

\* A connection starts with nothing held, and disturbs no other.
LEMMA ConnectEffect ==
    ASSUME SessionInv, Reliable, NEW s \in Socket, Connect(s)
    PROVE  /\ s \notin Open /\ Open' = Open \cup {s}
           /\ spoiled \subseteq spoiled' /\ spoiled' \subseteq spoiled \cup Open'
           /\ \A r \in Open' : Tracked(r)'
           /\ Held(s)' = [subs |-> {}, authed |-> None]
           /\ \A r \in Socket \ ({s} \cup spoiled') : Held(r)' = Held(r)
<1>1. PICK bad, new :
              /\ new \in Id /\ sid' = [sid EXCEPT ![s] = new]
              /\ session' = [SessionsFound(bad) EXCEPT
                               ![s] = [on |-> TRUE, subs |-> {}, authed |-> None, chal |-> <<s, 1>>]]
              /\ \/ rows' = RowsFound(bad)
                 \/ rows' = [RowsFound(bad) EXCEPT ![new].chal = <<s, 1>>]
              /\ spoiled \cup Spoilt(bad) \subseteq spoiled'
              /\ spoiled' \subseteq spoiled \cup Spoilt(bad) \cup {s}
  BY Connected
<1>2. SessionInv' /\ TypeOK /\ MapInv
  BY ConnectSession DEF SessionInv
<1>3. /\ s \notin Open /\ Open' = Open \cup {s} /\ Missing \subseteq Open /\ Open \subseteq Socket
  BY <1>2 DEF Connect, Open, Missing, TypeOK
<1>4. SessionsFound(bad) \in [Socket -> SessionInfo] /\ RowsFound(bad) \in [Id -> Row]
  BY <1>2, Recovered, RecoveredRows
<1>5. session'[s] = [on |-> TRUE, subs |-> {}, authed |-> None, chal |-> <<s, 1>>]
  BY <1>1, <1>4
<1>6. \A r \in Open' : Tracked(r)'
  BY <1>1, <1>2, <1>3, <1>4, <1>5, Recovered DEF Missing, Tracked
<1>7. Held(s)' = [subs |-> {}, authed |-> None]
  BY <1>3, <1>5, <1>6 DEF Held
<1>8. \A id \in Id : rows'[id].subs = rows[id].subs /\ rows'[id].authed = rows[id].authed
  <2>1. \A id \in Id : RowsFound(bad)[id].subs = rows[id].subs /\ RowsFound(bad)[id].authed = rows[id].authed
    BY <1>2, RecoveredRows
  <2> QED
    BY <1>1, <1>4, <2>1 DEF Row
<1>9. ASSUME NEW r \in Socket, r # s, r \notin spoiled' PROVE Held(r)' = Held(r)
  <2>1. r \notin spoiled /\ (r \in Open <=> r \in Open')
    BY <1>1, <1>3, <1>9
  <2>2. r \in Open => sid'[r] = sid[r] /\ sid[r] \in Id
    BY <1>1, <1>2, <1>9 DEF MapInv, TypeOK
  <2> QED
    BY <1>2, <1>8, <1>9, <2>1, <2>2, HeldKept
<1> QED
  BY <1>1, <1>3, <1>6, <1>7, <1>9 DEF Spoilt

\* The end of a connection disturbs no other.
LEMMA CloseEffect ==
    ASSUME SessionInv, Reliable, NEW s \in Socket, Close(s)
    PROVE  /\ s \in Open /\ Open' = Open \ {s} /\ spoiled' = spoiled \ {s}
           /\ \A r \in Socket \ {s} : Tracked(r)' <=> Tracked(r)
           /\ \A r \in Socket \ ({s} \cup spoiled') : Held(r)' = Held(r)
<1>1. SessionInv' /\ TypeOK
  BY CloseSession DEF SessionInv
<1>2. /\ s \in Open /\ Open' = Open \ {s} /\ spoiled' = spoiled \ {s}
      /\ \A r \in Socket \ {s} : (Tracked(r)' <=> Tracked(r)) /\ sid'[r] = sid[r]
  BY <1>1 DEF Close, Open, Tracked, TypeOK
<1>3. \A id \in Id \ {sid[s]} : rows'[id] = rows[id]
  BY <1>1 DEF Close, TypeOK
<1>4. ASSUME NEW r \in Socket, r # s, r \notin spoiled' PROVE Held(r)' = Held(r)
  <2>1. r \in Open => sid[r] \in Id \ {sid[s]}
    BY <1>2, <1>4 DEF SessionInv, MapInv, DistinctIds
  <2> QED
    BY <1>1, <1>2, <1>3, <1>4, <2>1, HeldKept
<1> QED
  BY <1>2, <1>4

(* AUTH, REQ and CLOSE touch the rows of their own session only.           *)
LEMMA FrameEffect ==
    ASSUME SessionInv, SessionInv', NEW s \in Socket, Tracked(s), UNCHANGED <<conn, sid>>,
           session'[s].on, \A r \in Socket \ {s} : session'[r] = session[r],
           \A id \in Id \ {sid[s]} : rows'[id] = rows[id], spoiled \subseteq spoiled'
    PROVE  /\ s \in Open /\ Open' = Open /\ \A r \in Socket : Tracked(r)' <=> Tracked(r)
           /\ Held(s) = [subs |-> session[s].subs, authed |-> session[s].authed]
           /\ Held(s)' = [subs |-> session'[s].subs, authed |-> session'[s].authed]
           /\ \A r \in Socket \ ({s} \cup spoiled') : Held(r)' = Held(r)
<1>1. s \in Open /\ Open' = Open
  BY DEF SessionInv, MapInv, Open
<1>2. Tracked(s)'
  BY DEF Tracked
<1>3. ASSUME NEW r \in Socket PROVE Tracked(r)' <=> Tracked(r)
  BY <1>2 DEF Tracked
<1>4. ASSUME NEW r \in Socket, r # s, r \notin spoiled' PROVE Held(r)' = Held(r)
  <2>1. r \in Open => sid[r] \in Id \ {sid[s]}
    BY <1>1, <1>4 DEF SessionInv, MapInv, DistinctIds
  <2> QED
    BY <1>1, <1>4, <2>1, HeldKept
<1>5. Held(s)' = [subs |-> session'[s].subs, authed |-> session'[s].authed]
  BY <1>1, <1>2 DEF Held
<1> QED
  BY <1>1, <1>3, <1>4, <1>5, HeldSession

\* AUTH adds the identity of its own session and disturbs no other.
LEMMA AuthEffect ==
    ASSUME SessionInv, NEW s \in Socket, Auth(s)
    PROVE  /\ s \in Open /\ Open' = Open /\ \A r \in Socket : Tracked(r)' <=> Tracked(r)
           /\ spoiled \subseteq spoiled' /\ spoiled' \subseteq spoiled \cup Open
           /\ Held(s) = [subs |-> session[s].subs, authed |-> session[s].authed]
           /\ Held(s)' = [subs |-> session[s].subs, authed |-> s]
           /\ \A r \in Socket \ ({s} \cup spoiled') : Held(r)' = Held(r)
<1>1. PICK bad : rows' = SavedAuth(sid[s], s, bad) /\ spoiled' = spoiled \cup Spoilt(bad)
  BY DEF Auth
<1>2. SessionInv' /\ TypeOK /\ sid[s] \in Id
  BY AuthSession DEF SessionInv, MapInv, Auth
<1>3. /\ Tracked(s) /\ UNCHANGED <<conn, sid>> /\ session'[s].on
      /\ session'[s].subs = session[s].subs /\ session'[s].authed = s
      /\ \A r \in Socket \ {s} : session'[r] = session[r]
  BY <1>2 DEF Auth, TypeOK, SessionInfo, Tracked
<1>4. \A id \in Id \ {sid[s]} : rows'[id] = rows[id]
  BY <1>1, <1>2 DEF SavedAuth, TypeOK
<1>5. spoiled \subseteq spoiled' /\ spoiled' \subseteq spoiled \cup Open
  BY <1>1 DEF Spoilt
<1> QED
  BY <1>2, <1>3, <1>4, <1>5, FrameEffect

\* A change of subscriptions changes those of its own session.
LEMMA SubscriptionEffect ==
    ASSUME SessionInv, NEW s \in Socket, NEW subs, Tracked(s), SessionInv',
           UNCHANGED <<conn, sid>>, session' = [session EXCEPT ![s].subs = subs],
           NEW bad, rows' = SavedSubscriptions(sid[s], subs, bad), spoiled' = spoiled \cup Spoilt(bad)
    PROVE  /\ s \in Open /\ Open' = Open /\ \A r \in Socket : Tracked(r)' <=> Tracked(r)
           /\ spoiled \subseteq spoiled' /\ spoiled' \subseteq spoiled \cup Open
           /\ Held(s) = [subs |-> session[s].subs, authed |-> session[s].authed]
           /\ Held(s)' = [subs |-> subs, authed |-> session[s].authed]
           /\ \A r \in Socket \ ({s} \cup spoiled') : Held(r)' = Held(r)
<1>1. TypeOK /\ sid[s] \in Id
  BY DEF SessionInv, MapInv
<1>2. /\ session'[s].on /\ session'[s].subs = subs /\ session'[s].authed = session[s].authed
      /\ \A r \in Socket \ {s} : session'[r] = session[r]
  BY <1>1 DEF TypeOK, SessionInfo, Tracked
<1>3. \A id \in Id \ {sid[s]} : rows'[id] = rows[id]
  BY <1>1 DEF SavedSubscriptions, TypeOK
<1>4. spoiled \subseteq spoiled' /\ spoiled' \subseteq spoiled \cup Open
  BY DEF Spoilt
<1> QED
  BY <1>2, <1>3, <1>4, FrameEffect

\* REQ adds its topic to its own session.
LEMMA ReqEffect ==
    ASSUME SessionInv, NEW s \in Socket, NEW t \in Topic, Req(s, t)
    PROVE  /\ s \in Open /\ Open' = Open /\ \A r \in Socket : Tracked(r)' <=> Tracked(r)
           /\ spoiled \subseteq spoiled' /\ spoiled' \subseteq spoiled \cup Open
           /\ Held(s) = [subs |-> session[s].subs, authed |-> session[s].authed]
           /\ Held(s)' = [subs |-> session[s].subs \cup {t}, authed |-> session[s].authed]
           /\ \A r \in Socket \ ({s} \cup spoiled') : Held(r)' = Held(r)
<1>1. PICK bad : rows' = SavedSubscriptions(sid[s], session[s].subs \cup {t}, bad)
                 /\ spoiled' = spoiled \cup Spoilt(bad)
  BY DEF Req
<1>2. SessionInv'
  BY ReqSession
<1>3. /\ Tracked(s) /\ UNCHANGED <<conn, sid>>
      /\ session' = [session EXCEPT ![s].subs = session[s].subs \cup {t}]
  BY DEF Req
<1> QED
  BY <1>1, <1>2, <1>3, SubscriptionEffect

\* CLOSE takes its topic from its own session.
LEMMA UnsubscribeEffect ==
    ASSUME SessionInv, NEW s \in Socket, NEW t \in Topic, Unsubscribe(s, t)
    PROVE  /\ s \in Open /\ Open' = Open /\ \A r \in Socket : Tracked(r)' <=> Tracked(r)
           /\ spoiled \subseteq spoiled' /\ spoiled' \subseteq spoiled \cup Open
           /\ Held(s) = [subs |-> session[s].subs, authed |-> session[s].authed]
           /\ Held(s)' = [subs |-> session[s].subs \ {t}, authed |-> session[s].authed]
           /\ \A r \in Socket \ ({s} \cup spoiled') : Held(r)' = Held(r)
<1>1. PICK bad : rows' = SavedSubscriptions(sid[s], session[s].subs \ {t}, bad)
                 /\ spoiled' = spoiled \cup Spoilt(bad)
  BY DEF Unsubscribe
<1>2. SessionInv'
  BY UnsubscribeSession
<1>3. /\ Tracked(s) /\ UNCHANGED <<conn, sid>>
      /\ session' = [session EXCEPT ![s].subs = session[s].subs \ {t}]
  BY DEF Unsubscribe
<1> QED
  BY <1>1, <1>2, <1>3, SubscriptionEffect

(* A step that leaves connections, sessions and rows alone.                *)
LEMMA AsideEffect ==
    ASSUME UNCHANGED <<conn, sid, session, rows>>
    PROVE  /\ Open' = Open /\ \A r \in Socket : (Tracked(r)' <=> Tracked(r)) /\ Held(r)' = Held(r)
BY DEF Open, Tracked, Held

\* A sleep disturbs nothing that is held.
LEMMA HibernateEffect ==
    ASSUME SessionInv, Hibernate
    PROVE  Open' = Open /\ UNCHANGED <<conn, spoiled>> /\ Undisturbed
<1>1. Open' = Open /\ UNCHANGED <<conn, sid, rows, spoiled>>
  BY DEF Hibernate, Open, storage
<1>2. SessionInv'
  BY HibernateSession
<1> QED
  BY <1>1, <1>2, HeldKept DEF Undisturbed

-----------------------------------------------------------------------------
(* The refinement.                                                         *)

(* A step that neither connects nor disconnects anyone, and disturbs only  *)
(* connections storage fails.                                              *)
LEMMA LoseStep ==
    ASSUME SessionInv', UNCHANGED conn, spoiled \subseteq spoiled', Undisturbed
    PROVE  Steady!Next
<1>1. \A r \in Socket : Held(r)'.authed \in {None, r}
  BY HeldOwnNext
<1>2. Steady!Lose
  BY <1>1 DEF Steady!Lose, Steady!Keep, Steady!OwnOnly, Undisturbed
<1> QED
  BY <1>2 DEF Steady!Next

\* Every step of the layer is one of the relay that never sleeps.
LEMMA SteadyStep ==
    ASSUME SessionInv, spoiled \subseteq Open, Reliable, Next
    PROVE  Steady!Next
<1>0. SessionInv'
  BY NextSession
<1>1. \A r \in Socket : Held(r)'.authed \in {None, r}
  BY <1>0, HeldOwnNext
<1>2. ASSUME NEW s \in Socket, RecoverSession(s) PROVE Steady!Next
  BY <1>0, <1>2, RecoverEffect, LoseStep DEF RecoverSession
<1>3. ASSUME NEW s \in Socket, Connect(s) PROVE Steady!Next
  <2>1. conn[s] = "new" /\ conn' = [conn EXCEPT ![s] = "open"]
    BY <1>3 DEF Connect
  <2>2. Steady!Connect(s)
    BY <1>1, <1>3, <2>1, ConnectEffect DEF Steady!Connect, Steady!Keep, Steady!OwnOnly, Steady!Nothing
  <2> QED
    BY <2>2 DEF Steady!Next
<1>4. ASSUME NEW s \in Socket, Close(s) PROVE Steady!Next
  <2>1. conn[s] = "open" /\ conn' = [r \in Socket |-> IF r \in {s} THEN "gone" ELSE conn[r]]
    BY <1>4 DEF Close, SessionInv, TypeOK
  <2>2. Held(s)' = [subs |-> {}, authed |-> None]
    BY <2>1 DEF Held, Open
  <2>3. Steady!Leave({s})
    BY <1>1, <1>4, <2>1, <2>2, CloseEffect DEF Steady!Leave, Steady!Keep, Steady!OwnOnly, Steady!Nothing
  <2> QED
    BY <2>3 DEF Steady!Next
<1>5. ASSUME NEW s \in Socket, Auth(s) PROVE Steady!Next
  <2>1. conn[s] = "open" /\ UNCHANGED conn
    BY <1>5, AuthEffect DEF Auth, Open
  <2>2. Held(s)' = [Held(s) EXCEPT !.authed = s]
    BY <1>5, AuthEffect
  <2>3. Steady!Identify(s)
    BY <1>1, <1>5, <2>1, <2>2, AuthEffect DEF Steady!Identify, Steady!Keep, Steady!OwnOnly
  <2> QED
    BY <2>3 DEF Steady!Next
<1>6. ASSUME NEW s \in Socket, NEW t \in Topic, Req(s, t) PROVE Steady!Next
  <2>1. conn[s] = "open" /\ UNCHANGED conn
    BY <1>6, ReqEffect DEF Req, Open
  <2>2. Held(s)' = [Held(s) EXCEPT !.subs = Held(s).subs \cup {t}]
    BY <1>6, ReqEffect
  <2>3. Held(s).subs = session[s].subs /\ Held(s).authed = session[s].authed
    BY <1>6, ReqEffect
  <2>4. t \in Protected => Held(s).authed = s
    BY <1>6, <2>3, HeldOwn DEF Req
  <2>5. spoiled \subseteq spoiled' /\ \A r \in Socket \ ({s} \cup spoiled') : Held(r)' = Held(r)
    BY <1>6, ReqEffect
  <2>6. Steady!Subscribe(s, t)
    BY <1>1, <2>1, <2>2, <2>4, <2>5 DEF Steady!Subscribe, Steady!Keep, Steady!OwnOnly
  <2> QED
    BY <2>6 DEF Steady!Next
<1>7. ASSUME NEW s \in Socket, NEW t \in Topic, Unsubscribe(s, t) PROVE Steady!Next
  <2>1. conn[s] = "open" /\ UNCHANGED conn
    BY <1>7, UnsubscribeEffect DEF Unsubscribe, Open
  <2>2. Held(s)' = [Held(s) EXCEPT !.subs = Held(s).subs \ {t}]
    BY <1>7, UnsubscribeEffect
  <2>3. Steady!Unsubscribe(s, t)
    BY <1>1, <1>7, <2>1, <2>2, UnsubscribeEffect DEF Steady!Unsubscribe, Steady!Keep, Steady!OwnOnly
  <2> QED
    BY <2>3 DEF Steady!Next
<1>8. ASSUME Restart PROVE Steady!Next
  <2>1. /\ conn' = [s \in Socket |-> IF s \in Open THEN "gone" ELSE conn[s]]
        /\ spoiled' = {} /\ Open' = {}
    BY <1>8 DEF Restart, Open
  <2>2. \A s \in Socket : Held(s)' = [subs |-> {}, authed |-> None]
    BY <2>1 DEF Held
  <2>3. Open \subseteq Socket /\ \A s \in Open : conn[s] = "open"
    BY DEF Open
  <2>4. \A s \in Socket \ Open : Held(s) = [subs |-> {}, authed |-> None]
    BY HeldNothing
  <2>5. Steady!Leave(Open)
    BY <1>1, <2>1, <2>2, <2>3, <2>4 DEF Steady!Leave, Steady!Keep, Steady!OwnOnly, Steady!Nothing
  <2> QED
    BY <2>3, <2>5 DEF Steady!Next
<1>9. ASSUME UNCHANGED <<conn, sid, session, rows>>, spoiled \subseteq spoiled' PROVE Steady!Next
  BY <1>0, <1>9, AsideEffect, LoseStep DEF Undisturbed
<1>10. ASSUME Hibernate PROVE Steady!Next
  BY <1>0, <1>10, HibernateEffect, LoseStep
<1> QED
  BY <1>2, <1>3, <1>4, <1>5, <1>6, <1>7, <1>8, <1>9, <1>10
  DEF Next, QueryEvents, Eose, Publish, SaveEvent, BroadcastEvent, Alarm, memory, storage

-----------------------------------------------------------------------------
(* The delivery invariant, action by action.                               *)

LEMMA InitDelivery == Init => DeliveryInv
<1> SUFFICES ASSUME Init PROVE DeliveryInv
  OBVIOUS
<1>1. Open = {}
  BY DEF Init, Open
<1> QED
  BY <1>1 DEF Init, DeliveryInv, AckInv, GateInv, AwakeInv, ReachInv, NoReq

(* A step of the session layer that publishes nothing and answers no REQ:  *)
(* connections outside S keep what they hold, those in S are gone or new.  *)
LEMMA QuietStep ==
    ASSUME SessionInv, SessionInv', DeliveryInv, NEW S \in SUBSET Socket,
           UNCHANGED <<req, post, stored>>, spoiled' \subseteq Open',
           \A s \in Socket \ S : /\ acked'[s] = acked[s] /\ got'[s] = got[s]
                                 /\ s \in Open <=> s \in Open'
                                 /\ conn'[s] = "new" <=> conn[s] = "new",
           \A s \in Socket \ S : s \notin spoiled' => s \notin spoiled /\ Held(s)' = Held(s),
           \A s \in S : /\ acked'[s] = {} /\ conn'[s] # "new"
                        /\ s \in Open' => /\ req[s] = NoReq
                                          /\ Held(s)' = [subs |-> {}, authed |-> None],
           \A e \in Event : post[e] \in {"saving", "saved"} => \A s \in Open' : Tracked(s)'
    PROVE  DeliveryInv'
<1>0. Open \subseteq Socket /\ Open' \subseteq Socket
  BY DEF Open
<1>1. AckInv'
  <2>1. ASSUME NEW s \in Open', s \notin spoiled' PROVE acked'[s] \subseteq Held(s)'.subs
    BY <1>0, <2>1 DEF DeliveryInv, AckInv
  <2>2. ASSUME NEW s \in Socket PROVE /\ s \notin Open' => acked'[s] = {}
                                      /\ conn'[s] = "new" => req'[s] = NoReq
    BY <2>2 DEF DeliveryInv, AckInv
  <2> QED
    BY <2>1, <2>2 DEF AckInv
<1>2. GateInv'
  <2>1. ASSUME NEW s \in Open', req'[s].on, req'[s].topic \in Protected PROVE req'[s].as = s
    BY <1>0, <2>1 DEF DeliveryInv, GateInv, NoReq
  <2>2. ASSUME NEW s \in Open', s \notin spoiled', NEW t \in Protected, t \in Held(s)'.subs
        PROVE  Held(s)'.authed = s
    BY <1>0, <2>2 DEF DeliveryInv, GateInv
  <2> QED
    BY <2>1, <2>2 DEF GateInv
<1>3. AwakeInv'
  BY DEF DeliveryInv, AwakeInv
<1>4. ReachInv'
  <2>1. ASSUME NEW s \in Open', s \notin spoiled', NEW e \in Event, post[e] = "done", Readable(e, s)
        PROVE  Answered(s, e)'
    <3>1. CASE s \in S
      BY <2>1, <3>1 DEF Answered, NoReq
    <3>2. CASE s \notin S
      <4>1. s \in Open /\ s \notin spoiled /\ Held(s)' = Held(s) /\ acked'[s] = acked[s] /\ got'[s] = got[s]
        BY <1>0, <2>1, <3>2
      <4>2. Answered(s, e)
        BY <2>1, <4>1 DEF DeliveryInv, ReachInv
      <4> QED
        BY <4>1, <4>2 DEF Answered
    <3> QED
      BY <3>1, <3>2
  <2> QED
    BY <2>1 DEF ReachInv, Readable
<1> QED
  BY <1>1, <1>2, <1>3, <1>4 DEF DeliveryInv

\* A recovery keeps the delivery invariant.
LEMMA RecoverDelivery ==
    ASSUME SessionInv, DeliveryInv, NEW s \in Socket, RecoverSession(s)
    PROVE  DeliveryInv'
<1>1. SessionInv' /\ UNCHANGED <<conn, acked, req, got, post, stored>>
  BY RecoverStep DEF RecoverSession, client, reading, posting
<1>2. /\ Open' = Open /\ spoiled \subseteq spoiled' /\ spoiled' \subseteq Open'
      /\ \A r \in Open' : Tracked(r)'
      /\ \A r \in Socket : r \notin spoiled' => r \notin spoiled /\ Held(r)' = Held(r)
  BY RecoverEffect DEF Undisturbed, DeliveryInv, AckInv
<1>3. {} \in SUBSET Socket /\ Socket \ {} = Socket
  OBVIOUS
<1> QED
  BY <1>1, <1>2, <1>3, QuietStep

\* So does a connection.
LEMMA ConnectDelivery ==
    ASSUME SessionInv, Reliable, DeliveryInv, NEW s \in Socket, Connect(s)
    PROVE  DeliveryInv'
<1>1. /\ SessionInv' /\ UNCHANGED <<acked, req, got, post, stored>>
      /\ conn[s] = "new" /\ conn' = [conn EXCEPT ![s] = "open"]
  BY ConnectSession DEF Connect, client, reading, posting
<1>2. /\ s \notin Open /\ Open' = Open \cup {s} /\ spoiled \subseteq spoiled' /\ spoiled' \subseteq Open'
      /\ \A r \in Open' : Tracked(r)'
      /\ Held(s)' = [subs |-> {}, authed |-> None]
      /\ \A r \in Socket \ {s} : r \notin spoiled' => r \notin spoiled /\ Held(r)' = Held(r)
  BY ConnectEffect DEF DeliveryInv, AckInv
<1>3. acked[s] = {} /\ req[s] = NoReq
  BY <1>1, <1>2 DEF DeliveryInv, AckInv
<1>4. conn'[s] # "new" /\ \A r \in Socket \ {s} : conn'[r] = conn[r] /\ (r \in Open <=> r \in Open')
  BY <1>1, <1>2 DEF SessionInv, TypeOK
<1>5. {s} \in SUBSET Socket
  OBVIOUS
<1> QED
  BY <1>1, <1>2, <1>3, <1>4, <1>5, QuietStep

\* So does the end of one.
LEMMA CloseDelivery ==
    ASSUME SessionInv, Reliable, DeliveryInv, NEW s \in Socket, Close(s)
    PROVE  DeliveryInv'
<1>1. /\ SessionInv' /\ UNCHANGED <<req, post, stored>>
      /\ conn' = [conn EXCEPT ![s] = "gone"] /\ acked' = [acked EXCEPT ![s] = {}]
      /\ got' = [got EXCEPT ![s] = {}]
  BY CloseSession DEF Close, posting
<1>2. /\ s \in Open /\ Open' = Open \ {s} /\ spoiled' = spoiled \ {s}
      /\ \A r \in Socket \ {s} : Tracked(r)' <=> Tracked(r)
      /\ \A r \in Socket \ {s} : r \notin spoiled' => r \notin spoiled /\ Held(r)' = Held(r)
  BY CloseEffect
<1>3. /\ conn'[s] # "new" /\ acked'[s] = {} /\ s \notin Open' /\ spoiled' \subseteq Open'
      /\ \A r \in Socket \ {s} : /\ conn'[r] = conn[r] /\ (r \in Open <=> r \in Open')
                                 /\ acked'[r] = acked[r] /\ got'[r] = got[r]
  BY <1>1, <1>2 DEF SessionInv, TypeOK, DeliveryInv, AckInv
<1>4. \A e \in Event : post[e] \in {"saving", "saved"} => \A r \in Open' : Tracked(r)'
  BY <1>2 DEF DeliveryInv, AwakeInv, Open
<1>5. {s} \in SUBSET Socket
  OBVIOUS
<1>6. ASSUME NEW r \in Socket \ {s}
      PROVE  /\ acked'[r] = acked[r] /\ got'[r] = got[r]
             /\ r \in Open <=> r \in Open'
             /\ conn'[r] = "new" <=> conn[r] = "new"
  BY <1>3
<1>7. ASSUME NEW r \in {s}
      PROVE  /\ acked'[r] = {} /\ conn'[r] # "new"
             /\ r \in Open' => /\ req[r] = NoReq
                               /\ Held(r)' = [subs |-> {}, authed |-> None]
  BY <1>3
<1>8. /\ SessionInv' /\ UNCHANGED <<req, post, stored>> /\ spoiled' \subseteq Open'
      /\ \A r \in Socket \ {s} : r \notin spoiled' => r \notin spoiled /\ Held(r)' = Held(r)
  BY <1>1, <1>2, <1>3
<1> QED
  BY <1>4, <1>5, <1>6, <1>7, <1>8, QuietStep

\* So does a sleep, which waits for the handlers under way.
LEMMA HibernateDelivery ==
    ASSUME SessionInv, DeliveryInv, Hibernate
    PROVE  DeliveryInv'
<1>1. SessionInv' /\ UNCHANGED <<conn, acked, req, got, post, stored>>
  BY HibernateSession DEF Hibernate, client, reading, posting
<1>2. /\ Open' = Open /\ spoiled' = spoiled /\ spoiled' \subseteq Open'
      /\ \A r \in Socket : r \notin spoiled' => r \notin spoiled /\ Held(r)' = Held(r)
  BY HibernateEffect DEF Undisturbed, DeliveryInv, AckInv
<1>3. \A e \in Event : post[e] \notin {"saving", "saved"}
  BY DEF Hibernate, Idle
<1>4. {} \in SUBSET Socket /\ Socket \ {} = Socket
  OBVIOUS
<1> QED
  BY <1>1, <1>2, <1>3, <1>4, QuietStep

\* So does a restart, which ends every connection.
LEMMA RestartDelivery ==
    ASSUME SessionInv, DeliveryInv, Restart
    PROVE  DeliveryInv'
<1>1. Open' = {} /\ spoiled' = {} /\ acked' = [s \in Socket |-> {}] /\ req' = [s \in Socket |-> NoReq]
      /\ UNCHANGED stored
  BY DEF Restart, Open
<1>2. \A e \in Event : post'[e] \notin {"saving", "saved"} /\ (post'[e] = "done" => post[e] = "done")
  BY DEF Restart
<1> QED
  BY <1>1, <1>2 DEF DeliveryInv, AckInv, GateInv, AwakeInv, ReachInv, NoReq

(* AUTH, REQ and CLOSE: session s ends with more identity, or one topic    *)
(* more or less, and with the same acknowledged topics or fewer.           *)
LEMMA FrameDelivery ==
    ASSUME SessionInv, SessionInv', DeliveryInv, NEW s \in Open, UNCHANGED <<conn, got, post, stored>>,
           Open' = Open, \A r \in Socket : Tracked(r)' <=> Tracked(r),
           spoiled \subseteq spoiled', spoiled' \subseteq spoiled \cup Open,
           \A r \in Socket \ ({s} \cup spoiled') : Held(r)' = Held(r),
           \A r \in Socket \ {s} : req'[r] = req[r] /\ acked'[r] = acked[r],
           acked'[s] \subseteq acked[s] \cap Held(s)'.subs \/ s \in spoiled',
           s \in spoiled' \/ \A t \in Protected : t \in Held(s)'.subs => Held(s)'.authed = s,
           \/ req'[s] = req[s] /\ Held(s)'.subs \subseteq Held(s).subs
           \/ ~req'[s].asked /\ (req'[s].topic \in Protected => req'[s].as = s)
    PROVE  DeliveryInv'
<1>0. Open \subseteq Socket
  BY DEF Open
<1>1. AckInv'
  <2>1. ASSUME NEW r \in Open, r \notin spoiled' PROVE acked'[r] \subseteq Held(r)'.subs
    <3>1. CASE r = s
      BY <2>1, <3>1
    <3>2. CASE r # s
      BY <1>0, <2>1, <3>2 DEF DeliveryInv, AckInv
    <3> QED
      BY <3>1, <3>2
  <2>2. ASSUME NEW r \in Socket PROVE /\ r \notin Open => acked'[r] = {}
                                      /\ conn[r] = "new" => req'[r] = NoReq
    BY <2>2 DEF DeliveryInv, AckInv, Open
  <2>3. spoiled' \subseteq Open
    BY DEF DeliveryInv, AckInv
  <2> QED
    BY <2>1, <2>2, <2>3 DEF AckInv
<1>2. GateInv'
  <2>1. ASSUME NEW r \in Open, req'[r].on, req'[r].topic \in Protected PROVE req'[r].as = r
    BY <1>0, <2>1 DEF DeliveryInv, GateInv
  <2>2. ASSUME NEW r \in Open, r \notin spoiled', NEW t \in Protected, t \in Held(r)'.subs
        PROVE  Held(r)'.authed = r
    <3>1. CASE r = s
      BY <2>2, <3>1
    <3>2. CASE r # s
      BY <1>0, <2>2, <3>2 DEF DeliveryInv, GateInv
    <3> QED
      BY <3>1, <3>2
  <2> QED
    BY <2>1, <2>2 DEF GateInv
<1>3. ASSUME \A r \in Socket : req'[r].asked => req'[r].on PROVE AwakeInv'
  BY <1>0, <1>3 DEF DeliveryInv, AwakeInv
<1>4. \A r \in Socket : req'[r].asked => req'[r].on
  BY <1>0 DEF DeliveryInv, AwakeInv
<1>5. ReachInv'
  <2>1. ASSUME NEW r \in Open, r \notin spoiled', NEW e \in Event, post[e] = "done", Readable(e, r)
        PROVE  Answered(r, e)'
    <3>1. Answered(r, e) /\ r \in Socket
      BY <1>0, <2>1 DEF DeliveryInv, ReachInv
    <3>2. CASE r = s
      BY <2>1, <3>1, <3>2 DEF Answered
    <3>3. CASE r # s
      BY <2>1, <3>1, <3>3 DEF Answered
    <3> QED
      BY <3>2, <3>3
  <2> QED
    BY <2>1 DEF ReachInv, Readable
<1> QED
  BY <1>1, <1>2, <1>3, <1>4, <1>5 DEF DeliveryInv

\* So does AUTH.
LEMMA AuthDelivery ==
    ASSUME SessionInv, DeliveryInv, NEW s \in Socket, Auth(s)
    PROVE  DeliveryInv'
<1>1. SessionInv' /\ UNCHANGED <<conn, acked, req, got, post, stored>>
  BY AuthSession DEF Auth, reading, posting
<1>2. /\ s \in Open /\ Open' = Open /\ \A r \in Socket : Tracked(r)' <=> Tracked(r)
      /\ spoiled \subseteq spoiled' /\ spoiled' \subseteq spoiled \cup Open
      /\ Held(s)'.subs = Held(s).subs /\ Held(s)'.authed = s
      /\ \A r \in Socket \ ({s} \cup spoiled') : Held(r)' = Held(r)
  BY AuthEffect
<1>3. acked'[s] \subseteq acked[s] \cap Held(s)'.subs \/ s \in spoiled'
  BY <1>1, <1>2 DEF DeliveryInv, AckInv
<1> QED
  BY <1>1, <1>2, <1>3, FrameDelivery

\* So does REQ, which subscribes before it queries.
LEMMA ReqDelivery ==
    ASSUME SessionInv, DeliveryInv, NEW s \in Socket, NEW t \in Topic, Req(s, t)
    PROVE  DeliveryInv'
<1>1. /\ SessionInv' /\ UNCHANGED <<conn, acked, got, post, stored>>
      /\ req' = [req EXCEPT ![s] = [NoReq EXCEPT !.on = TRUE, !.topic = t, !.as = session[s].authed]]
      /\ t \in Protected => session[s].authed # None
  BY ReqSession DEF Req, client, posting
<1>2. /\ s \in Open /\ Open' = Open /\ \A r \in Socket : Tracked(r)' <=> Tracked(r)
      /\ spoiled \subseteq spoiled' /\ spoiled' \subseteq spoiled \cup Open
      /\ Held(s).subs = session[s].subs /\ Held(s).authed = session[s].authed
      /\ Held(s)'.subs = session[s].subs \cup {t} /\ Held(s)'.authed = session[s].authed
      /\ \A r \in Socket \ ({s} \cup spoiled') : Held(r)' = Held(r)
  BY ReqEffect
<1>3. t \in Protected => session[s].authed = s
  BY <1>1, <1>2, HeldOwn
<1>4. /\ ~req'[s].asked /\ (req'[s].topic \in Protected => req'[s].as = s)
      /\ \A r \in Socket \ {s} : req'[r] = req[r] /\ acked'[r] = acked[r]
  BY <1>1, <1>3 DEF NoReq, SessionInv, TypeOK
<1>5. acked'[s] \subseteq acked[s] \cap Held(s)'.subs \/ s \in spoiled'
  BY <1>1, <1>2 DEF DeliveryInv, AckInv
<1>6. s \in spoiled' \/ \A p \in Protected : p \in Held(s)'.subs => Held(s)'.authed = s
  BY <1>2, <1>3 DEF DeliveryInv, GateInv
<1> QED
  BY <1>1, <1>2, <1>4, <1>5, <1>6, FrameDelivery

\* So does CLOSE.
LEMMA UnsubscribeDelivery ==
    ASSUME SessionInv, DeliveryInv, NEW s \in Socket, NEW t \in Topic, Unsubscribe(s, t)
    PROVE  DeliveryInv'
<1>1. /\ SessionInv' /\ UNCHANGED <<conn, req, got, post, stored>>
      /\ acked' = [acked EXCEPT ![s] = acked[s] \ {t}]
  BY UnsubscribeSession DEF Unsubscribe, reading, posting
<1>2. /\ s \in Open /\ Open' = Open /\ \A r \in Socket : Tracked(r)' <=> Tracked(r)
      /\ spoiled \subseteq spoiled' /\ spoiled' \subseteq spoiled \cup Open
      /\ Held(s).subs = session[s].subs /\ Held(s).authed = session[s].authed
      /\ Held(s)'.subs = session[s].subs \ {t} /\ Held(s)'.authed = session[s].authed
      /\ \A r \in Socket \ ({s} \cup spoiled') : Held(r)' = Held(r)
  BY UnsubscribeEffect
<1>3. acked'[s] = acked[s] \ {t} /\ \A r \in Socket \ {s} : acked'[r] = acked[r]
  BY <1>1 DEF SessionInv, TypeOK
<1>4. acked'[s] \subseteq acked[s] \cap Held(s)'.subs \/ s \in spoiled'
  BY <1>1, <1>2, <1>3 DEF DeliveryInv, AckInv
<1>5. s \in spoiled' \/ \A p \in Protected : p \in Held(s)'.subs => Held(s)'.authed = s
  BY <1>2 DEF DeliveryInv, GateInv
<1> QED
  BY <1>1, <1>2, <1>3, <1>4, <1>5, FrameDelivery

\* The query of a REQ finds every event stored before it.
LEMMA QueryDelivery ==
    ASSUME SessionInv, DeliveryInv, NEW s \in Socket, QueryEvents(s)
    PROVE  DeliveryInv'
<1>1. UNCHANGED <<conn, sid, session, rows, acked, got, post, stored>>
  BY DEF QueryEvents, memory, storage, client, posting
<1>2. Open' = Open /\ \A r \in Socket : (Tracked(r)' <=> Tracked(r)) /\ Held(r)' = Held(r)
  BY <1>1, AsideEffect
<1>3. /\ req[s].on /\ ~req[s].asked /\ spoiled \subseteq spoiled' /\ spoiled' \subseteq spoiled \cup Open
      /\ s \in Open /\ s \notin spoiled' => req' = [req EXCEPT ![s].asked = TRUE,
                                    ![s].found = {e \in stored : About[e] = req[s].topic}]
  BY DEF QueryEvents, Open
<1>4. /\ req'[s].on /\ req'[s].topic = req[s].topic /\ req'[s].as = req[s].as
      /\ \A r \in Socket \ {s} : req'[r] = req[r]
  BY <1>3 DEF QueryEvents, SessionInv, TypeOK, Request
<1>5. s \in Open /\ s \notin spoiled' => req'[s].found = {e \in stored : About[e] = req[s].topic}
  BY <1>3 DEF SessionInv, TypeOK, Request
<1>6. AckInv'
  <2>1. \A r \in Socket : conn[r] = "new" => r # s
    BY <1>3 DEF DeliveryInv, AckInv, NoReq
  <2> QED
    BY <1>1, <1>2, <1>3, <1>4, <2>1 DEF DeliveryInv, AckInv, Open
<1>7. GateInv'
  BY <1>2, <1>3, <1>4 DEF DeliveryInv, GateInv, Open
<1>8. AwakeInv'
  BY <1>1, <1>2, <1>4 DEF DeliveryInv, AwakeInv, Open
<1>9. ReachInv'
  <2>1. ASSUME NEW r \in Open, r \notin spoiled', NEW e \in Event, post[e] = "done", Readable(e, r)
        PROVE  Answered(r, e)'
    <3>1. Answered(r, e) /\ r \in Socket /\ e \in stored
      BY <1>3, <2>1 DEF DeliveryInv, ReachInv, AwakeInv, Open
    <3>2. CASE r = s
      BY <1>1, <1>4, <1>5, <2>1, <3>1, <3>2 DEF Answered
    <3>3. CASE r # s
      BY <1>1, <1>2, <1>4, <3>1, <3>3 DEF Answered
    <3> QED
      BY <3>2, <3>3
  <2> QED
    BY <1>1, <1>2, <2>1 DEF ReachInv, Readable
<1> QED
  BY <1>6, <1>7, <1>8, <1>9 DEF DeliveryInv

\* EOSE acknowledges what was queried or reached the live subscription.
LEMMA EoseDelivery ==
    ASSUME SessionInv, DeliveryInv, NEW s \in Socket, Eose(s)
    PROVE  DeliveryInv'
<1>1. UNCHANGED <<conn, sid, session, rows, post, stored, spoiled>>
  BY DEF Eose, memory, storage, posting
<1>2. Open' = Open /\ Open \subseteq Socket
      /\ \A r \in Socket : (Tracked(r)' <=> Tracked(r)) /\ Held(r)' = Held(r)
  BY <1>1, AsideEffect DEF Open
<1>3. /\ req[s].asked /\ req[s].on /\ req'[s] = NoReq
      /\ \A r \in Socket \ {s} : req'[r] = req[r] /\ acked'[r] = acked[r] /\ got'[r] = got[r]
  BY DEF Eose, SessionInv, TypeOK, DeliveryInv, AwakeInv
<1>4. s \in Open => /\ got'[s] = got[s] \cup {e \in req[s].found : Readable(e, req[s].as)}
                    /\ acked'[s] = acked[s] \cup ({req[s].topic} \cap session[s].subs)
  BY DEF Eose, SessionInv, TypeOK
<1>5. s \notin Open => acked'[s] = acked[s]
  BY DEF Eose
<1>6. s \in Open => session[s].subs \subseteq Held(s).subs
  BY DEF SessionInv, MapInv, Held, NoSession
<1>7. AckInv'
  BY <1>1, <1>2, <1>3, <1>4, <1>5, <1>6 DEF DeliveryInv, AckInv
<1>8. GateInv'
  BY <1>1, <1>2, <1>3 DEF DeliveryInv, GateInv, NoReq
<1>9. AwakeInv'
  BY <1>1, <1>2, <1>3 DEF DeliveryInv, AwakeInv, NoReq
<1>10. ReachInv'
  <2>1. ASSUME NEW r \in Open, r \notin spoiled, NEW e \in Event, post[e] = "done", Readable(e, r)
        PROVE  Answered(r, e)'
    <3>1. Answered(r, e) /\ r \in Socket
      BY <1>2, <2>1 DEF DeliveryInv, ReachInv
    <3>2. CASE r = s
      <4>1. About[e] \in acked'[s] => e \in got'[s]
        <5>1. CASE About[e] \in acked[s]
          BY <1>4, <2>1, <3>1, <3>2, <5>1 DEF Answered
        <5>2. CASE About[e] = req[s].topic /\ About[e] \in session[s].subs
          <6>1. e \in got[s] \cup req[s].found
            BY <1>3, <1>6, <2>1, <3>1, <3>2, <5>2 DEF Answered
          <6>2. Readable(e, req[s].as)
            BY <1>3, <2>1, <3>2, <5>2 DEF Readable, DeliveryInv, GateInv
          <6> QED
            BY <1>4, <2>1, <3>2, <6>1, <6>2
        <5> QED
          BY <1>4, <2>1, <3>2, <5>1, <5>2
      <4> QED
        BY <1>3, <3>2, <4>1 DEF Answered, NoReq
    <3>3. CASE r # s
      BY <1>2, <1>3, <3>1, <3>3 DEF Answered
    <3> QED
      BY <3>2, <3>3
  <2> QED
    BY <1>1, <1>2, <2>1 DEF ReachInv, Readable
<1> QED
  BY <1>7, <1>8, <1>9, <1>10 DEF DeliveryInv

(* An event moves on without having been broadcast.                        *)
LEMMA PostDelivery ==
    ASSUME SessionInv, DeliveryInv, NEW e \in Event,
           UNCHANGED <<conn, sid, session, rows, acked, got, req, spoiled>>,
           \A d \in Event \ {e} : post'[d] = post[d], post'[e] # "done",
           post'[e] \in {"saving", "saved"} => \A s \in Open : Tracked(s),
           stored \subseteq stored', post'[e] = "saved" => e \in stored'
    PROVE  DeliveryInv'
<1>1. Open' = Open /\ Open \subseteq Socket
      /\ \A r \in Socket : (Tracked(r)' <=> Tracked(r)) /\ Held(r)' = Held(r)
  BY AsideEffect DEF Open
<1>2. AckInv'
  BY <1>1 DEF DeliveryInv, AckInv
<1>3. GateInv'
  BY <1>1 DEF DeliveryInv, GateInv
<1>4. AwakeInv'
  BY <1>1 DEF DeliveryInv, AwakeInv
<1>5. ReachInv'
  <2>1. ASSUME NEW r \in Open, r \notin spoiled, NEW d \in Event, post'[d] = "done", Readable(d, r)
        PROVE  Answered(r, d)'
    <3>1. Answered(r, d) /\ r \in Socket
      BY <1>1, <2>1 DEF DeliveryInv, ReachInv
    <3> QED
      BY <1>1, <3>1 DEF Answered
  <2> QED
    BY <1>1, <2>1 DEF ReachInv, Readable
<1> QED
  BY <1>2, <1>3, <1>4, <1>5 DEF DeliveryInv

\* A broadcast reaches every session that passed its gate.
LEMMA BroadcastDelivery ==
    ASSUME SessionInv, DeliveryInv, NEW e \in Event, BroadcastEvent(e)
    PROVE  DeliveryInv'
<1>1. /\ UNCHANGED <<conn, sid, session, rows, acked, req, stored, spoiled>> /\ post[e] = "saved"
      /\ \A d \in Event \ {e} : post'[d] = post[d]
      /\ \A r \in Socket : got[r] \subseteq got'[r]
      /\ \A r \in Socket : Tracked(r) /\ About[e] \in session[r].subs /\ Readable(e, session[r].authed)
            => e \in got'[r]
  BY DEF BroadcastEvent, memory, storage, client, SessionInv, TypeOK
<1>2. Open' = Open /\ Open \subseteq Socket
      /\ \A r \in Socket : (Tracked(r)' <=> Tracked(r)) /\ Held(r)' = Held(r)
  BY <1>1, AsideEffect DEF Open
<1>3. AckInv'
  BY <1>1, <1>2 DEF DeliveryInv, AckInv
<1>4. GateInv'
  BY <1>1, <1>2 DEF DeliveryInv, GateInv
<1>5. post'[e] \in {"done"} /\ e \in stored
  BY <1>1 DEF BroadcastEvent, SessionInv, TypeOK, DeliveryInv, AwakeInv
<1>6. AwakeInv'
  BY <1>1, <1>2, <1>5 DEF DeliveryInv, AwakeInv
<1>7. ReachInv'
  <2>1. ASSUME NEW r \in Open, r \notin spoiled, NEW d \in Event, post'[d] = "done", Readable(d, r)
        PROVE  Answered(r, d)'
    <3>0. r \in Socket
      BY <1>2
    <3>1. CASE d = e
      <4>1. Tracked(r) /\ Held(r) = [subs |-> session[r].subs, authed |-> session[r].authed]
        BY <1>1, HeldSession DEF DeliveryInv, AwakeInv
      <4>2. ASSUME About[e] \in Held(r).subs PROVE e \in got'[r]
        <5>1. Readable(e, session[r].authed)
          BY <2>1, <3>1, <4>1, <4>2 DEF Readable, DeliveryInv, GateInv
        <5> QED
          BY <1>1, <3>0, <4>1, <4>2, <5>1
      <4>3. acked[r] \subseteq Held(r).subs
        BY <2>1 DEF DeliveryInv, AckInv
      <4> QED
        BY <1>1, <1>2, <3>0, <3>1, <4>2, <4>3 DEF Answered
    <3>2. CASE d # e
      <4>1. Answered(r, d)
        BY <1>1, <2>1, <3>2 DEF DeliveryInv, ReachInv
      <4> QED
        BY <1>1, <1>2, <3>0, <4>1 DEF Answered
    <3> QED
      BY <3>1, <3>2
  <2> QED
    BY <1>1, <1>2, <2>1 DEF ReachInv, Readable
<1> QED
  BY <1>3, <1>4, <1>6, <1>7 DEF DeliveryInv

\* A step that touches none of it keeps the delivery invariant.
LEMMA AloneDelivery ==
    ASSUME DeliveryInv, UNCHANGED <<conn, sid, session, rows, acked, got, req, post, stored, spoiled>>
    PROVE  DeliveryInv'
<1>1. Open' = Open /\ Open \subseteq Socket
      /\ \A r \in Socket : (Tracked(r)' <=> Tracked(r)) /\ Held(r)' = Held(r)
  BY AsideEffect DEF Open
<1> QED
  BY <1>1 DEF DeliveryInv, AckInv, GateInv, AwakeInv, ReachInv, Answered, Readable

\* Every step keeps the delivery invariant.
LEMMA NextDelivery ==
    ASSUME SessionInv, DeliveryInv, Reliable, [Next]_vars
    PROVE  DeliveryInv'
<1>1. ASSUME NEW s \in Socket, NEW e \in Event, Publish(s, e) PROVE DeliveryInv'
  <2>1. /\ UNCHANGED <<conn, sid, session, rows, acked, got, req, spoiled, stored>> /\ Tracked(s)
        /\ post' = [post EXCEPT ![e] = "saving"]
    BY <1>1 DEF Publish, memory, storage, client, reading
  <2>2. \A r \in Open : Tracked(r)
    BY <2>1 DEF SessionInv, MapInv
  <2> QED
    BY <2>1, <2>2, PostDelivery DEF SessionInv, TypeOK
<1>2. ASSUME NEW e \in Event, SaveEvent(e) PROVE DeliveryInv'
  <2>1. /\ UNCHANGED <<conn, sid, session, rows, acked, got, req, spoiled>> /\ stored \subseteq stored'
        /\ post[e] = "saving"
        /\ \/ post' = [post EXCEPT ![e] = "saved"] /\ e \in stored'
           \/ post' = [post EXCEPT ![e] = "refused"]
    BY <1>2 DEF SaveEvent, memory, storage, client, reading
  <2>2. \A r \in Open : Tracked(r)
    BY <2>1 DEF DeliveryInv, AwakeInv
  <2>3. /\ \A d \in Event \ {e} : post'[d] = post[d] /\ post'[e] # "done"
        /\ post'[e] = "saved" => e \in stored'
    BY <2>1 DEF SessionInv, TypeOK
  <2>4. post'[e] # "done"
    BY <2>1 DEF SessionInv, TypeOK
  <2> QED
    BY <2>1, <2>2, <2>3, <2>4, PostDelivery
<1>3. ASSUME Alarm \/ UNCHANGED vars PROVE DeliveryInv'
  BY <1>3, AloneDelivery DEF Alarm, vars, memory, storage, client, reading, posting
<1>4. CASE Next
  BY <1>1, <1>2, <1>3, <1>4, RecoverDelivery, ConnectDelivery, CloseDelivery, AuthDelivery,
     ReqDelivery, UnsubscribeDelivery, QueryDelivery, EoseDelivery, BroadcastDelivery,
     HibernateDelivery, RestartDelivery DEF Next
<1> QED
  BY <1>3, <1>4

-----------------------------------------------------------------------------
(* Theorems.                                                               *)

THEOREM DeliveryInvariant ==
    ASSUME Reliable PROVE Spec => []DeliveryInv
<1>1. SessionInv /\ DeliveryInv /\ [Next]_vars => DeliveryInv'
  BY NextDelivery
<1> QED
  BY <1>1, InitDelivery, SessionInvariant, PTL DEF Spec

(* A published event reaches every connection that was told the stored     *)
(* events of a matching subscription are complete (handle_req,             *)
(* broadcast_event and the recoveries between them).                       *)
THEOREM NothingIsMissed ==
    ASSUME Reliable PROVE Spec => []NothingMissed
<1>1. DeliveryInv => NothingMissed
  BY DEF DeliveryInv, ReachInv, Answered, NothingMissed
<1> QED
  BY <1>1, DeliveryInvariant, PTL

(* Sleeping is invisible: the relay implements one that never sleeps, for  *)
(* every connection whose storage calls succeed.                           *)
THEOREM SleepIsInvisible ==
    ASSUME Reliable PROVE Spec => NeverSleeps
<1>1. Init => Steady!Init
  BY DEF Init, Steady!Init, Steady!Nothing, Held, Open
<1>2. ASSUME SessionInv, DeliveryInv, [Next]_vars PROVE [Steady!Next]_Steady!vars
  <2>1. CASE Next
    BY <1>2, <2>1, SteadyStep DEF DeliveryInv, AckInv
  <2>2. CASE UNCHANGED vars
    <3>1. UNCHANGED <<conn, sid, session, rows, spoiled>>
      BY <2>2 DEF vars, memory, storage
    <3> QED
      BY <3>1, AsideEffect DEF Steady!vars
  <2> QED
    BY <1>2, <2>1, <2>2
<1> QED
  BY <1>1, <1>2, SessionInvariant, DeliveryInvariant, PTL DEF Spec, NeverSleeps, Steady!Spec

-----------------------------------------------------------------------------
(* The connection counter.                                                 *)

(* It is zero while sessions are missing from the map.                     *)
SlotInv == SlotsNotLeaked /\ (Missing # {} => slots = 0)

\* The open sockets can be counted.
LEMMA OpenCount ==
    ASSUME TypeOK
    PROVE  IsFiniteSet(Open) /\ Cardinality(Open) \in Nat /\ slots \in Nat
<1>1. Open \subseteq Socket /\ IsFiniteSet(Socket)
  BY SessionAssumption DEF Open
<1>2. IsFiniteSet(Open)
  BY <1>1, FS_Subset
<1> QED
  BY <1>2, FS_CardinalityType DEF TypeOK

\* Every step keeps the count of slots at or under that of open sockets.
LEMMA NextSlot ==
    ASSUME SessionInv, SlotInv, Reliable, [Next]_vars
    PROVE  SlotInv'
<1>1. IsFiniteSet(Open) /\ Cardinality(Open) \in Nat /\ slots \in Nat
  BY OpenCount DEF SessionInv
<1>2. ASSUME Open' = Open, \A r \in Socket : Tracked(r)' <=> Tracked(r), slots' = slots PROVE SlotInv'
  BY <1>2 DEF SlotInv, SlotsNotLeaked, Missing, Open
<1>3. ASSUME NEW s \in Socket, RecoverSession(s) PROVE SlotInv'
  <2>1. Missing' = {} /\ Open' = Open /\ slots' = slots
    BY <1>3, RecoverEffect DEF RecoverSession, Missing
  <2> QED
    BY <2>1 DEF SlotInv, SlotsNotLeaked
<1>4. ASSUME NEW s \in Socket, Connect(s) PROVE SlotInv'
  <2>1. Missing' = {} /\ s \notin Open /\ Open' = Open \cup {s} /\ slots' = slots + 1
    BY <1>4, ConnectEffect DEF Connect, Missing
  <2>2. Cardinality(Open \cup {s}) = Cardinality(Open) + 1
    BY <1>1, <2>1, FS_AddElement
  <2> QED
    BY <1>1, <2>1, <2>2 DEF SlotInv, SlotsNotLeaked
<1>5. ASSUME NEW s \in Socket, Close(s) PROVE SlotInv'
  <2>1. s \in Open /\ Open' = Open \ {s} /\ slots' = Released(s)
        /\ \A r \in Socket \ {s} : Tracked(r)' <=> Tracked(r)
    BY <1>5, CloseEffect DEF Close
  <2>2. Cardinality(Open \ {s}) = Cardinality(Open) - 1
    BY <1>1, <2>1, FS_RemoveElement
  <2>3. Missing' \subseteq Missing
    BY <2>1 DEF Missing, Open
  <2>4. slots' <= Cardinality(Open) - 1
    <3>1. CASE Tracked(s)
      BY <1>1, <2>1, <2>2, <3>1, FS_CardinalityType, FS_RemoveElement DEF SlotInv, SlotsNotLeaked, Released
    <3>2. CASE ~Tracked(s)
      BY <1>1, <2>1, <2>2, <3>2, FS_CardinalityType, FS_RemoveElement DEF SlotInv, Released, Missing
    <3> QED
      BY <3>1, <3>2
  <2> QED
    BY <1>1, <2>1, <2>2, <2>3, <2>4 DEF SlotInv, SlotsNotLeaked, Released
<1>6. ASSUME Hibernate \/ Restart \/ Alarm PROVE SlotInv'
  <2>1. slots' = 0
    BY <1>6, Forgotten DEF Hibernate, Restart, Alarm
  <2>2. Cardinality(Open') \in Nat
    <3>1. Open' \subseteq Open
      BY <1>6 DEF Hibernate, Restart, Alarm, Open
    <3> QED
      BY <1>1, <3>1, FS_Subset, FS_CardinalityType
  <2> QED
    BY <2>1, <2>2 DEF SlotInv, SlotsNotLeaked
<1>7. ASSUME NEW s \in Socket, Auth(s) PROVE SlotInv'
  BY <1>2, <1>7, AuthEffect DEF Auth
<1>8. ASSUME NEW s \in Socket, NEW t \in Topic, Req(s, t) PROVE SlotInv'
  BY <1>2, <1>8, ReqEffect DEF Req
<1>9. ASSUME NEW s \in Socket, NEW t \in Topic, Unsubscribe(s, t) PROVE SlotInv'
  BY <1>2, <1>9, UnsubscribeEffect DEF Unsubscribe
<1>10. ASSUME UNCHANGED <<conn, sid, session, rows, slots>> PROVE SlotInv'
  BY <1>2, <1>10, AsideEffect
<1> QED
  BY <1>3, <1>4, <1>5, <1>6, <1>7, <1>8, <1>9, <1>10
  DEF Next, QueryEvents, Eose, Publish, SaveEvent, BroadcastEvent, vars, memory, storage

(* The address is never charged for more connections than are open.        *)
THEOREM SlotsAreNotLeaked ==
    ASSUME Reliable PROVE Spec => []SlotsNotLeaked
<1>1. Init => SlotInv
  <2>1. Init => Open = {} /\ slots = 0 /\ Missing = {}
    BY DEF Init, Open, Missing
  <2> QED
    BY <2>1, FS_EmptySet DEF SlotInv, SlotsNotLeaked
<1>2. SessionInv /\ SlotInv /\ [Next]_vars => SlotInv'
  BY NextSlot
<1>3. SlotInv => SlotsNotLeaked
  BY DEF SlotInv
<1> QED
  BY <1>1, <1>2, <1>3, SessionInvariant, PTL DEF Spec
=============================================================================
