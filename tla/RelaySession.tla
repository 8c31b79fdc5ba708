---------------------------- MODULE RelaySession ----------------------------
(***************************************************************************)
(* The session layer of the relay's Durable Object (relay_do/session.rs,   *)
(* fetch and websocket_* in relay_do/mod.rs, REQ, CLOSE and AUTH in        *)
(* nip_handlers.rs, broadcast.rs).  The object sleeps: the runtime drops   *)
(* its memory and keeps its sockets with their tags, and whatever message  *)
(* or connection comes next rebuilds the sessions from three storage rows  *)
(* per session id.  It also restarts: then every socket is dropped without *)
(* its close handler, and its rows stay.                                   *)
(*                                                                         *)
(* Grain: the runtime holds other events back while a handler awaits the   *)
(* object's own storage, so a handler that awaits nothing else is one      *)
(* action; a handler that awaits D1 is several.  The object cannot sleep   *)
(* while a handler is under way.  A frame that wakes the object is         *)
(* RecoverSession followed by the action of its kind: a malformed frame    *)
(* stops between the two.                                                  *)
(***************************************************************************)
EXTENDS Integers, FiniteSets

CONSTANTS
    Socket,     \* connections clients make, each with a key of its own
    Reader,     \* the clients that subscribe
    Author,     \* the clients that publish
    Member,     \* the clients that keep answering until they are authenticated
    Topic,      \* what a subscription's filters ask for
    Protected,  \* the topics only an authenticated session may read
    Event,      \* events clients publish
    About,      \* event -> its topic
    To,         \* event -> the client a protected event is addressed to
    None,       \* no client, no identity
    MaxId,      \* bound on the session ids ever issued
    MaxSlots,   \* connections allowed per address; here all share one
    MaxSubs,    \* subscriptions per session
    Faulty,     \* the storage calls that may fail
    MaxFaults   \* bound on failures and restarts

ASSUME SessionAssumption ==
    /\ None \notin Socket /\ IsFiniteSet(Socket)
    /\ Reader \subseteq Socket /\ Author \subseteq Socket /\ Member \subseteq Socket
    /\ Protected \subseteq Topic
    /\ About \in [Event -> Topic] /\ To \in [Event -> Socket \cup {None}]
    /\ MaxId \in Nat /\ MaxSlots \in Nat /\ MaxSubs \in Nat /\ MaxFaults \in Nat
    /\ Faulty \subseteq {"get", "put", "delete", "mark", "d1"}

VARIABLES
    conn,     \* socket -> "new", "open" or "gone"
    sid,      \* socket -> the session id in its tag, 0 while it is not open
    session,  \* socket -> its entry in the sessions map
    next,     \* next_session_id
    slots,    \* connection_counts of the one address
    mark,     \* session_id_mark in storage, 0 when absent
    rows,     \* session id -> its ws_sub, ws_auth and ws_chal rows
    heard,    \* socket -> how many challenges it was sent since it opened
    proved,   \* sockets whose client was told that its AUTH is accepted
    acked,    \* socket -> topics whose EOSE its client saw
    req,      \* socket -> its REQ under way
    got,      \* socket -> events its client received
    post,     \* event -> how far its publication is
    stored,   \* events in D1
    spoiled,  \* sockets for which a storage call failed
    faults    \* failures and restarts so far

memory == <<session, next, slots>>
storage == <<mark, rows>>
client == <<proved, acked>>
reading == <<req, got>>
posting == <<post, stored>>
vars == <<conn, sid, memory, storage, heard, client, reading, posting, spoiled, faults>>

-----------------------------------------------------------------------------
(* Data.  A challenge is random, so no two are equal: the n-th one sent to *)
(* socket s is <<s, n>>.                                                   *)

Id == 1 .. MaxId
NoChallenge == <<None, 0>>
Challenge == (Socket \cup {None}) \X Nat
What == {"subs", "authed", "chal"}
Row == [subs : SUBSET Topic, authed : Socket \cup {None}, chal : Challenge]
SessionInfo == [on : BOOLEAN, subs : SUBSET Topic, authed : Socket \cup {None}, chal : Challenge]
NoRows == [subs |-> {}, authed |-> None, chal |-> NoChallenge]
NoSession == [on |-> FALSE, subs |-> {}, authed |-> None, chal |-> NoChallenge]
Request == [on : BOOLEAN, asked : BOOLEAN, topic : Topic \cup {None},
            as : Socket \cup {None}, found : SUBSET Event]
NoReq == [on |-> FALSE, asked |-> FALSE, topic |-> None, as |-> None, found |-> {}]

Open == {s \in Socket : conn[s] = "open"}
Tracked(s) == session[s].on
Readable(e, who) == About[e] \in Protected => To[e] = who

(* At most one storage call of a handler fails.  A failed write is logged, *)
(* a failed read counts as an absent row, a failed delete is ignored.      *)
Failures(op, ids, whats) ==
    {{<<op, id, what>>} : id \in IF op \in Faulty THEN ids ELSE {}, what \in whats}
Suffer(bad) ==
    \/ bad = {} /\ UNCHANGED faults
    \/ bad # {} /\ faults < MaxFaults /\ faults' = faults + 1
Spoilt(bad) == {s \in Open : \E b \in bad : b[2] = sid[s]}

SavedSubscriptions(id, subs, bad) ==
    IF <<"put", id, "subs">> \in bad THEN rows ELSE [rows EXCEPT ![id].subs = subs]

\* Mutated form: the identity is not saved.
SavedAuthNot(id, who, bad) == rows

SavedAuth(id, who, bad) ==
    IF <<"put", id, "authed">> \in bad THEN rows ELSE [rows EXCEPT ![id].authed = who]

-----------------------------------------------------------------------------
(* recover_untracked_sessions: every open socket the sessions map does not *)
(* hold is brought back; one whose challenge is gone is sent a new one.    *)

Missing == {s \in Open : ~Tracked(s)}
Loaded(id, bad) ==
    [subs |-> IF <<"get", id, "subs">> \in bad THEN {} ELSE rows[id].subs,
     authed |-> IF <<"get", id, "authed">> \in bad THEN None ELSE rows[id].authed,
     chal |-> IF <<"get", id, "chal">> \in bad THEN NoChallenge ELSE rows[id].chal]
Fresh(s) == <<s, heard[s] + 1>>
Reissued(bad) == {s \in Missing : Loaded(sid[s], bad).chal = NoChallenge}
Persisted(id, bad) == {s \in Reissued(bad) : sid[s] = id /\ <<"put", id, "chal">> \notin bad}

\* Mutated form: recovery leaves the subscriptions out.
SessionsFoundUnsubscribed(bad) ==
    [s \in Socket |->
        IF s \notin Missing THEN session[s]
        ELSE [on |-> TRUE, subs |-> {},
              authed |-> Loaded(sid[s], bad).authed,
              chal |-> IF s \in Reissued(bad) THEN Fresh(s) ELSE Loaded(sid[s], bad).chal]]

SessionsFound(bad) ==
    [s \in Socket |->
        IF s \notin Missing THEN session[s]
        ELSE [on |-> TRUE,
              subs |-> Loaded(sid[s], bad).subs,
              authed |-> Loaded(sid[s], bad).authed,
              chal |-> IF s \in Reissued(bad) THEN Fresh(s)
                       ELSE Loaded(sid[s], bad).chal]]
RowsFound(bad) ==
    [id \in Id |->
        IF Persisted(id, bad) = {} THEN rows[id]
        ELSE [rows[id] EXCEPT !.chal = Fresh(CHOOSE s \in Persisted(id, bad) : TRUE)]]

\* Mutated form: a challenge is made anew and not sent.
HeardFoundUnsent(bad) == heard

HeardFound(bad) ==
    [s \in Socket |-> IF s \in Reissued(bad) THEN heard[s] + 1 ELSE heard[s]]
FailedRecovery(S) ==
    Failures("get", {sid[s] : s \in Missing}, What)
        \cup Failures("put", {sid[s] : s \in Reissued({}) \cap S}, {"chal"})

(* next_session_id_after, for every session found: n is the least ahead.   *)

\* Mutated form: the counter may stop at an id in use.
AheadOffByOne(n) == n >= next /\ \A s \in Missing : n >= sid[s]

Ahead(n) == n >= next /\ \A s \in Missing : n > sid[s]
AheadOfAll(n) == Ahead(n) /\ \A k \in 1 .. n - 1 : ~Ahead(k)

(* A frame on a socket the map does not hold: recover_session.  The        *)
(* challenge of that socket itself is written twice, so one failed write   *)
(* does not lose it.                                                       *)
RecoverSession(s) ==
    /\ s \in Missing
    /\ \E bad \in {{}} \cup FailedRecovery(Socket \ {s}) :
          /\ session' = SessionsFound(bad)
          /\ rows' = RowsFound(bad)
          /\ heard' = HeardFound(bad)
          /\ spoiled' = spoiled \cup Spoilt(bad)
          /\ Suffer(bad)
    /\ next' \in {n \in 1 .. MaxId + 1 : AheadOfAll(n)}
    /\ UNCHANGED <<conn, sid, slots, mark, client, reading, posting>>

-----------------------------------------------------------------------------
(* Connections.                                                            *)

(* allocate_session_id, the counter standing at n after the recovery: only *)
(* a counter that is still 1 is resumed from the mark in storage.          *)

\* Mutated form: the counter restarts at 1, mark or no mark.
AllocatedWithoutMark(n, bad) == n

Allocated(n, bad) ==
    IF n = 1 /\ mark > 1 /\ <<"mark", 0, "get">> \notin bad THEN mark ELSE n
FailedMark == IF "mark" \in Faulty THEN {{<<"mark", 0, "get">>}, {<<"mark", 0, "put">>}} ELSE {}

(* fetch, up to the challenge.                                             *)
Connect(s) ==
    /\ conn[s] = "new"
    /\ slots < MaxSlots
    /\ \E n \in {k \in 1 .. MaxId : AheadOfAll(k)} :
       \E bad \in {{}} \cup FailedRecovery(Socket) \cup FailedMark
                     \cup Failures("put", {Allocated(n, {})}, {"chal"}) :
       LET id == Allocated(n, bad) IN
          /\ id <= MaxId
          /\ sid' = [sid EXCEPT ![s] = id]
          /\ next' = id + 1
          /\ mark' = IF <<"mark", 0, "put">> \in bad THEN mark ELSE id + 1
          /\ session' = [SessionsFound(bad) EXCEPT
                            ![s] = [on |-> TRUE, subs |-> {}, authed |-> None, chal |-> <<s, 1>>]]
          /\ rows' = IF <<"put", id, "chal">> \in bad THEN RowsFound(bad)
                     ELSE [RowsFound(bad) EXCEPT ![id].chal = <<s, 1>>]
          /\ heard' = [HeardFound(bad) EXCEPT ![s] = 1]
          /\ spoiled' = spoiled \cup Spoilt(bad) \cup {r \in {s} : \E b \in bad : b[2] = id}
          /\ Suffer(bad)
    /\ conn' = [conn EXCEPT ![s] = "open"]
    /\ slots' = slots + 1
    /\ UNCHANGED <<client, reading, posting>>

(* release_connection_slot, only for a session the map holds.              *)

\* Mutated form: the slot is looked up after the session is removed.
ReleasedAfterRemoval(s) == slots

Released(s) == IF Tracked(s) /\ slots > 0 THEN slots - 1 ELSE slots

(* clear_session_storage.                                                  *)
Left(id, bad) ==
    [subs |-> IF <<"delete", id, "subs">> \in bad THEN rows[id].subs ELSE {},
     authed |-> IF <<"delete", id, "authed">> \in bad THEN rows[id].authed ELSE None,
     chal |-> IF <<"delete", id, "chal">> \in bad THEN rows[id].chal ELSE NoChallenge]

(* remove_session, on close or error: the rows are deleted under the id of *)
(* the tag, whether or not the map holds the session.                      *)
Close(s) ==
    /\ conn[s] = "open"
    /\ \E bad \in {{}} \cup Failures("delete", {sid[s]}, What) :
          /\ rows' = [rows EXCEPT ![sid[s]] = Left(sid[s], bad)]
          /\ Suffer(bad)
    /\ conn' = [conn EXCEPT ![s] = "gone"]
    /\ session' = [session EXCEPT ![s] = NoSession]
    /\ slots' = Released(s)
    /\ proved' = proved \ {s} /\ acked' = [acked EXCEPT ![s] = {}]
    /\ got' = [got EXCEPT ![s] = {}]
    /\ spoiled' = spoiled \ {s}
    /\ sid' = [sid EXCEPT ![s] = 0] /\ heard' = [heard EXCEPT ![s] = 0]
    /\ UNCHANGED <<next, mark, req, posting>>

-----------------------------------------------------------------------------
(* Frames of a session the map holds.                                      *)

(* handle_auth: the client signs the challenge it was last sent.           *)
Auth(s) ==
    /\ Tracked(s)
    /\ session[s].chal = <<s, heard[s]>>
    /\ session' = [session EXCEPT ![s].authed = s]
    /\ \E bad \in {{}} \cup Failures("put", {sid[s]}, {"authed"}) :
          /\ rows' = SavedAuth(sid[s], s, bad)
          /\ spoiled' = spoiled \cup Spoilt(bad)
          /\ Suffer(bad)
    /\ proved' = proved \cup {s}
    /\ UNCHANGED <<conn, sid, next, slots, mark, heard, acked, reading, posting>>

(* handle_req: the gates, then the subscription is stored and saved, then  *)
(* D1 is asked.                                                            *)
Req(s, t) ==
    /\ s \in Reader /\ Tracked(s) /\ ~req[s].on
    /\ t \notin session[s].subs
    /\ Cardinality(session[s].subs) < MaxSubs
    /\ t \in Protected => session[s].authed # None
    /\ session' = [session EXCEPT ![s].subs = @ \cup {t}]
    /\ \E bad \in {{}} \cup Failures("put", {sid[s]}, {"subs"}) :
          /\ rows' = SavedSubscriptions(sid[s], session[s].subs \cup {t}, bad)
          /\ spoiled' = spoiled \cup Spoilt(bad)
          /\ Suffer(bad)
    /\ req' = [req EXCEPT ![s] = [NoReq EXCEPT !.on = TRUE, !.topic = t, !.as = session[s].authed]]
    /\ UNCHANGED <<conn, sid, next, slots, mark, heard, client, got, posting>>

(* query_events answers with what D1 holds; an error reads as no event.    *)
QueryEvents(s) ==
    /\ req[s].on /\ ~req[s].asked
    /\ \/ /\ req' = [req EXCEPT ![s].asked = TRUE,
                               ![s].found = {e \in stored : About[e] = req[s].topic}]
          /\ UNCHANGED <<spoiled, faults>>
       \/ /\ "d1" \in Faulty /\ faults < MaxFaults /\ faults' = faults + 1
          /\ req' = [req EXCEPT ![s].asked = TRUE]
          /\ spoiled' = spoiled \cup ({s} \cap Open)
    /\ UNCHANGED <<conn, sid, memory, storage, heard, client, got, posting>>

(* What the reader may read of it is sent, then EOSE.  A socket that has   *)
(* closed meanwhile takes nothing.                                         *)
Eose(s) ==
    /\ req[s].asked
    /\ req' = [req EXCEPT ![s] = NoReq]
    /\ IF s \in Open
       THEN /\ got' = [got EXCEPT ![s] = @ \cup {e \in req[s].found : Readable(e, req[s].as)}]
            /\ acked' = [acked EXCEPT ![s] = @ \cup ({req[s].topic} \cap session[s].subs)]
       ELSE UNCHANGED <<got, acked>>
    /\ UNCHANGED <<conn, sid, memory, storage, heard, proved, posting, spoiled, faults>>

(* handle_close.                                                           *)
Unsubscribe(s, t) ==
    /\ Tracked(s) /\ t \in session[s].subs
    /\ session' = [session EXCEPT ![s].subs = @ \ {t}]
    /\ \E bad \in {{}} \cup Failures("put", {sid[s]}, {"subs"}) :
          /\ rows' = SavedSubscriptions(sid[s], session[s].subs \ {t}, bad)
          /\ spoiled' = spoiled \cup Spoilt(bad)
          /\ Suffer(bad)
    /\ acked' = [acked EXCEPT ![s] = @ \ {t}]
    /\ UNCHANGED <<conn, sid, next, slots, mark, heard, proved, reading, posting>>

-----------------------------------------------------------------------------
(* handle_event, from its write gate: admission and the insert await D1,   *)
(* the broadcast reads the sessions map as it then stands.                 *)

Publish(s, e) ==
    /\ s \in Author /\ Tracked(s) /\ session[s].authed # None
    /\ post[e] = "new"
    /\ post' = [post EXCEPT ![e] = "saving"]
    /\ UNCHANGED <<conn, sid, memory, storage, heard, client, reading, stored, spoiled, faults>>

SaveEvent(e) ==
    /\ post[e] = "saving"
    /\ \/ /\ post' = [post EXCEPT ![e] = "saved"]
          /\ stored' = stored \cup {e}
          /\ UNCHANGED faults
       \/ /\ "d1" \in Faulty /\ faults < MaxFaults /\ faults' = faults + 1
          /\ post' = [post EXCEPT ![e] = "refused"]
          /\ stored' \in {stored, stored \cup {e}}
    /\ UNCHANGED <<conn, sid, memory, storage, heard, client, reading, spoiled>>

BroadcastEvent(e) ==
    /\ post[e] = "saved"
    /\ post' = [post EXCEPT ![e] = "done"]
    /\ got' = [s \in Socket |->
                 IF Tracked(s) /\ About[e] \in session[s].subs /\ Readable(e, session[s].authed)
                 THEN got[s] \cup {e} ELSE got[s]]
    /\ UNCHANGED <<conn, sid, memory, storage, heard, client, req, stored, spoiled, faults>>

-----------------------------------------------------------------------------
(* The runtime.                                                            *)

Idle == (\A s \in Socket : ~req[s].on) /\ \A e \in Event : post[e] \notin {"saving", "saved"}

Forget == session' = [s \in Socket |-> NoSession] /\ next' = 1 /\ slots' = 0

Hibernate ==
    /\ Idle
    /\ Forget
    /\ UNCHANGED <<conn, sid, storage, heard, client, reading, posting, spoiled, faults>>

(* A deployment or a crash: no close handler runs.                         *)
Restart ==
    /\ faults < MaxFaults /\ faults' = faults + 1
    /\ Forget
    /\ conn' = [s \in Socket |-> IF s \in Open THEN "gone" ELSE conn[s]]
    /\ proved' = {} /\ acked' = [s \in Socket |-> {}]
    /\ req' = [s \in Socket |-> NoReq] /\ got' = [s \in Socket |-> {}]
    /\ post' = [e \in Event |-> IF post[e] \in {"saving", "saved"} THEN "refused" ELSE post[e]]
    /\ spoiled' = {}
    /\ sid' = [s \in Socket |-> 0] /\ heard' = [s \in Socket |-> 0]
    /\ UNCHANGED <<storage, stored>>

(* alarm: an object without sessions drops its counters.                   *)
Alarm ==
    /\ \A s \in Socket : ~Tracked(s)
    /\ slots' = 0
    /\ UNCHANGED <<conn, sid, session, next, storage, heard, client, reading, posting, spoiled, faults>>

-----------------------------------------------------------------------------
Init ==
    /\ conn = [s \in Socket |-> "new"] /\ sid = [s \in Socket |-> 0]
    /\ session = [s \in Socket |-> NoSession] /\ next = 1 /\ slots = 0
    /\ mark = 0 /\ rows = [id \in Id |-> NoRows]
    /\ heard = [s \in Socket |-> 0] /\ proved = {} /\ acked = [s \in Socket |-> {}]
    /\ req = [s \in Socket |-> NoReq] /\ got = [s \in Socket |-> {}]
    /\ post = [e \in Event |-> "new"] /\ stored = {}
    /\ spoiled = {} /\ faults = 0

Next ==
    \/ \E s \in Socket : \/ RecoverSession(s) \/ Connect(s) \/ Close(s) \/ Auth(s)
                         \/ QueryEvents(s) \/ Eose(s)
    \/ \E s \in Socket, t \in Topic : Req(s, t) \/ Unsubscribe(s, t)
    \/ \E s \in Socket, e \in Event : Publish(s, e)
    \/ \E e \in Event : SaveEvent(e) \/ BroadcastEvent(e)
    \/ Hibernate \/ Restart \/ Alarm

(* A member sends its AUTH whenever it was sent a challenge and was not    *)
(* yet told that it is accepted, and the frame that carries it wakes the   *)
(* object first; a rate-limited AUTH is answered so that it is retried.    *)
Fairness ==
    \A s \in Member : WF_vars(RecoverSession(s)) /\ SF_vars(Auth(s))

Spec == Init /\ [][Next]_vars
FairSpec == Spec /\ Fairness
-----------------------------------------------------------------------------
(* Properties.                                                             *)

(* What the guarantees on session ids and identities need of storage:      *)
(* deletes and the mark do not fail.                                       *)
Reliable == Faulty \cap {"delete", "mark"} = {}

TypeOK ==
    /\ conn \in [Socket -> {"new", "open", "gone"}] /\ sid \in [Socket -> 0 .. MaxId]
    /\ session \in [Socket -> SessionInfo]
    /\ next \in 1 .. MaxId + 1 /\ slots \in Nat /\ mark \in 0 .. MaxId + 1
    /\ rows \in [Id -> Row]
    /\ heard \in [Socket -> Nat]
    /\ proved \subseteq Socket /\ acked \in [Socket -> SUBSET Topic]
    /\ req \in [Socket -> Request]
    /\ got \in [Socket -> SUBSET Event]
    /\ post \in [Event -> {"new", "saving", "saved", "done", "refused"}]
    /\ stored \subseteq Event /\ spoiled \subseteq Socket /\ faults \in Nat

(* Two live sockets never carry the same session id: a newcomer would read *)
(* and overwrite the rows of a sleeping connection (session.rs:157-165).   *)
DistinctIds == \A s, r \in Open : sid[s] = sid[r] => s = r

(* The identity and subscriptions the relay acts on for s, or will act on  *)
(* once it wakes.                                                          *)
Held(s) ==
    IF s \notin Open THEN [subs |-> {}, authed |-> None]
    ELSE IF Tracked(s) THEN [subs |-> session[s].subs, authed |-> session[s].authed]
    ELSE [subs |-> rows[sid[s]].subs, authed |-> rows[sid[s]].authed]

(* No connection is, or becomes by a recovery, anyone but the client that  *)
(* proved itself on it (session.rs:268-282).                               *)
OwnIdentity == \A s \in Open : Held(s).authed \in {None} \cup ({s} \cap proved)

(* A published event reaches every connection that was told the stored     *)
(* events of a matching subscription are complete, whatever the order of   *)
(* the REQ's query, the insert, the broadcast and the sleeps between.      *)
NothingMissed ==
    \A s \in Open \ spoiled, e \in Event :
        post[e] = "done" /\ About[e] \in acked[s] /\ Readable(e, s) => e \in got[s]

(* The address is never charged for more connections than it has.          *)
SlotsNotLeaked == slots <= Cardinality(Open)

(* A member, answering the challenges it is sent, ends up authenticated    *)
(* or disconnected: a sleep or a failed write between the challenge and    *)
(* the answer does not leave it answering a challenge nobody remembers.    *)
Authenticates == \A s \in Member : conn[s] = "open" ~> (conn[s] = "gone" \/ s \in proved)

(* Sleeping is invisible to every connection storage did not fail.         *)
Steady == INSTANCE SteadyRelay WITH held <- [s \in Socket |-> Held(s)], lost <- spoiled
NeverSleeps == Steady!Spec
=============================================================================
