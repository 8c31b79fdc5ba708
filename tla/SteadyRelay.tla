---------------------------- MODULE SteadyRelay ----------------------------
(***************************************************************************)
(* What the session layer promises its clients: a relay that never sleeps. *)
(* A connection has an identity and subscriptions, they change when its    *)
(* client asks and at no other time, and a connection holds no identity    *)
(* but its own.  Only a connection for which a storage call failed (lost)  *)
(* may find them changed.                                                  *)
(***************************************************************************)
CONSTANTS Socket, Topic, Protected, None

VARIABLES
    conn,  \* socket -> "new", "open" or "gone"
    held,  \* socket -> the identity and the subscriptions the relay acts on
    lost   \* connections a storage failure has hit

vars == <<conn, held, lost>>

Nothing == [subs |-> {}, authed |-> None]

(* Connections outside S hold what they held, but for those that are lost. *)
Keep(S) == \A s \in Socket \ (S \cup lost') : held'[s] = held[s]
OwnOnly == \A s \in Socket : held'[s].authed \in {None, s}

Init ==
    /\ conn = [s \in Socket |-> "new"]
    /\ held = [s \in Socket |-> Nothing]
    /\ lost = {}

Connect(s) ==
    /\ conn[s] = "new" /\ conn' = [conn EXCEPT ![s] = "open"]
    /\ held'[s] = Nothing
    /\ lost \subseteq lost' /\ Keep({s}) /\ OwnOnly

Identify(s) ==
    /\ conn[s] = "open" /\ UNCHANGED conn
    /\ held'[s] = [held[s] EXCEPT !.authed = s]
    /\ lost \subseteq lost' /\ Keep({s}) /\ OwnOnly

Subscribe(s, t) ==
    /\ conn[s] = "open" /\ UNCHANGED conn
    /\ t \in Protected => held[s].authed = s
    /\ held'[s] = [held[s] EXCEPT !.subs = @ \cup {t}]
    /\ lost \subseteq lost' /\ Keep({s}) /\ OwnOnly

Unsubscribe(s, t) ==
    /\ conn[s] = "open" /\ UNCHANGED conn
    /\ held'[s] = [held[s] EXCEPT !.subs = @ \ {t}]
    /\ lost \subseteq lost' /\ Keep({s}) /\ OwnOnly

(* One client leaves, or all of them at once when the relay restarts.      *)
Leave(S) ==
    /\ \A s \in S : conn[s] = "open"
    /\ conn' = [s \in Socket |-> IF s \in S THEN "gone" ELSE conn[s]]
    /\ \A s \in S : held'[s] = Nothing
    /\ lost' = lost \ S /\ Keep(S) /\ OwnOnly

(* Storage fails some connections.                                         *)
Lose ==
    /\ lost \subseteq lost' /\ Keep({}) /\ OwnOnly
    /\ UNCHANGED conn

Next ==
    \/ \E s \in Socket : Connect(s) \/ Identify(s)
    \/ \E s \in Socket, t \in Topic : Subscribe(s, t) \/ Unsubscribe(s, t)
    \/ \E S \in SUBSET Socket : Leave(S)
    \/ Lose

Spec == Init /\ [][Next]_vars
=============================================================================
