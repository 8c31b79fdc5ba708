---------------------------- MODULE ZoneMigrate ----------------------------
(***************************************************************************)
(* The zone history migrator (nostr-bbs-zone-migrate): one operator runs   *)
(* `seal`, `verify` and `purge` against one relay.  Each plaintext message *)
(* (an original) is published again inside an envelope, the envelope is    *)
(* read back, and only then is the plaintext deleted.                      *)
(*                                                                         *)
(* The command may end between any two calls to the relay: killed, cut by  *)
(* --limit, or by a transport error, which aborts a step whatever the      *)
(* relay had done.  The code persists each outcome before its next call to *)
(* the relay, so the state in memory and the state file differ only        *)
(* between a reply and the write that follows it; ending there is ending   *)
(* before the reply, and one variable, file, is both.                      *)
(***************************************************************************)
EXTENDS Integers, FiniteSets

CONSTANTS
    Original,      \* the plaintext messages, numbered by age
    Epoch,         \* epochs of the zone key
    Rings,         \* the key rings the operator may start a command with
    MaxDeleteIds,  \* ids in one delete request
    MaxFaults      \* bound on the faults and outside interventions

ASSUME MigrateAssumption ==
    /\ Original \subseteq Nat /\ IsFiniteSet(Original)
    /\ Epoch \subseteq Nat \ {0} /\ IsFiniteSet(Epoch)
    /\ Rings \subseteq SUBSET Epoch /\ Epoch \in Rings
    /\ MaxDeleteIds \in Nat \ {0}
    /\ MaxFaults \in Nat

VARIABLES
    plain,      \* originals whose plaintext row is on the relay
    envelopes,  \* envelopes on the relay
    file,       \* original -> its entry in the state file
    pc,         \* where the running command is, "idle" when none runs
    ring,       \* the keys the running command holds
    seen,       \* what its scan of the channel returned
    work,       \* originals it has still to process
    sent,       \* the envelope it published and has not read back
    chunk,      \* the ids of the delete request under way
    kept,       \* of those, the ids the relay reported as skipped
    published,  \* how many envelopes were ever published
    withdrawn,  \* originals whose last copy others took away
    removed,    \* envelopes others took off the relay
    faults      \* faults and interventions so far

relay == <<plain, envelopes, published>>
command == <<pc, ring, seen, work, sent, chunk, kept>>
outside == <<withdrawn, removed, faults>>
vars == <<relay, file, command, outside>>

-----------------------------------------------------------------------------
(* Data.  Sealing encrypts afresh, so every published envelope has its own *)
(* id; a whole body says that what the relay returns verifies, and opens to the  *)
(* original byte for byte with the key of its epoch.                       *)

Envelope == [id : Nat \ {0}, of : Original, epoch : Epoch, body : {"whole", "broken"}]
Whole(e) == e.body = "whole"
Status == {"none", "planned", "sealed", "verified", "purged",
           "failed at seal", "failed at verify", "failed at purge"}
Entry == [status : Status, outer : Nat, epoch : Epoch \cup {0}]
NoEntry == [status |-> "none", outer |-> 0, epoch |-> 0]
Planned == [status |-> "planned", outer |-> 0, epoch |-> 0]
Nothing == [plain |-> {}, envelopes |-> {}]

(* Mutated form: an entry that failed at verify is not sealed again.       *)
NeedsSealOnce(status) == status \in {"planned", "failed at seal"}

NeedsSeal(status) == status \in {"planned", "failed at seal", "failed at verify"}
Verifiable(status) == status \in {"sealed", "verified", "failed at verify"}

Entries == {o \in Original : file[o].status # "none"}
Current(k) == k \in ring /\ \A e \in ring : e <= k
Oldest(o) == o \in work /\ \A p \in work : o <= p

(* Mutated form: only the envelope the entry names is adopted.             *)
AdoptableRecorded(o) ==
    {e \in seen.envelopes : e.of = o /\ Whole(e) /\ e.epoch \in ring
                             /\ e.id = file[o].outer}

(* An envelope already on the relay that the keys in hand open.            *)
Adoptable(o) ==
    {e \in seen.envelopes : e.of = o /\ Whole(e) /\ e.epoch \in ring}

(* The recorded envelope, fetched by its id, opens with the recorded key.  *)
Opens(o) == \E e \in envelopes :
    /\ e.id = file[o].outer /\ e.epoch = file[o].epoch
    /\ e.of = o /\ Whole(e)

(* No key is missing for the envelopes recorded for these entries.         *)
HasKeys(keys, S) == \A o \in S : file[o].epoch \in keys \cup {0}

WithStatus(entry, status) ==
    [status |-> status, outer |-> entry.outer, epoch |-> entry.epoch]
SetStatus(S, status) ==
    [o \in Original |-> IF o \in S THEN WithStatus(file[o], status) ELSE file[o]]
Record(o, status, e) ==
    [file EXCEPT ![o] = [status |-> status, outer |-> e.id, epoch |-> e.epoch]]

Idle == /\ pc' = "idle" /\ ring' = {} /\ seen' = Nothing
        /\ work' = {} /\ sent' = {} /\ chunk' = {} /\ kept' = {}
Fault == faults < MaxFaults /\ faults' = faults + 1

Init ==
    /\ plain = Original /\ envelopes = {} /\ published = 0
    /\ file = [o \in Original |-> NoEntry]
    /\ pc = "idle" /\ ring = {} /\ seen = Nothing
    /\ work = {} /\ sent = {} /\ chunk = {} /\ kept = {}
    /\ withdrawn = {} /\ removed = {} /\ faults = 0

-----------------------------------------------------------------------------
(* seal: scan the channel, record what is new, then take the entries that  *)
(* need it oldest first.                                                   *)

StartSeal(keys) ==
    LET found == [o \in Original |->
                     IF o \in plain /\ file[o].status = "none" THEN Planned
                     ELSE file[o]]
        todo == {o \in Original : NeedsSeal(found[o].status)}
    IN  /\ pc = "idle"
        /\ file' = found
        /\ IF todo # {} /\ keys = {}
           THEN UNCHANGED command
           ELSE /\ pc' = "sealing" /\ ring' = keys /\ work' = todo
                /\ seen' = [plain |-> plain, envelopes |-> envelopes]
                /\ UNCHANGED <<sent, chunk, kept>>
        /\ UNCHANGED <<relay, outside>>

Settle(o, entries) ==
    /\ file' = entries
    /\ work' = work \ {o}
    /\ pc' = "sealing" /\ sent' = {}
    /\ UNCHANGED <<ring, seen, chunk, kept>>

Adopt(o) ==
    /\ pc = "sealing" /\ Oldest(o)
    /\ \E e \in Adoptable(o) : Settle(o, Record(o, "sealed", e))
    /\ UNCHANGED <<relay, outside>>

OriginalGone(o) ==
    /\ pc = "sealing" /\ Oldest(o)
    /\ Adoptable(o) = {} /\ o \notin seen.plain
    /\ Settle(o, SetStatus({o}, "failed at seal"))
    /\ UNCHANGED <<relay, outside>>

(* OK false, or an original that cannot be sealed.                         *)
PublishRefused(o) ==
    /\ pc = "sealing" /\ Oldest(o)
    /\ Adoptable(o) = {} /\ o \in seen.plain
    /\ Fault
    /\ Settle(o, SetStatus({o}, "failed at seal"))
    /\ UNCHANGED <<relay, withdrawn, removed>>

(* OK true.  The relay stores what it was sent, or loses it, or stores     *)
(* something that will not read back.                                      *)
Publish(o, k) ==
    /\ pc = "sealing" /\ Oldest(o) /\ Current(k)
    /\ Adoptable(o) = {} /\ o \in seen.plain
    /\ LET e(body) == [id |-> published + 1, of |-> o, epoch |-> k, body |-> body]
       IN  /\ \/ envelopes' = envelopes \cup {e("whole")} /\ UNCHANGED faults
              \/ envelopes' = envelopes \cup {e("broken")} /\ Fault
              \/ UNCHANGED envelopes /\ Fault
           /\ sent' = {e("whole")}
    /\ published' = published + 1
    /\ pc' = "reading back"
    /\ UNCHANGED <<plain, file, ring, seen, work, chunk, kept,
                   withdrawn, removed>>

(* Mutated form: the relay's OK is believed, nothing is read back.         *)
ReadBackTrusting ==
    /\ pc = "reading back"
    /\ \E e \in sent : Settle(e.of, Record(e.of, "sealed", e))
    /\ UNCHANGED <<relay, outside>>

ReadBack ==
    /\ pc = "reading back"
    /\ \E e \in sent :
          Settle(e.of, Record(e.of, IF e \in envelopes THEN "sealed"
                                    ELSE "failed at seal", e))
    /\ UNCHANGED <<relay, outside>>

EndSeal ==
    /\ pc = "sealing" /\ work = {}
    /\ Idle /\ UNCHANGED <<relay, file, outside>>

-----------------------------------------------------------------------------
(* verify: fetch every recorded envelope again, open it, save.             *)

Checked(S) ==
    [o \in Original |->
        IF o \in S
        THEN WithStatus(file[o], IF Opens(o) THEN "verified" ELSE "failed at verify")
        ELSE file[o]]

Verify(keys) ==
    LET targets == {o \in Original : Verifiable(file[o].status)}
    IN  /\ pc = "idle" /\ HasKeys(keys, targets)
        /\ file' = Checked(targets)
        /\ UNCHANGED <<relay, command, outside>>

-----------------------------------------------------------------------------
(* purge: refused unless every entry is verified or purged; each chunk is  *)
(* checked once more, deleted, recorded.                                   *)

(* Mutated form: purge takes what is verified and leaves the rest.         *)
StartPurgePartly(keys) ==
    LET todo == {o \in Original : file[o].status = "verified"}
    IN  /\ pc = "idle" /\ todo # {} /\ HasKeys(keys, todo)
        /\ pc' = "purging" /\ ring' = keys /\ work' = todo
        /\ UNCHANGED <<relay, file, seen, sent, chunk, kept, outside>>

StartPurge(keys) ==
    LET todo == {o \in Original : file[o].status = "verified"}
    IN  /\ pc = "idle" /\ todo # {}
        /\ \A o \in Entries : file[o].status \in {"verified", "purged"}
        /\ HasKeys(keys, todo)
        /\ pc' = "purging" /\ ring' = keys /\ work' = todo
        /\ UNCHANGED <<relay, file, seen, sent, chunk, kept, outside>>

Chunks == {S \in SUBSET work :
              \/ Cardinality(S) = MaxDeleteIds
              \/ S = work /\ Cardinality(S) < MaxDeleteIds}

(* Mutated form: the chunk is deleted on the strength of the last verify.  *)
CheckChunkNot ==
    /\ pc = "purging" /\ work # {}
    /\ \E S \in Chunks :
          /\ pc' = "deleting" /\ chunk' = S
          /\ UNCHANGED <<file, ring, seen, work, sent, kept>>
    /\ UNCHANGED <<relay, outside>>

CheckChunk ==
    /\ pc = "purging" /\ work # {}
    /\ \E S \in Chunks :
          IF \A o \in S : Opens(o)
          THEN /\ pc' = "deleting" /\ chunk' = S
               /\ UNCHANGED <<file, ring, seen, work, sent, kept>>
          ELSE file' = Checked(S) /\ Idle
    /\ UNCHANGED <<relay, outside>>

(* The endpoint deletes id by id.  It answers with the ids it skipped, or  *)
(* fails part of the way and the command aborts with nothing saved.        *)
DeleteChunk ==
    /\ pc = "deleting"
    /\ \/ /\ plain' = plain \ chunk
          /\ pc' = "recording"
          /\ UNCHANGED <<ring, seen, work, sent, chunk, kept, faults>>
       \/ \E S \in SUBSET (chunk \cap plain) :
             /\ S # {} /\ Fault
             /\ plain' = plain \ (chunk \ S)
             /\ \/ /\ pc' = "recording" /\ kept' = S
                   /\ UNCHANGED <<ring, seen, work, sent, chunk>>
                \/ Idle
    /\ UNCHANGED <<envelopes, published, file, withdrawn, removed>>

RecordChunk ==
    /\ pc = "recording"
    /\ file' = [o \in Original |->
                   IF o \in kept THEN WithStatus(file[o], "failed at purge")
                   ELSE IF o \in chunk THEN WithStatus(file[o], "purged")
                   ELSE file[o]]
    /\ pc' = "purging" /\ work' = work \ chunk /\ chunk' = {} /\ kept' = {}
    /\ UNCHANGED <<relay, ring, seen, sent, outside>>

EndPurge ==
    /\ pc = "purging" /\ work = {}
    /\ Idle /\ UNCHANGED <<relay, file, outside>>

-----------------------------------------------------------------------------
(* What happens to a run: it is cut short, its state file is lost, an      *)
(* author deletes a message, an admin deletes an envelope.                 *)

Stop ==
    /\ pc # "idle" /\ Fault /\ Idle
    /\ UNCHANGED <<relay, file, withdrawn, removed>>

LoseFile ==
    /\ pc = "idle" /\ Entries # {} /\ Fault
    /\ file' = [o \in Original |-> NoEntry]
    /\ UNCHANGED <<relay, command, withdrawn, removed>>

AuthorDeletes(o) ==
    /\ o \in plain /\ Fault
    /\ plain' = plain \ {o}
    /\ withdrawn' = withdrawn \cup {o}
    /\ UNCHANGED <<envelopes, published, file, command, removed>>

(* The admin answers for the text only when the envelope was its last copy *)
(* or its deletion is already requested.                                   *)
AdminRemoves(e) ==
    /\ e \in envelopes /\ Fault
    /\ envelopes' = envelopes \ {e}
    /\ removed' = removed \cup {e}
    /\ withdrawn' = IF e.of \notin plain \/ e.of \in chunk
                    THEN withdrawn \cup {e.of} ELSE withdrawn
    /\ UNCHANGED <<plain, published, file, command>>

-----------------------------------------------------------------------------
Program ==
    \/ \E o \in work : \/ Adopt(o) \/ OriginalGone(o) \/ PublishRefused(o)
                      \/ \E k \in ring : Publish(o, k)
    \/ ReadBack \/ EndSeal
    \/ CheckChunk \/ DeleteChunk \/ RecordChunk \/ EndPurge

Next ==
    \/ \E keys \in Rings : StartSeal(keys) \/ Verify(keys) \/ StartPurge(keys)
    \/ Program
    \/ Stop \/ LoseFile
    \/ \E o \in Original : AuthorDeletes(o)
    \/ \E e \in envelopes : AdminRemoves(e)

Spec == Init /\ [][Next]_vars

(* A running command keeps running.  The operator follows the runbook:     *)
(* each of the three commands is run again and again, with every key.      *)
FairSpec ==
    /\ Spec
    /\ WF_vars(Program)
    /\ SF_vars(StartSeal(Epoch))
    /\ SF_vars(Verify(Epoch))
    /\ SF_vars(StartPurge(Epoch))

-----------------------------------------------------------------------------
Intact(o) == \E e \in envelopes : e.of = o /\ Whole(e)

(* Type invariant: what every variable ranges over, for the migrator's     *)
(* state file, its running command and the relay's rows.                   *)
TypeOK ==
    /\ plain \subseteq Original /\ envelopes \subseteq Envelope
    /\ published \in Nat /\ faults \in 0 .. MaxFaults
    /\ file \in [Original -> Entry]
    /\ pc \in {"idle", "sealing", "reading back",
               "purging", "deleting", "recording"}
    /\ ring \subseteq Epoch /\ work \subseteq Original
    /\ seen \in [plain : SUBSET Original, envelopes : SUBSET Envelope]
    /\ sent \subseteq Envelope /\ chunk \subseteq Original
    /\ kept \subseteq Original
    /\ withdrawn \subseteq Original /\ removed \subseteq Envelope

(* Every message can still be read: its plaintext is on the relay, or an   *)
(* envelope that opens to it is, unless its author or an admin took the    *)
(* last copy away.  Whatever step the migrator is cut at, it does not      *)
(* delete a plaintext without such an envelope (engine.rs purge).          *)
NothingLost == \A o \in Original : o \in plain \/ Intact(o) \/ o \in withdrawn

(* The state file never runs ahead of the relay: a purged entry has no     *)
(* plaintext row left, and a sealed or verified one names an envelope that *)
(* opens to the original with the recorded key, or that an admin removed.  *)
FileIsTrue ==
    \A o \in Original :
        /\ file[o].status = "purged" => o \notin plain
        /\ file[o].status \in {"sealed", "verified"} =>
              \E e \in envelopes \cup removed :
                  /\ e.id = file[o].outer /\ e.epoch = file[o].epoch
                  /\ e.of = o /\ Whole(e)

(* A message has at most one envelope that opens per key epoch: a run that *)
(* was cut after the relay stored an envelope, or that lost its state      *)
(* file, adopts that envelope and does not publish a second one.           *)
OneEnvelope ==
    \A e, f \in envelopes :
        Whole(e) /\ Whole(f) /\ e.of = f.of /\ e.epoch = f.epoch => e = f

(* No plaintext is deleted while a message still on the relay waits to be  *)
(* confirmed: when a delete request is sent, every plaintext left is       *)
(* verified, or was kept by the relay in an earlier chunk.                 *)
PurgeNeedsAll ==
    pc = "deleting" =>
        \A o \in plain : file[o].status \in {"verified", "failed at purge"}

(* The run is blocked for good: the relay kept a row, or an entry has lost *)
(* both its plaintext and its envelope, so seal can never complete it.     *)
Blocked ==
    \E o \in Original :
        \/ file[o].status = "failed at purge"
        \/ /\ NeedsSeal(file[o].status) \/ Verifiable(file[o].status)
           /\ o \notin plain /\ ~Intact(o)

(* Liveness under FairSpec: once faults stop, repeated seal, verify and    *)
(* purge remove every plaintext, however the earlier runs were cut, unless *)
(* the run is blocked.                                                     *)
HistoryMigrates == <>[](plain = {} \/ Blocked)
=============================================================================
