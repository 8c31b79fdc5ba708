------------------------- MODULE ZoneMigrateProofs -------------------------
(***************************************************************************)
(* The safety of the zone history migrator, for any set of messages, keys  *)
(* and chunk size, wherever a run is cut.                                  *)
(***************************************************************************)
EXTENDS ZoneMigrate, TLAPS

\* What a seal run knows: its scan holds only what the relay held, what it sent
\* is intact and is one envelope, and an envelope it did not see for a message
\* still to do is the one it just sent.
SealKnows ==
    /\ seen.envelopes \subseteq envelopes \cup removed
    /\ \A e \in sent : Whole(e)
    /\ \A e, f \in sent : e = f
    /\ pc # "reading back" => sent = {}
    /\ pc \in {"sealing", "reading back"} =>
          \A f \in envelopes : f.of \in work =>
              f \in seen.envelopes \/ \E e \in sent : e.of = f.of

\* What a purge run knows: the chunk it asked to delete can be read from
\* envelopes, and once answered only the rows the relay kept are left of it.
PurgeKnows ==
    /\ pc \in {"deleting", "recording"} =>
          \A o \in chunk : Intact(o) \/ o \in withdrawn
    /\ pc # "recording" => kept = {}
    /\ pc = "recording" => chunk \cap plain \subseteq kept
    /\ pc \in {"purging", "deleting", "recording"} =>
          \A o \in plain : file[o].status \in {"verified", "failed at purge"}

\* A state file that has an entry has one for every message on the relay.
FileIsWhole ==
    (\E p \in Original : file[p].status # "none") =>
        \A o \in plain : file[o].status # "none"

\* A running command works on entries of the file, and on no others.
WorkRecorded ==
    /\ pc # "idle" => \A o \in work : file[o].status # "none"
    /\ pc = "reading back" => \A e \in sent : e.of \in work
    /\ pc \in {"deleting", "recording"} => chunk \subseteq work /\ kept \subseteq chunk

IInv == /\ TypeOK /\ WorkRecorded /\ SealKnows /\ PurgeKnows /\ FileIsWhole
        /\ NothingLost /\ FileIsTrue /\ OneEnvelope

USE MigrateAssumption

-----------------------------------------------------------------------------
\* The initial state satisfies the invariant.
LEMMA InitIInv == Init => IInv
BY DEF Init, IInv, TypeOK, WorkRecorded, SealKnows, PurgeKnows, FileIsWhole, NothingLost,
       FileIsTrue, OneEnvelope, Nothing, NoEntry, Entry, Status, Intact

-----------------------------------------------------------------------------
\* The three ways a command writes entries: what each leaves in the file.
LEMMA SetStatusFile ==
    ASSUME TypeOK, NEW S, NEW st \in Status
    PROVE  /\ SetStatus(S, st) \in [Original -> Entry]
           /\ \A o \in Original :
                 /\ o \in S => SetStatus(S, st)[o].status = st
                 /\ o \notin S => SetStatus(S, st)[o] = file[o]
BY DEF TypeOK, SetStatus, WithStatus, Entry

\* verify gives the entries of S their verdict and leaves all others, and every
\* envelope, as they are.
LEMMA CheckedFile ==
    ASSUME TypeOK, NEW S
    PROVE  /\ Checked(S) \in [Original -> Entry]
           /\ \A o \in Original :
                 /\ o \in S =>
                       /\ Checked(S)[o].status =
                             (IF Opens(o) THEN "verified" ELSE "failed at verify")
                       /\ Checked(S)[o].outer = file[o].outer
                       /\ Checked(S)[o].epoch = file[o].epoch
                 /\ o \notin S => Checked(S)[o] = file[o]
BY DEF TypeOK, Checked, WithStatus, Entry, Status

\* Recording an envelope changes the entry it is recorded for and no other.
LEMMA RecordFile ==
    ASSUME TypeOK, NEW o \in Original, NEW e \in Envelope, NEW st \in Status,
           file' = Record(o, st, e)
    PROVE  /\ file' \in [Original -> Entry]
           /\ file'[o].status = st /\ file'[o].outer = e.id /\ file'[o].epoch = e.epoch
           /\ \A p \in Original : p # o => file'[p] = file[p]
BY DEF TypeOK, Record, Entry, Status, Envelope

\* A seal that fails marks its own entry and no other.
LEMMA FailFile ==
    ASSUME TypeOK, NEW o \in Original, file' = SetStatus({o}, "failed at seal")
    PROVE  /\ o \in Original /\ file' \in [Original -> Entry]
           /\ file'[o].status = "failed at seal"
           /\ \A p \in Original \ {o} : file'[p] = file[p]
<1>1. "failed at seal" \in Status  BY DEF Status
<1>2. file' \in [Original -> Entry]  BY <1>1, SetStatusFile
<1> QED  BY <1>1, <1>2 DEF SetStatus, WithStatus

\* The entries of a chunk once the relay has answered.
LEMMA RecordChunkFile ==
    ASSUME TypeOK, RecordChunk
    PROVE  /\ file' \in [Original -> Entry]
           /\ \A o \in Original :
                 /\ o \in kept => file'[o].status = "failed at purge"
                 /\ o \in chunk \ kept => file'[o].status = "purged"
                 /\ o \notin chunk \cup kept => file'[o] = file[o]
BY DEF TypeOK, RecordChunk, WithStatus, Entry, Status

\* Entries stay entries: what a command writes keeps the file whole.
LEMMA WholeKept ==
    ASSUME FileIsWhole, plain \subseteq Original, plain' \subseteq plain,
           \A o \in Original : file[o].status = "none" <=> file'[o].status = "none"
    PROVE  FileIsWhole'
BY DEF FileIsWhole

\* A fault stays within its bound.
LEMMA FaultBound ==
    ASSUME faults \in 0 .. MaxFaults, Fault
    PROVE  faults' \in 0 .. MaxFaults
BY DEF Fault

-----------------------------------------------------------------------------
\* A scan records what is new and starts from what the relay holds.
LEMMA StartSealStep == ASSUME IInv, NEW keys \in Rings, StartSeal(keys) PROVE IInv'
<1> USE DEF IInv
<1>1. TypeOK'
  <2>1. file' \in [Original -> Entry]
    BY DEF StartSeal, TypeOK, Planned, Entry, Status
  <2>2. seen' \in [plain : SUBSET Original, envelopes : SUBSET Envelope]
    <3>1. CASE UNCHANGED command
      BY <3>1 DEF TypeOK, command
    <3>2. CASE seen' = [plain |-> plain, envelopes |-> envelopes]
      BY <3>2 DEF TypeOK
    <3> QED  BY <3>1, <3>2 DEF StartSeal
  <2> QED  BY <2>1, <2>2 DEF StartSeal, TypeOK, command, relay, outside
<1>2. SealKnows'
  <2>1. CASE UNCHANGED command
    BY <2>1 DEF StartSeal, SealKnows, command, relay, outside
  <2>2. CASE /\ pc' = "sealing" /\ UNCHANGED <<sent, chunk, kept>>
             /\ seen' = [plain |-> plain, envelopes |-> envelopes]
    BY <2>2 DEF StartSeal, SealKnows, relay, outside
  <2> QED  BY <2>1, <2>2 DEF StartSeal
<1>3. PurgeKnows'
  BY DEF StartSeal, relay, command, outside, PurgeKnows, FileIsWhole, FileIsTrue,
         Intact
<1>4. FileIsWhole'
  BY DEF StartSeal, relay, command, outside, FileIsWhole, Planned, TypeOK
<1>5. NothingLost'
  BY DEF StartSeal, relay, command, outside, PurgeKnows, NothingLost, Intact
<1>6. FileIsTrue'
  BY DEF StartSeal, relay, command, outside, SealKnows, PurgeKnows, FileIsTrue,
         Planned
<1>7. OneEnvelope'
  BY DEF StartSeal, relay, command, outside, SealKnows, OneEnvelope
<1>8. WorkRecorded'
  BY DEF StartSeal, relay, command, outside, WorkRecorded, Planned, NeedsSeal
<1>9. QED  BY <1>1, <1>2, <1>3, <1>4, <1>5, <1>6, <1>7, <1>8

\* Adopting names an envelope the scan saw.
LEMMA AdoptStep == ASSUME IInv, NEW o \in work, Adopt(o) PROVE IInv'
<1> USE DEF IInv
<1> PICK e \in Adoptable(o) : Settle(o, Record(o, "sealed", e))  BY DEF Adopt
<1>a. /\ o \in Original /\ e \in Envelope /\ e \in seen.envelopes
      /\ e.of = o /\ Whole(e)
  BY DEF TypeOK, Adoptable
<1>b. /\ file' \in [Original -> Entry]
      /\ file'[o].status = "sealed" /\ file'[o].outer = e.id /\ file'[o].epoch = e.epoch
      /\ \A p \in Original : p # o => file'[p] = file[p]
  <2>1. "sealed" \in Status  BY DEF Status
  <2>2. file' = Record(o, "sealed", e)  BY DEF Settle
  <2> QED  BY <1>a, <2>1, <2>2, RecordFile
<1>c. UNCHANGED <<relay, outside, ring, seen, chunk, kept>>
      /\ work' = work \ {o} /\ sent' = {} /\ pc = "sealing" /\ pc' = "sealing"
  BY DEF Adopt, Settle
<1>1. TypeOK'
  BY <1>b, <1>c DEF TypeOK, relay, outside
<1>2. SealKnows'
  BY DEF Adopt, relay, outside, Settle, SealKnows, Adoptable
<1>3. PurgeKnows'
  BY DEF Adopt, relay, command, outside, Settle, PurgeKnows, FileIsWhole,
         FileIsTrue, Intact
<1>4. FileIsWhole'
  BY <1>a, <1>b, <1>c, WholeKept DEF TypeOK, WorkRecorded, relay
<1>5. NothingLost'
  BY DEF Adopt, relay, command, outside, Settle, PurgeKnows, NothingLost, Intact
<1>6. FileIsTrue'
  BY <1>a, <1>b, <1>c DEF TypeOK, SealKnows, FileIsTrue, relay, outside
<1>7. OneEnvelope'
  BY DEF Adopt, relay, outside, Settle, SealKnows, OneEnvelope, Adoptable, Oldest
<1>8. WorkRecorded'
  BY <1>a, <1>b, <1>c DEF TypeOK, WorkRecorded
<1>9. QED  BY <1>1, <1>2, <1>3, <1>4, <1>5, <1>6, <1>7, <1>8

\* An original that is gone fails at seal.
LEMMA OriginalGoneStep == ASSUME IInv, NEW o \in work, OriginalGone(o) PROVE IInv'
<1> USE DEF IInv
<1>a. /\ o \in Original /\ file' \in [Original -> Entry]
      /\ file'[o].status = "failed at seal"
      /\ \A p \in Original \ {o} : file'[p] = file[p]
  <2>1. TypeOK /\ o \in Original  BY DEF TypeOK
  <2>2. file' = SetStatus({o}, "failed at seal")  BY DEF OriginalGone, Settle
  <2> QED  BY <2>1, <2>2, FailFile
<1>b. UNCHANGED <<relay, withdrawn, removed, ring, seen, chunk, kept>>
      /\ work' = work \ {o} /\ sent' = {} /\ pc = "sealing" /\ pc' = "sealing"
  BY DEF OriginalGone, Settle, outside
<1>1. TypeOK'
  BY SetStatusFile DEF OriginalGone, relay, outside, Settle, TypeOK, Entry,
                       Status, Envelope, Adoptable
<1>2. SealKnows'
  BY DEF OriginalGone, relay, outside, Settle, SealKnows, Adoptable
<1>3. PurgeKnows'
  BY SetStatusFile DEF OriginalGone, relay, command, outside, Settle, PurgeKnows,
                       FileIsWhole, FileIsTrue, Intact
<1>4. FileIsWhole'
  BY <1>a, <1>b, WholeKept DEF TypeOK, WorkRecorded, relay
<1>5. NothingLost'
  BY DEF OriginalGone, relay, command, outside, Settle, PurgeKnows, NothingLost,
         Intact
<1>6. FileIsTrue'
  BY <1>a, <1>b DEF TypeOK, FileIsTrue, relay
<1>7. OneEnvelope'
  BY DEF OriginalGone, relay, outside, Settle, SealKnows, OneEnvelope, Adoptable,
         Oldest
<1>8. WorkRecorded'
  BY <1>a, <1>b DEF TypeOK, WorkRecorded
<1>9. QED  BY <1>1, <1>2, <1>3, <1>4, <1>5, <1>6, <1>7, <1>8

\* A refused envelope fails at seal.
LEMMA PublishRefusedStep == ASSUME IInv, NEW o \in work, PublishRefused(o) PROVE IInv'
<1> USE DEF IInv
<1>a. /\ o \in Original /\ file' \in [Original -> Entry]
      /\ file'[o].status = "failed at seal"
      /\ \A p \in Original \ {o} : file'[p] = file[p]
  <2>1. TypeOK /\ o \in Original  BY DEF TypeOK
  <2>2. file' = SetStatus({o}, "failed at seal")  BY DEF PublishRefused, Settle
  <2> QED  BY <2>1, <2>2, FailFile
<1>b. UNCHANGED <<relay, withdrawn, removed, ring, seen, chunk, kept>>
      /\ work' = work \ {o} /\ sent' = {} /\ pc = "sealing" /\ pc' = "sealing"
  BY DEF PublishRefused, Settle, outside
<1>1. TypeOK'
  BY FaultBound, SetStatusFile DEF PublishRefused, relay, Settle, TypeOK, Entry,
                                   Status, Envelope, Adoptable
<1>2. SealKnows'
  BY DEF PublishRefused, relay, Fault, Settle, SealKnows, Adoptable
<1>3. PurgeKnows'
  BY SetStatusFile DEF PublishRefused, relay, command, Fault, Settle, PurgeKnows,
                       FileIsWhole, FileIsTrue, Intact
<1>4. FileIsWhole'
  BY <1>a, <1>b, WholeKept DEF TypeOK, WorkRecorded, relay
<1>5. NothingLost'
  BY DEF PublishRefused, relay, command, Fault, Settle, PurgeKnows, NothingLost,
         Intact
<1>6. FileIsTrue'
  BY <1>a, <1>b DEF TypeOK, FileIsTrue, relay
<1>7. OneEnvelope'
  BY DEF PublishRefused, relay, Fault, Settle, SealKnows, OneEnvelope, Adoptable,
         Oldest
<1>8. WorkRecorded'
  BY <1>a, <1>b DEF TypeOK, WorkRecorded
<1>9. QED  BY <1>1, <1>2, <1>3, <1>4, <1>5, <1>6, <1>7, <1>8

\* A published envelope is the first of its message that opens with its epoch.
LEMMA PublishStep == ASSUME IInv, NEW o \in work, NEW k \in ring, Publish(o, k) PROVE IInv'
<1> USE DEF IInv
<1> DEFINE e(body) == [id |-> published + 1, of |-> o, epoch |-> k, body |-> body]
<1>a. /\ o \in Original /\ e("whole") \in Envelope /\ e("broken") \in Envelope
      /\ e("whole").of = o /\ e("whole").epoch = k /\ Whole(e("whole")) /\ ~Whole(e("broken"))
      /\ e("broken").of = o
  <2>1. o \in Original /\ k \in Epoch  BY DEF TypeOK
  <2>3. published \in Nat  BY DEF TypeOK
  <2>4. published + 1 \in Nat \ {0}  BY <2>3
  <2>2. e("whole") \in Envelope /\ e("broken") \in Envelope  BY <2>1, <2>4 DEF Envelope
  <2> QED  BY <2>1, <2>2 DEF Whole
<1>b. /\ pc = "sealing" /\ pc' = "reading back" /\ o \in work
      /\ sent' = {e("whole")} /\ published' = published + 1
      /\ Adoptable(o) = {} /\ faults' \in 0 .. MaxFaults
      /\ envelopes' \in {envelopes, envelopes \cup {e("whole")}, envelopes \cup {e("broken")}}
      /\ UNCHANGED <<plain, file, ring, seen, work, chunk, kept, withdrawn, removed>>
  <2>1. faults' \in 0 .. MaxFaults  BY FaultBound DEF Publish, TypeOK
  <2> QED  BY <2>1 DEF Publish, Oldest
<1> HIDE DEF e
<1>1. TypeOK'
  <2>1. envelopes' \subseteq Envelope  BY <1>a, <1>b DEF TypeOK
  <2>2. sent' \subseteq Envelope  BY <1>a, <1>b
  <2>3. published' \in Nat
    <3>1. published \in Nat  BY DEF TypeOK
    <3>2. published' = published + 1  BY DEF Publish
    <3> QED  BY <3>1, <3>2
  <2> QED  BY <1>b, <2>1, <2>2, <2>3 DEF TypeOK
<1>2. SealKnows'
  <2>1. \A f \in envelopes' : f \in envelopes \/ f.of = e("whole").of
    BY <1>a, <1>b
  <2>2. \A f \in envelopes : f.of \in work => f \in seen.envelopes
    BY <1>b DEF SealKnows
  <2> QED  BY <1>a, <1>b, <2>1, <2>2 DEF SealKnows
<1>3. PurgeKnows'
  BY DEF Publish, relay, command, Fault, PurgeKnows, FileIsWhole, FileIsTrue, Intact
<1>4. FileIsWhole'
  BY DEF Publish, relay, command, Fault, FileIsWhole
<1>5. NothingLost'
  BY DEF Publish, relay, command, Fault, PurgeKnows, NothingLost, Intact
<1>6. FileIsTrue'
  BY DEF Publish, relay, Fault, SealKnows, PurgeKnows, FileIsTrue, Adoptable
<1>7. OneEnvelope'
  <2>1. \A f \in envelopes : ~(f.of = o /\ Whole(f) /\ f.epoch = k)
    <3> SUFFICES ASSUME NEW f \in envelopes, f.of = o, Whole(f), f.epoch = k
                 PROVE  FALSE
      OBVIOUS
    <3>1. f \in seen.envelopes  BY <1>b DEF SealKnows
    <3> QED  BY <1>b, <3>1 DEF Adoptable
  <2> QED  BY <1>a, <1>b, <2>1 DEF OneEnvelope
<1>8. WorkRecorded'
  BY <1>a, <1>b DEF WorkRecorded
<1>9. QED  BY <1>1, <1>2, <1>3, <1>4, <1>5, <1>6, <1>7, <1>8

\* Only an envelope the relay returns is recorded as sealed.
LEMMA ReadBackStep == ASSUME IInv, ReadBack PROVE IInv'
<1> USE DEF IInv
<1>p. PICK e \in sent : Settle(e.of, Record(e.of, IF e \in envelopes THEN "sealed"
                                               ELSE "failed at seal", e))
  BY DEF ReadBack
<1>a. e \in Envelope /\ e.of \in Original /\ e.of \in work /\ Whole(e)
  BY DEF ReadBack, TypeOK, Envelope, WorkRecorded, SealKnows
<1>e. \A f \in sent : f = e  BY DEF SealKnows
<1>o. PICK o \in Original : o = e.of  BY <1>a
<1>s. PICK st \in Status : st = (IF e \in envelopes THEN "sealed" ELSE "failed at seal")
  BY DEF Status
<1>b. /\ file' \in [Original -> Entry]
      /\ file'[o].status = st /\ file'[o].outer = e.id /\ file'[o].epoch = e.epoch
      /\ \A p \in Original : p # o => file'[p] = file[p]
  <2>1. file' = Record(o, st, e)  BY <1>p, <1>o, <1>s DEF Settle
  <2>2. file' \in [Original -> Entry]  BY <1>a, <2>1, RecordFile
  <2>3. file'[o].status = st  BY <1>a, <2>1, RecordFile
  <2>4. file'[o].outer = e.id /\ file'[o].epoch = e.epoch  BY <1>a, <2>1, RecordFile
  <2>5. \A p \in Original : p # o => file'[p] = file[p]  BY <1>a, <2>1, RecordFile
  <2> QED  BY <2>2, <2>3, <2>4, <2>5
<1>c. UNCHANGED <<relay, outside, ring, seen, chunk, kept>>
      /\ work' = work \ {o} /\ sent' = {}
      /\ pc = "reading back" /\ pc' = "sealing"
  BY <1>p, <1>o DEF ReadBack, Settle
<1>d. /\ st # "none" /\ st # "purged"
      /\ (st \in {"sealed", "verified"} => e \in envelopes)
  BY <1>s
<1>1. TypeOK'
  BY <1>b, <1>c DEF TypeOK, relay, outside
<1>2. SealKnows'
  <2>1. \A f \in envelopes : f.of \in work' => f \in seen.envelopes
    BY <1>a, <1>c, <1>e, <1>o DEF SealKnows
  <2> QED  BY <1>c, <2>1 DEF SealKnows, relay, outside
<1>3. PurgeKnows'
  BY DEF ReadBack, relay, command, outside, Settle, PurgeKnows, FileIsWhole,
         FileIsTrue, Intact
<1>4. FileIsWhole'
  BY <1>a, <1>b, <1>c, <1>d, <1>o, WholeKept DEF TypeOK, WorkRecorded, relay
<1>5. NothingLost'
  BY DEF ReadBack, relay, command, outside, Settle, PurgeKnows, NothingLost, Intact
<1>6. FileIsTrue'
  <2>1. UNCHANGED <<plain, envelopes, removed>> /\ FileIsTrue
    BY <1>c DEF relay, outside
  <2>2. file'[o].status # "purged"  BY <1>b, <1>d
  <2>3. file'[o].status \in {"sealed", "verified"} =>
            \E f \in envelopes \cup removed :
                /\ f.id = file'[o].outer /\ f.epoch = file'[o].epoch
                /\ f.of = o /\ Whole(f)
    BY <1>a, <1>b, <1>d, <1>o
  <2> QED  BY <1>b, <2>1, <2>2, <2>3 DEF FileIsTrue
<1>7. OneEnvelope'
  BY DEF ReadBack, relay, outside, Settle, SealKnows, OneEnvelope
<1>8. WorkRecorded'
  BY <1>a, <1>b, <1>c DEF TypeOK, WorkRecorded
<1>9. QED  BY <1>1, <1>2, <1>3, <1>4, <1>5, <1>6, <1>7, <1>8

\* A seal run that is done leaves the file as it is.
LEMMA EndSealStep == ASSUME IInv, EndSeal PROVE IInv'
<1> USE DEF IInv
<1>1. TypeOK'
  BY DEF EndSeal, relay, outside, Idle, TypeOK, Entry, Status, Envelope, Nothing
<1>2. SealKnows'
  BY DEF EndSeal, relay, outside, Idle, SealKnows, Nothing
<1>3. PurgeKnows'
  BY DEF EndSeal, relay, command, outside, Idle, PurgeKnows, FileIsWhole,
         FileIsTrue, Intact
<1>4. FileIsWhole'
  BY DEF EndSeal, relay, command, outside, Idle, FileIsWhole
<1>5. NothingLost'
  BY DEF EndSeal, relay, command, outside, Idle, PurgeKnows, NothingLost, Intact
<1>6. FileIsTrue'
  BY DEF EndSeal, relay, outside, Idle, SealKnows, PurgeKnows, FileIsTrue
<1>7. OneEnvelope'
  BY DEF EndSeal, relay, outside, Idle, SealKnows, OneEnvelope
<1>8. WorkRecorded'
  BY DEF EndSeal, relay, outside, Idle, WorkRecorded
<1>9. QED  BY <1>1, <1>2, <1>3, <1>4, <1>5, <1>6, <1>7, <1>8

\* Verify records what it read.
LEMMA VerifyStep == ASSUME IInv, NEW keys \in Rings, Verify(keys) PROVE IInv'
<1> USE DEF IInv
<1> DEFINE T == {o \in Original : Verifiable(file[o].status)}
<1>a. /\ file' = Checked(T) /\ pc = "idle" /\ UNCHANGED <<relay, command, outside>>
  BY DEF Verify
<1>b. /\ T \subseteq Original /\ file' \in [Original -> Entry]
      /\ \A o \in T :
            /\ file'[o].status = (IF Opens(o) THEN "verified" ELSE "failed at verify")
            /\ file'[o].outer = file[o].outer /\ file'[o].epoch = file[o].epoch
      /\ \A o \in Original : o \notin T => file'[o] = file[o]
  BY <1>a, CheckedFile
<1>c. \A o \in T : file[o].status # "none"  BY DEF Verifiable
<1>e. \A o \in T : /\ file'[o].status # "none" /\ file'[o].status # "purged"
                   /\ file'[o].status # "sealed"
                   /\ (file'[o].status = "verified" => Opens(o))
  BY <1>b
<1> HIDE DEF T
<1>1. TypeOK'
  BY CheckedFile DEF Verify, relay, command, outside, TypeOK, Entry, Status,
                     Envelope
<1>2. SealKnows'
  BY DEF Verify, relay, command, outside, SealKnows
<1>3. PurgeKnows'
  BY CheckedFile DEF Verify, relay, command, outside, PurgeKnows, FileIsWhole,
                     FileIsTrue, Intact
<1>4. FileIsWhole'
  <2>1. \A o \in Original : file[o].status = "none" <=> file'[o].status = "none"
    BY <1>b, <1>c, <1>e
  <2> QED  BY <1>a, <2>1, WholeKept DEF TypeOK, relay
<1>5. NothingLost'
  BY DEF Verify, relay, command, outside, PurgeKnows, NothingLost, Intact
<1>6. FileIsTrue'
  <2> SUFFICES ASSUME NEW o \in Original
               PROVE  /\ file'[o].status = "purged" => o \notin plain
                      /\ file'[o].status \in {"sealed", "verified"} =>
                            \E e \in envelopes \cup removed :
                                /\ e.id = file'[o].outer /\ e.epoch = file'[o].epoch
                                /\ e.of = o /\ Whole(e)
    BY <1>a DEF FileIsTrue, relay, outside
  <2>1. CASE o \in T  BY <1>b, <1>e, <2>1 DEF Opens
  <2>2. CASE o \notin T  BY <1>b, <2>2 DEF FileIsTrue
  <2> QED  BY <2>1, <2>2
<1>7. OneEnvelope'
  BY DEF Verify, relay, command, outside, SealKnows, OneEnvelope
<1>8. WorkRecorded'
  BY CheckedFile DEF Verify, relay, command, outside, WorkRecorded, Verifiable
<1>9. QED  BY <1>1, <1>2, <1>3, <1>4, <1>5, <1>6, <1>7, <1>8

\* Purge starts when every message on the relay is verified.
LEMMA StartPurgeStep == ASSUME IInv, NEW keys \in Rings, StartPurge(keys) PROVE IInv'
<1> USE DEF IInv
<1>1. TypeOK'
  BY DEF StartPurge, relay, outside, TypeOK, Entry, Status, Envelope
<1>2. SealKnows'
  BY DEF StartPurge, relay, outside, SealKnows
<1>3. PurgeKnows'
  BY DEF TypeOK, StartPurge, relay, command, outside, PurgeKnows, FileIsWhole,
         FileIsTrue, Entries, Intact
<1>4. FileIsWhole'
  BY DEF StartPurge, relay, command, outside, FileIsWhole
<1>5. NothingLost'
  BY DEF StartPurge, relay, command, outside, PurgeKnows, NothingLost, Intact
<1>6. FileIsTrue'
  BY DEF StartPurge, relay, outside, SealKnows, PurgeKnows, FileIsTrue
<1>7. OneEnvelope'
  BY DEF StartPurge, relay, outside, SealKnows, OneEnvelope
<1>8. WorkRecorded'
  BY DEF StartPurge, relay, outside, WorkRecorded
<1>9. QED  BY <1>1, <1>2, <1>3, <1>4, <1>5, <1>6, <1>7, <1>8

\* A chunk is asked for only when all of its envelopes open.
LEMMA CheckChunkStep == ASSUME IInv, CheckChunk PROVE IInv'
<1> USE DEF IInv
<1> PICK S \in Chunks :
       IF \A o \in S : Opens(o)
       THEN /\ pc' = "deleting" /\ chunk' = S
            /\ UNCHANGED <<file, ring, seen, work, sent, kept>>
       ELSE file' = Checked(S) /\ Idle
  BY DEF CheckChunk
<1>a. S \subseteq work /\ S \subseteq Original  BY DEF Chunks, TypeOK
<1>b. pc = "purging" /\ UNCHANGED <<relay, outside>>  BY DEF CheckChunk
<1>c. \/ /\ pc' = "deleting" /\ chunk' = S /\ \A o \in S : Opens(o)
         /\ UNCHANGED <<file, ring, seen, work, sent, kept>>
      \/ file' = Checked(S) /\ Idle
  OBVIOUS
<1>d. /\ Checked(S) \in [Original -> Entry]
      /\ \A o \in S :
            /\ Checked(S)[o].status =
                  (IF Opens(o) THEN "verified" ELSE "failed at verify")
            /\ Checked(S)[o].outer = file[o].outer
            /\ Checked(S)[o].epoch = file[o].epoch
      /\ \A o \in Original : o \notin S => Checked(S)[o] = file[o]
  BY <1>a, CheckedFile
<1>e. \A o \in S : /\ Checked(S)[o].status # "none"
                   /\ Checked(S)[o].status # "purged" /\ Checked(S)[o].status # "sealed"
                   /\ (Checked(S)[o].status = "verified" => Opens(o))
  BY <1>d
<1>f. \A o \in S : file[o].status # "none"  BY <1>a, <1>b DEF WorkRecorded
<1>1. TypeOK'
  <2>1. Nothing \in [plain : SUBSET Original, envelopes : SUBSET Envelope]
    BY DEF Nothing
  <2>2. CASE file' = Checked(S) /\ Idle
    BY <1>b, <1>d, <2>1, <2>2 DEF TypeOK, Idle, relay, outside
  <2>3. CASE /\ pc' = "deleting" /\ chunk' = S
             /\ UNCHANGED <<file, ring, seen, work, sent, kept>>
    BY <1>a, <1>b, <2>3 DEF TypeOK, relay, outside
  <2> QED  BY <1>c, <2>2, <2>3
<1>2. SealKnows'
  <2>1. CASE Idle
    BY <2>1 DEF SealKnows, Idle, Nothing
  <2>2. CASE pc' = "deleting" /\ UNCHANGED <<seen, sent>>
    BY <1>b, <2>2 DEF SealKnows, relay, outside
  <2> QED  BY <1>c, <2>1, <2>2
<1>3. PurgeKnows'
  <2>1. CASE file' = Checked(S) /\ Idle
    BY <2>1 DEF PurgeKnows, Idle
  <2>2. CASE /\ pc' = "deleting" /\ chunk' = S /\ \A o \in S : Opens(o)
             /\ UNCHANGED <<file, ring, seen, work, sent, kept>>
    BY <1>b, <2>2 DEF PurgeKnows, Opens, Intact, relay, outside
  <2> QED  BY <1>c, <2>1, <2>2
<1>4. FileIsWhole'
  <2>1. \A o \in Original : file[o].status = "none" <=> file'[o].status = "none"
    BY <1>c, <1>d, <1>e, <1>f
  <2> QED  BY <1>b, <2>1, WholeKept DEF TypeOK, relay
<1>5. NothingLost'
  BY DEF CheckChunk, relay, command, outside, Idle, PurgeKnows, NothingLost, Intact
<1>6. FileIsTrue'
  <2>1. CASE UNCHANGED file
    BY <1>b, <2>1 DEF FileIsTrue, relay, outside
  <2>2. CASE file' = Checked(S)
    <3> SUFFICES ASSUME NEW o \in Original
                 PROVE  /\ Checked(S)[o].status = "purged" => o \notin plain
                        /\ Checked(S)[o].status \in {"sealed", "verified"} =>
                              \E e \in envelopes \cup removed :
                                  /\ e.id = Checked(S)[o].outer
                                  /\ e.epoch = Checked(S)[o].epoch
                                  /\ e.of = o /\ Whole(e)
      BY <1>b, <2>2 DEF FileIsTrue, relay, outside
    <3>1. CASE o \in S  BY <1>d, <1>e, <3>1 DEF Opens
    <3>2. CASE o \notin S  BY <1>d, <3>2 DEF FileIsTrue
    <3> QED  BY <3>1, <3>2
  <2> QED  BY <1>c, <2>1, <2>2
<1>7. OneEnvelope'
  BY DEF CheckChunk, relay, command, outside, Idle, SealKnows, OneEnvelope
<1>8. WorkRecorded'
  BY <1>a, <1>b, <1>c, <1>f DEF WorkRecorded, PurgeKnows, Idle
<1>9. QED  BY <1>1, <1>2, <1>3, <1>4, <1>5, <1>6, <1>7, <1>8

\* The rows deleted are of messages their envelopes still carry.
LEMMA DeleteChunkStep == ASSUME IInv, DeleteChunk PROVE IInv'
<1> USE DEF IInv
<1>1. TypeOK'
  <2>1. faults' \in 0 .. MaxFaults  BY FaultBound DEF DeleteChunk, TypeOK
  <2>2. Nothing \in [plain : SUBSET Original, envelopes : SUBSET Envelope]
    BY DEF Nothing
  <2>3. plain' \subseteq Original  BY DEF DeleteChunk, TypeOK
  <2>4. CASE Idle
    BY <2>1, <2>2, <2>3, <2>4 DEF DeleteChunk, TypeOK, Idle
  <2>5. CASE /\ pc' = "recording" /\ kept' \subseteq Original
             /\ UNCHANGED <<ring, seen, work, sent, chunk>>
    BY <2>1, <2>3, <2>5 DEF DeleteChunk, TypeOK
  <2>6. CASE \E S \in SUBSET (chunk \cap plain) :
                 /\ pc' = "recording" /\ kept' = S
                 /\ UNCHANGED <<ring, seen, work, sent, chunk>>
    <3>1. kept' \subseteq Original  BY <2>6 DEF TypeOK
    <3> QED  BY <2>5, <2>6, <3>1
  <2>7. kept \subseteq Original  BY DEF TypeOK
  <2> QED  BY <2>4, <2>5, <2>6, <2>7 DEF DeleteChunk
<1>2. SealKnows'
  <2>1. CASE Idle
    BY <2>1 DEF SealKnows, Idle, Nothing
  <2>2. CASE pc' = "recording" /\ UNCHANGED <<seen, sent>>
    BY <2>2 DEF DeleteChunk, SealKnows
  <2> QED  BY <2>1, <2>2 DEF DeleteChunk
<1>3. PurgeKnows'
  BY DEF DeleteChunk, relay, command, Idle, Fault, PurgeKnows, FileIsWhole,
         FileIsTrue, Intact
<1>4. FileIsWhole'
  BY DEF DeleteChunk, command, Idle, Fault, FileIsWhole
<1>5. NothingLost'
  BY DEF DeleteChunk, relay, command, Idle, Fault, PurgeKnows, NothingLost, Intact
<1>6. FileIsTrue'
  BY DEF DeleteChunk, relay, Idle, Fault, SealKnows, PurgeKnows, FileIsTrue
<1>7. OneEnvelope'
  BY DEF DeleteChunk, relay, Idle, Fault, SealKnows, OneEnvelope
<1>8. WorkRecorded'
  BY DEF DeleteChunk, Idle, WorkRecorded
<1>9. QED  BY <1>1, <1>2, <1>3, <1>4, <1>5, <1>6, <1>7, <1>8

\* What is recorded as purged has no row left.
LEMMA RecordChunkStep == ASSUME IInv, RecordChunk PROVE IInv'
<1> USE DEF IInv
<1>1. TypeOK'
  BY RecordChunkFile DEF RecordChunk, relay, outside, TypeOK, Entry, Status,
                         Envelope
<1>2. SealKnows'
  BY DEF RecordChunk, relay, outside, SealKnows
<1>3. PurgeKnows'
  BY RecordChunkFile DEF TypeOK, RecordChunk, relay, command, outside, PurgeKnows,
                         FileIsWhole, FileIsTrue, Intact
<1>4. FileIsWhole'
  <2>1. \A o \in Original : file[o].status = "none" <=> file'[o].status = "none"
    BY RecordChunkFile DEF RecordChunk, WorkRecorded, TypeOK
  <2> QED  BY <2>1, WholeKept DEF RecordChunk, TypeOK, relay
<1>5. NothingLost'
  BY DEF RecordChunk, relay, command, outside, PurgeKnows, NothingLost, Intact
<1>6. FileIsTrue'
  BY RecordChunkFile DEF RecordChunk, relay, outside, SealKnows, PurgeKnows,
                         FileIsTrue
<1>7. OneEnvelope'
  BY DEF RecordChunk, relay, outside, SealKnows, OneEnvelope
<1>8. WorkRecorded'
  BY RecordChunkFile DEF TypeOK, RecordChunk, relay, outside, WorkRecorded, WithStatus
<1>9. QED  BY <1>1, <1>2, <1>3, <1>4, <1>5, <1>6, <1>7, <1>8

\* A purge run that is done leaves the file as it is.
LEMMA EndPurgeStep == ASSUME IInv, EndPurge PROVE IInv'
<1> USE DEF IInv
<1>1. TypeOK'
  BY DEF EndPurge, relay, outside, Idle, TypeOK, Entry, Status, Envelope, Nothing
<1>2. SealKnows'
  BY DEF EndPurge, relay, outside, Idle, SealKnows, Nothing
<1>3. PurgeKnows'
  BY DEF EndPurge, relay, command, outside, Idle, PurgeKnows, FileIsWhole,
         FileIsTrue, Intact
<1>4. FileIsWhole'
  BY DEF EndPurge, relay, command, outside, Idle, FileIsWhole
<1>5. NothingLost'
  BY DEF EndPurge, relay, command, outside, Idle, PurgeKnows, NothingLost, Intact
<1>6. FileIsTrue'
  BY DEF EndPurge, relay, outside, Idle, SealKnows, PurgeKnows, FileIsTrue
<1>7. OneEnvelope'
  BY DEF EndPurge, relay, outside, Idle, SealKnows, OneEnvelope
<1>8. WorkRecorded'
  BY DEF EndPurge, relay, outside, Idle, WorkRecorded
<1>9. QED  BY <1>1, <1>2, <1>3, <1>4, <1>5, <1>6, <1>7, <1>8

\* A run may be cut anywhere.
LEMMA StopStep == ASSUME IInv, Stop PROVE IInv'
<1> USE DEF IInv
<1>1. TypeOK'
  BY FaultBound DEF Stop, relay, Idle, TypeOK, Entry, Status, Envelope, Nothing
<1>2. SealKnows'
  BY DEF Stop, relay, Idle, Fault, SealKnows, Nothing
<1>3. PurgeKnows'
  BY DEF Stop, relay, command, Idle, Fault, PurgeKnows, FileIsWhole, FileIsTrue,
         Intact
<1>4. FileIsWhole'
  BY DEF Stop, relay, command, Idle, Fault, FileIsWhole
<1>5. NothingLost'
  BY DEF Stop, relay, command, Idle, Fault, PurgeKnows, NothingLost, Intact
<1>6. FileIsTrue'
  BY DEF Stop, relay, Idle, Fault, SealKnows, PurgeKnows, FileIsTrue
<1>7. OneEnvelope'
  BY DEF Stop, relay, Idle, Fault, SealKnows, OneEnvelope
<1>8. WorkRecorded'
  BY DEF Stop, relay, Idle, WorkRecorded
<1>9. QED  BY <1>1, <1>2, <1>3, <1>4, <1>5, <1>6, <1>7, <1>8

\* An empty state file claims nothing.
LEMMA LoseFileStep == ASSUME IInv, LoseFile PROVE IInv'
<1> USE DEF IInv
<1>1. TypeOK'
  BY FaultBound DEF LoseFile, relay, command, TypeOK, Entry, Status, Envelope,
                    NoEntry
<1>2. SealKnows'
  BY DEF LoseFile, relay, command, Fault, SealKnows
<1>3. PurgeKnows'
  BY DEF LoseFile, relay, command, Fault, PurgeKnows, FileIsWhole, FileIsTrue,
         Entries, Intact
<1>4. FileIsWhole'
  BY DEF LoseFile, relay, command, Fault, FileIsWhole, NoEntry
<1>5. NothingLost'
  BY DEF LoseFile, relay, command, Fault, PurgeKnows, NothingLost, Intact
<1>6. FileIsTrue'
  BY DEF LoseFile, relay, command, Fault, SealKnows, PurgeKnows, FileIsTrue, NoEntry
<1>7. OneEnvelope'
  BY DEF LoseFile, relay, command, Fault, SealKnows, OneEnvelope
<1>8. WorkRecorded'
  BY DEF LoseFile, relay, command, WorkRecorded
<1>9. QED  BY <1>1, <1>2, <1>3, <1>4, <1>5, <1>6, <1>7, <1>8

\* An author takes the text back.
LEMMA AuthorDeletesStep == ASSUME IInv, NEW o \in Original, AuthorDeletes(o) PROVE IInv'
<1> USE DEF IInv
<1>1. TypeOK'
  BY FaultBound DEF AuthorDeletes, relay, command, TypeOK, Entry, Status, Envelope
<1>2. SealKnows'
  BY DEF AuthorDeletes, relay, command, Fault, SealKnows
<1>3. PurgeKnows'
  BY DEF AuthorDeletes, relay, command, Fault, PurgeKnows, FileIsWhole,
         FileIsTrue, Intact
<1>4. FileIsWhole'
  BY DEF AuthorDeletes, command, Fault, FileIsWhole
<1>5. NothingLost'
  BY DEF AuthorDeletes, relay, command, Fault, PurgeKnows, NothingLost, Intact
<1>6. FileIsTrue'
  BY DEF AuthorDeletes, relay, command, Fault, SealKnows, PurgeKnows, FileIsTrue
<1>7. OneEnvelope'
  BY DEF AuthorDeletes, relay, command, Fault, SealKnows, OneEnvelope
<1>8. WorkRecorded'
  BY DEF AuthorDeletes, command, WorkRecorded
<1>9. QED  BY <1>1, <1>2, <1>3, <1>4, <1>5, <1>6, <1>7, <1>8

\* An admin takes an envelope away.
LEMMA AdminRemovesStep == ASSUME IInv, NEW e \in envelopes, AdminRemoves(e) PROVE IInv'
<1> USE DEF IInv
<1>1. TypeOK'
  <2>1. faults' \in 0 .. MaxFaults  BY FaultBound DEF AdminRemoves, TypeOK
  <2>2. e \in Envelope /\ e.of \in Original  BY DEF TypeOK, Envelope
  <2> QED  BY <2>1, <2>2 DEF AdminRemoves, TypeOK, command
<1>2. SealKnows'
  BY DEF AdminRemoves, relay, command, Fault, SealKnows
<1>3. PurgeKnows'
  <2>1. ASSUME NEW o \in chunk, Intact(o)
        PROVE  Intact(o)' \/ o \in withdrawn'
    <3>1. PICK f \in envelopes : f.of = o /\ Whole(f)  BY <2>1 DEF Intact
    <3>2. CASE f = e  BY <3>1, <3>2 DEF AdminRemoves
    <3>3. CASE f # e  BY <3>1, <3>3 DEF AdminRemoves, Intact
    <3> QED  BY <3>2, <3>3
  <2>2. withdrawn \subseteq withdrawn'  BY DEF AdminRemoves
  <2> QED  BY <2>1, <2>2 DEF AdminRemoves, PurgeKnows, command
<1>4. FileIsWhole'
  BY DEF AdminRemoves, command, Fault, FileIsWhole
<1>5. NothingLost'
  <2> SUFFICES ASSUME NEW o \in Original, o \notin plain', o \notin withdrawn'
               PROVE  Intact(o)'
    BY DEF NothingLost
  <2>1. o \notin plain /\ o \notin withdrawn /\ o # e.of
    BY DEF AdminRemoves
  <2>2. PICK f \in envelopes : f.of = o /\ Whole(f)
    BY <2>1 DEF NothingLost, Intact
  <2>3. f \in envelopes'  BY <2>1, <2>2 DEF AdminRemoves
  <2> QED  BY <2>2, <2>3 DEF Intact
<1>6. FileIsTrue'
  BY DEF AdminRemoves, relay, command, Fault, SealKnows, PurgeKnows, FileIsTrue
<1>7. OneEnvelope'
  BY DEF AdminRemoves, relay, command, Fault, SealKnows, OneEnvelope
<1>8. WorkRecorded'
  BY DEF AdminRemoves, command, WorkRecorded
<1>9. QED  BY <1>1, <1>2, <1>3, <1>4, <1>5, <1>6, <1>7, <1>8

-----------------------------------------------------------------------------
\* Every step preserves the invariant.
LEMMA NextIInv == IInv /\ [Next]_vars => IInv'
<1> SUFFICES ASSUME IInv, [Next]_vars PROVE IInv'
  OBVIOUS
<1>1. CASE UNCHANGED vars
  BY <1>1 DEF vars, relay, command, outside, IInv, TypeOK, WorkRecorded, SealKnows,
         PurgeKnows, FileIsWhole, NothingLost, FileIsTrue, OneEnvelope, Intact
<1>2. ASSUME NEW keys \in Rings, StartSeal(keys) \/ Verify(keys) \/ StartPurge(keys)
      PROVE  IInv'
  BY <1>2, StartSealStep, VerifyStep, StartPurgeStep
<1>3. ASSUME NEW o \in work, Adopt(o) \/ OriginalGone(o) \/ PublishRefused(o)
      PROVE  IInv'
  BY <1>3, AdoptStep, OriginalGoneStep, PublishRefusedStep
<1>4. ASSUME NEW o \in work, NEW k \in ring, Publish(o, k) PROVE IInv'
  BY <1>4, PublishStep
<1>5. CASE ReadBack \/ EndSeal
  BY <1>5, ReadBackStep, EndSealStep
<1>6. CASE CheckChunk \/ DeleteChunk \/ RecordChunk \/ EndPurge
  BY <1>6, CheckChunkStep, DeleteChunkStep, RecordChunkStep, EndPurgeStep
<1>7. CASE Stop \/ LoseFile
  BY <1>7, StopStep, LoseFileStep
<1>8. ASSUME NEW o \in Original, AuthorDeletes(o) PROVE IInv'
  BY <1>8, AuthorDeletesStep
<1>9. ASSUME NEW e \in envelopes, AdminRemoves(e) PROVE IInv'
  BY <1>9, AdminRemovesStep
<1> QED  BY <1>1, <1>2, <1>3, <1>4, <1>5, <1>6, <1>7, <1>8, <1>9 DEF Next, Program

\* The invariant holds in every reachable state of the migrator.
THEOREM MigrateInvariant == Spec => []IInv
<1>1. Init => IInv  BY InitIInv
<1>2. IInv /\ [Next]_vars => IInv'  BY NextIInv
<1> QED  BY <1>1, <1>2, PTL DEF Spec

\* The state file, the running command and the relay's rows keep their types.
THEOREM MigrateTypes == Spec => []TypeOK
<1>1. IInv => TypeOK  BY DEF IInv
<1> QED  BY <1>1, MigrateInvariant, PTL

\* Wherever a run is cut and whatever the relay loses, no message goes unless
\* its author or an admin takes the last copy (engine.rs seal, verify, purge).
THEOREM NoMessageIsLost == Spec => []NothingLost
<1>1. IInv => NothingLost  BY DEF IInv
<1> QED  BY <1>1, MigrateInvariant, PTL

\* The state file never claims what the relay does not hold (state.rs Entry).
THEOREM StateFileIsTrue == Spec => []FileIsTrue
<1>1. IInv => FileIsTrue  BY DEF IInv
<1> QED  BY <1>1, MigrateInvariant, PTL

\* No run publishes a second envelope that opens for the same message and epoch
\* (engine.rs adopt).
THEOREM SealedOnce == Spec => []OneEnvelope
<1>1. IInv => OneEnvelope  BY DEF IInv
<1> QED  BY <1>1, MigrateInvariant, PTL

\* A delete request is sent only when every message on the relay is verified
\* (engine.rs purge, the blocking entries).
THEOREM PurgeWaitsForAll == Spec => []PurgeNeedsAll
<1>1. IInv => PurgeNeedsAll  BY DEF IInv, PurgeKnows, PurgeNeedsAll
<1> QED  BY <1>1, MigrateInvariant, PTL
=============================================================================
