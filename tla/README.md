# Verification of nostr-rust-forum

TLA+ specifications, TLC models and TLAPS proofs for the `nostr-rust-forum`
repository: a forum, relay and Solid pod server made of Rust crates compiled to
Cloudflare Workers. The repository is large (some 750 files in 24 crates); most of
it is request/response code over D1 and R2 with little state of its own. The parts
worth a model are those in which several actors share state across awaited calls,
and those that must survive being cut in the middle. Six are modelled:

1. the **governed decision flow**, by which a human answers what an agent asked;
2. the **pay ledger** of the pods and the agent jobs it pays for;
3. the **session layer** of the relay, whose object sleeps between two messages;
4. the **zone history migration**, a tool that replaces plaintext by envelopes;
5. the **poker house seat**, a daemon that deals hands and settles them on a chain;
6. the **trust levels** of the relay's members, and the sweep that lowers them.

Paths below are relative to `src/`. `NH` is
`crates/nostr-bbs-relay-worker/src/relay_do/nip_handlers.rs`, `RC` is `receipts.rs`
beside it, `CRON` is `crates/nostr-bbs-relay-worker/src/cron.rs`, `GA` is
`crates/nostr-bbs-auth-worker/src/governance_api.rs`, `GOV` is
`crates/nostr-bbs-core/src/governance.rs`.

## Inventory

### The governed decision flow (relay worker, auth worker, cron)

| Part | State | Operations | Talks to |
|---|---|---|---|
| Relay event handler (`NH` `handle_event`, a Durable Object) | `events` | ingest gates, `save_event`, dispatch by kind: 31400 panel, 31402 request or appeal, 31403 response or supersession | D1, subscribers |
| Case projection (`NH` `CASE_UPSERT_SQL`, `project_action_request`) | `broker_cases` | insert a case, let it follow a re-post of its request | written by every 31402 |
| Decision projection (`NH` `project_action_response`, `project_supersession`, `project_appeal`; plans from `GOV` `BrokerCase`) | `broker_decisions`, `case_delegations` | read the case, plan, hand the plan to the receipt machine, write the delegation row | case, receipt |
| Receipt stage machine (`RC` `apply_with_receipt`) | `governance_receipts` | `record_accepted`, one batch (decision, case, receipt), `mark_projection_failed`, replay detection | decision projection |
| Application endpoint (`GA` `POST /api/governance/receipts/{id}/application`) | the same `governance_receipts` rows | read, plan (`GOV` `can_advance_stage`), compare-and-swap on the stage | another worker, the same D1 |
| Ageing and expiry (`CRON` `escalate_stale_cases`, `expire_stale_proposals`) | `case_side_receipts`, `broker_cases.state` | page of overdue cases: receipt; page of expired proposals: receipt, then close | every five minutes |

What is hard here: every handler is a chain of awaited D1 statements, and a
Durable Object, another worker and a cron interleave at each `await`; only a D1
`batch()` is a transaction. A signed event can be delivered again at any time. An
isolate may be evicted between two statements, and a batch may be applied and its
reply lost. The request behind a case may be re-posted, with another risk tier,
while it is being answered. What must hold: one decision per case until it is
contested, on the request it cites, by a human where the tier asks for one; one
chain of supersessions; a receipt that tells the truth; a closed case that stays
closed; a reviewer admitted only by a delegation that landed; and the accepted must
end as committed or failed.

### The other components

| Component | State | What makes it correct | Hard part | Specification |
|---|---|---|---|---|
| Pay ledger and agent jobs (`nostr-bbs-pod-worker/src/pay_ledger.rs`) | balances, journal, jobs, legacy deposits | an outpoint is credited once, a hold is returned once, a balance covers what it pays for | deposits race across an explorer call; settle, cancel and expiry of one job race | `PayLedger` |
| Relay session layer (`relay_do/mod.rs`, `session.rs`, `nip42.rs`, `broadcast.rs`) | sockets, session ids, identity, subscriptions, slots per address; three storage rows per session | one id per socket, nobody becomes somebody else, a subscriber misses nothing, sleeping is invisible | the runtime drops the memory and keeps the sockets; storage calls fail one by one | `RelaySession` |
| Zone history migration (`nostr-bbs-zone-migrate`) | state file, relay rows | no message is lost or sealed twice, the file never runs ahead of the relay, the history does get migrated | cut anywhere and run again; the relay may keep, lose or spoil what it was sent | `ZoneMigrate` |
| Poker house seat (`nostr-bbs-poker-citizen`) | sessions, hands, challenges; a ledger in memory and on disk; held coins; the last scan of the chain | one hand per member, the house always moves, debts survive, wins are paid and paid once | a lost reply or a kill between a transfer and its save; a chain that lags | `HouseTable` |
| Trust levels and demotion sweep (`trust.rs`, `trust_sweep.rs`) | counts, level and last day of each whitelist row; the cursor a tick leaves | nobody is demoted who came back, nobody is skipped or met twice, who is due is demoted in the end | the sweep writes the column its query selects by, and goes on at the next tick; members come back between a page and its commits | `TrustSweep` |
| Event store and filters (`relay_do/storage.rs`, `filter.rs`) | `events` | the newest version of a replaceable event wins | an older version delivered later is stored beside the newer: only older rows are deleted (`storage.rs:120`) | the part the decision flow needs, in `GovernanceCase` |
| Invites (`nostr-bbs-auth-worker/src/invites.rs`) | invitations, redemptions | uses never exceed `max_uses` | the use is counted in one statement and the redemption recorded in the next (`:645`) | none yet |
| Relay caches (`mod_cache.rs`, `read_cache.rs`) | 60 second memos | a ban is seen at the latest when the memo ends | staleness (`mod_cache.rs:20`) | none yet |
| Mesh federation (`nostr-bbs-mesh`) | seen ids, peers | no event is federated in a loop | an id evicted from the bounded cache is federated again (`transport.rs:605`) | none yet |
| Poker engine (`nostr-bbs-poker`) | stacks, pots, turn | chips are conserved | side pots | none yet |
| Push and calendar, moderation, admin, HTTP surface, identity and login, members, pods, protocol library, search, preview, configuration, clients, tools | | | single statements, cryptography, encodings, or I/O | not planned |

`PROJECT.json` lists every component with its sources, and the hazards of each at the
line where they bite.

## Modules

| Module | What it is |
|---|---|
| `GovernanceCase` | the decision flow, one action per D1 statement or batch |
| `GovernanceProperties` | its invariants, action properties, liveness, and the instance of `DecisionLedger` it implements |
| `DecisionLedger` | the abstract specification: the moves of a `BrokerCase` and its decision history (`GOV`), over all cases at once |
| `GovernanceProofs` | theorems about the flow |
| `MCGovernance` | small worlds of signed events for TLC |
| `CaseSweep`, `CaseSweepProofs`, `MCSweep` | the two sweeps of the cron over many cases, with the page ceiling, theorems about them, and a small instance |
| `PayLedger`, `PayLedgerProofs`, `MCPay` | the pay ledger, theorems about it, and its small world |
| `RelaySession`, `MCSession` | the session layer of the relay and a small instance |
| `SteadyRelay` | the abstract specification: a relay that never sleeps |
| `RelaySessionProofs` | theorems about sessions, delivery, slots and the refinement |
| `ZoneMigrate`, `ZoneMigrateProofs`, `MCMigrate` | the migration tool and the relay it works on |
| `HouseTable`, `HouseTableProofs`, `MCHouse` | the poker house seat, its runner and the chain around it |
| `SumProofs` | lemmas about sums over finite sets, for the sats and the cap |
| `TrustSweep`, `TrustSweepProofs`, `MCTrust` | the trust levels: the demotion sweep and the flush of activity, theorems about them, and a small instance |

Definitions marked "Mutated form" in a comment are deliberately wrong variants of the
definition that follows them. The specifications never use them; they are substituted
one at a time to see that the property named in `PROJECT.json` is really violated by
such a bug.

### GovernanceCase and the code

A behaviour starts from empty tables. The world is the set `Event` of signed events
(`ev` says what each one is): they never change, and any of them can be delivered at any
time, any number of times, to any of the concurrent handlers `Worker`.

| Variables | In the code |
|---|---|
| `held` | `events` rows of kind 31402 that are requests |
| `caseState`, `caseReq`, `caseBy` | `broker_cases.state`, `nostr_event_id`, `created_by` |
| `decided`, `prior`, `succ` | rows of `broker_decisions`, `prior_decision_id`, `superseded_by` |
| `stage` | `governance_receipts.stage` |
| `delegation`, `side` | `case_delegations`, `case_side_receipts` |
| `pc`, `cur`, `seenState`, `seenReq`, `seenPrior` | a handler: where it is, its event, and what it read before its last await |
| `rpc`, `rEvent`, `rStage`, `rWant`, `rKey` | a request to the application endpoint |
| `cron`, `cronCase` | the scheduled handler |

| Actions | In the code |
|---|---|
| `DeliverRequest`, `UpsertCase` | `save_event`, then `CASE_UPSERT_SQL` |
| `DropRequest` | a deletion (kind 5) or NIP-40 expiry of the stored request |
| `DeliverResponse`, `DeliverSupersession`, `DeliverAppeal` | the ingest gates of `NH`: admission, rationale, `supersession_authorised` |
| `CheckReplay`, `ReadTarget`, `ReadCase`, `ReadLatest`, `ReadCited` | the reads and the plan of the three projections, in their order |
| `RecordAccepted`, `CommitResponse`, `CommitSupersession`, `CommitAppeal`, `CommitRefused`, `MarkFailed` | `apply_with_receipt` and its batch, whose statements repeat parts of the plan in their WHERE clauses and abort the batch if one of them changes no row |
| `RecordRefused` | `refuse_projection` |
| `RecordDelegation` | the `case_delegations` upsert after `is_applied` |
| `ReadFails`, `Evict`, the fault branches | a failed statement, a lost reply, an evicted isolate |
| `ReadReceipt`, `PlanReport`, `WriteReport` | the application endpoint |
| `FindOverdue`, `Escalate`, `FindExpired`, `RecordExpired`, `CloseExpired`, `AbortSweep` | one case through the cron |

Abstractions, each of which keeps every order of statements:

- The gates that read (admission, rationale, target of a supersession) are one step,
  `Deliver...`: nothing they read is used again later, and their refusals leave no trace.
- `record_accepted` inserts or counts a replay in two statements; no reader can tell the
  two apart, so it is one step.
- Event ids are compared as they are; the code shortens them to 16 hexadecimal digits
  for `decision_id`, so distinct events are assumed to differ there.
- Roles (`Admin`, `Reviewer`, `Rank`) and the panel registry do not change during a
  behaviour. What a request says (tier, expiry) is a property of the signed event.
- `at` is `created_at` and the tie-break by id: the worlds give distinct values.
- `under_review` and the `signed` stage are legal values that nothing in the repository
  writes; they are left out.
- An appeal's `d` tag names the appeal and not a case, so its receipt has no case owner.
- The share plan of a decision is abstracted.

`CaseSweep` abstracts one case to none, pending, decided or closed, and models the whole
sweep instead: two SELECTs ordered by deadline and cut at `AGEING_BATCH_SIZE`, the page
worked off one statement at a time, failures that are counted and skipped, a tick that
dies. `GovernanceCase` has the same two-step close for the one case it follows.

- A request carries both deadlines, and a re-post rewrites them while the case is pending
  (`Upsert`, `CASE_UPSERT_SQL`); the rows on the page keep those the SELECT read. Which of
  two requests is the newer is left open, since any other may follow one that was deleted.
- Equal deadlines may come off a SELECT in any order, and the ceiling may cut between them
  anywhere: `Pages` is the set of the pages a SELECT may return.
- `posted` remembers which requests a case was written from; it has no counterpart.

### PayLedger and the code

`PL` is `crates/nostr-bbs-pod-worker/src/pay_ledger.rs`. Everything that moves sats
there is one D1 `batch()`, so a paid read, a job's creation, its start and its end are one
action each. Only a deposit (journal check, explorer call, credit) and the admins' cleanup
(list, then one batch per job) span awaits.

| Variables | In the code |
|---|---|
| `balance` | `webledger_accounts.balance_sats`, 0 without a row |
| `journal`, `creditTo`, `creditSats`, `applied` | rows of `pay_credits`, their `did`, `amount_sats`, `applied` |
| `status`, `requester`, `agent`, `held`, `actual`, `stamped` | `agent_jobs`; `stamped` are those with a `release_ref` |
| `due` | jobs whose `expires_at` has passed |
| `dpc`, `dWho`, `dOut`; `page` | a deposit request; what a cleanup has listed and not reached |
| `spent` | nothing: it counts what paid reads took, for `Conserved` |

| Actions | In the code |
|---|---|
| `BeginDeposit`, `LookUp`, `CreditDeposit`, `DropDeposit` | `deposit`, `qualifying_output`, `credit_deposit` |
| `Journal`, `Apply` | `INSERT OR IGNORE` into the journal; the UPDATE of the balance from the row that is really there; the mark |
| `Pay` | `SQL_DEBIT` of a paid read |
| `CreateJob`, `StartJob`, `SettleJob`, `CancelJob` | `job_create`, `job_start`, `job_settle`, `job_cancel`; the last two through `transition_and_release` |
| `FallDue`, `ListOverdue`, `ExpireJob`, `DropSweep` | the clock, `recover_orphaned_jobs` and its abort at the first failed batch |

- The block explorer is outside: it may show a confirmed output or not. Outputs never
  change, so a chain reorganisation after the confirmation is not modelled.
- `before`, `opening` and `OldDeposit` are the tables as the journal found them: balances,
  jobs that were over (released without a journal row, no `release_ref`) or still live,
  outpoints in `txo_deposits`, which has no chain column. A missing `actual_sats` is 0.
- The admin check of `.cleanup` is the set `Sweeper`. Requests that the routes refuse
  before any statement, replies and receipts have no action; a reply that is lost changes
  nothing, and a client that asks again is a second request.

### RelaySession and the code

`relay_do/` is `crates/nostr-bbs-relay-worker/src/relay_do/`. The runtime holds other
events back while a handler awaits the object's own storage (the input gate), so a
handler that awaits nothing else is one action; a handler that awaits D1 (REQ, EVENT) is
several, and other handlers come in between. The object sleeps only when no handler is
under way. A frame that wakes it is `RecoverSession` followed by the action of the frame.

| Variables | In the code |
|---|---|
| `conn`, `sid` | the runtime's sockets and the session id in their tag |
| `session`, `next`, `slots` | `sessions`, `next_session_id`, `connection_counts`: lost in a sleep |
| `mark`, `rows` | `session_id_mark`; the `ws_sub`, `ws_auth` and `ws_chal` rows of an id |
| `heard`, `proved`, `acked`, `got` | what clients saw: challenges, OK to an AUTH, EOSE, events |
| `req`, `post`, `stored` | a REQ and an EVENT across their D1 calls; the `events` table |
| `spoiled`, `faults` | connections a storage call failed for; nothing in the code |

| Actions | In the code |
|---|---|
| `Connect` | `fetch`: slot, `recover_untracked_sessions`, `allocate_session_id`, challenge |
| `RecoverSession` | `recover_session`, with a fresh challenge when none was saved |
| `Auth`, `Req`, `QueryEvents`, `Eose`, `Unsubscribe` | `handle_auth`, `handle_req` around its query, `handle_close` |
| `Publish`, `SaveEvent`, `BroadcastEvent` | `handle_event` from its write gate to `broadcast_event` |
| `Close`, `Alarm` | `remove_session` and `release_connection_slot`; the idle alarm |
| `Hibernate`, `Restart` | the runtime: memory dropped, or sockets dropped as well |

- A storage call may fail (`Faulty`: get, put, delete, the id mark, D1), at most one per
  handler and `MaxFaults` in all. The code ignores those failures, so the specification
  goes on with what was really read or written, and records whose connection it was.
- A challenge is `<<socket, n>>`: random ones are distinct.
- Rate limits, COUNT, ephemeral events and the zone and cohort gates are left out. A
  protected topic asks for an authenticated reader and an event of it goes to its
  addressee only, as for NIP-17 wraps.
- `SteadyRelay` says what a client may see: an identity and subscriptions that change at
  its own request and at no other time, but for connections storage failed.

### ZoneMigrate and the code

One operator, one state file, one channel. The code saves each outcome before the next
call to the relay, so memory and file differ only between a reply and the save after it;
ending there is the same as ending before the reply, and one variable, `file`, is both.

| Variables | In the code (`crates/nostr-bbs-zone-migrate/src/`) |
|---|---|
| `plain`, `envelopes` | rows of the relay: plaintext messages; envelopes, each whole or broken |
| `file` | `state.rs`: status, envelope id and epoch per message |
| `pc`, `ring`, `seen`, `work`, `sent`, `chunk`, `kept` | the running command: its keys, its scan, what is left, what was sent |
| `published`, `withdrawn`, `removed`, `faults` | ids given out; what others deleted; nothing in the code |

| Actions | In the code |
|---|---|
| `StartSeal`, `Adopt`, `OriginalGone`, `Publish`, `PublishRefused`, `ReadBack`, `EndSeal` | `seal`: scan, then per message adopt what is already there, or publish and read back |
| `Verify` | `verify`, one envelope fetched and opened per entry |
| `StartPurge`, `CheckChunk`, `DeleteChunk`, `RecordChunk`, `EndPurge` | `purge`: refuse unless everything is verified, check a chunk again, the relay's delete endpoint, record |
| `Stop`, `LoseFile` | a kill, `--limit` or a transport error; a lost state file |
| `AuthorDeletes`, `AdminRemoves` | kind 5 from the author; an admin removing an event |

The relay may refuse an event, store it and lose it, return it broken, or delete part of
a chunk and fail. Timestamps that tie, paging of the scan, and plaintext posted after the
scan are left out; the runbook closes the channel to new plaintext first.

### HouseTable and the code

Files are in `crates/nostr-bbs-poker-citizen/src/`. The runner is one task: it takes a
message, a bot turn or a poll only when the effects of the one before are carried out. So
a handler of `table.rs` is one action, and each effect it asks for (a payment, a save) is
a step of its own, between any two of which the process may be killed.

| Variables | In the code |
|---|---|
| `live`, `stage`, `seats`, `turn` | `Session.live`; `hands`, `challenges`, a hand's players and `to_act` |
| `turns` | bot turns in the runner's queue, by hand |
| `book`, `disk` | `ledger` in memory, and the file `persist` writes |
| `todo`, `post` | the effects of the last handler; the request to the producer whose reply is awaited |
| `held`, `facts` | coins of transfers not yet shown; the last scan (`chain.rs`) |
| `units`, `pool`, `mined` | the chain: members' payments by hand and recipient; the house's transfers |
| `slipped`, `faults` | hands paid without the house knowing or saving it; nothing in the code |

| Actions | In the code |
|---|---|
| `Hello`, `Sit`, `Challenge`, `Accept`, `EndChallenge`, `Leave`, `Claim` | the messages `handle` serves; lapsing in `tick` and `accept` |
| `Act`, `BotActs`, and in them `Lose`, `SplitPot` | `member_act`, `bot_turn`, `after_change`, `settle` |
| `Persist` | `persist`, which logs a failed save and goes on |
| `PayFails`, `Send`, `Answer`, `NoAnswer` | `pay`, before, at and after its request |
| `Poll` | a poll of `serve`: `refresh_chain`, `payments_seen`, `payable` |
| `Mine`, `MemberPays`, `ClaimAges`, `NewDay` | the producer, members' wallets, the clock |
| `Crash` | a kill and a start: `main` reads the file and scans |

- Cards and betting are abstracted to what `table.rs` does with them: an act passes the
  turn or ends the hand at some stacks. Offers and presence are left out, since a member
  out of a hand can always get both; so are balances on the chain, which may always be
  short or not.
- What a handler sends to members changes nothing here. Effects keep their order: a
  payment before the save, what follows a payment before the rest.
- The builder takes coins in the chain's order; a coin stands for a set of outpoints, and
  change is a coin with a higher number. A transfer of the same coin is refused.
- Members' transfers are mined for hands somebody owes for, to anybody, up to the buy-in
  in all. A claim is in its grace or not. A used hand never comes back: its name is the
  hash of a fresh secret.
- `refresh_chain` lets go of each held coin by its own age: the specification keeps any
  part of the coins that are not shown spent.
- The error exits of `bot_turn` (`table.rs:794`, `:809`), which use the turn up without a
  move, are left out. They cannot be taken: a house to act has a legal action, and
  `bots::decide` picks an allowed one and clamps its amount to what `engine::act` takes.
- `payable` goes through the debts in order and skips those tried less than two minutes
  ago; the specification takes any set of debts that fits under the cap.

### TrustSweep and the code

`trust.rs` and `trust_sweep.rs` are in `crates/nostr-bbs-relay-worker/src/`. The sweep
(a cron) and the relay's object run side by side; each awaited D1 statement is a step, and
the UPDATE of a demotion is one batch with its audit entry.

| Variables | In the code |
|---|---|
| `now` | the clock, in UTC days |
| `row`, `log`, `saved` | `whitelist`; the demotions in `admin_log`; `trust_sweep_state` |
| `sweep`, `page` | a tick: its time, cursor and count of rows; its page, as it was read |
| `flush` | a member's `flush_activity`: where it is and what it read |
| `met`, `owed`, `faults`, `ops` | nothing: whom this tick worked off; the candidates it started with and nobody wrote to; bounds |

| Actions | In the code |
|---|---|
| `StartTick`, `SaveCursor`, `ClearCursor` | `sweep_inactive_demotions` around its loop |
| `FetchPage` | `candidate_page`: after the cursor, in the order of `last_active_at` and pubkey, up to the batch size; a page that fails aborts the tick |
| `WorkRow`, in it `Commit` | `decide_demotion` on the row as read; `commit_demotion_d1`, conditioned on every column it looked at |
| `Post`, `CountReads`, `ReadStamp`, `WriteStamp` | `increment_posts_created`, `increment_posts_read_by`, `update_last_active` |
| `CheckPromotion`, `Promote` | `check_promotion`: the read, and the UPDATE that names the pubkey only |
| `SetAdmin`, `SetByHand` | `handle_set_admin`; an operator at the database, the only source of level 3 and of mod actions |
| `Die`, `Tick` | a tick that is evicted; the clock |

- `posts` stands for `posts_read` and `posts_created`, which are counted and compared
  alike. `need` and `keep` are the thresholds and the share of them that keeps a level;
  they do not change and their reads do not fail (see the observations below).
- One tick at a time, and one flush per member at a time: the ledger in the relay's memory
  lets a member's next flush begin only after a window. A flush takes seconds and the
  inactivity window is half a year, so no flush outlives it (the guard of `Tick`).
- Rows are not removed from the whitelist, and a missing `last_active_at` is 0, which is
  how every comparison reads it.

## Runs

| Run | World and bounds | What it shows |
|---|---|---|
| `repost` | 5 events: a request, its re-post at a high tier, a bot, two admins; 2 handlers, 1 failure | the receipt agrees with the ledger; one decision until an appeal; decisions land on the request they cite; only humans answer a high tier |
| `lifecycle` | 6 events: an expiring proposal, an approval, two supersessions of it, an appeal, a delegation; 2 handlers | the flow implements `DecisionLedger`; one chain; case and ledger agree; a closed case has its receipt; only landed delegations admit |
| `reports` | 2 events (no appeal, no supersession), 1 handler, 2 reports, 1 failure | reports never certify what did not land and never go down the ladder |
| `progress` | 3 events: an expiring proposal, a version that does not expire, an approval; 2 handlers, 1 failure, fairness | no receipt is stranded at relay-accepted; a stale proposal is settled |
| `sweep` | 3 cases, two of them re-posted (a later expiry, none), equal deadlines in both SELECTs, page of 1, clock to 3, 2 failures, 1 appeal, fairness | the close spares the decided; a proposal does not stay expired, despite the ceiling |
| `pay` | 2 accounts, 3 outpoints (one credited before the journal, one on another chain with the same txid), 3 jobs (over before the journal, running before it, new), 2 deposits, 2 cleanups, faults unbounded | sats are conserved; every credit has its evidence, once; a job that is over returned what it did not use; a job ends once; no balance goes below zero |
| `migrate` | 3 messages, 2 key epochs, every ring of them, chunks of 2, 2 faults or interventions, fairness | no message is lost; the file is true; one envelope per epoch; nothing is deleted while a message waits; the history gets migrated |
| `session` | 3 sockets (a reader that keeps authenticating, two authors), ids to 3, 2 slots, 1 subscription each, a protected and an open topic, 1 event, 1 failed read, write or query, or a restart, fairness | ids distinct; identity one's own; nothing missed; no slot leaked; sleep is invisible (refines `SteadyRelay`); a member gets authenticated |
| `house` | 2 members, 2 hands, stacks of 1, cap of 1 per day, 3 coins, 2 bot turns per hand, 1 kill, lost reply or failed save, fairness | one hand per member; the house's turn always waits; paid once but for a fault; the cap holds; saved debts stand; wins are paid in the end |
| `trust` | 3 members (two with levels they keep for ever come first, one comes and goes), page of 1, ceiling of 2, window of 2 days, clock to 3, 2 posts, 1 change by hand, 1 failed statement or dead tick, fairness | a pass skips and repeats nobody; a demotion is earned when it lands; who is due is demoted in the end |

In the governed flow, two handlers are enough for every race the statements allow: each check in a batch
compares one row with one earlier read, so a third handler adds no new order between a
read and the write that invalidates it, and since any event can be redelivered, two
handlers can run the whole world one after the other. One failure separates each pair of
adjacent statements; the theorems hold for any number of either. Handlers are
interchangeable and `Symmetry` permutes them, in safety runs only.

In `migrate`, three messages make a chunk of two and a rest, so a run can be cut
between chunks and inside one; two faults allow a fault while recovering from another.
In `session`, three sockets are a sleeper, a newcomer and the socket whose rows it might
inherit; ids to 3 let each connect once, and every further connection repeats the third's
position. In `house`, two hands suffice for a member to be in one and be drawn into
another; a stack equal to the day's cap makes the second win wait for the next day; the
third coin is the change with which a hand can be paid again. In `trust`, a page of one
makes every row a page boundary, and a ceiling of two with two members that are only held
keeps the third behind the ceiling, so it is reached through the saved cursor alone; all
start with the same `last_active_at`, so the order rests on the pubkeys. The theorems hold
without these bounds.

The `violation` runs each refute one thing the repository says of itself:

| Run | What the repository says | What happens |
|---|---|---|
| `reopened_twice` | `RC:474` an already projected event is done, re-running it is the mutation the design forbids | the appeal batch does not ask whether its receipt is still open: two deliveries that both passed the replay check reopen the case twice, the second time over a new decision |
| `machine_overturn` | `NH:503` only a human closes a high or critical case | the supersession batch repeats the state but not the request the plan read |

Observations that have no run of their own, most of them hazards with a note. Each was seen in
a TLC trace or follows from the lines given.

- Decision flow. A failure report or a plain redelivery takes a receipt its consumer
  already reported on back to `projection-failed`. A decision admitted before the tier was
  raised lands without a rationale. A handler that dies before the upsert leaves the case
  on an older request. A case decided between the expired receipt and the close keeps that
  receipt. The endpoint's compare-and-swap repeats the stage and not the case state it
  checked, so `applied-manually` can land on a case an appeal has just reopened
  (`GA:1081` says "never for a rejected or still-open case"). The delegation row is
  written after the batch, so an eviction between the two loses it for good (`NH:3109`).
  A page full of cases that have their escalation receipt starves the cases behind it
  (`CRON:613`); no property says otherwise, and `ExpiredIsSettled` is about the other
  SELECT. The close repeats the state and not `stale_after` (`CRON:834`), so a proposal
  re-posted between the SELECT and the close with a later expiry, or with none, is closed
  on the expiry it no longer has; `CRON:756` says that no case that declares none can be
  closed. `ClosesWereDue` says how far that goes.
- Sessions. Recovery moves the counter off 1, and then `allocate_session_id` skips the
  mark (`session.rs:286`), against the comment above it: if deletes fail, an id can be
  issued again over rows that remain. A failed read of the mark does the same. Two storage
  failures and a sleep can leave the stored challenge different from the one sent. After a
  sleep the sockets live and the connection counts are zero, so an address may hold more
  than its limit.
- Migration. An author who deletes a message that is planned and not yet sealed blocks
  `purge` for good: the entry can neither be verified nor dropped.
- House seat. The producer may take a transfer whose reply is lost, or the process be
  killed before the save (`run.rs:414`): the hand stays in the book. While the transfer is
  unmined the retry spends the same coin and is refused; once it is mined the scan frees
  the builder to take another coin, and the winner is paid again. ADR-2020 says "Settlement is one DREAM transfer per hand";
  `PaidOnceUnlessSlipped` says that nothing else pays a hand twice. `accept` looks at the debts of the one who accepts and not at those of the
  challenger, who may have come to owe since. A member can claim again when the grace of a
  claim ends. The house's funds are compared with one buy-in while several hands are live.
  A member who leaves off turn leaves the opponent in a hand without an end. A win is
  announced before it is saved, and a kill in between forgets it.
- Trust. `check_promotion` reads the row and then writes a level by pubkey alone
  (`trust.rs:239`): a level 3, or a mod action, that an operator sets in between is
  overridden, against the comment at `trust.rs:201`. A setting that cannot be read falls
  back to its default without a word (`TrustThresholds::load`), so a tick whose read
  fails decides on thresholds nobody set.

### Fairness

- `HandlerStep`, `ReportStep`, `SweepStep`: weak. An awaited statement returns or fails;
  a handler that is never scheduled again is an eviction, which is an action of its own.
- `FindExpired(c)`: strong. The cron runs every five minutes
  (`crates/nostr-bbs-relay-worker/wrangler.toml:123`) and its SELECT sees every case
  stale at that time; it may be busy with another case in between.
- `session`: a member that is connected answers the challenge it was last sent, again and
  again (strong, since a frame may meet a sleeping object and an AUTH over the rate limit
  is answered and retried), and a frame that wakes the object recovers its session (weak).
- `migrate`: a running command goes on (weak); the operator repeats seal, verify and
  purge with every key, as `docs/security/encrypted-zone-history-migration.md` says
  (strong, since runs may be cut in between).
- `house`: effects are carried out, requests end, taken transfers are mined and days pass
  (weak). For every hand owed for, a poll with a good scan that tries it comes again and
  again, and so does a request that reaches the producer (strong). The order of
  `payable` allows that: an older debt that was just tried is skipped for two minutes,
  eight polls, and the next one is reached.
- `trust`: the cron recurs and its statements return or fail (weak, on the sweep's steps
  together). Nothing is assumed of members.

Deadlock is checked except where the system may really stop: in `session` every client
may have come and gone, and in `house` every hand may be over with nothing owed.

## Proofs

All theorems hold for every value of the constants that satisfies the named
assumptions: `EvAssumption`, `NoneAssumption`, `RoleAssumption` and `BoundAssumption` of
`GovernanceCase`; `SweepAssumption` of `CaseSweep`; `OutpointAssumption`,
`OpeningAssumption`, `CostAssumption` and `FiniteAssumption` (accounts, outpoints and jobs
are rows of a table) of `PayLedger`; `SessionAssumption`, `MigrateAssumption`,
`TableAssumption` and `TrustAssumption` of the others. So they hold for any number of
events, handlers, reports and failures; of accounts, outpoints, jobs, deposits and
cleanups; of sockets, topics and sleeps; of messages, epochs and cuts; of members, hands,
coins and faults; of members, pages and thresholds. Every invariant and every action
property of a passing run is a theorem.

1. `GovernanceProofs`, what actors know. `TypeCorrect` (`TypeOK`) is proved from `TypeOK`
   strengthened by what handlers, reports and the cron hold at each point (`HandlerKnows`,
   `ReportKnows`, `SweepKnows`): a handler at `delegate` has a landed delegation, a report
   about to write has read a landed stage and wants a higher one, a sweep about to close
   has written its receipt. `ReceiptsAreHonest` (`LandedIsDecided`) needs that
   strengthening, because a report writes what it read two steps before.
   `LadderIsClimbed` (`LadderNeverDescends`) needs it too: the compare-and-swap repeats
   the stage, and `ReportKnows` says that what it wants lies above it. Both hold with
   appeals and supersessions in the world, which the `reports` run leaves out.
2. The same module, the ledger: `ChainIsWellFormed`, `CaseAgreesWithLedger`,
   `DelegationsAreDecided`, `ClosedCarriesReceipt`. `CaseMatchesLedger` and
   `ChainWellFormed` are inductive only together: that a resolved case has an effective
   decision survives a supersession because that moves the case as well, and that a
   superseded one does because a replaced supersession has an effective successor.
   The refinement `FlowImplementsLedger` maps each action that touches the ledger to the
   move it makes and every other one to a stutter.
3. The same module, steps and receipts: `CommittedReceiptsStay`, `ClosedStaysClosed`,
   `DecisionsAnswerTheirRequest`, `HumansAnswerHighTier`. `ClosedIsFinal` and
   `CommittedNeverFails`, which the runs' `ImplementsLedger` and `ReceiptMatchesLedger`
   cover, are stated for these proofs only. `HumansAnswerHighTier` rests on the plan: a
   handler that committed read the very request the batch compares, and it is that
   request's tier the plan checked. `DecisionsAreReceipted` says what receipts owe the
   ledger whatever consumers report: a decision has one, and it landed or says
   `projection-failed`. Two theorems assume `Reporter = {}`, as the `repost` run does, and are false without it (TLC finds
   the counterexamples named here): `ReceiptsMatchLedger` (`ReceiptMatchesLedger`; the failure
   UPDATE spares `projection-committed` and no stage above it) and
   `OneDecisionLands` (`OneDecisionUntilAppeal`; the receipt of an appeal can be taken
   back by a late failure after a report). Their invariant `QuietInvariants` says that
   receipts of decisions stay at `projection-committed`, and that a case that reopened,
   or holds two first-order decisions, has an appeal whose receipt is there.

4. `PayLedgerProofs`: `NeverOverdrawn` (`TypeOK`, whose balances are naturals),
   `CreditsAreBacked`, `HoldsAreReturned`, `JobsAreEndedOnce`, `SatsAreConserved`. The inductive invariant is
   `TypeOK`, `CreditHasEvidence` and `HoldReturned` with what a deposit knows between its
   awaits (`ClaimsKnown`: past the explorer, the output pays the depositor) and what a job
   row implies (`JobsKnown`: live means no cost yet). Two lemmas carry it: `CreditOnce`,
   that a batch leaves its journal row applied exactly once, new or not, and `EndingAJob`,
   that the batch shared by settle, cancel and expiry keeps all of it whether or not its
   UPDATE changed a row. `SatsAreConserved` (`Conserved`) adds the sums: each batch moves as much
   out of one of balances, holds and costs as into the others, and a deposit adds its outpoint.

5. `ZoneMigrateProofs`: `NoMessageIsLost`, `StateFileIsTrue`, `SealedOnce`,
   `PurgeWaitsForAll` and `MigrateTypes`. The invariant adds what a command knows at each
   point: what a seal run knows of the envelope it sent (`SealKnows`), that a chunk about
   to be deleted can be read from envelopes and that everything still on the relay was
   verified (`PurgeKnows`), that a command works on entries of the file only
   (`WorkRecorded`), and that a file with an entry has one for every message
   (`FileIsWhole`). `OneEnvelope` needs `SealKnows`, because whether to publish is decided
   on a scan taken earlier.
6. `RelaySessionProofs`: `SessionTypes`, `IdsStayDistinct`, `IdentityStaysOwn`, from
   `SessionInv`: the map has every open socket or none, with ids below the mark and the
   counter (`MapInv`); rows left behind by a restart lie below every id still to be issued
   (`OrphanInv`); an identity in memory or in a row is that of the socket's own client
   (`OwnInv`); memory and rows agree where storage did not fail (`SameInv`). They assume
   `Reliable`: deletes and the mark do not fail. Without it TLC finds the id reused.
7. In the same module, `NothingIsMissed` from `DeliveryInv`: what was acknowledged is
   subscribed (`AckInv`), what is subscribed passed its gate (`GateInv`), an event on its
   way finds every session in the map (`AwakeInv`), and an event that was broadcast is in
   the hands of a subscriber or in the answer its REQ is about to send (`ReachInv`).
   `SleepIsInvisible` is the refinement of `SteadyRelay`, with one lemma per action that
   says what it does to what is held. `SlotsAreNotLeaked` counts the open sockets.
8. `HouseTableProofs`: `TypeCorrect`, `OneHand`, `TurnWaits`, `PaidOnceElse`,
   `SavedStand`, `CapIsKept`. The invariant has a part for the table (`SeatInv`; `LiveInv`, that a
   session names the hand its member plays) and one for the book: only hands that are
   over are owed for, and once each (`OwingInv`); a hand the producer took a transfer for
   is no more owed for, unless its reply is awaited or it slipped (`TakenInv`); what the
   file holds is in memory or was seen paid, and the scan is behind the chain
   (`StandInv`). `SavedStand` needs the last: a save may replace the file by the memory
   only because of it. `CapIsKept` needs that the book's debts are finitely many and that
   the file's total, to which a crash returns, is under the cap (`CapInv`).
9. `TrustSweepProofs`: `TrustTypes`, `SweepMeetsOnce`, `DemotionsAreEarned`. The invariant
   `SweepInv` says that the cutoff lies behind the clock and behind every flush under way
   (`ClockInv`), that everybody met was counted once and lies behind the cursor or has
   come back (`MetInv`), that the page holds the first rows after the cursor (`PageInv`), and that
   whoever is owed a visit is on the page or after it (`OwedInv`). The crux is the module
   comment of `trust_sweep.rs`, "neither column is written by a demotion": a row moves in
   the order of the pages only when its member comes back, and then past the cutoff
   (`RowsMove`), because no flush is older than the window.

10. `CaseSweepProofs`: `TypeCorrect`, `SweepSparesDecided` (`CloseSparesDecided`) from the
   receipt the row at hand has (`CloseHasReceipt`); `ClosesWereDue` (`CloseWasDue`), what a
   close goes by when a re-post may have moved the expiry since the SELECT: the case is
   expired, or the row at hand was read from another request that the case was written
   from and that has expired. That a case which is closed is expired would be false. The
   invariant `LapsedInv` says it of every row on the page, since the clock does not go back.
11. `SumProofs`: `SumTake`, `SumAdd`, `SumMove` and the lemmas they rest on, about
   `SumFunctionOnSet` of the community modules. It is a fold whose order a CHOOSE decides, so
   that a sum is what is taken out and the rest would be an induction over the set, which the
   provers cannot instantiate. The proofs argue by a smallest counterexample instead: the
   library has strict inclusion well-founded on the subsets of a finite set, and `WFMin`
   gives any non-empty set of counterexamples a least one.

Only model-checked: everything under fairness (`AcceptanceSettles`,
`StaleProposalSettles`, `ExpiredIsSettled`, `HistoryMigrates`, `Authenticates`,
`WinsArePaid`, `IdleAreDemoted`), since liveness is out of the prover's reach, and what the two
`violation` runs refute. The type invariants of the decision flow, the
migration, the sessions, the house and the trust levels, `CommittedNeverFails`, `ClosedIsFinal`,
`DecidedIsReceipted` and `CloseWasDue` are proved and not part of a run.

## Plan

Written so far, in this order: the decision flow, the cron, the pay ledger, the zone
migration, the session layer, the house seat, the trust levels. Next, by what they would add:

1. The event store's replaceable semantics under out-of-order delivery, then `Invites`,
   the relay caches and the mesh.
2. The betting of `nostr-bbs-poker` (`engine.rs`), as functions on a hand, and its
   composition with `HouseTable`: chips are conserved and the stacks at the end are what
   `settlement` expects.
3. Proofs: the safety of those components, and abstract specifications of the pay ledger and
   the house's book for them to implement.

## Not modelled

The panel boundary of `NH` (tier floors, sampling, suppression) and the calendar and
zone gates decide whether an event is let in and keep no state of their own here. The
retention sweep of `CRON` deletes rows by age. Invites, the caches, the mesh, the
general event store and the poker engine have state worth a model and have none yet; they
are in the plan. The moderation, whitelist and member endpoints are single statements
over one table. Cryptography, WebAuthn, encodings, HTTP routing, R2, push services,
search and preview, the clients and the tools are outside the models: what is hard in them
is not an order of steps, or it happens in a browser or a service that is not here. The
two clients alone are half of the repository's Rust. Each component has a
line in `PROJECT.json`.

## Running

    tlc -workers 2 -config Lifecycle.cfg MCGovernance.tla
    tlapm GovernanceProofs.tla

`lifecycle`, `house` and `trust` take about two minutes each, every other run less; the proofs of
one module between some seconds and a few minutes.
