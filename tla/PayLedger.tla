------------------------------ MODULE PayLedger ------------------------------
(***************************************************************************)
(* The sats ledger of the pod worker: deposits, paid reads and agent jobs. *)
(*                                                                         *)
(* Every balance change is a D1 batch, and a batch is one transaction, so  *)
(* a request that needs one batch only is one action.  Two requests need   *)
(* more: a deposit looks at the journal, asks a block explorer and then    *)
(* credits; the cleanup lists the overdue jobs and ends them one batch at  *)
(* a time.  Any other request may run in between, and either may stop at   *)
(* any await.                                                              *)
(***************************************************************************)
EXTENDS Integers, FiniteSets, Functions

CONSTANTS
    Account,    \* the dids
    Outpoint,   \* chain:txid:vout, of chains whose unit is the ledger's
    Job,        \* job ids, those of the jobs that were there before included
    None,       \* SQL NULL
    txo,        \* txid:vout of an outpoint, without its chain
    payee,      \* whose deposit script an outpoint pays
    value,      \* the sats it pays
    OldDeposit, \* txo_deposits: the txid:vout credited before the journal
    before,     \* webledger_accounts before the journal
    opening,    \* agent_jobs before the journal: see OpeningAssumption
    Cost,       \* cost_sats of a paid read
    Estimate,   \* the estimates endpoints have
    Actual,     \* what agents may claim a job cost
    Depositor,  \* concurrent deposit requests
    Sweeper     \* concurrent cleanup requests of admins

Live == {"held", "running"}
Over == {"settled", "failed"}
JobStatus == {"none"} \cup Live \cup Over

JobRecord == [status : JobStatus, requester : Account \cup {None},
              agent : Account \cup {None}, held : Nat, actual : Nat, timed : BOOLEAN]

ASSUME OutpointAssumption ==
    /\ payee \in [Outpoint -> Account \cup {None}]
    /\ value \in [Outpoint -> Nat]
    /\ Outpoint \cap Job = {} /\ None \notin Account \cup Outpoint
\* No job that was there has expires_at unless timed; one that is still live has
\* no actual_sats yet (NULL counts as 0 wherever it is read).
ASSUME OpeningAssumption ==
    /\ before \in [Account -> Nat]
    /\ opening \in [Job -> JobRecord]
    /\ \A j \in Job : /\ opening[j].status # "none" => opening[j].requester \in Account
                      /\ opening[j].status \in Live => opening[j].actual = 0
\* A ledger is about the accounts, outputs and jobs it ever meets.
ASSUME FiniteAssumption == IsFiniteSet(Account) /\ IsFiniteSet(Outpoint) /\ IsFiniteSet(Job)
ASSUME CostAssumption == Cost \in Nat /\ Estimate \subseteq Nat \ {0} /\ Actual \subseteq Nat

VARIABLES
    balance,    \* webledger_accounts.balance_sats, 0 when there is no row
    journal,    \* pay_credits: the credit_refs that have a row
    creditTo,   \* pay_credits.did
    creditSats, \* pay_credits.amount_sats
    applied,    \* pay_credits.applied = 1
    status, requester, agent, held, actual,  \* agent_jobs
    stamped,    \* the jobs that have a release_ref
    due,        \* the jobs whose expires_at has passed
    dpc,        \* where each deposit is
    dWho, dOut, \* its depositor and the outpoint it claims
    page,       \* the overdue jobs each cleanup listed and has not reached
    spent       \* sats taken by paid reads

credits  == <<journal, creditTo, creditSats, applied>>
jobs     == <<status, requester, agent, held, actual, stamped>>
deposits == <<dpc, dWho, dOut>>
vars     == <<balance, credits, jobs, due, deposits, page, spent>>

\* credit_ref: a deposit's is its replay key, a release's is made from the job id.
CreditRef == Outpoint \cup Job

Init ==
    /\ balance = before
    /\ journal = {}
    /\ creditTo = [r \in CreditRef |-> None]
    /\ creditSats = [r \in CreditRef |-> 0]
    /\ applied = {}
    /\ status = [j \in Job |-> opening[j].status]
    /\ requester = [j \in Job |-> opening[j].requester]
    /\ agent = [j \in Job |-> opening[j].agent]
    /\ held = [j \in Job |-> opening[j].held]
    /\ actual = [j \in Job |-> opening[j].actual]
    /\ stamped = {}
    /\ due = {}
    /\ dpc = [d \in Depositor |-> "idle"]
    /\ dWho = [d \in Depositor |-> None]
    /\ dOut = [d \in Depositor |-> None]
    /\ page = [s \in Sweeper |-> {}]
    /\ spent = 0

-----------------------------------------------------------------------------
(* The journal: write the row, apply it, mark it, in one batch *)

\* Mutated form: the row is applied whether or not it was applied before.
ApplyAgain(r) ==
    /\ balance' = IF r \in journal'
                  THEN [balance EXCEPT ![creditTo'[r]] = @ + creditSats'[r]]
                  ELSE balance
    /\ applied' = IF r \in journal' THEN applied \cup {r} ELSE applied

\* SQL_APPLY_CREDIT and SQL_MARK_APPLIED: account and amount come from the row.
Apply(r) ==
    /\ balance' = IF r \in journal' \ applied
                  THEN [balance EXCEPT ![creditTo'[r]] = @ + creditSats'[r]]
                  ELSE balance
    /\ applied' = IF r \in journal' THEN applied \cup {r} ELSE applied

\* INSERT OR IGNORE .. WHERE fits: a row that is there stays as it is.
Journal(r, fits, to, sats) ==
    IF fits /\ r \notin journal
    THEN /\ journal' = journal \cup {r}
         /\ creditTo' = [creditTo EXCEPT ![r] = to]
         /\ creditSats' = [creditSats EXCEPT ![r] = sats]
    ELSE UNCHANGED <<journal, creditTo, creditSats>>

-----------------------------------------------------------------------------
(* POST .deposit *)

EndDeposit(d) ==
    /\ dpc' = [dpc EXCEPT ![d] = "idle"]
    /\ dWho' = [dWho EXCEPT ![d] = None]
    /\ dOut' = [dOut EXCEPT ![d] = None]

\* outpoint_credited
Credited(o) == o \in journal \/ txo[o] \in OldDeposit

BeginDeposit(d, k, o) ==
    /\ dpc[d] = "idle"
    /\ ~Credited(o)
    /\ dpc' = [dpc EXCEPT ![d] = "lookup"]
    /\ dWho' = [dWho EXCEPT ![d] = k]
    /\ dOut' = [dOut EXCEPT ![d] = o]
    /\ UNCHANGED <<balance, credits, jobs, due, page, spent>>

\* Mutated form: any output the explorer knows will do.
QualifyingAnyScript(d) == TRUE

\* qualifying_output: the output pays the depositor's own script.
Qualifying(d) == payee[dOut[d]] = dWho[d]

\* The explorer shows a confirmed output, or does not, or not yet.
LookUp(d) ==
    /\ dpc[d] = "lookup"
    /\ \/ /\ Qualifying(d)
          /\ dpc' = [dpc EXCEPT ![d] = "credit"]
          /\ UNCHANGED <<dWho, dOut>>
       \/ EndDeposit(d)
    /\ UNCHANGED <<balance, credits, jobs, due, page, spent>>

\* credit_deposit: the batch looks at the legacy table again, and the primary
\* key of the journal stands for the outpoint.
CreditDeposit(d) ==
    LET o == dOut[d]
    IN  /\ dpc[d] = "credit"
        /\ Journal(o, txo[o] \notin OldDeposit, dWho[d], value[o])
        /\ Apply(o)
        /\ EndDeposit(d)
        /\ UNCHANGED <<jobs, due, page, spent>>

\* An await fails, or the isolate is evicted.
DropDeposit(d) ==
    /\ dpc[d] # "idle"
    /\ EndDeposit(d)
    /\ UNCHANGED <<balance, credits, jobs, due, page, spent>>

-----------------------------------------------------------------------------
(* GET <resource>: a paid read *)

\* Mutated form: the debit does not look at the balance.
PayUncovered(k) ==
    /\ balance' = [balance EXCEPT ![k] = @ - Cost]
    /\ spent' = spent + Cost
    /\ UNCHANGED <<credits, jobs, due, deposits, page>>

\* SQL_DEBIT.  The read that follows it may fail and the reply be lost: the
\* account is charged all the same.
Pay(k) ==
    /\ balance[k] >= Cost
    /\ balance' = [balance EXCEPT ![k] = @ - Cost]
    /\ spent' = spent + Cost
    /\ UNCHANGED <<credits, jobs, due, deposits, page>>

-----------------------------------------------------------------------------
(* Agent jobs *)

\* hold_for: the estimate and a fifth, rounded up
HoldFor(estimate) == (6 * estimate + 4) \div 5

\* SQL_JOB_INSERT_IF_FUNDED and SQL_JOB_DEBIT_HOLD under a fresh job id
CreateJob(k, a, j, estimate) ==
    LET hold == HoldFor(estimate)
    IN  /\ status[j] = "none"
        /\ balance[k] >= hold
        /\ status' = [status EXCEPT ![j] = "held"]
        /\ requester' = [requester EXCEPT ![j] = k]
        /\ agent' = [agent EXCEPT ![j] = a]
        /\ held' = [held EXCEPT ![j] = hold]
        /\ actual' = [actual EXCEPT ![j] = 0]
        /\ balance' = [balance EXCEPT ![k] = @ - hold]
        /\ UNCHANGED <<credits, stamped, due, deposits, page, spent>>

\* SQL_JOB_START
StartJob(a, j) ==
    /\ status[j] = "held"
    /\ agent[j] = a
    /\ status' = [status EXCEPT ![j] = "running"]
    /\ UNCHANGED <<balance, credits, requester, agent, held, actual, stamped,
                   due, deposits, page, spent>>

\* Mutated form: the transition does not stamp release_ref.
TransitionUnstamped(j, fits, to, cost) ==
    /\ status' = IF fits THEN [status EXCEPT ![j] = to] ELSE status
    /\ actual' = IF fits THEN [actual EXCEPT ![j] = cost] ELSE actual
    /\ stamped' = IF fits /\ to = "settled" THEN stamped \cup {j} ELSE stamped

\* The UPDATE that ends a job, WHERE fits; it stamps release_ref.
Transition(j, fits, to, cost) ==
    /\ status' = IF fits THEN [status EXCEPT ![j] = to] ELSE status
    /\ actual' = IF fits THEN [actual EXCEPT ![j] = cost] ELSE actual
    /\ stamped' = IF fits THEN stamped \cup {j} ELSE stamped

\* transition_and_release: the rest of the batch runs whether or not the UPDATE
\* changed a row, and reads the amount from the job.
EndJob(j, fits, to, cost) ==
    /\ Transition(j, fits, to, cost)
    /\ Journal(j, j \in stamped' /\ held[j] > actual'[j],
               requester[j], held[j] - actual'[j])
    /\ Apply(j)
    /\ UNCHANGED <<requester, agent, held, due, deposits, spent>>

\* SQL_JOB_SETTLE: the agent, of a running job, within the hold
SettleJob(a, j, cost) ==
    /\ EndJob(j, status[j] = "running" /\ agent[j] = a /\ held[j] >= cost,
              "settled", cost)
    /\ UNCHANGED page

\* SQL_JOB_CANCEL: the requester or the agent
CancelJob(k, j) ==
    /\ EndJob(j, status[j] \in Live /\ k \in {requester[j], agent[j]},
              "failed", actual[j])
    /\ UNCHANGED page

\* The clock passes expires_at.  A job from before that column has none.
FallDue(j) ==
    /\ status[j] # "none"
    /\ opening[j].status # "none" => opening[j].timed
    /\ due' = due \cup {j}
    /\ UNCHANGED <<balance, credits, jobs, deposits, page, spent>>

-----------------------------------------------------------------------------
(* POST .cleanup, by an admin: recover_orphaned_jobs *)

\* SQL_JOBS_EXPIRED
ListOverdue(s) ==
    /\ page[s] = {}
    /\ page' = [page EXCEPT ![s] = {j \in due : status[j] \in Live}]
    /\ UNCHANGED <<balance, credits, jobs, due, deposits, spent>>

\* Mutated form: the job listed is the job ended, whatever became of it since.
ExpireJobBlind(s, j) ==
    /\ j \in page[s]
    /\ page' = [page EXCEPT ![s] = @ \ {j}]
    /\ EndJob(j, TRUE, "failed", actual[j])

\* SQL_JOB_EXPIRE: only a job that is still live
ExpireJob(s, j) ==
    /\ j \in page[s]
    /\ page' = [page EXCEPT ![s] = @ \ {j}]
    /\ EndJob(j, status[j] \in Live, "failed", actual[j])

\* The first batch that fails ends the cleanup.
DropSweep(s) ==
    /\ page[s] # {}
    /\ page' = [page EXCEPT ![s] = {}]
    /\ UNCHANGED <<balance, credits, jobs, due, deposits, spent>>

-----------------------------------------------------------------------------
DepositStep ==
    \E d \in Depositor :
        \/ \E k \in Account, o \in Outpoint : BeginDeposit(d, k, o)
        \/ LookUp(d) \/ CreditDeposit(d) \/ DropDeposit(d)

JobStep ==
    \E j \in Job, k \in Account :
        \/ \E a \in Account, e \in Estimate : CreateJob(k, a, j, e)
        \/ StartJob(k, j) \/ CancelJob(k, j)
        \/ \E cost \in Actual : SettleJob(k, j, cost)

SweepStep ==
    \E s \in Sweeper :
        \/ ListOverdue(s) \/ DropSweep(s)
        \/ \E j \in Job : ExpireJob(s, j)

Next ==
    \/ DepositStep \/ JobStep \/ SweepStep
    \/ \E k \in Account : Pay(k)
    \/ \E j \in Job : FallDue(j)

Spec == Init /\ [][Next]_vars

-----------------------------------------------------------------------------
\* Balances never go below zero, and the tables hold what their columns may hold.
TypeOK ==
    /\ balance \in [Account -> Nat]
    /\ journal \subseteq CreditRef /\ applied \subseteq CreditRef
    /\ creditTo \in [CreditRef -> Account \cup {None}]
    /\ creditSats \in [CreditRef -> Nat]
    /\ status \in [Job -> JobStatus]
    /\ requester \in [Job -> Account \cup {None}]
    /\ agent \in [Job -> Account \cup {None}]
    /\ held \in [Job -> Nat] /\ actual \in [Job -> Nat]
    /\ stamped \subseteq Job /\ due \subseteq Job
    /\ dpc \in [Depositor -> {"idle", "lookup", "credit"}]
    /\ dWho \in [Depositor -> Account \cup {None}]
    /\ dOut \in [Depositor -> Outpoint \cup {None}]
    /\ page \in [Sweeper -> SUBSET Job]
    /\ spent \in Nat

\* Jobs that were over before releases were journalled.
OldOver == {j \in Job : opening[j].status \in Over}

\* Every credit names true evidence and moved its balance.  A deposit's row says
\* whom its output pays and how much, and neither two deposits racing across the
\* explorer call nor the legacy table make a second one; a release's row returns
\* what the job did not use, to its requester, for a job that is over and that
\* was not released before the journal existed.
CreditHasEvidence ==
    /\ journal = applied
    /\ \A o \in journal \cap Outpoint :
           /\ txo[o] \notin OldDeposit
           /\ creditTo[o] = payee[o] /\ creditTo[o] \in Account
           /\ creditSats[o] = value[o]
    /\ \A j \in journal \cap Job :
           /\ status[j] \in Over /\ j \notin OldOver
           /\ creditTo[j] = requester[j]
           /\ creditSats[j] = held[j] - actual[j]

\* A job that is over has returned what it did not use, whichever of settle,
\* cancel and cleanup ended it; one that is not over keeps its hold.
HoldReturned ==
    \A j \in Job \ OldOver :
        IF status[j] \in Over
        THEN held[j] >= actual[j] /\ (held[j] > actual[j] => j \in applied)
        ELSE j \notin journal

\* Sats, wherever they are.
Holding == {j \in Job : status[j] \in Live}
Settled == {j \in stamped : status[j] = "settled"}
OldHolding == {j \in Job : opening[j].status \in Live}

Balances == SumFunctionOnSet(balance, Account)
OnHold == SumFunctionOnSet(held, Holding)
Charged == SumFunctionOnSet(actual, Settled)
Deposited == SumFunctionOnSet(value, journal \cap Outpoint)
Inherited == SumFunctionOnSet(before, Account)
                 + SumFunctionOnSet([j \in Job |-> opening[j].held], OldHolding)

\* Sats are neither made nor lost: what the accounts have, what jobs hold, what
\* settled jobs cost and what reads cost is what was deposited, and what the
\* accounts had and jobs were holding before the journal.
Conserved == Balances + OnHold + Charged + spent = Inherited + Deposited

\* A job ends once: what settled, failed or was refunded is never ended again,
\* nor repriced, by a request or a cleanup that read it before.
JobsEndOnce ==
    [][\A j \in Job : status[j] \in Over =>
           /\ status'[j] = status[j]
           /\ actual'[j] = actual[j] /\ held'[j] = held[j]
           /\ j \in applied => j \in applied' /\ creditSats'[j] = creditSats[j]]_vars

=============================================================================
