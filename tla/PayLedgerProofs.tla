--------------------------- MODULE PayLedgerProofs ---------------------------
(***************************************************************************)
(* The safety of the pay ledger, for any number of accounts, outpoints,    *)
(* jobs and concurrent requests.                                           *)
(***************************************************************************)
EXTENDS PayLedger, SumProofs

\* What a deposit carries across the explorer call: a claim by an account that,
\* once looked up, its own script backs.
ClaimsKnown ==
    \A d \in Depositor :
        /\ dpc[d] # "idle" => dOut[d] \in Outpoint /\ dWho[d] \in Account
        /\ dpc[d] = "credit" => payee[dOut[d]] = dWho[d]

\* What a job is before and after it ends.
JobsKnown ==
    \A j \in Job :
        /\ status[j] # "none" => requester[j] \in Account
        /\ status[j] \in Live => actual[j] = 0
        /\ j \in OldOver => status[j] \in Over
        /\ j \in stamped => status[j] \in Over /\ j \notin OldOver

IInv == TypeOK /\ ClaimsKnown /\ JobsKnown /\ CreditHasEvidence /\ HoldReturned

USE OutpointAssumption, OpeningAssumption, CostAssumption

-----------------------------------------------------------------------------
\* The three statements of a credit write and apply a row once: a row that is
\* there keeps its account and its amount, and moves no balance.
LEMMA CreditOnce ==
    ASSUME TypeOK, journal = applied,
           NEW r \in CreditRef, NEW fits \in BOOLEAN, NEW to, NEW sats,
           fits => to \in Account /\ sats \in Nat,
           Journal(r, fits, to, sats), Apply(r)
    PROVE  /\ journal' = IF fits THEN journal \cup {r} ELSE journal
           /\ applied' = journal'
           /\ \A x \in CreditRef : x # r \/ x \in journal =>
                  creditTo'[x] = creditTo[x] /\ creditSats'[x] = creditSats[x]
           /\ fits /\ r \notin journal => creditTo'[r] = to /\ creditSats'[r] = sats
           /\ creditTo' \in [CreditRef -> Account \cup {None}]
           /\ creditSats' \in [CreditRef -> Nat]
           /\ balance' \in [Account -> Nat]
  <1>1. CASE fits /\ r \notin journal
    <2>1. /\ journal' = journal \cup {r}
          /\ creditTo' = [creditTo EXCEPT ![r] = to]
          /\ creditSats' = [creditSats EXCEPT ![r] = sats]
      BY <1>1 DEF Journal
    <2>2. creditTo'[r] = to /\ creditSats'[r] = sats /\ to \in Account /\ sats \in Nat
      BY <1>1, <2>1 DEF TypeOK
    <2>3. balance' = [balance EXCEPT ![to] = @ + sats] /\ applied' = journal'
      BY <1>1, <2>1, <2>2 DEF Apply
    <2>4. balance' \in [Account -> Nat]
      BY <2>2, <2>3 DEF TypeOK
    <2> QED BY <1>1, <2>1, <2>2, <2>3, <2>4 DEF TypeOK
  <1>2. CASE ~(fits /\ r \notin journal)
    <2>1. UNCHANGED <<journal, creditTo, creditSats>>
      BY <1>2 DEF Journal
    <2>2. balance' = balance /\ applied' = applied
      BY <2>1 DEF Apply
    <2> QED BY <1>2, <2>1, <2>2 DEF TypeOK
  <1> QED BY <1>1, <1>2

\* A step that leaves the journal and the jobs alone keeps what they say.
LEMMA BooksUntouched ==
    ASSUME IInv, UNCHANGED <<credits, jobs>>
    PROVE  JobsKnown' /\ CreditHasEvidence' /\ HoldReturned'
  BY DEF IInv, JobsKnown, CreditHasEvidence, HoldReturned, OldOver, credits, jobs

-----------------------------------------------------------------------------
(* Ending a job *)

\* What a request that tries to end a job leaves behind, whether or not its
\* UPDATE changed the row.
LEMMA EndingAJob ==
    ASSUME IInv, NEW j \in Job, NEW fits \in BOOLEAN, NEW to \in Over, NEW cost \in Nat,
           fits => status[j] \in Live /\ held[j] >= cost,
           EndJob(j, fits, to, cost), page' \in [Sweeper -> SUBSET Job]
    PROVE  IInv' /\ \A i \in Job : status[i] \in Over =>
                        /\ status'[i] = status[i] /\ actual'[i] = actual[i]
                        /\ i \in applied => i \in applied' /\ creditSats'[i] = creditSats[i]
  <1> DEFINE returns == j \in stamped' /\ held[j] > actual'[j]
             rest == held[j] - actual'[j]
  <1>1. /\ status' \in [Job -> JobStatus] /\ actual' \in [Job -> Nat] /\ stamped' \subseteq Job
        /\ \A i \in Job \ {j} : /\ status'[i] = status[i] /\ actual'[i] = actual[i]
                                /\ i \in stamped' <=> i \in stamped
        /\ fits => status'[j] = to /\ actual'[j] = cost /\ j \in stamped'
        /\ ~fits => status' = status /\ actual' = actual /\ stamped' = stamped
    BY DEF EndJob, Transition, IInv, TypeOK, JobStatus, Over
  <1>2. UNCHANGED <<requester, agent, held, due, deposits, spent>>
    BY DEF EndJob
  <1>3. j \in stamped' => status[j] # "none" /\ requester[j] \in Account
    BY <1>1 DEF IInv, JobsKnown, Over, Live
  <1>4. held[j] \in Nat /\ actual'[j] \in Nat
    BY <1>1 DEF IInv, TypeOK
  <1>5. returns => requester[j] \in Account /\ rest \in Nat
    BY <1>3, <1>4
  <1>6. /\ journal' = IF returns THEN journal \cup {j} ELSE journal
        /\ applied' = journal'
        /\ \A x \in CreditRef : x # j \/ x \in journal =>
               creditTo'[x] = creditTo[x] /\ creditSats'[x] = creditSats[x]
        /\ returns /\ j \notin journal =>
               creditTo'[j] = requester[j] /\ creditSats'[j] = rest
        /\ creditTo' \in [CreditRef -> Account \cup {None}]
        /\ creditSats' \in [CreditRef -> Nat]
        /\ balance' \in [Account -> Nat]
    <2>1. TypeOK /\ journal = applied /\ j \in CreditRef /\ returns \in BOOLEAN
      BY DEF IInv, CreditHasEvidence, CreditRef
    <2>2. Journal(j, returns, requester[j], rest) /\ Apply(j)
      BY DEF EndJob
    <2> HIDE DEF returns, rest
    <2> QED BY <1>5, <2>1, <2>2, CreditOnce
  <1> HIDE DEF rest
  <1>7. TypeOK'
    <2>1. journal' \subseteq CreditRef /\ applied' \subseteq CreditRef
      BY <1>6 DEF IInv, TypeOK, CreditRef
    <2> QED BY <1>1, <1>2, <1>6, <2>1 DEF IInv, TypeOK, deposits
  <1>8. ClaimsKnown'
    BY <1>2 DEF IInv, ClaimsKnown, deposits
  <1>9. JobsKnown'
    <2>1. ASSUME NEW i \in Job \ {j}
          PROVE  /\ status'[i] # "none" => requester'[i] \in Account
                 /\ status'[i] \in Live => actual'[i] = 0
                 /\ i \in OldOver => status'[i] \in Over
                 /\ i \in stamped' => status'[i] \in Over /\ i \notin OldOver
      BY <1>1, <1>2 DEF IInv, JobsKnown
    <2>2. /\ status'[j] # "none" => requester'[j] \in Account
          /\ status'[j] \in Live => actual'[j] = 0
          /\ j \in OldOver => status'[j] \in Over
          /\ j \in stamped' => status'[j] \in Over /\ j \notin OldOver
      BY <1>1, <1>2 DEF IInv, JobsKnown, Live, Over
    <2> QED BY <2>1, <2>2 DEF JobsKnown, OldOver
  <1>10. j \in journal => ~fits
    BY DEF IInv, CreditHasEvidence, Live, Over
  <1>11. CreditHasEvidence'
    <2>1. ASSUME NEW o \in journal' \cap Outpoint
          PROVE  /\ txo[o] \notin OldDeposit
                 /\ creditTo'[o] = payee[o] /\ creditTo'[o] \in Account
                 /\ creditSats'[o] = value[o]
      BY <1>6 DEF IInv, CreditHasEvidence, CreditRef
    <2>2. ASSUME NEW i \in journal' \cap Job
          PROVE  /\ status'[i] \in Over /\ i \notin OldOver
                 /\ creditTo'[i] = requester'[i]
                 /\ creditSats'[i] = held'[i] - actual'[i]
      <3>1. CASE i \in journal
        BY <1>1, <1>2, <1>6, <1>10, <3>1 DEF IInv, CreditHasEvidence, CreditRef
      <3>2. CASE i \notin journal
        <4>1. i = j /\ returns
          BY <1>6, <3>2
        <4>2. status'[j] \in Over /\ j \notin OldOver
          BY <1>9, <4>1 DEF JobsKnown, OldOver
        <4> QED BY <1>2, <1>6, <3>2, <4>1, <4>2 DEF rest
      <3> QED BY <3>1, <3>2
    <2> QED BY <1>6, <2>1, <2>2 DEF CreditHasEvidence, OldOver
  <1>12. HoldReturned'
    <2>1. ASSUME NEW i \in Job \ OldOver
          PROVE  IF status'[i] \in Over
                 THEN held'[i] >= actual'[i] /\ (held'[i] > actual'[i] => i \in applied')
                 ELSE i \notin journal'
      <3>1. CASE i # j
        BY <1>1, <1>2, <1>6, <3>1 DEF IInv, HoldReturned, CreditHasEvidence
      <3>2. CASE i = j /\ fits
        BY <1>1, <1>2, <1>6, <3>2
      <3>3. CASE i = j /\ ~fits
        <4>1. status[j] \in Over =>
                  held[j] >= actual[j] /\ (held[j] > actual[j] => j \in journal)
          BY <3>3 DEF IInv, HoldReturned, CreditHasEvidence
        <4>2. status[j] \notin Over => j \notin journal /\ j \notin stamped
          BY <3>3 DEF IInv, HoldReturned, JobsKnown
        <4> QED BY <1>1, <1>2, <1>6, <3>3, <4>1, <4>2
      <3> QED BY <3>1, <3>2, <3>3
    <2> QED BY <2>1 DEF HoldReturned, OldOver
  <1>13. ASSUME NEW i \in Job, status[i] \in Over
         PROVE  /\ status'[i] = status[i] /\ actual'[i] = actual[i]
                /\ i \in applied => i \in applied' /\ creditSats'[i] = creditSats[i]
    <2>1. i = j => ~fits
      BY <1>13 DEF Live, Over
    <2>2. journal = applied
      BY DEF IInv, CreditHasEvidence
    <2> QED BY <1>1, <1>6, <2>1, <2>2 DEF CreditRef
  <1> QED BY <1>7, <1>8, <1>9, <1>11, <1>12, <1>13 DEF IInv

-----------------------------------------------------------------------------
(* Every step *)

\* What a step does to a job that is over, and to the credit it was given.
JobsKept ==
    \A i \in Job : status[i] \in Over =>
        /\ status'[i] = status[i] /\ actual'[i] = actual[i] /\ held'[i] = held[i]
        /\ i \in applied => i \in applied' /\ creditSats'[i] = creditSats[i]

\* The tables a ledger starts with satisfy the invariant.
LEMMA Initially == Init => IInv
  <1> SUFFICES ASSUME Init PROVE IInv
    OBVIOUS
  <1>1. /\ status \in [Job -> JobStatus] /\ requester \in [Job -> Account \cup {None}]
        /\ agent \in [Job -> Account \cup {None}]
        /\ held \in [Job -> Nat] /\ actual \in [Job -> Nat]
    BY DEF Init, JobRecord
  <1>2. TypeOK
    BY <1>1 DEF Init, TypeOK, CreditRef
  <1>3. ClaimsKnown
    BY DEF Init, ClaimsKnown
  <1>4. JobsKnown
    BY DEF Init, JobsKnown, OldOver
  <1>5. CreditHasEvidence /\ HoldReturned
    BY DEF Init, CreditHasEvidence, HoldReturned, OldOver
  <1> QED BY <1>2, <1>3, <1>4, <1>5 DEF IInv

\* A deposit keeps the invariant at every await and leaves the jobs that are
\* over alone.
LEMMA DepositKeeps ==
    ASSUME IInv, NEW d \in Depositor,
           \/ \E k \in Account, o \in Outpoint : BeginDeposit(d, k, o)
           \/ LookUp(d) \/ CreditDeposit(d) \/ DropDeposit(d)
    PROVE  IInv' /\ JobsKept
  <1>1. CASE \E k \in Account, o \in Outpoint : BeginDeposit(d, k, o)
    <2>1. PICK k \in Account, o \in Outpoint : BeginDeposit(d, k, o)
      BY <1>1
    <2>2. UNCHANGED <<balance, credits, jobs, due, page, spent>>
      BY <2>1 DEF BeginDeposit
    <2>3. TypeOK' /\ ClaimsKnown'
      BY <2>1, <2>2 DEF IInv, TypeOK, ClaimsKnown, BeginDeposit, credits, jobs
    <2> QED BY <2>2, <2>3, BooksUntouched DEF IInv, JobsKept, credits, jobs
  <1>2. CASE LookUp(d)
    <2>1. UNCHANGED <<balance, credits, jobs, due, page, spent>>
      BY <1>2 DEF LookUp
    <2>2. TypeOK' /\ ClaimsKnown'
      BY <1>2, <2>1 DEF IInv, TypeOK, ClaimsKnown, LookUp, Qualifying, EndDeposit, credits, jobs
    <2> QED BY <2>1, <2>2, BooksUntouched DEF IInv, JobsKept, credits, jobs
  <1>3. CASE DropDeposit(d)
    <2>1. UNCHANGED <<balance, credits, jobs, due, page, spent>>
      BY <1>3 DEF DropDeposit
    <2>2. TypeOK' /\ ClaimsKnown'
      BY <1>3, <2>1 DEF IInv, TypeOK, ClaimsKnown, DropDeposit, EndDeposit, credits, jobs
    <2> QED BY <2>1, <2>2, BooksUntouched DEF IInv, JobsKept, credits, jobs
  <1>4. CASE CreditDeposit(d)
    <2> DEFINE o == dOut[d]
               fresh == txo[o] \notin OldDeposit
    <2>1. /\ o \in Outpoint /\ o \notin Job /\ dWho[d] \in Account
          /\ payee[o] = dWho[d] /\ value[o] \in Nat
      BY <1>4 DEF IInv, ClaimsKnown, CreditDeposit
    <2>2. UNCHANGED <<jobs, due, page, spent>> /\ EndDeposit(d)
      BY <1>4 DEF CreditDeposit
    <2>3. /\ journal' = IF fresh THEN journal \cup {o} ELSE journal
          /\ applied' = journal'
          /\ \A x \in CreditRef : x # o \/ x \in journal =>
                 creditTo'[x] = creditTo[x] /\ creditSats'[x] = creditSats[x]
          /\ fresh /\ o \notin journal =>
                 creditTo'[o] = dWho[d] /\ creditSats'[o] = value[o]
          /\ creditTo' \in [CreditRef -> Account \cup {None}]
          /\ creditSats' \in [CreditRef -> Nat]
          /\ balance' \in [Account -> Nat]
      <3>1. TypeOK /\ journal = applied /\ o \in CreditRef /\ fresh \in BOOLEAN
        BY <2>1 DEF IInv, CreditHasEvidence, CreditRef
      <3>2. Journal(o, fresh, dWho[d], value[o]) /\ Apply(o)
        BY <1>4 DEF CreditDeposit
      <3> HIDE DEF o, fresh
      <3> QED BY <2>1, <3>1, <3>2, CreditOnce
    <2>4. TypeOK' /\ ClaimsKnown'
      BY <2>1, <2>2, <2>3 DEF IInv, TypeOK, ClaimsKnown, EndDeposit, CreditRef, jobs
    <2>5. JobsKnown'
      BY <2>2 DEF IInv, JobsKnown, OldOver, jobs
    <2>6. CreditHasEvidence'
      <3>1. ASSUME NEW p \in journal' \cap Outpoint
            PROVE  /\ txo[p] \notin OldDeposit
                   /\ creditTo'[p] = payee[p] /\ creditTo'[p] \in Account
                   /\ creditSats'[p] = value[p]
        BY <2>1, <2>3 DEF IInv, CreditHasEvidence, CreditRef
      <3>2. ASSUME NEW j \in journal' \cap Job
            PROVE  /\ status'[j] \in Over /\ j \notin OldOver
                   /\ creditTo'[j] = requester'[j]
                   /\ creditSats'[j] = held'[j] - actual'[j]
        BY <2>1, <2>2, <2>3 DEF IInv, CreditHasEvidence, CreditRef, jobs
      <3> QED BY <2>3, <3>1, <3>2 DEF CreditHasEvidence, OldOver
    <2>7. HoldReturned' /\ JobsKept
      BY <2>1, <2>2, <2>3 DEF IInv, HoldReturned, CreditHasEvidence, OldOver, JobsKept,
                              CreditRef, jobs
    <2> QED BY <2>4, <2>5, <2>6, <2>7 DEF IInv
  <1> QED BY <1>1, <1>2, <1>3, <1>4

\* So do the creation, the start and the end of a job by its parties.
LEMMA JobKeeps ==
    ASSUME IInv, NEW j \in Job, NEW k \in Account,
           \/ \E a \in Account, e \in Estimate : CreateJob(k, a, j, e)
           \/ StartJob(k, j) \/ CancelJob(k, j)
           \/ \E cost \in Actual : SettleJob(k, j, cost)
    PROVE  IInv' /\ JobsKept
  <1>1. CASE \E a \in Account, e \in Estimate : CreateJob(k, a, j, e)
    <2>1. PICK a \in Account, e \in Estimate : CreateJob(k, a, j, e)
      BY <1>1
    <2>2. HoldFor(e) \in Nat
      BY DEF HoldFor
    <2>3. TypeOK'
      BY <2>1, <2>2 DEF IInv, TypeOK, CreateJob, JobStatus, Live, credits, deposits
    <2>4. ClaimsKnown' /\ JobsKnown'
      BY <2>1 DEF IInv, TypeOK, ClaimsKnown, JobsKnown, OldOver, CreateJob, Over, Live, deposits
    <2>5. j \notin journal /\ j \notin OldOver
      BY <2>1 DEF IInv, CreditHasEvidence, JobsKnown, CreateJob, Over
    <2>6. CreditHasEvidence' /\ HoldReturned'
      BY <2>1, <2>5 DEF IInv, TypeOK, CreditHasEvidence, HoldReturned, OldOver, CreateJob,
                        Over, credits
    <2>7. JobsKept
      BY <2>1 DEF IInv, TypeOK, JobsKept, CreateJob, Over, credits
    <2> QED BY <2>3, <2>4, <2>6, <2>7 DEF IInv
  <1>2. CASE StartJob(k, j)
    <2>1. TypeOK' /\ ClaimsKnown' /\ JobsKnown'
      BY <1>2 DEF IInv, TypeOK, ClaimsKnown, JobsKnown, OldOver, StartJob, JobStatus, Live, Over,
                  credits, deposits
    <2>2. CreditHasEvidence' /\ HoldReturned' /\ JobsKept
      BY <1>2 DEF IInv, TypeOK, CreditHasEvidence, HoldReturned, JobsKept, OldOver, StartJob,
                  Over, credits
    <2> QED BY <2>1, <2>2 DEF IInv
  <1>3. CASE CancelJob(k, j)
    <2> DEFINE fits == status[j] \in Live /\ k \in {requester[j], agent[j]}
    <2>1. EndJob(j, fits, "failed", actual[j]) /\ page' \in [Sweeper -> SUBSET Job]
      BY <1>3 DEF CancelJob, IInv, TypeOK
    <2>2. actual[j] \in Nat /\ (fits => status[j] \in Live /\ held[j] >= actual[j])
      BY DEF IInv, TypeOK, JobsKnown
    <2>3. fits \in BOOLEAN /\ "failed" \in Over /\ held' = held
      BY <1>3 DEF Over, CancelJob, EndJob
    <2> HIDE DEF fits
    <2> QED BY <2>1, <2>2, <2>3, EndingAJob DEF JobsKept
  <1>4. CASE \E cost \in Actual : SettleJob(k, j, cost)
    <2>1. PICK cost \in Actual : SettleJob(k, j, cost)
      BY <1>4
    <2> DEFINE fits == status[j] = "running" /\ agent[j] = k /\ held[j] >= cost
    <2>2. EndJob(j, fits, "settled", cost) /\ page' \in [Sweeper -> SUBSET Job]
      BY <2>1 DEF SettleJob, IInv, TypeOK
    <2>3. cost \in Nat /\ (fits => status[j] \in Live /\ held[j] >= cost)
      BY DEF Live
    <2>4. fits \in BOOLEAN /\ "settled" \in Over /\ held' = held
      BY <2>1 DEF Over, SettleJob, EndJob
    <2> HIDE DEF fits
    <2> QED BY <2>2, <2>3, <2>4, EndingAJob DEF JobsKept
  <1> QED BY <1>1, <1>2, <1>3, <1>4

\* So does a cleanup, one job at a time.
LEMMA SweepKeeps ==
    ASSUME IInv, NEW s \in Sweeper,
           \/ ListOverdue(s) \/ DropSweep(s)
           \/ \E j \in Job : ExpireJob(s, j)
    PROVE  IInv' /\ JobsKept
  <1>1. CASE ListOverdue(s) \/ DropSweep(s)
    <2>1. UNCHANGED <<balance, credits, jobs, due, deposits, spent>>
      BY <1>1 DEF ListOverdue, DropSweep
    <2>2. page' \in [Sweeper -> SUBSET Job]
      BY <1>1 DEF ListOverdue, DropSweep, IInv, TypeOK
    <2>3. TypeOK' /\ ClaimsKnown'
      BY <2>1, <2>2 DEF IInv, TypeOK, ClaimsKnown, credits, jobs, deposits
    <2> QED BY <2>1, <2>3, BooksUntouched DEF IInv, JobsKept, credits, jobs
  <1>2. CASE \E j \in Job : ExpireJob(s, j)
    <2>1. PICK j \in Job : ExpireJob(s, j)
      BY <1>2
    <2> DEFINE fits == status[j] \in Live
    <2>2. EndJob(j, fits, "failed", actual[j])
      BY <2>1 DEF ExpireJob
    <2>3. page' \in [Sweeper -> SUBSET Job] /\ held' = held
      BY <2>1 DEF ExpireJob, EndJob, IInv, TypeOK
    <2>4. actual[j] \in Nat /\ (fits => status[j] \in Live /\ held[j] >= actual[j])
      BY DEF IInv, TypeOK, JobsKnown
    <2>5. fits \in BOOLEAN /\ "failed" \in Over
      BY DEF Over
    <2> HIDE DEF fits
    <2> QED BY <2>2, <2>3, <2>4, <2>5, EndingAJob DEF JobsKept
  <1> QED BY <1>1, <1>2

\* The invariant is inductive, and no step touches a job that is over.
LEMMA EveryStep == IInv /\ [Next]_vars => IInv' /\ JobsKept
  <1> SUFFICES ASSUME IInv, [Next]_vars PROVE IInv' /\ JobsKept
    OBVIOUS
  <1>1. CASE DepositStep
    BY <1>1, DepositKeeps DEF DepositStep
  <1>2. CASE JobStep
    BY <1>2, JobKeeps DEF JobStep
  <1>3. CASE SweepStep
    BY <1>3, SweepKeeps DEF SweepStep
  <1>4. ASSUME NEW k \in Account, Pay(k) PROVE IInv' /\ JobsKept
    <2>1. UNCHANGED <<credits, jobs, due, deposits, page>>
      BY <1>4 DEF Pay
    <2>2. balance' \in [Account -> Nat] /\ spent' \in Nat
      BY <1>4 DEF Pay, IInv, TypeOK
    <2>3. TypeOK' /\ ClaimsKnown'
      BY <2>1, <2>2 DEF IInv, TypeOK, ClaimsKnown, credits, jobs, deposits
    <2> QED BY <2>1, <2>3, BooksUntouched DEF IInv, JobsKept, credits, jobs
  <1>5. ASSUME NEW j \in Job, FallDue(j) PROVE IInv' /\ JobsKept
    <2>1. UNCHANGED <<balance, credits, jobs, deposits, page, spent>>
      BY <1>5 DEF FallDue
    <2>2. TypeOK' /\ ClaimsKnown'
      BY <1>5, <2>1 DEF FallDue, IInv, TypeOK, ClaimsKnown, credits, jobs, deposits
    <2> QED BY <2>1, <2>2, BooksUntouched DEF IInv, JobsKept, credits, jobs
  <1>6. CASE UNCHANGED vars
    <2>1. UNCHANGED <<balance, credits, jobs, due, deposits, page, spent>>
      BY <1>6 DEF vars
    <2>2. TypeOK' /\ ClaimsKnown'
      BY <2>1 DEF IInv, TypeOK, ClaimsKnown, credits, jobs, deposits
    <2> QED BY <2>1, <2>2, BooksUntouched DEF IInv, JobsKept, credits, jobs
  <1> QED BY <1>1, <1>2, <1>3, <1>4, <1>5, <1>6 DEF Next

\* The invariant holds in every state deposits, jobs and cleanups can reach.
LEMMA AlwaysIInv == Spec => []IInv
  <1>1. Init => IInv
    BY Initially
  <1>2. IInv /\ [Next]_vars => IInv'
    BY EveryStep
  <1> QED BY <1>1, <1>2, PTL DEF Spec

-----------------------------------------------------------------------------
\* No debit and no hold ever overdraws an account, whatever races with it.
THEOREM NeverOverdrawn == Spec => []TypeOK
  <1>1. IInv => TypeOK
    BY DEF IInv
  <1> QED BY <1>1, AlwaysIInv, PTL

\* Every credit is backed by an output of the account's own script or by a job
\* that is over, and moved the balance in the batch that wrote it.
THEOREM CreditsAreBacked == Spec => []CreditHasEvidence
  <1>1. IInv => CreditHasEvidence
    BY DEF IInv
  <1> QED BY <1>1, AlwaysIInv, PTL

\* The unused hold of a job comes back if and only if the job is over, however
\* many settlements, cancellations and cleanups try to end it.
THEOREM HoldsAreReturned == Spec => []HoldReturned
  <1>1. IInv => HoldReturned
    BY DEF IInv
  <1> QED BY <1>1, AlwaysIInv, PTL

\* No request and no cleanup ends a job a second time, or prices it anew.
THEOREM JobsAreEndedOnce == Spec => JobsEndOnce
  <1>1. IInv /\ [Next]_vars =>
            [\A j \in Job : status[j] \in Over =>
                /\ status'[j] = status[j]
                /\ actual'[j] = actual[j] /\ held'[j] = held[j]
                /\ j \in applied => j \in applied' /\ creditSats'[j] = creditSats[j]]_vars
    BY EveryStep DEF JobsKept
  <1> QED BY <1>1, AlwaysIInv, PTL DEF Spec, JobsEndOnce

-----------------------------------------------------------------------------
(* Conservation: the sums over accounts, jobs and outputs *)

\* Where the sums range and what they are.
LEMMA SumsTyped ==
    ASSUME TypeOK
    PROVE  /\ IsFiniteSet(Account) /\ IsFiniteSet(Holding) /\ IsFiniteSet(Settled)
           /\ IsFiniteSet(journal \cap Outpoint)
           /\ Holding \subseteq Job /\ Settled \subseteq Job
           /\ Balances \in Int /\ OnHold \in Int /\ Charged \in Int /\ Deposited \in Int
           /\ spent \in Int /\ Inherited \in Int
  <1>1. /\ IsFiniteSet(Account) /\ IsFiniteSet(Holding) /\ IsFiniteSet(Settled)
        /\ IsFiniteSet(journal \cap Outpoint) /\ IsFiniteSet(OldHolding)
        /\ Holding \subseteq Job /\ Settled \subseteq Job /\ OldHolding \subseteq Job
    BY FiniteAssumption, FS_Subset DEF TypeOK, Holding, Settled, OldHolding
  <1>2. Balances \in Int
    BY <1>1, SumInt DEF TypeOK, Balances
  <1>3. OnHold \in Int
    BY <1>1, SumInt DEF TypeOK, OnHold
  <1>4. Charged \in Int
    BY <1>1, SumInt DEF TypeOK, Charged
  <1>5. Deposited \in Int
    BY <1>1, SumInt DEF TypeOK, Deposited
  <1>6. Inherited \in Int
    <2>1. SumFunctionOnSet(before, Account) \in Int
      BY <1>1, SumInt
    <2>2. \A j \in OldHolding : [i \in Job |-> opening[i].held][j] \in Int
      BY <1>1 DEF JobRecord
    <2>3. SumFunctionOnSet([i \in Job |-> opening[i].held], OldHolding) \in Int
      BY <1>1, <2>2, SumInt
    <2> QED BY <2>1, <2>3 DEF Inherited
  <1> QED BY <1>1, <1>2, <1>3, <1>4, <1>5, <1>6 DEF TypeOK

\* The tables a ledger starts with hold what their rows explain.
LEMMA InitConserved == Init => Conserved
  <1> SUFFICES ASSUME Init PROVE Conserved
    OBVIOUS
  <1>1. TypeOK
    BY Initially DEF IInv
  <1>2. Balances = SumFunctionOnSet(before, Account)
    BY DEF Init, Balances
  <1>3. OnHold = SumFunctionOnSet([j \in Job |-> opening[j].held], OldHolding)
    <2>1. Holding = OldHolding
      BY DEF Init, Holding, OldHolding
    <2> QED BY <2>1 DEF Init, OnHold
  <1>4. Charged = 0
    <2>1. Settled = {}
      BY DEF Init, Settled
    <2> QED BY <2>1, SumEmpty DEF Charged
  <1>5. Deposited = 0
    <2>1. journal \cap Outpoint = {}
      BY DEF Init
    <2> QED BY <2>1, SumEmpty DEF Deposited
  <1>6. spent = 0
    BY DEF Init
  <1> QED BY <1>1, <1>2, <1>3, <1>4, <1>5, <1>6, SumsTyped DEF Conserved, Inherited

\* A step that writes no balance, journal row, hold or cost moves no sats.
LEMMA SatsUntouched ==
    ASSUME Conserved, UNCHANGED <<balance, journal, status, held, actual, stamped, spent>>
    PROVE  Conserved'
  <1>1. UNCHANGED <<Holding, Settled>>
    BY DEF Holding, Settled
  <1>2. UNCHANGED <<Balances, OnHold, Charged, Deposited, spent>>
    BY <1>1 DEF Balances, OnHold, Charged, Deposited
  <1> QED BY <1>2 DEF Conserved, Inherited

\* A balance that moves moves the sum of the balances by as much.
LEMMA BalancesMove ==
    ASSUME TypeOK, TypeOK', NEW k \in Account, NEW d \in Int,
           balance'[k] = balance[k] + d,
           \A a \in Account \ {k} : balance'[a] = balance[a]
    PROVE  Balances' = Balances + d
  <1>1. IsFiniteSet(Account)
    BY FiniteAssumption
  <1>2. (\A a \in Account : balance[a] \in Int) /\ (\A a \in Account : balance'[a] \in Int)
    BY DEF TypeOK
  <1>3. balance'[k] - balance[k] = d
    BY <1>2
  <1>4. SumFunctionOnSet(balance', Account)
            = SumFunctionOnSet(balance, Account) + (balance'[k] - balance[k])
    BY <1>1, <1>2, SumMove
  <1> QED BY <1>3, <1>4 DEF Balances

\* A paid read takes from the balance what is counted as spent.
LEMMA PayConserves ==
    ASSUME TypeOK, TypeOK', Conserved, NEW k \in Account, Pay(k)
    PROVE  Conserved'
  <1>1. Balances' = Balances + (-Cost)
    <2>1. -Cost \in Int
      OBVIOUS
    <2>2. /\ balance'[k] = balance[k] + (-Cost)
          /\ \A a \in Account \ {k} : balance'[a] = balance[a]
      BY DEF Pay, TypeOK
    <2> QED BY <2>1, <2>2, BalancesMove
  <1>2. spent' = spent + Cost
    BY DEF Pay
  <1>3. UNCHANGED <<Holding, Settled, OnHold, Charged, Deposited>>
    BY DEF Pay, credits, jobs, Holding, Settled, OnHold, Charged, Deposited
  <1> QED BY <1>1, <1>2, <1>3, SumsTyped DEF Conserved, Inherited

\* A deposit adds its outpoint's sats and its journal row together, or neither.
LEMMA DepositConserves ==
    ASSUME IInv, TypeOK', Conserved, NEW d \in Depositor, CreditDeposit(d)
    PROVE  Conserved'
  <1>1. PICK o \in Outpoint : o = dOut[d]
    BY DEF IInv, ClaimsKnown, CreditDeposit
  <1> DEFINE fresh == txo[o] \notin OldDeposit /\ o \notin journal
  <1>2. /\ dWho[d] \in Account /\ value[o] \in Nat /\ o \in CreditRef
        /\ TypeOK /\ journal = applied
    BY <1>1 DEF IInv, ClaimsKnown, CreditDeposit, CreditHasEvidence, CreditRef
  <1>3. UNCHANGED <<status, held, actual, stamped, spent>>
    BY DEF CreditDeposit, jobs
  <1>4. UNCHANGED <<Holding, Settled, OnHold, Charged>>
    BY <1>3 DEF Holding, Settled, OnHold, Charged
  <1>5. CASE fresh
    <2>1. journal' = journal \cup {o} /\ balance' = [balance EXCEPT ![dWho[d]] = @ + value[o]]
      BY <1>1, <1>2, <1>5 DEF CreditDeposit, Journal, Apply, TypeOK
    <2>2. Balances' = Balances + value[o]
      <3>1. /\ balance'[dWho[d]] = balance[dWho[d]] + value[o]
            /\ \A a \in Account \ {dWho[d]} : balance'[a] = balance[a]
        BY <1>2, <2>1 DEF TypeOK
      <3> QED BY <1>2, <3>1, BalancesMove
    <2>3. Deposited' = Deposited + value[o]
      <3>1. journal' \cap Outpoint = (journal \cap Outpoint) \cup {o}
        BY <2>1
      <3>2. o \notin journal \cap Outpoint
        BY <1>5
      <3>3. \A p \in (journal \cap Outpoint) \cup {o} : value[p] \in Int
        OBVIOUS
      <3>4. IsFiniteSet(journal \cap Outpoint)
        BY <1>2, SumsTyped
      <3>5. SumFunctionOnSet(value, (journal \cap Outpoint) \cup {o})
                = SumFunctionOnSet(value, journal \cap Outpoint) + value[o]
        BY <3>2, <3>3, <3>4, SumAdd
      <3> QED BY <3>1, <3>5 DEF Deposited
    <2> QED BY <1>2, <1>3, <1>4, <2>2, <2>3, SumsTyped DEF Conserved, Inherited
  <1>6. CASE ~fresh
    <2>1. UNCHANGED <<journal, balance>>
      BY <1>1, <1>2, <1>6 DEF CreditDeposit, Journal, Apply
    <2> QED BY <1>3, <2>1, SatsUntouched
  <1> QED BY <1>5, <1>6

\* A new job moves its estimate from the balance into the hold.
LEMMA CreateConserves ==
    ASSUME IInv, TypeOK', Conserved,
           NEW k \in Account, NEW a \in Account, NEW j \in Job, NEW e \in Estimate,
           CreateJob(k, a, j, e)
    PROVE  Conserved'
  <1> DEFINE hold == HoldFor(e)
  <1>1. hold \in Nat
    BY DEF HoldFor
  <1>2. TypeOK
    BY DEF IInv
  <1> HIDE DEF hold
  <1>3. /\ balance' = [balance EXCEPT ![k] = @ + (-hold)]
        /\ held' = [held EXCEPT ![j] = hold]
        /\ status' = [status EXCEPT ![j] = "held"]
        /\ actual' = [actual EXCEPT ![j] = 0]
        /\ status[j] = "none"
        /\ UNCHANGED <<journal, stamped, spent>>
    BY <1>1, <1>2 DEF CreateJob, hold, TypeOK, credits
  <1>4. Balances' = Balances + (-hold)
    <2>1. -hold \in Int
      BY <1>1
    <2>2. /\ balance'[k] = balance[k] + (-hold)
          /\ \A b \in Account \ {k} : balance'[b] = balance[b]
      BY <1>2, <1>3 DEF TypeOK
    <2> QED BY <1>2, <2>1, <2>2, BalancesMove
  <1>5. OnHold' = OnHold + hold
    <2>1. Holding' = Holding \cup {j} /\ j \notin Holding
      BY <1>2, <1>3 DEF TypeOK, Holding, Live
    <2>2. IsFiniteSet(Holding) /\ IsFiniteSet(Holding') /\ Holding \subseteq Job
      BY <1>2, SumsTyped, FS_AddElement, <2>1
    <2>3. SumFunctionOnSet(held', Holding \cup {j}) = SumFunctionOnSet(held', Holding) + held'[j]
      <3>1. \A i \in Holding \cup {j} : held'[i] \in Int
        BY <2>2 DEF TypeOK
      <3> QED BY <2>1, <2>2, <3>1, SumAdd
    <2>4. SumFunctionOnSet(held', Holding) = SumFunctionOnSet(held, Holding)
      <3>1. \A i \in Holding : held[i] \in Int /\ held'[i] = held[i]
        BY <1>2, <1>3, <2>1, <2>2 DEF TypeOK
      <3> QED BY <2>2, <3>1, SumSame
    <2>5. held'[j] = hold
      BY <1>2, <1>3 DEF TypeOK
    <2> QED BY <2>1, <2>3, <2>4, <2>5 DEF OnHold
  <1>6. Charged' = Charged
    <2>1. Settled' = Settled /\ j \notin Settled
      BY <1>2, <1>3 DEF TypeOK, Settled
    <2>2. \A i \in Settled : actual[i] \in Int /\ actual'[i] = actual[i]
      BY <1>2, <1>3, <2>1 DEF TypeOK, Settled
    <2>3. SumFunctionOnSet(actual', Settled) = SumFunctionOnSet(actual, Settled)
      BY <1>2, <2>2, SumsTyped, SumSame
    <2> QED BY <2>1, <2>3 DEF Charged
  <1>7. Deposited' = Deposited
    BY <1>3 DEF Deposited
  <1> QED BY <1>1, <1>2, <1>3, <1>4, <1>5, <1>6, <1>7, SumsTyped DEF Conserved, Inherited

\* The start of a job moves no sats.
LEMMA StartConserves ==
    ASSUME IInv, Conserved, NEW a \in Account, NEW j \in Job, StartJob(a, j)
    PROVE  Conserved'
  <1>1. UNCHANGED <<Holding, Settled>>
    BY DEF StartJob, IInv, TypeOK, Holding, Settled, Live
  <1>2. UNCHANGED <<Balances, OnHold, Charged, Deposited, spent>>
    BY <1>1 DEF StartJob, credits, Balances, OnHold, Charged, Deposited
  <1> QED BY <1>2 DEF Conserved, Inherited

\* A job that ends gives back what it did not cost; one that is over moves nothing.
LEMMA EndConserves ==
    ASSUME IInv, TypeOK', Conserved,
           NEW j \in Job, NEW fits \in BOOLEAN, NEW to \in Over, NEW cost \in Nat,
           fits => status[j] \in Live /\ held[j] >= cost,
           fits /\ to = "failed" => cost = 0,
           EndJob(j, fits, to, cost)
    PROVE  Conserved'
  <1>0. TypeOK /\ journal = applied
    BY DEF IInv, CreditHasEvidence
  <1>1. UNCHANGED <<held, requester, spent>>
    BY DEF EndJob
  <1>2. Deposited' = Deposited
    <2>1. journal' = journal \cup {j} \/ journal' = journal
      BY DEF EndJob, Journal
    <2>2. journal' \cap Outpoint = journal \cap Outpoint
      BY <2>1
    <2> QED BY <2>2 DEF Deposited
  <1>3. CASE fits
    <2> DEFINE rest == held[j] - cost
    <2>1. /\ status' = [status EXCEPT ![j] = to] /\ status[j] \in Live
          /\ actual' = [actual EXCEPT ![j] = cost]
          /\ stamped' = stamped \cup {j}
          /\ j \notin journal /\ j \notin stamped /\ requester[j] \in Account
          /\ actual'[j] = cost /\ held[j] \in Nat
      BY <1>0, <1>3 DEF EndJob, Transition, IInv, TypeOK, HoldReturned, JobsKnown, Live, Over, OldOver
    <2>2. rest \in Int /\ rest >= 0
      BY <1>3, <2>1
    <2>3. Holding' = Holding \ {j} /\ j \in Holding
      BY <1>0, <2>1 DEF TypeOK, Holding, Live, Over
    <2>4. Balances' = Balances + rest
      <3>1. CASE rest > 0
        <4>1. j \in stamped' /\ held[j] > actual'[j]
          BY <2>1, <3>1
        <4>2. journal' = journal \cup {j} /\ creditTo' = [creditTo EXCEPT ![j] = requester[j]]
              /\ creditSats' = [creditSats EXCEPT ![j] = rest]
          BY <2>1, <4>1 DEF EndJob, Journal
        <4>3. creditTo'[j] = requester[j] /\ creditSats'[j] = rest
          BY <1>0, <4>2 DEF TypeOK, CreditRef
        <4>4. balance' = [balance EXCEPT ![requester[j]] = @ + rest]
          BY <1>0, <2>1, <4>2, <4>3 DEF EndJob, Apply
        <4>5. /\ balance'[requester[j]] = balance[requester[j]] + rest
              /\ \A a \in Account \ {requester[j]} : balance'[a] = balance[a]
          BY <1>0, <2>1, <4>4 DEF TypeOK
        <4> HIDE DEF rest
        <4> QED BY <1>0, <2>1, <2>2, <4>5, BalancesMove
      <3>2. CASE rest = 0
        <4>1. ~(held[j] > actual'[j])
          BY <2>1, <3>2
        <4>2. journal' = journal /\ balance' = balance
          BY <1>0, <4>1 DEF EndJob, Journal, Apply
        <4> QED BY <1>0, <3>2, <4>2, SumsTyped DEF Balances
      <3> QED BY <2>2, <3>1, <3>2
    <2>5. OnHold = OnHold' + held[j]
      <3>1. Holding' = Holding \ {j} /\ j \in Holding
        BY <2>3
      <3>2. \A i \in Holding : held[i] \in Int
        BY <1>0 DEF TypeOK, Holding
      <3>3. SumFunctionOnSet(held, Holding) = held[j] + SumFunctionOnSet(held, Holding \ {j})
        BY <1>0, <3>1, <3>2, SumsTyped, SumTake
      <3>4. SumFunctionOnSet(held, Holding \ {j}) \in Int
        <4>1. IsFiniteSet(Holding \ {j})
          BY <1>0, SumsTyped, FS_Subset
        <4> QED BY <3>2, <4>1, SumInt
      <3> QED BY <1>1, <2>1, <3>1, <3>3, <3>4 DEF OnHold
    <2>6. Charged' = Charged + cost
      <3>1. j \notin Settled /\ \A i \in Settled : actual[i] \in Int /\ actual'[i] = actual[i]
        BY <1>0, <2>1 DEF TypeOK, Settled
      <3>2. SumFunctionOnSet(actual', Settled) = SumFunctionOnSet(actual, Settled)
        BY <1>0, <3>1, SumsTyped, SumSame
      <3>3. CASE to = "settled"
        <4>1. Settled' = Settled \cup {j}
          BY <1>0, <2>1, <3>3 DEF TypeOK, Settled
        <4>2. \A i \in Settled \cup {j} : actual'[i] \in Int
          BY <2>1, <3>1
        <4>3. SumFunctionOnSet(actual', Settled \cup {j})
                  = SumFunctionOnSet(actual', Settled) + actual'[j]
          <5>1. IsFiniteSet(Settled) /\ j \notin Settled
            BY <1>0, <3>1, SumsTyped
          <5> QED BY <4>2, <5>1, SumAdd
        <4> QED BY <2>1, <3>2, <4>1, <4>3 DEF Charged
      <3>4. CASE to = "failed"
        <4>1. Settled' = Settled
          BY <1>0, <2>1, <3>4 DEF TypeOK, Settled
        <4>2. cost = 0
          BY <1>3, <3>4
        <4> QED BY <1>0, <3>2, <4>1, <4>2, SumsTyped DEF Charged
      <3> QED BY <3>3, <3>4 DEF Over
    <2>7. /\ Balances \in Int /\ OnHold' \in Int /\ OnHold \in Int /\ Charged \in Int
          /\ Deposited \in Int /\ spent \in Int /\ Inherited \in Int
      <3>1. OnHold' = SumFunctionOnSet(held, Holding \ {j})
        BY <1>1, <2>3 DEF OnHold
      <3>2. IsFiniteSet(Holding \ {j}) /\ \A i \in Holding : held[i] \in Int
        BY <1>0, SumsTyped, FS_Subset DEF TypeOK
      <3> QED BY <1>0, <3>1, <3>2, SumsTyped, SumInt
    <2>8. Balances' + OnHold' + Charged' + spent' = Balances + OnHold + Charged + spent
      <3> HIDE DEF rest
      <3>1. rest + cost = held[j]
        BY <2>1 DEF rest
      <3> QED BY <1>1, <2>1, <2>2, <2>4, <2>5, <2>6, <2>7, <3>1
    <2> QED BY <1>2, <2>8 DEF Conserved, Inherited
  <1>4. CASE ~fits
    <2>1. UNCHANGED <<status, actual, stamped>>
      BY <1>4 DEF EndJob, Transition
    <2>2. j \in stamped /\ held[j] > actual[j] => j \in journal
      BY <1>0 DEF IInv, JobsKnown, HoldReturned
    <2>4. UNCHANGED <<journal, balance>>
      BY <1>0, <2>1, <2>2 DEF EndJob, Journal, Apply
    <2> QED BY <1>1, <2>1, <2>4, SatsUntouched
  <1> QED BY <1>3, <1>4

\* No step creates or loses a sat.
LEMMA StepConserves == IInv /\ Conserved /\ [Next]_vars => Conserved'
  <1> SUFFICES ASSUME IInv, Conserved, [Next]_vars PROVE Conserved'
    OBVIOUS
  <1>0. TypeOK'
    BY EveryStep DEF IInv
  <1> USE DEF credits, jobs
  <1>1. ASSUME NEW d \in Depositor, NEW k \in Account, NEW o \in Outpoint, BeginDeposit(d, k, o)
        PROVE  Conserved'
    BY <1>1, SatsUntouched DEF BeginDeposit
  <1>2. ASSUME NEW d \in Depositor, LookUp(d) \/ DropDeposit(d) PROVE Conserved'
    BY <1>2, SatsUntouched DEF LookUp, DropDeposit
  <1>3. ASSUME NEW j \in Job, NEW k \in Account, CancelJob(k, j) PROVE Conserved'
    <2> DEFINE fits == status[j] \in Live /\ k \in {requester[j], agent[j]}
    <2>1. EndJob(j, fits, "failed", actual[j])
      BY <1>3 DEF CancelJob
    <2>2. /\ actual[j] \in Nat /\ fits \in BOOLEAN /\ "failed" \in Over
          /\ fits => status[j] \in Live /\ held[j] >= actual[j] /\ actual[j] = 0
      BY DEF IInv, TypeOK, JobsKnown, Over
    <2> HIDE DEF fits
    <2> QED BY <1>0, <2>1, <2>2, EndConserves
  <1>4. ASSUME NEW j \in Job, NEW k \in Account, NEW cost \in Actual, SettleJob(k, j, cost)
        PROVE  Conserved'
    <2> DEFINE fits == status[j] = "running" /\ agent[j] = k /\ held[j] >= cost
    <2>1. EndJob(j, fits, "settled", cost)
      BY <1>4 DEF SettleJob
    <2>2. /\ cost \in Nat /\ fits \in BOOLEAN /\ "settled" \in Over
          /\ fits => status[j] \in Live /\ held[j] >= cost
      BY DEF Live, Over
    <2> HIDE DEF fits
    <2> QED BY <1>0, <2>1, <2>2, EndConserves
  <1>5. ASSUME NEW s \in Sweeper, NEW j \in Job, ExpireJob(s, j) PROVE Conserved'
    <2> DEFINE fits == status[j] \in Live
    <2>1. EndJob(j, fits, "failed", actual[j])
      BY <1>5 DEF ExpireJob
    <2>2. /\ actual[j] \in Nat /\ fits \in BOOLEAN /\ "failed" \in Over
          /\ fits => status[j] \in Live /\ held[j] >= actual[j] /\ actual[j] = 0
      BY DEF IInv, TypeOK, JobsKnown, Over
    <2> HIDE DEF fits
    <2> QED BY <1>0, <2>1, <2>2, EndConserves
  <1>6. ASSUME NEW s \in Sweeper, ListOverdue(s) \/ DropSweep(s) PROVE Conserved'
    BY <1>6, SatsUntouched DEF ListOverdue, DropSweep
  <1>7. ASSUME NEW j \in Job, FallDue(j) PROVE Conserved'
    BY <1>7, SatsUntouched DEF FallDue
  <1>8. CASE UNCHANGED vars
    BY <1>8, SatsUntouched DEF vars
  <1>9. CASE DepositStep
    BY <1>0, <1>1, <1>2, <1>9, DepositConserves DEF DepositStep
  <1>10. CASE JobStep
    BY <1>0, <1>3, <1>4, <1>10, CreateConserves, StartConserves DEF JobStep
  <1>11. CASE SweepStep
    BY <1>5, <1>6, <1>11 DEF SweepStep
  <1>12. ASSUME NEW k \in Account, Pay(k) PROVE Conserved'
    BY <1>0, <1>12, PayConserves DEF IInv
  <1> QED BY <1>7, <1>8, <1>9, <1>10, <1>11, <1>12 DEF Next

\* No sat is made or lost: whatever deposits, reads, jobs and cleanups race,
\* the accounts, the holds and what was charged add up to what came in.
THEOREM SatsAreConserved == Spec => []Conserved
  BY AlwaysIInv, InitConserved, StepConserves, PTL DEF Spec

=============================================================================
