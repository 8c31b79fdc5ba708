----------------------------- MODULE HouseTable -----------------------------
(***************************************************************************)
(* The poker house seat (nostr-bbs-poker-citizen): the table that deals    *)
(* hands and settles them (table.rs), its book of debts (ledger.rs), and   *)
(* the runner that carries out what the table asks for: pays through the   *)
(* producer, saves the book, scans the chain (run.rs).                     *)
(*                                                                         *)
(* Grain: the runner is one task.  It takes a message, a bot turn or a     *)
(* poll only when the effects of the one before are all carried out, so a  *)
(* handler of the table is one action and each effect is a step of its     *)
(* own: the process can be killed between any two, and between a transfer  *)
(* and its reply.  Members, the producer and the clock go on meanwhile.    *)
(*                                                                         *)
(* A hand is a name.  The cards and the betting are left out: a hand in    *)
(* play has a seat to act, each act passes the turn or ends it at some     *)
(* stack.  Messages to members may be lost and are not modelled.           *)
(***************************************************************************)
EXTENDS Integers, FiniteSets, Sequences, FiniteSetsExt

CONSTANTS
    Member,    \* who plays
    House,     \* the house's key
    None,      \* no hand
    Hand,      \* hands ever committed to
    BuyIn,     \* the stack both seats start with
    Cap,       \* what the house pays out per day at most
    Coins,     \* coins of the house the chain ever has, change included
    MaxTurns,  \* bound on bot turns waiting for one hand
    MaxFaults  \* bound on kills, lost replies and failed saves

ASSUME TableAssumption ==
    /\ House \notin Member /\ None \notin Hand
    /\ BuyIn \in Nat \ {0} /\ Cap \in Nat /\ BuyIn <= Cap
    /\ Coins \in Nat /\ MaxTurns \in Nat \ {0} /\ MaxFaults \in Nat

VARIABLES
    live,     \* member -> the hand of its session
    stage,    \* hand -> "free", "asked" (a challenge), "play" or "over"
    seats,    \* hand -> its two players
    turn,     \* hand -> the seat to act
    turns,    \* hand -> bot turns the runner has waiting
    book,     \* the ledger in memory
    disk,     \* the ledger as last saved
    todo,     \* effects the runner has yet to carry out
    post,     \* the request whose reply is awaited, if any
    held,     \* coins of transfers the chain has not shown
    facts,    \* the chain as last scanned
    units,    \* hand -> party -> what members' transfers for the hand paid it
    pool,     \* the house's transfers the producer took and has not mined
    mined,    \* the house's transfers on the chain
    slipped,  \* hands paid while the house did not learn or save it
    faults    \* kills, lost replies and failed saves so far

hands == <<live, stage, seats, turn, turns>>
runner == <<post, held, facts>>
ledgers == <<units, pool, mined>>
ghosts == <<slipped, faults>>
vars == <<hands, book, disk, todo, runner, ledgers, ghosts>>

-----------------------------------------------------------------------------
(* Data.                                                                   *)

Party == Member \cup {House}
Amount == 1 .. BuyIn
Coin == 1 .. Coins
Owed == [hand : Hand, by : Member, to : Party, amount : Amount, claimed : BOOLEAN]
Owing == [hand : Hand, to : Member, amount : Amount]
Ledger == [owed : SUBSET Owed, owing : SUBSET Owing, paid : Nat]
Transfer == [due : Owing, coin : Coin]
Post == [due : Owing, coin : Coin, taken : BOOLEAN, today : BOOLEAN]
Facts == [loaded : BOOLEAN, units : [Hand -> [Party -> Nat]], mined : SUBSET Transfer]
NoUnits == [h \in Hand |-> [p \in Party |-> 0]]
NoFacts == [loaded |-> FALSE, units |-> NoUnits, mined |-> {}]

(* The effects of one handler: a save now, payments, a save at the end.    *)
Todo == [save : BOOLEAN, pays : SUBSET Owing, last : BOOLEAN]
Nothing == [save |-> FALSE, pays |-> {}, last |-> FALSE]
Save == [Nothing EXCEPT !.save = TRUE]

EmptyBook == [owed |-> {}, owing |-> {}, paid |-> 0]
CapLeft == Cap - book.paid
Total(S) == SumFunctionOnSet([o \in Owing |-> o.amount], S)

(* A debt bars a member unless a report of its payment is still in grace.  *)
Debtor(m) == \E d \in book.owed : d.by = m /\ ~d.claimed

Taken == pool \cup mined
Spent(coin) == \E t \in Taken : t.coin = coin

\* Mutated form: whoever the transfer pays.
ShowsToAnyone(f, d) == \E p \in Party : f.units[d.hand][p] >= d.amount

Shows(f, d) == f.units[d.hand][d.to] >= d.amount

-----------------------------------------------------------------------------
(* The table.  Each handler runs when the effects before it are done.      *)

Idle == todo = Nothing /\ post = {}
InHand(m) == live[m] # None
Plays(h, m) == \E i \in 1 .. 2 : seats[h][i] = m
HouseHand(h) == seats[h][2] = House
HouseToAct(h) == stage[h] = "play" /\ HouseHand(h) /\ turn[h] = 2

\* Mutated form: the house's turn is queued only after a move, not at the deal.
BotTurnNot(h, s, i) == [turns EXCEPT ![h] = 0]

BotTurn(h, s, i) == [turns EXCEPT ![h] = IF s[2] = House /\ i = 2 THEN 1 ELSE 0]

(* A commitment that was never used, and one that is over.                 *)
Fresh(h) == stage[h] = "free" /\ h = CHOOSE g \in Hand : stage[g] = "free"
NoSeats == <<House, House>>
Forget(h) == seats' = [seats EXCEPT ![h] = NoSeats] /\ turn' = [turn EXCEPT ![h] = 1]

(* deal, whichever seat the button puts first.                             *)
Deal(h, s, i) ==
    /\ stage' = [stage EXCEPT ![h] = "play"]
    /\ seats' = [seats EXCEPT ![h] = s]
    /\ turn' = [turn EXCEPT ![h] = i]
    /\ turns' = BotTurn(h, s, i)
    /\ live' = [m \in Member |-> IF m \in {s[1], s[2]} THEN h ELSE live[m]]

(* Hello in a hand: a member who reloads sees it again, and the house's    *)
(* turn is queued again.                                                   *)
Hello(m) ==
    /\ Idle /\ InHand(m)
    /\ HouseToAct(live[m]) /\ turns[live[m]] < MaxTurns
    /\ turns' = [turns EXCEPT ![live[m]] = @ + 1]
    /\ UNCHANGED <<live, stage, seats, turn, book, disk, todo, runner, ledgers, ghosts>>

(* Sit with an offer, which any member out of a hand may ask for.  Buy-in  *)
(* and house funds are balances on the chain and may always be short.      *)
Sit(m) ==
    /\ Idle /\ ~InHand(m)
    /\ ~Debtor(m) /\ CapLeft >= BuyIn
    /\ \E h \in Hand, i \in 1 .. 2 : Fresh(h) /\ Deal(h, <<m, House>>, i)
    /\ UNCHANGED <<book, disk, todo, runner, ledgers, ghosts>>

(* Challenge a member seen lately, which any member may be.                *)
Challenge(m, o) ==
    /\ Idle
    /\ m # o /\ ~InHand(m) /\ ~InHand(o) /\ ~Debtor(m)
    /\ \A h \in Hand : stage[h] = "asked" => seats[h][1] # m
    /\ \E h \in Hand :
          /\ Fresh(h)
          /\ stage' = [stage EXCEPT ![h] = "asked"]
          /\ seats' = [seats EXCEPT ![h] = <<m, o>>]
    /\ UNCHANGED <<live, turn, turns, book, disk, todo, runner, ledgers, ghosts>>

\* Mutated form: only the one who accepts is asked whether it is in a hand.
FreeToPlayOne(h) == ~InHand(seats[h][2])

FreeToPlay(h) == ~InHand(seats[h][1]) /\ ~InHand(seats[h][2])

Accept(h) ==
    /\ Idle
    /\ stage[h] = "asked" /\ FreeToPlay(h) /\ ~Debtor(seats[h][2])
    /\ \E i \in 1 .. 2 : Deal(h, seats[h], i)
    /\ UNCHANGED <<book, disk, todo, runner, ledgers, ghosts>>

(* Declined by the opponent, or lapsed (found by tick or by accept).       *)
EndChallenge(h) ==
    /\ Idle
    /\ stage[h] = "asked"
    /\ stage' = [stage EXCEPT ![h] = "over"]
    /\ Forget(h)
    /\ UNCHANGED <<live, turns, book, disk, todo, runner, ledgers, ghosts>>

(* settle: the hand is forgotten and the loser's debt entered.  What the   *)
(* house lost is paid at once if today's cap allows, before the save.      *)
Close(h) ==
    /\ stage' = [stage EXCEPT ![h] = "over"]
    /\ live' = [m \in Member |-> IF live[m] = h THEN None ELSE live[m]]
    /\ Forget(h)

Debt(h, i, n) ==
    [hand |-> h, by |-> seats[h][i], to |-> seats[h][3 - i], amount |-> n, claimed |-> FALSE]
Win(h, n) == [hand |-> h, to |-> seats[h][1], amount |-> n]

Lose(h, i, n) ==
    /\ Close(h)
    /\ IF HouseHand(h) /\ i = 2
       THEN /\ book' = [book EXCEPT !.owing = @ \cup {Win(h, n)}]
            /\ todo' = IF CapLeft >= n
                       THEN [save |-> FALSE, pays |-> {Win(h, n)}, last |-> TRUE] ELSE Save
       ELSE /\ book' = [book EXCEPT !.owed = @ \cup {Debt(h, i, n)}]
            /\ todo' = Save

SplitPot(h) == Close(h) /\ todo' = Save /\ UNCHANGED book

(* act and after_change: the turn passes, or the hand ends.                *)
Move(h, left) ==
    \/ /\ \E i \in 1 .. 2 :
             /\ turn' = [turn EXCEPT ![h] = i]
             /\ turns' = IF HouseHand(h) /\ i = 2 THEN [left EXCEPT ![h] = @ + 1] ELSE left
       /\ UNCHANGED <<live, stage, seats, book, todo>>
    \/ /\ \/ \E i \in 1 .. 2, n \in Amount : Lose(h, i, n)
          \/ SplitPot(h)
       /\ turns' = left

Act(m, h) ==
    /\ Idle
    /\ stage[h] = "play" /\ seats[h][turn[h]] = m /\ turns[h] < MaxTurns
    /\ Move(h, turns)
    /\ UNCHANGED <<disk, runner, ledgers, ghosts>>

(* The next bot turn: nothing when it is not the house's turn any more.    *)
(* That no actions are allowed, or that the engine refuses one, is not     *)
(* modelled: a house to act has a move, and bots::decide picks an allowed  *)
(* one with its amount clamped to what the engine takes.                   *)
TurnUsed(h) == [turns EXCEPT ![h] = @ - 1]

BotActs(h) ==
    /\ Idle
    /\ turns[h] > 0
    /\ IF HouseToAct(h)
       THEN Move(h, TurnUsed(h))
       ELSE turns' = TurnUsed(h) /\ UNCHANGED <<live, stage, seats, turn, book, todo>>
    /\ UNCHANGED <<disk, runner, ledgers, ghosts>>

(* Leave on one's own turn folds the hand; else the hand waits.            *)
Leave(m, h) ==
    /\ Idle
    /\ stage[h] = "play" /\ seats[h][turn[h]] = m
    /\ \E n \in Amount : Lose(h, turn[h], n)
    /\ UNCHANGED <<turns, disk, runner, ledgers, ghosts>>

(* Paid: the member reports a transfer for a debt of its own.              *)
Claim(m, d) ==
    /\ Idle
    /\ d \in book.owed /\ d.by = m
    /\ book' = [book EXCEPT !.owed = (@ \ {d}) \cup {[d EXCEPT !.claimed = TRUE]}]
    /\ todo' = Save
    /\ UNCHANGED <<hands, disk, runner, ledgers, ghosts>>

-----------------------------------------------------------------------------
(* The runner.                                                             *)

Fault == faults < MaxFaults /\ faults' = faults + 1

(* persist: a failed save is logged and forgotten.                         *)
SaveDue == todo.save \/ (todo.last /\ todo.pays = {})

Persist ==
    /\ SaveDue
    /\ todo' = IF todo.save THEN [todo EXCEPT !.save = FALSE] ELSE Nothing
    /\ \/ disk' = book /\ UNCHANGED faults
       \/ Fault /\ UNCHANGED disk
    /\ UNCHANGED <<hands, book, runner, ledgers, slipped>>

(* The coin the transfer builder takes: the first that the last scan does  *)
(* not show spent and that no transfer of ours holds.                      *)
Free == {c \in Coin : c \notin held /\ \A t \in facts.mined : t.coin # c}

(* What follows a payment goes ahead of the other effects.                 *)
Paying(o) == ~todo.save /\ post = {} /\ o \in todo.pays
Done(o) == [todo EXCEPT !.save = TRUE, !.pays = @ \ {o}]

(* No scan yet, no coin, or a producer that cannot be reached: it stays    *)
(* owed.                                                                   *)
PayFails(o) ==
    /\ Paying(o)
    /\ todo' = Done(o)
    /\ UNCHANGED <<hands, book, disk, runner, ledgers, ghosts>>

(* pay: the transfer reaches the producer, which takes it if its coin is   *)
(* unspent.                                                                *)
Send(o) ==
    /\ Paying(o)
    /\ facts.loaded
    /\ \E c \in Free :
          /\ \A b \in Free : c <= b
          /\ post' = {[due |-> o, coin |-> c, taken |-> ~Spent(c), today |-> TRUE]}
          /\ pool' = IF Spent(c) THEN pool ELSE pool \cup {[due |-> o, coin |-> c]}
    /\ UNCHANGED <<hands, book, disk, todo, held, facts, units, mined, ghosts>>

\* Mutated form: a paid debt stays in the book.
HousePaidKeeps(o, today) == [book EXCEPT !.paid = IF today THEN @ + o.amount ELSE @]

HousePaid(o, today) ==
    [book EXCEPT !.owing = {w \in @ : w.hand # o.hand},
                 !.paid = IF today THEN @ + o.amount ELSE @]

(* The reply: accepted, or refused.                                        *)
Answer(r) ==
    /\ r \in post
    /\ IF r.taken
       THEN held' = held \cup {r.coin} /\ book' = HousePaid(r.due, r.today)
       ELSE UNCHANGED <<held, book>>
    /\ todo' = Done(r.due)
    /\ post' = {}
    /\ UNCHANGED <<hands, disk, facts, ledgers, ghosts>>

(* The request times out, or its connection breaks, after it was sent.     *)
NoAnswer(r) ==
    /\ r \in post
    /\ Fault
    /\ slipped' = IF r.taken THEN slipped \cup {r.due.hand} ELSE slipped
    /\ todo' = Done(r.due)
    /\ post' = {}
    /\ UNCHANGED <<hands, book, disk, held, facts, ledgers>>

\* Mutated form: every debt is weighed against the whole of what is left.
PayableEach == {S \in SUBSET book.owing : \A o \in S : o.amount <= CapLeft}

(* payable: the debts not tried in the last two minutes, in order, as far  *)
(* as today's cap reaches.  Which are due is left open.                    *)
Payable == {S \in SUBSET book.owing : Total(S) <= CapLeft}

(* refresh_chain: the last scan, or a new one that lets go of the coins it *)
(* shows spent and of those among the others that were held too long.      *)
Scanned == [loaded |-> TRUE, units |-> units, mined |-> mined]
StillHeld == {c \in held : \A t \in mined : t.coin # c}

Cleared(f) == {d \in book.owed : Shows(f, d)}

(* A poll: scan, clear what members paid, pay what the house owes.         *)
Poll(S) ==
    /\ Idle
    /\ S \in Payable
    /\ \/ UNCHANGED <<facts, held>>
       \/ facts' = Scanned /\ held' \in SUBSET StillHeld
    /\ book' = [book EXCEPT !.owed = @ \ Cleared(facts')]
    /\ todo' = [save |-> Cleared(facts') # {}, pays |-> S, last |-> FALSE]
    /\ UNCHANGED <<hands, disk, post, ledgers, ghosts>>

-----------------------------------------------------------------------------
(* The world.                                                              *)

(* The producer mines one of the house's transfers.                        *)
Mine(t) ==
    /\ t \in pool
    /\ pool' = pool \ {t}
    /\ mined' = mined \cup {t}
    /\ UNCHANGED <<hands, book, disk, todo, runner, units, ghosts>>

(* A member's transfer for a hand somebody owes for is mined: to anyone,   *)
(* of any amount, all of them together no more than the buy-in.            *)
MemberPays(h, p, n) ==
    /\ \E d \in book.owed \cup disk.owed : d.hand = h
    /\ n + MapThenSumSet(LAMBDA q : units[h][q], Party) <= BuyIn
    /\ units' = [units EXCEPT ![h][p] = @ + n]
    /\ UNCHANGED <<hands, book, disk, todo, runner, pool, mined, ghosts>>

(* The clock: a claim outlives its grace, a day ends.                      *)
Aged(L, d) ==
    [L EXCEPT !.owed = {IF e.hand = d.hand THEN [e EXCEPT !.claimed = FALSE] ELSE e : e \in @}]

ClaimAges(d) ==
    /\ d \in book.owed /\ d.claimed
    /\ book' = Aged(book, d)
    /\ disk' = Aged(disk, d)
    /\ UNCHANGED <<hands, todo, runner, ledgers, ghosts>>

\* Mutated form: what was paid is never counted afresh.
NewDaySameCount ==
    /\ post' = {[r EXCEPT !.today = FALSE] : r \in post}
    /\ UNCHANGED <<hands, book, disk, todo, held, facts, ledgers, ghosts>>

NewDay ==
    /\ book' = [book EXCEPT !.paid = 0]
    /\ disk' = [disk EXCEPT !.paid = 0]
    /\ post' = {[r EXCEPT !.today = FALSE] : r \in post}
    /\ UNCHANGED <<hands, todo, held, facts, ledgers, ghosts>>

(* The process is killed and started again: hands and challenges are gone, *)
(* the book is what was saved, a first scan may fail.                      *)
Crash ==
    /\ Fault
    /\ slipped' = slipped \cup {o.hand : o \in {w \in disk.owing : \E t \in Taken : t.due.hand = w.hand}}
    /\ book' = disk
    /\ live' = [m \in Member |-> None]
    /\ stage' = [h \in Hand |-> IF stage[h] = "free" THEN "free" ELSE "over"]
    /\ turns' = [h \in Hand |-> 0]
    /\ todo' = Nothing /\ post' = {} /\ held' = {}
    /\ facts' \in {NoFacts, Scanned}
    /\ seats' = [h \in Hand |-> NoSeats] /\ turn' = [h \in Hand |-> 1]
    /\ UNCHANGED <<disk, ledgers>>

-----------------------------------------------------------------------------

Init ==
    /\ live = [m \in Member |-> None]
    /\ stage = [h \in Hand |-> "free"]
    /\ seats = [h \in Hand |-> NoSeats]
    /\ turn = [h \in Hand |-> 1]
    /\ turns = [h \in Hand |-> 0]
    /\ book = EmptyBook /\ disk = EmptyBook
    /\ todo = Nothing /\ post = {} /\ held = {}
    /\ units = NoUnits
    /\ pool = {} /\ mined = {}
    /\ facts \in {NoFacts, Scanned}
    /\ slipped = {} /\ faults = 0

Play ==
    \/ \E m \in Member : Hello(m) \/ Sit(m)
    \/ \E m, o \in Member : Challenge(m, o)
    \/ \E h \in Hand : Accept(h) \/ EndChallenge(h) \/ BotActs(h)
    \/ \E m \in Member, h \in Hand : Act(m, h) \/ Leave(m, h)
    \/ \E m \in Member : \E d \in book.owed : Claim(m, d)

Run ==
    \/ Persist \/ Crash
    \/ \E r \in post : Answer(r) \/ NoAnswer(r)
    \/ \E o \in todo.pays : PayFails(o) \/ Send(o)
    \/ \E S \in SUBSET book.owing : Poll(S)

World ==
    \/ \E t \in pool : Mine(t)
    \/ \E h \in Hand, p \in Party, n \in Amount : MemberPays(h, p, n)
    \/ \E d \in book.owed : ClaimAges(d)
    \/ NewDay

Next == Play \/ Run \/ World

(* The runner carries out its effects, every request ends, and the loop    *)
(* polls for ever.  A scan is good again and again, and so is a request to *)
(* the producer, which mines what it took; days pass.                      *)
PollFor(h) ==
    /\ \E S \in SUBSET book.owing : (\E o \in S : o.hand = h) /\ Poll(S)
    /\ facts' = Scanned
SendFor(h) == \E o \in todo.pays : o.hand = h /\ Send(o)
GiveUpFor(h) == \E o \in todo.pays : o.hand = h /\ PayFails(o)

Fairness ==
    /\ WF_vars(Persist) /\ WF_vars(\E r \in post : Answer(r))
    /\ WF_vars(\E t \in pool : Mine(t)) /\ WF_vars(NewDay)
    /\ \A h \in Hand : SF_vars(PollFor(h)) /\ SF_vars(SendFor(h)) /\ WF_vars(GiveUpFor(h))

Spec == Init /\ [][Next]_vars /\ Fairness

-----------------------------------------------------------------------------
(* Properties.                                                             *)

TypeOK ==
    /\ live \in [Member -> Hand \cup {None}]
    /\ stage \in [Hand -> {"free", "asked", "play", "over"}]
    /\ seats \in [Hand -> Party \X Party]
    /\ turn \in [Hand -> 1 .. 2] /\ turns \in [Hand -> 0 .. MaxTurns]
    /\ book \in Ledger /\ disk \in Ledger
    /\ todo \in Todo
    /\ post \subseteq Post
    /\ held \subseteq Coin
    /\ facts \in Facts
    /\ units \in [Hand -> [Party -> Nat]]
    /\ pool \subseteq Transfer /\ mined \subseteq Transfer
    /\ slipped \subseteq Hand /\ faults \in 0 .. MaxFaults

(* No member plays two hands at once, whatever it was asked, asked itself  *)
(* or sat down to before a challenge was taken up (accept, table.rs:737).  *)
OneHandEach ==
    \A m \in Member : \A g, h \in Hand :
        stage[g] = "play" /\ stage[h] = "play" /\ Plays(g, m) /\ Plays(h, m) => g = h

(* While the house is to act, a bot turn waits for it: the opponent of the *)
(* house is never left with a hand nobody moves (after_change, hello).     *)
TurnWaiting == \A h \in Hand : HouseToAct(h) => turns[h] > 0

(* A saved debt leaves the file for one reason only: the chain shows it    *)
(* paid to the one it is owed to, or the producer took the house's own     *)
(* transfer of it.  No kill, failed save or late scan loses one.           *)
SameDebt(d, e) == e.hand = d.hand /\ e.by = d.by /\ e.to = d.to /\ e.amount = d.amount
Stands(L, M) ==
    /\ \A d \in L.owed : (\E e \in M.owed : SameDebt(d, e)) \/ units[d.hand][d.to] >= d.amount
    /\ \A o \in L.owing : o \in M.owing \/ \E t \in Taken : t.due = o

SavedDebtsStand == [][Stands(disk, disk')]_vars

(* The house pays a hand once, unless it was killed, or lost the reply,    *)
(* between the producer's acceptance and the save (pay, house_paid).       *)
PaidOnceUnlessSlipped ==
    \A t, u \in Taken : t.due.hand = u.due.hand /\ t # u => t.due.hand \in slipped

(* What the book says was paid today and what is on its way keep within    *)
(* the cap (cap_left, payable, settle).                                    *)
CapKept == book.paid + Total(todo.pays) <= Cap

(* What the house owes it pays in the end: after a refusal, an unreachable *)
(* producer, a kill, and a cap that was used up for the day.               *)
WinsArePaid ==
    \A h \in Hand : (\E o \in book.owing : o.hand = h) ~> (\A o \in book.owing : o.hand # h)
=============================================================================
