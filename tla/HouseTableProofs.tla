------------------------- MODULE HouseTableProofs --------------------------
(***************************************************************************)
(* The safety of the poker house's table and book, for any members, hands, *)
(* stakes and faults.                                                      *)
(***************************************************************************)
EXTENDS HouseTable, SumProofs

USE TableAssumption

\* Who sits where: a challenge is between members, a hand has a member first.
SeatInv ==
    \A h \in Hand :
        /\ stage[h] \in {"asked", "play"} => seats[h][1] \in Member
        /\ stage[h] = "asked" => seats[h][2] \in Member

\* A member's session names the hand in play it sits in.
LiveInv ==
    \A h \in Hand : \A i \in 1 .. 2 :
        stage[h] = "play" /\ seats[h][i] \in Member => live[seats[h][i]] = h

TableInv == TypeOK /\ SeatInv /\ LiveInv /\ TurnWaiting

-----------------------------------------------------------------------------
\* The helpers keep their types.
LEMMA SeatType == ASSUME TypeOK, NEW h \in Hand, NEW i \in 1 .. 2 PROVE seats[h][i] \in Party
<1>1. i = 1 \/ i = 2
  OBVIOUS
<1>. QED BY <1>1 DEF TypeOK

\* The lists of effects the table hands its runner.
LEMMA TodoType ==
    /\ Nothing \in Todo /\ Save \in Todo
    /\ \A P \in SUBSET Owing, x, y \in BOOLEAN : [save |-> x, pays |-> P, last |-> y] \in Todo
BY DEF Todo, Nothing, Save

\* A book with other debts or another day's total is a book.
LEMMA BookType ==
    ASSUME NEW L \in Ledger
    PROVE  /\ L.owed \subseteq Owed /\ L.owing \subseteq Owing /\ L.paid \in Nat
           /\ \A S \in SUBSET Owed : [L EXCEPT !.owed = S] \in Ledger
           /\ \A S \in SUBSET Owing : [L EXCEPT !.owing = S] \in Ledger
           /\ \A n \in Nat : [L EXCEPT !.paid = n] \in Ledger
           /\ \A S \in SUBSET Owing, n \in Nat : [L EXCEPT !.owing = S, !.paid = n] \in Ledger
BY DEF Ledger

\* The end of a hand leaves a book and a list of effects.
LEMMA LoseType ==
    ASSUME TypeOK, SeatInv, NEW h \in Hand, stage[h] = "play", NEW i \in 1 .. 2, NEW n \in Amount,
           Lose(h, i, n)
    PROVE  book' \in Ledger /\ todo' \in Todo
<1>1. CASE HouseHand(h) /\ i = 2
  <2>1. Win(h, n) \in Owing
    BY DEF Win, Owing, SeatInv, TypeOK
  <2>2. book' = [book EXCEPT !.owing = book.owing \cup {Win(h, n)}]
    BY <1>1 DEF Lose
  <2>3. book' \in Ledger
    BY <2>1, <2>2, BookType, book \in Ledger DEF TypeOK
  <2>4. todo' \in Todo
    BY <1>1, <2>1, TodoType DEF Lose
  <2>. QED BY <2>3, <2>4
<1>2. CASE ~(HouseHand(h) /\ i = 2)
  <2>1. seats[h][i] \in Member
    <3>1. i = 1 \/ i = 2
      OBVIOUS
    <3>. QED BY <1>2, <3>1, SeatType DEF SeatInv, HouseHand, Party
  <2>2. seats[h][3 - i] \in Party
    BY SeatType, 3 - i \in 1 .. 2
  <2>3. Debt(h, i, n) \in Owed
    BY <2>1, <2>2 DEF Debt, Owed
  <2>4. book' = [book EXCEPT !.owed = book.owed \cup {Debt(h, i, n)}] /\ todo' = Save
    BY <1>2 DEF Lose
  <2>5. book' \in Ledger
    BY <2>3, <2>4, BookType, book \in Ledger DEF TypeOK
  <2>. QED BY <2>4, <2>5, TodoType
<1>. QED BY <1>1, <1>2

\* Closing a hand keeps the types of the table.
LEMMA CloseType ==
    ASSUME TypeOK, NEW h \in Hand, Close(h)
    PROVE  /\ live' \in [Member -> Hand \cup {None}]
           /\ stage' \in [Hand -> {"free", "asked", "play", "over"}]
           /\ seats' \in [Hand -> Party \X Party]
           /\ turn' \in [Hand -> 1 .. 2]
BY DEF TypeOK, Close, Forget, NoSeats, Party

\* Dealing a hand keeps the types of the table.
LEMMA DealType ==
    ASSUME TypeOK, NEW h \in Hand, NEW p \in Member, NEW q \in Party, NEW i \in 1 .. 2,
           Deal(h, <<p, q>>, i)
    PROVE  /\ live' \in [Member -> Hand \cup {None}]
           /\ stage' \in [Hand -> {"free", "asked", "play", "over"}]
           /\ seats' \in [Hand -> Party \X Party]
           /\ turn' \in [Hand -> 1 .. 2]
           /\ turns' \in [Hand -> 0 .. MaxTurns]
BY DEF TypeOK, Deal, BotTurn, Party

\* A move keeps the types of the table and of the book.
LEMMA MoveType ==
    ASSUME TypeOK, SeatInv, NEW h \in Hand, stage[h] = "play", NEW left \in [Hand -> 0 .. MaxTurns],
           left[h] < MaxTurns, Move(h, left)
    PROVE  /\ live' \in [Member -> Hand \cup {None}]
           /\ stage' \in [Hand -> {"free", "asked", "play", "over"}]
           /\ seats' \in [Hand -> Party \X Party]
           /\ turn' \in [Hand -> 1 .. 2]
           /\ turns' \in [Hand -> 0 .. MaxTurns]
           /\ book' \in Ledger /\ todo' \in Todo
<1>1. CASE \E i \in 1 .. 2, n \in Amount : Lose(h, i, n) /\ turns' = left
  BY <1>1, LoseType, CloseType DEF Lose
<1>2. CASE SplitPot(h) /\ turns' = left
  BY <1>2, CloseType DEF SplitPot, TypeOK, Todo, Save, Nothing
<1>3. CASE /\ \E i \in 1 .. 2 :
                /\ turn' = [turn EXCEPT ![h] = i]
                /\ turns' = IF HouseHand(h) /\ i = 2 THEN [left EXCEPT ![h] = @ + 1] ELSE left
           /\ UNCHANGED <<live, stage, seats, book, todo>>
  BY <1>3 DEF TypeOK
<1>. QED BY <1>1, <1>2, <1>3 DEF Move

\* Paying a debt leaves a book and a list of effects.
LEMMA PayType ==
    ASSUME TypeOK, NEW o \in Owing
    PROVE  /\ Done(o) \in Todo
           /\ \A today \in BOOLEAN : HousePaid(o, today) \in Ledger
<1>1. Done(o) \in Todo
  BY DEF TypeOK, Done, Todo
<1>2. ASSUME NEW today \in BOOLEAN PROVE HousePaid(o, today) \in Ledger
  <2> DEFINE S == {w \in book.owing : w.hand # o.hand}
  <2> DEFINE n == IF today THEN book.paid + o.amount ELSE book.paid
  <2>1. HousePaid(o, today) = [book EXCEPT !.owing = S, !.paid = n]
    BY DEF HousePaid
  <2>2. book \in Ledger /\ o.amount \in Nat
    BY DEF TypeOK, Owing, Amount
  <2>3. S \in SUBSET Owing
    BY <2>2, BookType
  <2>4. book.paid \in Nat
    BY <2>2, BookType
  <2>5. n \in Nat
    BY <2>2, <2>4
  <2> HIDE DEF S, n
  <2>6. [book EXCEPT !.owing = S, !.paid = n] \in Ledger
    BY <2>2, <2>3, <2>5, BookType
  <2>. QED BY <2>1, <2>6
<1>. QED BY <1>1, <1>2

\* A scan reads facts of the chain.
LEMMA ScanType == TypeOK => Scanned \in Facts
BY DEF TypeOK, Scanned, Facts

-----------------------------------------------------------------------------
\* Every step keeps the types.
LEMMA TypeStep == TypeOK /\ SeatInv /\ [Next]_vars => TypeOK'
<1>. SUFFICES ASSUME TypeOK, SeatInv, [Next]_vars PROVE TypeOK'
  OBVIOUS
<1>. USE DEF runner, ledgers, ghosts
<1>1. ASSUME NEW m \in Member, Hello(m) PROVE TypeOK'
  BY <1>1 DEF TypeOK, Hello, InHand
<1>2. ASSUME NEW m \in Member, Sit(m) PROVE TypeOK'
  <2>. PICK h \in Hand, i \in 1 .. 2 : Deal(h, <<m, House>>, i)
    BY <1>2 DEF Sit
  <2>. QED BY <1>2, DealType, House \in Party DEF TypeOK, Sit, Party
<1>3. ASSUME NEW m \in Member, NEW o \in Member, Challenge(m, o) PROVE TypeOK'
  <2>1. <<m, o>> \in Party \X Party
    BY DEF Party
  <2>. QED BY <1>3, <2>1 DEF TypeOK, Challenge
<1>4. ASSUME NEW h \in Hand, Accept(h) PROVE TypeOK'
  <2>. PICK i \in 1 .. 2 : Deal(h, seats[h], i)
    BY <1>4 DEF Accept
  <2>1. seats[h] = <<seats[h][1], seats[h][2]>> /\ seats[h][1] \in Member /\ seats[h][2] \in Member
    BY <1>4 DEF Accept, SeatInv, TypeOK
  <2>2. Deal(h, <<seats[h][1], seats[h][2]>>, i)
    BY <2>1
  <2>3. seats[h][2] \in Party
    BY <2>1 DEF Party
  <2>. QED BY <1>4, <2>1, <2>2, <2>3, DealType DEF TypeOK, Accept
<1>5. ASSUME NEW h \in Hand, EndChallenge(h) PROVE TypeOK'
  <2>1. NoSeats \in Party \X Party
    BY DEF NoSeats, Party
  <2>. QED BY <1>5, <2>1 DEF TypeOK, EndChallenge, Forget
<1>6. ASSUME NEW h \in Hand, BotActs(h) PROVE TypeOK'
  <2>1. TurnUsed(h) \in [Hand -> 0 .. MaxTurns] /\ TurnUsed(h)[h] < MaxTurns
    BY <1>6 DEF BotActs, TurnUsed, TypeOK
  <2>. QED BY <1>6, <2>1, MoveType DEF TypeOK, BotActs, HouseToAct
<1>7. ASSUME NEW m \in Member, NEW h \in Hand, Act(m, h) PROVE TypeOK'
  <2>1. turns \in [Hand -> 0 .. MaxTurns] /\ turns[h] < MaxTurns
    BY <1>7 DEF Act, TypeOK
  <2>. QED BY <1>7, <2>1, MoveType DEF TypeOK, Act
<1>8. ASSUME NEW m \in Member, NEW h \in Hand, Leave(m, h) PROVE TypeOK'
  <2>1. turn[h] \in 1 .. 2
    BY DEF TypeOK
  <2>. QED BY <1>8, <2>1, LoseType, CloseType DEF TypeOK, Leave, Lose
<1>9. ASSUME NEW m \in Member, NEW d \in book.owed, Claim(m, d) PROVE TypeOK'
  <2>1. book \in Ledger /\ d \in Owed
    BY BookType DEF TypeOK
  <2>2. [d EXCEPT !.claimed = TRUE] \in Owed
    BY <2>1 DEF Owed
  <2>3. book' \in Ledger /\ todo' \in Todo
    BY <1>9, <2>1, <2>2, BookType, TodoType DEF Claim
  <2>. QED BY <1>9, <2>3 DEF TypeOK, Claim, hands
<1>10. ASSUME Persist PROVE TypeOK'
  <2>1. todo' \in Todo
    BY <1>10 DEF TypeOK, Persist, Todo, Nothing
  <2>. QED BY <1>10, <2>1 DEF TypeOK, Persist, Fault, hands
<1>11. ASSUME Crash PROVE TypeOK'
  <2>1. slipped' \subseteq Hand
    BY <1>11 DEF TypeOK, Crash, Ledger, Owing
  <2>2. todo' \in Todo
    BY <1>11, TodoType DEF Crash
  <2>3. NoFacts \in Facts
    BY DEF Facts, NoFacts, NoUnits
  <2>4. facts' \in Facts
    BY <1>11, <2>3, ScanType DEF Crash
  <2>5. NoSeats \in Party \X Party
    BY DEF NoSeats, Party
  <2>. QED BY <1>11, <2>1, <2>2, <2>4, <2>5 DEF TypeOK, Crash, Fault
<1>12. ASSUME NEW r \in post, Answer(r) PROVE TypeOK'
  <2>1. r.due \in Owing /\ r.coin \in Coin /\ r.today \in BOOLEAN
    BY DEF TypeOK, Post
  <2>. QED BY <1>12, <2>1, PayType DEF TypeOK, Answer, hands
<1>13. ASSUME NEW r \in post, NoAnswer(r) PROVE TypeOK'
  <2>1. r.due \in Owing /\ r.due.hand \in Hand
    BY DEF TypeOK, Post, Owing
  <2>. QED BY <1>13, <2>1, PayType DEF TypeOK, NoAnswer, Fault, hands
<1>14. ASSUME NEW o \in todo.pays, PayFails(o) PROVE TypeOK'
  BY <1>14, PayType DEF TypeOK, PayFails, Todo, hands
<1>15. ASSUME NEW o \in todo.pays, Send(o) PROVE TypeOK'
  <2>1. o \in Owing
    BY DEF TypeOK, Todo
  <2>2. PICK c \in Coin : /\ post' = {[due |-> o, coin |-> c, taken |-> ~Spent(c), today |-> TRUE]}
                          /\ pool' = IF Spent(c) THEN pool ELSE pool \cup {[due |-> o, coin |-> c]}
    BY <1>15 DEF Send, Free
  <2>3. post' \subseteq Post /\ pool' \subseteq Transfer
    BY <2>1, <2>2 DEF Post, Transfer, TypeOK, Spent
  <2>. QED BY <1>15, <2>3 DEF TypeOK, Send, hands
<1>16. ASSUME NEW S \in SUBSET book.owing, Poll(S) PROVE TypeOK'
  <2>1. book' \in Ledger /\ todo' \in Todo
    BY <1>16 DEF TypeOK, Poll, Ledger, Todo
  <2>2. facts' \in Facts /\ held' \subseteq Coin
    BY <1>16, ScanType DEF TypeOK, Poll, StillHeld
  <2>. QED BY <1>16, <2>1, <2>2 DEF TypeOK, Poll, hands
<1>17. ASSUME NEW t \in pool, Mine(t) PROVE TypeOK'
  BY <1>17 DEF TypeOK, Mine, hands
<1>18. ASSUME NEW h \in Hand, NEW p \in Party, NEW n \in Amount, MemberPays(h, p, n) PROVE TypeOK'
  BY <1>18 DEF TypeOK, MemberPays, Amount, hands
<1>19. ASSUME NEW d \in book.owed, ClaimAges(d) PROVE TypeOK'
  <2>1. ASSUME NEW L \in Ledger PROVE Aged(L, d) \in Ledger
    <3>1. \A e \in L.owed : e \in Owed /\ [e EXCEPT !.claimed = FALSE] \in Owed
      BY BookType DEF Owed
    <3>. QED BY <3>1, BookType DEF Aged
  <2>. QED BY <1>19, <2>1 DEF TypeOK, ClaimAges, hands
<1>20. ASSUME NewDay PROVE TypeOK'
  <2>1. post' \subseteq Post
    <3>1. \A q \in post : [q EXCEPT !.today = FALSE] \in Post
      <4>1. \A q \in post : q \in Post
        BY DEF TypeOK
      <4>. QED BY <4>1 DEF Post
    <3>. QED BY <1>20, <3>1 DEF NewDay
  <2>2. book' \in Ledger /\ disk' \in Ledger
    BY <1>20 DEF NewDay, TypeOK, Ledger
  <2>. QED BY <1>20, <2>1, <2>2 DEF TypeOK, NewDay, hands
<1>21. CASE UNCHANGED vars
  BY <1>21 DEF TypeOK, vars, hands
<1>. QED BY <1>1, <1>2, <1>3, <1>4, <1>5, <1>6, <1>7, <1>8, <1>9, <1>10, <1>11, <1>12, <1>13, <1>14,
            <1>15, <1>16, <1>17, <1>18, <1>19, <1>20, <1>21 DEF Next, Play, Run, World

-----------------------------------------------------------------------------
\* The table: deals, moves, ends of hands and kills keep who sits where.
HandInv == SeatInv /\ LiveInv /\ TurnWaiting

\* What holds of the hands depends on the hands only.
LEMMA StillHands == HandInv /\ UNCHANGED hands => HandInv'
BY DEF HandInv, SeatInv, LiveInv, TurnWaiting, HouseToAct, HouseHand, hands

\* A deal to members with no live hand keeps one hand per member.
LEMMA DealHands ==
    ASSUME TypeOK, HandInv, NEW h \in Hand, NEW p \in Member, NEW q \in Party, NEW i \in 1 .. 2,
           stage[h] # "play", live[p] = None, q \in Member => live[q] = None,
           Deal(h, <<p, q>>, i)
    PROVE  HandInv'
<1>1. /\ stage' = [stage EXCEPT ![h] = "play"]
      /\ seats' = [seats EXCEPT ![h] = <<p, q>>]
      /\ live' = [m \in Member |-> IF m \in {p, q} THEN h ELSE live[m]]
      /\ turn' = [turn EXCEPT ![h] = i]
      /\ turns' = [turns EXCEPT ![h] = IF q = House /\ i = 2 THEN 1 ELSE 0]
  BY DEF Deal, BotTurn
<1>2. SeatInv'
  BY <1>1 DEF HandInv, SeatInv, TypeOK
<1>3. LiveInv'
  <2>. SUFFICES ASSUME NEW g \in Hand, NEW j \in 1 .. 2, stage'[g] = "play", seats'[g][j] \in Member
                PROVE  live'[seats'[g][j]] = g
    BY DEF LiveInv
  <2>1. CASE g = h
    <3>1. seats'[h] = <<p, q>> /\ (j = 1 \/ j = 2)
      BY <1>1 DEF TypeOK
    <3>. QED BY <1>1, <2>1, <3>1
  <2>2. CASE g # h
    <3>1. stage[g] = "play" /\ seats'[g] = seats[g]
      BY <1>1, <2>2 DEF TypeOK
    <3>2. live[seats[g][j]] = g
      BY <3>1 DEF HandInv, LiveInv
    <3>3. seats[g][j] \notin {p, q}
      BY <3>1, <3>2, g # None
    <3>. QED BY <1>1, <3>1, <3>2, <3>3
  <2>. QED BY <2>1, <2>2
<1>4. TurnWaiting'
  <2>. SUFFICES ASSUME NEW g \in Hand, HouseToAct(g)' PROVE turns'[g] > 0
    BY DEF TurnWaiting
  <2>1. CASE g = h
    BY <1>1, <2>1 DEF HouseToAct, HouseHand, TypeOK
  <2>2. CASE g # h
    BY <1>1, <2>2 DEF HandInv, TurnWaiting, HouseToAct, HouseHand, TypeOK
  <2>. QED BY <2>1, <2>2
<1>. QED BY <1>2, <1>3, <1>4 DEF HandInv

\* The end of a hand keeps it.
LEMMA CloseHands ==
    ASSUME TypeOK, HandInv, NEW h \in Hand, Close(h), turns' \in [Hand -> 0 .. MaxTurns],
           \A g \in Hand \ {h} : turns'[g] = turns[g]
    PROVE  HandInv'
<1>1. /\ stage' = [stage EXCEPT ![h] = "over"]
      /\ seats' = [seats EXCEPT ![h] = NoSeats]
      /\ turn' = [turn EXCEPT ![h] = 1]
      /\ live' = [m \in Member |-> IF live[m] = h THEN None ELSE live[m]]
  BY DEF Close, Forget
<1>2. SeatInv'
  BY <1>1 DEF HandInv, SeatInv, TypeOK
<1>3. LiveInv'
  <2>. SUFFICES ASSUME NEW g \in Hand, NEW j \in 1 .. 2, stage'[g] = "play", seats'[g][j] \in Member
                PROVE  live'[seats'[g][j]] = g
    BY DEF LiveInv
  <2>1. g # h /\ stage[g] = "play" /\ seats'[g] = seats[g]
    BY <1>1 DEF TypeOK
  <2>2. live[seats[g][j]] = g
    BY <2>1 DEF HandInv, LiveInv
  <2>. QED BY <1>1, <2>1, <2>2
<1>4. TurnWaiting'
  <2>. SUFFICES ASSUME NEW g \in Hand, HouseToAct(g)' PROVE turns'[g] > 0
    BY DEF TurnWaiting
  <2>1. g # h /\ HouseToAct(g)
    BY <1>1 DEF HouseToAct, HouseHand, TypeOK
  <2>. QED BY <2>1 DEF HandInv, TurnWaiting
<1>. QED BY <1>2, <1>3, <1>4 DEF HandInv

\* A move keeps it, and queues the turn it leaves to the house.
LEMMA MoveHands ==
    ASSUME TypeOK, HandInv, NEW h \in Hand, stage[h] = "play", NEW left \in [Hand -> 0 .. MaxTurns],
           left[h] < MaxTurns, \A g \in Hand \ {h} : left[g] = turns[g], Move(h, left)
    PROVE  HandInv'
<1>1. CASE \E i \in 1 .. 2, n \in Amount : Lose(h, i, n) /\ turns' = left
  BY <1>1, CloseHands DEF Lose
<1>2. CASE SplitPot(h) /\ turns' = left
  BY <1>2, CloseHands DEF SplitPot
<1>3. CASE /\ \E i \in 1 .. 2 :
                /\ turn' = [turn EXCEPT ![h] = i]
                /\ turns' = IF HouseHand(h) /\ i = 2 THEN [left EXCEPT ![h] = @ + 1] ELSE left
           /\ UNCHANGED <<live, stage, seats, book, todo>>
  <2>. PICK i \in 1 .. 2 :
          /\ turn' = [turn EXCEPT ![h] = i]
          /\ turns' = IF HouseHand(h) /\ i = 2 THEN [left EXCEPT ![h] = @ + 1] ELSE left
    BY <1>3
  <2>1. SeatInv' /\ LiveInv'
    BY <1>3 DEF HandInv, SeatInv, LiveInv
  <2>2. ASSUME NEW g \in Hand, HouseToAct(g)' PROVE turns'[g] > 0
    <3>1. CASE g = h
      BY <1>3, <2>2, <3>1 DEF HouseToAct, HouseHand, TypeOK
    <3>2. CASE g # h
      BY <1>3, <2>2, <3>2 DEF HandInv, TurnWaiting, HouseToAct, HouseHand, TypeOK
    <3>. QED BY <3>1, <3>2
  <2>. QED BY <2>1, <2>2 DEF HandInv, TurnWaiting
<1>. QED BY <1>1, <1>2, <1>3 DEF Move

\* Every step keeps it.
LEMMA HandStep == TypeOK /\ HandInv /\ [Next]_vars => HandInv'
<1>. SUFFICES ASSUME TypeOK, HandInv, [Next]_vars PROVE HandInv'
  OBVIOUS
<1>1. CASE UNCHANGED hands
  BY <1>1, StillHands
<1>2. ASSUME NEW m \in Member, Hello(m) PROVE HandInv'
  <2>1. live[m] \in Hand /\ turns' = [turns EXCEPT ![live[m]] = @ + 1]
    BY <1>2 DEF Hello, InHand, TypeOK
  <2>2. \A g \in Hand : turns[g] > 0 => turns'[g] > 0
    BY <2>1 DEF TypeOK
  <2>. QED BY <1>2, <2>2 DEF Hello, HandInv, SeatInv, LiveInv, TurnWaiting, HouseToAct, HouseHand
<1>3. ASSUME NEW m \in Member, Sit(m) PROVE HandInv'
  <2>1. live[m] = None /\ House \in Party /\ House \notin Member
    BY <1>3 DEF Sit, InHand, Party
  <2>2. PICK h \in Hand, i \in 1 .. 2 : Fresh(h) /\ Deal(h, <<m, House>>, i)
    BY <1>3 DEF Sit
  <2>3. stage[h] # "play"
    BY <2>2 DEF Fresh
  <2>. QED BY <2>1, <2>2, <2>3, DealHands
<1>4. ASSUME NEW m \in Member, NEW o \in Member, Challenge(m, o) PROVE HandInv'
  <2>1. PICK h \in Hand : /\ Fresh(h)
                          /\ stage' = [stage EXCEPT ![h] = "asked"]
                          /\ seats' = [seats EXCEPT ![h] = <<m, o>>]
    BY <1>4 DEF Challenge
  <2>2. stage[h] # "play" /\ UNCHANGED <<live, turn, turns>>
    BY <1>4, <2>1 DEF Fresh, Challenge
  <2>3. \A g \in Hand : stage'[g] = "play" => stage[g] = "play" /\ seats'[g] = seats[g]
    BY <2>1, <2>2 DEF TypeOK
  <2>4. SeatInv'
    BY <2>1, <2>2 DEF HandInv, SeatInv, TypeOK
  <2>. QED BY <2>2, <2>3, <2>4 DEF HandInv, LiveInv, TurnWaiting, HouseToAct, HouseHand
<1>5. ASSUME NEW h \in Hand, Accept(h) PROVE HandInv'
  <2>1. PICK i \in 1 .. 2 : Deal(h, seats[h], i)
    BY <1>5 DEF Accept
  <2>2. /\ seats[h] = <<seats[h][1], seats[h][2]>>
        /\ seats[h][1] \in Member /\ seats[h][2] \in Member
        /\ live[seats[h][1]] = None /\ live[seats[h][2]] = None
        /\ stage[h] # "play"
    BY <1>5 DEF Accept, HandInv, SeatInv, TypeOK, FreeToPlay, InHand
  <2>3. Deal(h, <<seats[h][1], seats[h][2]>>, i)
    BY <2>1, <2>2
  <2>. QED BY <2>2, <2>3, DealHands DEF Party
<1>6. ASSUME NEW h \in Hand, EndChallenge(h) PROVE HandInv'
  <2>1. /\ stage' = [stage EXCEPT ![h] = "over"]
        /\ seats' = [seats EXCEPT ![h] = NoSeats] /\ turn' = [turn EXCEPT ![h] = 1]
        /\ UNCHANGED <<live, turns>>
    BY <1>6 DEF EndChallenge, Forget
  <2>2. \A g \in Hand : stage'[g] \in {"asked", "play"} =>
           stage'[g] = stage[g] /\ seats'[g] = seats[g] /\ turn'[g] = turn[g]
    BY <2>1 DEF TypeOK
  <2>. QED BY <2>1, <2>2 DEF HandInv, SeatInv, LiveInv, TurnWaiting, HouseToAct, HouseHand
<1>7. ASSUME NEW h \in Hand, BotActs(h) PROVE HandInv'
  <2>1. /\ TurnUsed(h) \in [Hand -> 0 .. MaxTurns] /\ TurnUsed(h)[h] < MaxTurns
        /\ \A g \in Hand \ {h} : TurnUsed(h)[g] = turns[g]
    BY <1>7 DEF BotActs, TurnUsed, TypeOK
  <2>2. CASE HouseToAct(h)
    BY <1>7, <2>1, <2>2, MoveHands DEF BotActs, HouseToAct
  <2>3. CASE ~HouseToAct(h)
    BY <1>7, <2>1, <2>3 DEF BotActs, HandInv, SeatInv, LiveInv, TurnWaiting, HouseToAct, HouseHand
  <2>. QED BY <2>2, <2>3
<1>8. ASSUME NEW m \in Member, NEW h \in Hand, Act(m, h) PROVE HandInv'
  <2>1. turns \in [Hand -> 0 .. MaxTurns] /\ turns[h] < MaxTurns
    BY <1>8 DEF Act, TypeOK
  <2>. QED BY <1>8, <2>1, MoveHands DEF Act
<1>9. ASSUME NEW m \in Member, NEW h \in Hand, Leave(m, h) PROVE HandInv'
  BY <1>9, CloseHands DEF Leave, Lose, TypeOK
<1>10. ASSUME Crash PROVE HandInv'
  <2>1. \A g \in Hand : stage'[g] \notin {"asked", "play"}
    BY <1>10 DEF Crash
  <2>. QED BY <2>1 DEF HandInv, SeatInv, LiveInv, TurnWaiting, HouseToAct
<1>11. CASE World
  BY <1>1, <1>11 DEF World, Mine, MemberPays, ClaimAges, NewDay
<1>12. CASE Run
  BY <1>1, <1>10, <1>12 DEF Run, Persist, Answer, NoAnswer, PayFails, Send, Poll
<1>13. CASE Play
  BY <1>1, <1>2, <1>3, <1>4, <1>5, <1>6, <1>7, <1>8, <1>9, <1>13 DEF Play, Claim
<1>. QED BY <1>1, <1>11, <1>12, <1>13 DEF Next, vars

-----------------------------------------------------------------------------
\* What the house owes: one debt a hand, for a hand that is over; what it is
\* about to pay is owed, and one request at most is under way.
OwingInv ==
    /\ \A w \in book.owing \cup disk.owing : stage[w.hand] = "over"
    /\ \A v, w \in book.owing \cup disk.owing : v.hand = w.hand => v = w
    /\ todo.pays \subseteq book.owing
    /\ \A r \in post : r.due \in todo.pays /\ \A q \in post : q = r

\* A transfer the producer took was for a hand that is over, and unless the
\* house slipped that hand is not owed for any more, or its reply is awaited.
TakenInv ==
    /\ \A t \in Taken : stage[t.due.hand] = "over"
    /\ \A t \in Taken :
          \/ t.due.hand \in slipped
          \/ \A w \in book.owing : w.hand = t.due.hand => \E r \in post : r.taken /\ r.due = w
    /\ \A r \in post : r.taken => \E t \in Taken : t.due = r.due
    /\ PaidOnceUnlessSlipped

\* The scan is behind the chain, and the file behind the book.
StandInv ==
    /\ \A h \in Hand, p \in Party : facts.units[h][p] <= units[h][p]
    /\ Stands(disk, book)

BookInv == OwingInv /\ TakenInv /\ StandInv

\* The wins in the books are finitely many, so what is about to be paid has a
\* total, which fits into the cap with what was paid; so does the saved book.
CapInv ==
    /\ IsFiniteSet(book.owing) /\ IsFiniteSet(disk.owing)
    /\ disk.paid <= Cap
    /\ CapKept

IInv == TypeOK /\ HandInv /\ BookInv /\ CapInv

\* Hands that are over stay over.
LEMMA OverStays == TypeOK /\ [Next]_vars => \A h \in Hand : stage[h] = "over" => stage'[h] = "over"
<1>. SUFFICES ASSUME TypeOK, [Next]_vars, NEW h \in Hand, stage[h] = "over" PROVE stage'[h] = "over"
  OBVIOUS
<1>. USE DEF hands
<1>1. ASSUME NEW g \in Hand, Close(g) PROVE stage'[h] = "over"
  BY <1>1 DEF Close, TypeOK
<1>2. ASSUME NEW g \in Hand, NEW q, NEW i, stage[g] # "over", Deal(g, q, i) PROVE stage'[h] = "over"
  BY <1>2 DEF Deal, TypeOK
<1>3. ASSUME NEW g \in Hand, NEW left, Move(g, left) PROVE stage'[h] = "over"
  BY <1>1, <1>3 DEF Move, Lose, SplitPot
<1>4. CASE Play
  BY <1>1, <1>2, <1>3, <1>4 DEF Play, Hello, Sit, Fresh, Challenge, Accept, EndChallenge, BotActs, Act,
     Leave, Lose, Claim, TypeOK
<1>5. CASE Run
  BY <1>5 DEF Run, Persist, Crash, Answer, NoAnswer, PayFails, Send, Poll
<1>6. CASE World
  BY <1>6 DEF World, Mine, MemberPays, ClaimAges, NewDay
<1>. QED BY <1>4, <1>5, <1>6 DEF Next, vars

-----------------------------------------------------------------------------
\* The book: each step that touches the debts, the effects or the transfers.
Books == <<book, disk, todo, post, facts, ledgers, slipped>>

\* Debts, claims, transfers and requests name hands and parties of the house.
LEMMA HandOf ==
    ASSUME TypeOK
    PROVE  /\ \A w \in book.owing \cup disk.owing : w \in Owing /\ w.hand \in Hand
           /\ \A d \in book.owed \cup disk.owed : d \in Owed /\ d.hand \in Hand /\ d.to \in Party
           /\ \A t \in Taken : t.due.hand \in Hand
           /\ \A r \in post : r.due \in Owing /\ r.due.hand \in Hand
           /\ todo.pays \subseteq Owing
<1>1. /\ book.owing \subseteq Owing /\ disk.owing \subseteq Owing
      /\ book.owed \subseteq Owed /\ disk.owed \subseteq Owed
  BY DEF TypeOK, Ledger
<1>2. Taken \subseteq Transfer /\ post \subseteq Post /\ todo \in Todo
  BY DEF TypeOK, Taken
<1>3. todo.pays \subseteq Owing
  BY <1>2 DEF Todo
<1>. QED BY <1>1, <1>2, <1>3 DEF Owing, Owed, Transfer, Post

\* A book stands as well as itself.
LEMMA StandsSelf == ASSUME NEW L PROVE Stands(L, L)
BY DEF Stands, SameDebt

\* What holds of the book depends on the book and on hands that are over.
LEMMA StillBook ==
    ASSUME TypeOK, BookInv, UNCHANGED Books,
           \A h \in Hand : stage[h] = "over" => stage'[h] = "over"
    PROVE  BookInv'
<1>1. UNCHANGED <<book, disk, todo, post, facts, units, pool, mined, slipped, Taken>>
  BY DEF Books, ledgers, Taken
<1>2. OwingInv'
  BY <1>1, HandOf DEF BookInv, OwingInv
<1>3. TakenInv'
  BY <1>1, HandOf DEF BookInv, TakenInv, PaidOnceUnlessSlipped
<1>4. StandInv'
  BY <1>1 DEF BookInv, StandInv, Stands
<1>. QED BY <1>2, <1>3, <1>4 DEF BookInv

\* A hand ends: a debt for a hand nobody was owed for.
LEMMA LoseBook ==
    ASSUME TypeOK, BookInv, Idle, NEW h \in Hand, stage[h] = "play", NEW i \in 1 .. 2, NEW n \in Amount,
           Lose(h, i, n), UNCHANGED <<disk, runner, ledgers, ghosts>>
    PROVE  BookInv'
<1>1. /\ stage' = [stage EXCEPT ![h] = "over"] /\ post = {} /\ post' = {}
      /\ UNCHANGED <<disk, facts, units, pool, mined, slipped, Taken>>
  BY DEF Lose, Close, runner, ledgers, ghosts, Taken, Idle
<1>2. /\ book.owed \subseteq book'.owed /\ book.owing \subseteq book'.owing
      /\ book'.owing \subseteq book.owing \cup {Win(h, n)}
      /\ todo'.pays \subseteq book'.owing
  <2>1. book \in Ledger /\ Save.pays = {}
    BY DEF TypeOK, Save, Nothing
  <2>2. CASE HouseHand(h) /\ i = 2
    <3>1. /\ book'.owing = book.owing \cup {Win(h, n)} /\ book'.owed = book.owed
          /\ todo'.pays \in {{}, {Win(h, n)}}
      BY <2>1, <2>2 DEF Lose, Ledger
    <3>. QED BY <3>1
  <2>3. CASE ~(HouseHand(h) /\ i = 2)
    BY <2>1, <2>3 DEF Lose, Ledger
  <2>. QED BY <2>2, <2>3
<1>3. \A w \in book.owing \cup disk.owing : w.hand # h
  BY DEF BookInv, OwingInv
<1>4. Win(h, n).hand = h
  BY DEF Win
<1>5. OwingInv'
  BY <1>1, <1>2, <1>3, <1>4, HandOf DEF BookInv, OwingInv, TypeOK
<1>6. \A t \in Taken : t.due.hand # h /\ stage'[t.due.hand] = "over"
  BY <1>1, HandOf DEF BookInv, TakenInv, TypeOK
<1>7. TakenInv'
  BY <1>1, <1>2, <1>4, <1>6 DEF BookInv, TakenInv, PaidOnceUnlessSlipped
<1>8. StandInv'
  BY <1>1, <1>2 DEF BookInv, StandInv, Stands
<1>. QED BY <1>5, <1>7, <1>8 DEF BookInv

\* A split pot keeps the invariant of the book.
LEMMA SplitBook ==
    ASSUME TypeOK, BookInv, Idle, NEW h \in Hand, SplitPot(h), UNCHANGED <<disk, runner, ledgers, ghosts>>
    PROVE  BookInv'
<1>1. /\ stage' = [stage EXCEPT ![h] = "over"] /\ post = {} /\ post' = {} /\ todo'.pays = {}
      /\ UNCHANGED <<book, disk, facts, units, pool, mined, slipped, Taken>>
  BY DEF SplitPot, Close, runner, ledgers, ghosts, Taken, Idle, Save, Nothing
<1>2. \A g \in Hand : stage[g] = "over" => stage'[g] = "over"
  BY <1>1 DEF TypeOK
<1>3. OwingInv'
  BY <1>1, <1>2, HandOf DEF BookInv, OwingInv
<1>4. TakenInv'
  BY <1>1, <1>2, HandOf DEF BookInv, TakenInv, PaidOnceUnlessSlipped
<1>5. StandInv'
  BY <1>1 DEF BookInv, StandInv, Stands
<1>. QED BY <1>3, <1>4, <1>5 DEF BookInv

\* So does a move, with the debt it may end in.
LEMMA MoveBook ==
    ASSUME TypeOK, BookInv, Idle, NEW h \in Hand, stage[h] = "play", NEW left, Move(h, left),
           UNCHANGED <<disk, runner, ledgers, ghosts>>,
           \A g \in Hand : stage[g] = "over" => stage'[g] = "over"
    PROVE  BookInv'
<1>1. CASE \E i \in 1 .. 2, n \in Amount : Lose(h, i, n)
  BY <1>1, LoseBook
<1>2. CASE SplitPot(h)
  BY <1>2, SplitBook
<1>3. CASE UNCHANGED <<book, todo>>
  BY <1>3, StillBook DEF Books, runner, ledgers, ghosts
<1>. QED BY <1>1, <1>2, <1>3 DEF Move

\* Saves, kills and the clock.
LEMMA SaveBook == TypeOK /\ BookInv /\ Persist => BookInv'
<1>. SUFFICES ASSUME TypeOK, BookInv, Persist PROVE BookInv'
  OBVIOUS
<1>1. /\ UNCHANGED <<stage, book, post, facts, units, pool, mined, slipped, Taken>>
      /\ disk' \in {disk, book} /\ todo'.pays \subseteq todo.pays
      /\ \A o \in todo.pays : o \in todo'.pays
  <2>1. CASE todo.save
    BY <2>1 DEF Persist, hands, runner, ledgers, Taken, TypeOK, Todo
  <2>2. CASE ~todo.save
    BY <2>2 DEF Persist, SaveDue, Nothing, hands, runner, ledgers, Taken
  <2>. QED BY <2>1, <2>2
<1>2. OwingInv'
  BY <1>1 DEF BookInv, OwingInv
<1>3. TakenInv'
  BY <1>1 DEF BookInv, TakenInv, PaidOnceUnlessSlipped
<1>4. StandInv'
  BY <1>1 DEF BookInv, StandInv, Stands, SameDebt
<1>. QED BY <1>2, <1>3, <1>4 DEF BookInv

\* So does a crash, which falls back to the file.
LEMMA CrashBook ==
    ASSUME TypeOK, BookInv, Crash, \A h \in Hand : stage[h] = "over" => stage'[h] = "over"
    PROVE  BookInv'
<1>1. /\ UNCHANGED <<disk, units, pool, mined, Taken>>
      /\ book' = disk /\ post' = {} /\ todo'.pays = {} /\ facts' \in {NoFacts, Scanned}
      /\ slipped' = slipped \cup
             {o.hand : o \in {w \in disk.owing : \E t \in Taken : t.due.hand = w.hand}}
  BY DEF Crash, ledgers, Taken, Nothing
<1>2. OwingInv'
  BY <1>1, HandOf DEF BookInv, OwingInv
<1>3. TakenInv'
  <2>1. \A t \in Taken : stage'[t.due.hand] = "over"
    BY HandOf DEF BookInv, TakenInv
  <2>2. ASSUME NEW t \in Taken, NEW w \in disk.owing, w.hand = t.due.hand PROVE t.due.hand \in slipped'
    BY <1>1, <2>2
  <2>3. PaidOnceUnlessSlipped'
    BY <1>1 DEF BookInv, TakenInv, PaidOnceUnlessSlipped
  <2>. QED BY <1>1, <2>1, <2>2, <2>3 DEF TakenInv
<1>4. StandInv'
  <2>1. \A h \in Hand, p \in Party : facts'.units[h][p] <= units[h][p]
    BY <1>1 DEF NoFacts, NoUnits, Scanned, TypeOK
  <2>2. Stands(disk, book)'
    BY <1>1 DEF Stands, SameDebt
  <2>. QED BY <1>1, <2>1, <2>2 DEF StandInv
<1>. QED BY <1>2, <1>3, <1>4 DEF BookInv

\* So do a new day and the age of a claim.
LEMMA ClockBook ==
    ASSUME TypeOK, BookInv, NewDay \/ \E d \in book.owed : ClaimAges(d)
    PROVE  BookInv'
<1>1. /\ UNCHANGED <<stage, todo, facts, units, pool, mined, slipped, Taken>>
      /\ book'.owing = book.owing /\ disk'.owing = disk.owing
  <2>1. book \in Ledger /\ disk \in Ledger
    BY DEF TypeOK
  <2>. QED BY <2>1 DEF NewDay, ClaimAges, Aged, hands, runner, ledgers, ghosts, Taken, Ledger
<1>2. /\ \A r \in post' : \E q \in post : r.due = q.due /\ r.taken = q.taken
      /\ \A q \in post : \E r \in post' : r.due = q.due /\ r.taken = q.taken
      /\ (\A r, q \in post : r = q) => \A r, q \in post' : r = q
  <2>1. CASE NewDay
    <3>1. post' = {[r EXCEPT !.today = FALSE] : r \in post}
      BY <2>1 DEF NewDay
    <3>2. \A r \in post : [r EXCEPT !.today = FALSE].due = r.due
                          /\ [r EXCEPT !.today = FALSE].taken = r.taken
      BY DEF TypeOK, Post
    <3>. QED BY <3>1, <3>2
  <2>2. CASE \E d \in book.owed : ClaimAges(d)
    BY <2>2 DEF ClaimAges, runner
  <2>. QED BY <2>1, <2>2
<1>3. /\ \A d \in disk.owed : \E e \in disk'.owed : SameDebt(d, e)
      /\ \A d \in disk'.owed : \E e \in disk.owed : SameDebt(d, e)
      /\ \A d \in book.owed : \E e \in book'.owed : SameDebt(d, e)
  <2>1. CASE NewDay
    BY <2>1 DEF NewDay, TypeOK, Ledger, SameDebt
  <2>2. ASSUME NEW d \in book.owed, ClaimAges(d) PROVE <1>3
    <3>1. ASSUME NEW L \in Ledger
          PROVE  /\ \A x \in L.owed : \E e \in Aged(L, d).owed : SameDebt(x, e)
                 /\ \A x \in Aged(L, d).owed : \E e \in L.owed : SameDebt(x, e)
      <4>1. Aged(L, d).owed =
               {IF e.hand = d.hand THEN [e EXCEPT !.claimed = FALSE] ELSE e : e \in L.owed}
        BY DEF Aged, Ledger
      <4>2. L.owed \subseteq Owed
        BY DEF Ledger
      <4>3. \A x \in L.owed : /\ SameDebt(x, [x EXCEPT !.claimed = FALSE]) /\ SameDebt(x, x)
                              /\ SameDebt([x EXCEPT !.claimed = FALSE], x)
        BY <4>2 DEF SameDebt, Owed
      <4>. QED BY <4>1, <4>3
    <3>. QED BY <2>2, <3>1 DEF ClaimAges, TypeOK
  <2>. QED BY <2>1, <2>2
<1>4. OwingInv'
  BY <1>1, <1>2 DEF BookInv, OwingInv
<1>5. TakenInv'
  BY <1>1, <1>2 DEF BookInv, TakenInv, PaidOnceUnlessSlipped
<1>6. StandInv'
  <2>1. ASSUME NEW d \in disk'.owed
        PROVE  (\E e \in book'.owed : SameDebt(d, e)) \/ units[d.hand][d.to] >= d.amount
    BY <1>3 DEF BookInv, StandInv, Stands, SameDebt
  <2>. QED BY <1>1, <2>1 DEF BookInv, StandInv, Stands
<1>. QED BY <1>4, <1>5, <1>6 DEF BookInv

\* Reports, polls and payments.
LEMMA ClaimBook == ASSUME TypeOK, BookInv, NEW m \in Member, NEW d \in book.owed, Claim(m, d) PROVE BookInv'
<1>1. /\ UNCHANGED <<stage, disk, facts, units, pool, mined, slipped, Taken>>
      /\ post = {} /\ post' = {} /\ todo'.pays = {}
  BY DEF Claim, Idle, Save, Nothing, hands, runner, ledgers, ghosts, Taken
<1>2. /\ book'.owing = book.owing
      /\ book'.owed = (book.owed \ {d}) \cup {[d EXCEPT !.claimed = TRUE]}
  BY DEF Claim, TypeOK, Ledger
<1>3. \A e : SameDebt(e, d) => SameDebt(e, [d EXCEPT !.claimed = TRUE])
  BY HandOf DEF SameDebt, Owed
<1>4. OwingInv'
  BY <1>1, <1>2 DEF BookInv, OwingInv
<1>5. TakenInv'
  BY <1>1, <1>2 DEF BookInv, TakenInv, PaidOnceUnlessSlipped
<1>6. StandInv'
  <2>1. ASSUME NEW e \in disk.owed, NEW f \in book.owed, SameDebt(e, f)
        PROVE  \E g \in book'.owed : SameDebt(e, g)
    <3>1. CASE f = d
      BY <1>2, <1>3, <2>1, <3>1
    <3>2. CASE f # d
      BY <1>2, <2>1, <3>2
    <3>. QED BY <3>1, <3>2
  <2>. QED BY <1>1, <1>2, <2>1 DEF BookInv, StandInv, Stands
<1>. QED BY <1>4, <1>5, <1>6 DEF BookInv

\* So does a poll, which plans the payments of the day.
LEMMA PollBook == ASSUME TypeOK, BookInv, NEW S \in SUBSET book.owing, Poll(S) PROVE BookInv'
<1>1. /\ UNCHANGED <<stage, disk, units, pool, mined, slipped, Taken>>
      /\ post = {} /\ post' = {} /\ todo'.pays = S /\ facts' \in {facts, Scanned}
  BY DEF Poll, Idle, hands, ledgers, ghosts, Taken
<1>2. book'.owing = book.owing /\ book'.owed = book.owed \ Cleared(facts')
  BY DEF Poll, TypeOK, Ledger
<1>3. OwingInv'
  BY <1>1, <1>2 DEF BookInv, OwingInv
<1>4. TakenInv'
  BY <1>1, <1>2 DEF BookInv, TakenInv, PaidOnceUnlessSlipped
<1>5. \A h \in Hand, p \in Party : facts'.units[h][p] \in Nat /\ facts'.units[h][p] <= units[h][p]
  BY <1>1 DEF BookInv, StandInv, Scanned, TypeOK, Facts
<1>6. StandInv'
  <2>1. ASSUME NEW d \in disk.owed, NEW e \in book.owed, SameDebt(d, e)
        PROVE  (\E f \in book'.owed : SameDebt(d, f)) \/ units[d.hand][d.to] >= d.amount
    <3>1. CASE e \in Cleared(facts')
      <4>1. facts'.units[d.hand][d.to] >= d.amount
        BY <2>1, <3>1 DEF Cleared, Shows, SameDebt
      <4>2. d.hand \in Hand /\ d.to \in Party /\ d.amount \in Nat
        BY HandOf DEF Owed, Amount
      <4>. QED BY <1>5, <4>1, <4>2 DEF TypeOK
    <3>2. CASE e \notin Cleared(facts')
      BY <1>2, <2>1, <3>2
    <3>. QED BY <3>1, <3>2
  <2>2. Stands(disk, book)'
    BY <1>1, <1>2, <2>1 DEF BookInv, StandInv, Stands
  <2>. QED BY <1>1, <1>5, <2>2 DEF StandInv
<1>. QED BY <1>3, <1>4, <1>6 DEF BookInv

\* So does a request to the producer, whether its answer will come or not.
LEMMA SendBook == ASSUME TypeOK, BookInv, NEW o \in todo.pays, Send(o) PROVE BookInv'
<1>1. PICK c \in Coin : /\ post' = {[due |-> o, coin |-> c, taken |-> ~Spent(c), today |-> TRUE]}
                        /\ pool' = IF Spent(c) THEN pool ELSE pool \cup {[due |-> o, coin |-> c]}
  BY DEF Send, Free
<1>2. UNCHANGED <<stage, book, disk, todo, facts, units, mined, slipped>> /\ post = {}
  BY DEF Send, Paying, hands, ghosts
<1> DEFINE t0 == [due |-> o, coin |-> c]
<1>3. Taken' = IF Spent(c) THEN Taken ELSE Taken \cup {t0}
  BY <1>1, <1>2 DEF Taken
<1>4. o \in book.owing /\ o.hand \in Hand /\ stage[o.hand] = "over"
  BY HandOf DEF BookInv, OwingInv
<1>5. OwingInv'
  BY <1>1, <1>2 DEF BookInv, OwingInv
<1>6. \A t \in Taken : t.due.hand = o.hand => t.due.hand \in slipped
  BY <1>2, <1>4 DEF BookInv, TakenInv
<1>7. \A t \in Taken : t.due.hand \in slipped \/ \A w \in book.owing : w.hand # t.due.hand
  BY <1>2 DEF BookInv, TakenInv
<1>8. TakenInv'
  <2>1. CASE Spent(c)
    <3>. DEFINE taken == ~Spent(c)
    <3>. HIDE DEF taken
    <3>a. taken = FALSE
      BY <2>1, Zenon DEF taken
    <3>b. post' = {[due |-> o, coin |-> c, taken |-> taken, today |-> TRUE]} /\ Taken' = Taken
      BY <1>1, <1>3, <2>1, Zenon DEF taken
    <3>1. Taken' = Taken /\ \A q \in post' : ~q.taken
      BY <3>a, <3>b
    <3>2. PaidOnceUnlessSlipped'
      BY <1>2, <3>1 DEF BookInv, TakenInv, PaidOnceUnlessSlipped
    <3>3. \A t \in Taken' : stage'[t.due.hand] = "over"
      BY <1>2, <3>1 DEF BookInv, TakenInv
    <3>4. \A t \in Taken' :
             \/ t.due.hand \in slipped'
             \/ \A w \in book'.owing : w.hand = t.due.hand => \E q \in post' : q.taken /\ q.due = w
      BY <1>2, <1>7, <3>1
    <3>5. \A q \in post' : q.taken => \E t \in Taken' : t.due = q.due
      BY <3>1
    <3>. QED BY <3>2, <3>3, <3>4, <3>5 DEF TakenInv
  <2>2. CASE ~Spent(c)
    <3>1. post' = {[due |-> o, coin |-> c, taken |-> TRUE, today |-> TRUE]} /\ Taken' = Taken \cup {t0}
      BY <1>1, <1>3, <2>2
    <3>2. \A t \in Taken' : stage'[t.due.hand] = "over"
      BY <1>2, <1>4, <3>1 DEF BookInv, TakenInv
    <3>3. \A w \in book.owing : w.hand = o.hand => w = o
      BY <1>4 DEF BookInv, OwingInv
    <3>4. PaidOnceUnlessSlipped'
      <4>1. \A t, u \in Taken : t.due.hand = u.due.hand /\ t # u => t.due.hand \in slipped
        BY DEF BookInv, TakenInv, PaidOnceUnlessSlipped
      <4>2. t0.due = o
        OBVIOUS
      <4>. QED BY <1>2, <1>6, <3>1, <4>1, <4>2 DEF PaidOnceUnlessSlipped
    <3>5. \A r \in post' : r.due = o /\ r.taken
      BY <3>1
    <3>6. \E r \in post' : r.due = o /\ r.taken
      BY <3>1
    <3>7. \A t \in Taken' :
             \/ t.due.hand \in slipped'
             \/ \A w \in book'.owing : w.hand = t.due.hand => \E r \in post' : r.taken /\ r.due = w
      BY <1>2, <1>7, <3>1, <3>3, <3>6
    <3>8. \A r \in post' : r.taken => \E t \in Taken' : t.due = r.due
      BY <3>1, <3>5
    <3>. QED BY <3>2, <3>4, <3>7, <3>8 DEF TakenInv
  <2>. QED BY <2>1, <2>2
<1>10. StandInv'
  BY <1>2, <1>3 DEF BookInv, StandInv, Stands
<1>. QED BY <1>5, <1>8, <1>10 DEF BookInv

\* So does the answer, or its loss.
LEMMA AnswerBook == ASSUME TypeOK, BookInv, NEW r \in post, Answer(r) \/ NoAnswer(r) PROVE BookInv'
<1>1. /\ UNCHANGED <<stage, disk, facts, units, pool, mined, Taken>>
      /\ post' = {} /\ todo'.pays = todo.pays \ {r.due}
  BY DEF Answer, NoAnswer, Done, hands, ledgers, Taken, TypeOK, Todo
<1>2. r.due \in book.owing /\ \A q \in post : q = r
  BY DEF BookInv, OwingInv
<1>3. /\ book'.owed = book.owed
      /\ \/ ~r.taken /\ book' = book /\ slipped' = slipped
         \/ r.taken /\ book' = book /\ slipped' = slipped \cup {r.due.hand}
         \/ r.taken /\ book'.owing = {w \in book.owing : w.hand # r.due.hand} /\ slipped' = slipped
  <2>1. CASE NoAnswer(r)
    BY <2>1 DEF NoAnswer
  <2>2. CASE Answer(r) /\ ~r.taken
    BY <2>2 DEF Answer, ghosts
  <2>3. CASE Answer(r) /\ r.taken
    BY <2>3 DEF Answer, ghosts, HousePaid, TypeOK, Ledger
  <2>. QED BY <2>1, <2>2, <2>3 DEF TypeOK, Post
<1>4. \A w \in book.owing : w.hand = r.due.hand => w = r.due
  BY <1>2 DEF BookInv, OwingInv
<1>5. OwingInv'
  BY <1>1, <1>3, <1>4 DEF BookInv, OwingInv
<1>6. TakenInv'
  BY <1>1, <1>2, <1>3 DEF BookInv, TakenInv, PaidOnceUnlessSlipped
<1>7. StandInv'
  <2>1. ASSUME NEW o \in disk.owing, o \in book.owing
        PROVE  o \in book'.owing \/ \E t \in Taken : t.due = o
    BY <1>3, <1>4, <2>1 DEF BookInv, TakenInv
  <2>. QED BY <1>1, <1>3, <2>1 DEF BookInv, StandInv, Stands
<1>. QED BY <1>5, <1>6, <1>7 DEF BookInv

\* So does a payment that fails.
LEMMA FailBook == ASSUME TypeOK, BookInv, NEW o \in todo.pays, PayFails(o) PROVE BookInv'
<1>1. /\ UNCHANGED <<stage, book, disk, facts, units, pool, mined, slipped, Taken>>
      /\ post = {} /\ post' = {} /\ todo'.pays \subseteq todo.pays
  BY DEF PayFails, Paying, Done, hands, runner, ledgers, ghosts, Taken, TypeOK, Todo
<1>. QED BY <1>1 DEF BookInv, OwingInv, TakenInv, StandInv, Stands, PaidOnceUnlessSlipped

\* So do a mined block and a member's transfer.
LEMMA ChainBook ==
    ASSUME TypeOK, BookInv,
           (\E t \in pool : Mine(t)) \/ \E h \in Hand, p \in Party, n \in Amount : MemberPays(h, p, n)
    PROVE  BookInv'
<1>1. /\ UNCHANGED <<stage, book, disk, todo, post, facts, slipped>> /\ Taken' = Taken
  BY DEF Mine, MemberPays, hands, runner, ghosts, Taken
<1>2. \A h \in Hand, p \in Party : units'[h][p] \in Nat /\ units[h][p] <= units'[h][p]
  <2>1. CASE UNCHANGED units
    BY <2>1 DEF TypeOK
  <2>2. ASSUME NEW g \in Hand, NEW q \in Party, NEW n \in Amount, MemberPays(g, q, n) PROVE <1>2
    <3>1. units' = [units EXCEPT ![g][q] = units[g][q] + n] /\ n \in Nat
      BY <2>2 DEF MemberPays, Amount
    <3>. QED BY <3>1 DEF TypeOK
  <2>. QED BY <2>1, <2>2 DEF Mine
<1>3. OwingInv'
  BY <1>1 DEF BookInv, OwingInv
<1>4. TakenInv'
  BY <1>1 DEF BookInv, TakenInv, PaidOnceUnlessSlipped
<1>5. \A h \in Hand, p \in Party : facts.units[h][p] \in Nat /\ units[h][p] \in Nat
  BY DEF TypeOK, Facts
<1>6. \A d \in disk.owed : d.hand \in Hand /\ d.to \in Party /\ d.amount \in Nat
  BY HandOf DEF Owed, Amount
<1>7. \A h \in Hand, p \in Party : facts.units[h][p] <= units'[h][p]
  BY <1>2, <1>5 DEF BookInv, StandInv
<1>8. \A d \in disk.owed : units[d.hand][d.to] >= d.amount => units'[d.hand][d.to] >= d.amount
  BY <1>2, <1>5, <1>6
<1>9. StandInv'
  BY <1>1, <1>7, <1>8 DEF BookInv, StandInv, Stands
<1>. QED BY <1>3, <1>4, <1>9 DEF BookInv

-----------------------------------------------------------------------------
\* The invariant is inductive.
LEMMA BookStep == IInv /\ [Next]_vars => BookInv'
<1>. SUFFICES ASSUME IInv, [Next]_vars PROVE BookInv'
  OBVIOUS
<1>1. TypeOK /\ BookInv
  BY DEF IInv
<1>2. \A h \in Hand : stage[h] = "over" => stage'[h] = "over"
  BY <1>1, OverStays
<1>3. CASE UNCHANGED Books
  BY <1>1, <1>2, <1>3, StillBook
<1>4. ASSUME NEW m \in Member, NEW h \in Hand, Act(m, h) PROVE BookInv'
  BY <1>1, <1>2, <1>4, MoveBook DEF Act
<1>5. ASSUME NEW m \in Member, NEW h \in Hand, Leave(m, h) PROVE BookInv'
  <2>1. turn[h] \in 1 .. 2
    BY <1>1 DEF TypeOK
  <2>. QED BY <1>1, <1>5, <2>1, LoseBook DEF Leave
<1>6. ASSUME NEW h \in Hand, BotActs(h) PROVE BookInv'
  <2>1. CASE HouseToAct(h)
    BY <1>1, <1>2, <1>6, <2>1, MoveBook DEF BotActs, HouseToAct
  <2>2. CASE ~HouseToAct(h)
    BY <1>3, <1>6, <2>2 DEF BotActs, Books, runner, ledgers, ghosts
  <2>. QED BY <2>1, <2>2
<1>7. ASSUME NEW m \in Member, NEW d \in book.owed, Claim(m, d) PROVE BookInv'
  BY <1>1, <1>7, ClaimBook
<1>8. CASE Play
  BY <1>3, <1>4, <1>5, <1>6, <1>7, <1>8 DEF Play, Books, Hello, Sit, Challenge, Accept, EndChallenge,
     runner, ledgers, ghosts
<1>9. CASE Run
  <2>1. ASSUME NEW r \in post, Answer(r) \/ NoAnswer(r) PROVE BookInv'
    BY <1>1, <2>1, AnswerBook
  <2>2. ASSUME NEW o \in todo.pays, PayFails(o) \/ Send(o) PROVE BookInv'
    BY <1>1, <2>2, FailBook, SendBook
  <2>3. ASSUME NEW S \in SUBSET book.owing, Poll(S) PROVE BookInv'
    BY <1>1, <2>3, PollBook
  <2>. QED BY <1>1, <1>2, <1>9, <2>1, <2>2, <2>3, SaveBook, CrashBook DEF Run
<1>10. CASE World
  BY <1>1, <1>10, ClockBook, ChainBook DEF World
<1>11. CASE UNCHANGED vars
  BY <1>3, <1>11 DEF Books, vars, runner, ledgers, ghosts
<1>. QED BY <1>8, <1>9, <1>10, <1>11 DEF Next

-----------------------------------------------------------------------------
\* What sets of wins add up to.
LEMMA TotalEmpty == Total({}) = 0
BY SumEmpty DEF Total

\* The total of a set of debts is one of them and the total of the rest.
LEMMA TotalTake ==
    ASSUME NEW S \in SUBSET Owing, IsFiniteSet(S), NEW o \in S
    PROVE  /\ Total(S) \in Nat /\ Total(S \ {o}) \in Nat /\ o.amount \in Nat
           /\ Total(S) = o.amount + Total(S \ {o})
<1>. DEFINE f == [w \in Owing |-> w.amount]
<1>1. \A w \in S : f[w] \in Nat /\ f[w] = w.amount
  BY DEF Owing, Amount
<1>2. IsFiniteSet(S \ {o})
  BY FS_Subset
<1>. HIDE DEF f
<1>3. \A w \in S : f[w] \in Int
  BY <1>1
<1>4. SumFunctionOnSet(f, S) = f[o] + SumFunctionOnSet(f, S \ {o})
  BY <1>3, SumTake
<1>5. SumFunctionOnSet(f, S) \in Nat
  BY <1>1, SumNat
<1>6. SumFunctionOnSet(f, S \ {o}) \in Nat
  <2>1. \A w \in S \ {o} : f[w] \in Nat
    BY <1>1
  <2>. QED BY <1>2, <2>1, SumNat
<1>. QED BY <1>1, <1>4, <1>5, <1>6 DEF Total, f

\* A total is a natural number.
LEMMA TotalNat == ASSUME NEW S \in SUBSET Owing, IsFiniteSet(S) PROVE Total(S) \in Nat
<1>1. CASE S = {}
  BY <1>1, TotalEmpty
<1>2. CASE S # {}
  BY <1>2, TotalTake
<1>. QED BY <1>1, <1>2

\* The total of one debt is its amount.
LEMMA TotalOne == ASSUME NEW o \in Owing PROVE Total({o}) = o.amount
<1>1. IsFiniteSet({o}) /\ {o} \ {o} = {}
  BY FS_Singleton
<1>. QED BY <1>1, TotalTake, TotalEmpty

\* The cap: what a step may add to the payments of the day.
LEMMA CapFacts ==
    ASSUME TypeOK, OwingInv, CapInv
    PROVE  /\ book.paid \in Nat /\ disk.paid \in Nat /\ book.paid <= Cap
           /\ todo.pays \in SUBSET Owing /\ IsFiniteSet(todo.pays) /\ Total(todo.pays) \in Nat
           /\ book.paid + Total(todo.pays) <= Cap
<1>1. book.paid \in Nat /\ disk.paid \in Nat /\ todo.pays \in SUBSET Owing
  BY DEF TypeOK, Ledger, Todo
<1>2. IsFiniteSet(todo.pays)
  BY FS_Subset DEF OwingInv, CapInv
<1>3. Total(todo.pays) \in Nat
  BY <1>1, <1>2, TotalNat
<1>. QED BY <1>1, <1>2, <1>3 DEF CapInv, CapKept

\* A hand the house lost is put on its way only if the rest of the cap covers it.
LEMMA LoseCap ==
    ASSUME TypeOK, OwingInv, CapInv, Idle, NEW h \in Hand, stage[h] = "play", SeatInv,
           NEW i \in 1 .. 2, NEW n \in Amount, Lose(h, i, n), UNCHANGED disk
    PROVE  CapInv'
<1>1. CASE HouseHand(h) /\ i = 2
  <2>1. Win(h, n) \in Owing /\ Win(h, n).amount = n
    BY DEF Win, Owing, SeatInv, TypeOK
  <2>2. book'.owing = book.owing \cup {Win(h, n)} /\ book'.paid = book.paid
    BY <1>1 DEF Lose, TypeOK, Ledger
  <2>3. IsFiniteSet(book'.owing)
    BY <2>2, FS_AddElement DEF CapInv
  <2>4. todo'.pays = IF CapLeft >= n THEN {Win(h, n)} ELSE {}
    BY <1>1 DEF Lose, Save, Nothing
  <2>5. book'.paid + Total(todo'.pays) <= Cap
    <3>1. CASE CapLeft >= n
      BY <2>1, <2>2, <2>4, <3>1, TotalOne, CapFacts DEF CapLeft, Amount
    <3>2. CASE ~(CapLeft >= n)
      BY <2>2, <2>4, <3>2, TotalEmpty, CapFacts
    <3>. QED BY <3>1, <3>2
  <2>. QED BY <2>3, <2>5 DEF CapInv, CapKept
<1>2. CASE ~(HouseHand(h) /\ i = 2)
  <2>1. book'.owing = book.owing /\ book'.paid = book.paid /\ todo'.pays = {}
    BY <1>2 DEF Lose, TypeOK, Ledger, Save, Nothing
  <2>. QED BY <2>1, TotalEmpty, CapFacts DEF CapInv, CapKept
<1>. QED BY <1>1, <1>2

\* A move keeps the cap, whether the hand goes on, is split or is lost.
LEMMA MoveCap ==
    ASSUME TypeOK, OwingInv, CapInv, Idle, NEW h \in Hand, stage[h] = "play", SeatInv,
           NEW left, Move(h, left), UNCHANGED disk
    PROVE  CapInv'
<1>1. CASE \E i \in 1 .. 2, n \in Amount : Lose(h, i, n)
  BY <1>1, LoseCap
<1>2. CASE SplitPot(h)
  <2>1. UNCHANGED book /\ todo'.pays = {}
    BY <1>2 DEF SplitPot, Save, Nothing
  <2>. QED BY <2>1, TotalEmpty, CapFacts DEF CapInv, CapKept
<1>3. CASE UNCHANGED <<book, todo>>
  BY <1>3 DEF CapInv, CapKept
<1>. QED BY <1>1, <1>2, <1>3 DEF Move

\* The request that ends, answered or not, leaves the payments; only an answer
\* of today adds to what was paid, and no more than the request was for.
LEMMA EndCap ==
    ASSUME TypeOK, OwingInv, CapInv, NEW o \in todo.pays, todo'.pays = todo.pays \ {o},
           UNCHANGED disk, book'.owing \subseteq book.owing,
           book'.paid \in {book.paid, book.paid + o.amount}
    PROVE  CapInv'
<1>1. /\ Total(todo.pays) = o.amount + Total(todo.pays \ {o})
      /\ o.amount \in Nat /\ Total(todo.pays \ {o}) \in Nat
  BY CapFacts, TotalTake
<1>2. book'.paid + Total(todo'.pays) <= Cap
  BY <1>1, CapFacts
<1>3. IsFiniteSet(book'.owing)
  BY FS_Subset DEF CapInv
<1>. QED BY <1>2, <1>3 DEF CapInv, CapKept

\* Every step keeps the day's payments, made and under way, under the cap.
LEMMA CapStep == IInv /\ [Next]_vars => CapInv'
<1>. SUFFICES ASSUME IInv, [Next]_vars PROVE CapInv'
  OBVIOUS
<1>1. TypeOK /\ OwingInv /\ CapInv /\ SeatInv /\ book \in Ledger /\ disk \in Ledger /\ todo \in Todo
  BY DEF IInv, BookInv, HandInv, TypeOK
<1>2. CASE UNCHANGED <<book, disk, todo>>
  BY <1>1, <1>2 DEF CapInv, CapKept
<1>3. ASSUME NEW m \in Member, NEW h \in Hand, Act(m, h) PROVE CapInv'
  BY <1>1, <1>3, MoveCap DEF Act
<1>4. ASSUME NEW m \in Member, NEW h \in Hand, Leave(m, h) PROVE CapInv'
  <2>1. turn[h] \in 1 .. 2
    BY <1>1 DEF TypeOK
  <2>. QED BY <1>1, <1>4, <2>1, LoseCap DEF Leave
<1>5. ASSUME NEW h \in Hand, BotActs(h) PROVE CapInv'
  <2>1. CASE HouseToAct(h)
    BY <1>1, <1>5, <2>1, MoveCap DEF BotActs, HouseToAct
  <2>2. CASE ~HouseToAct(h)
    BY <1>2, <1>5, <2>2 DEF BotActs
  <2>. QED BY <2>1, <2>2
<1>6. ASSUME NEW m \in Member, NEW d \in book.owed, Claim(m, d) PROVE CapInv'
  <2>1. book'.owing = book.owing /\ book'.paid = book.paid /\ todo'.pays = {} /\ UNCHANGED disk
    BY <1>1, <1>6 DEF Claim, Ledger, Save, Nothing
  <2>. QED BY <1>1, <2>1, TotalEmpty, CapFacts DEF CapInv, CapKept
<1>7. CASE Play
  BY <1>2, <1>3, <1>4, <1>5, <1>6, <1>7 DEF Play, Hello, Sit, Challenge, Accept, EndChallenge
<1>8. CASE Persist
  <2>1. UNCHANGED book /\ disk' \in {disk, book} /\ todo'.pays = todo.pays
    BY <1>1, <1>8 DEF Persist, SaveDue, Nothing, Todo
  <2>. QED BY <1>1, <2>1, CapFacts DEF CapInv, CapKept
<1>9. CASE Crash
  <2>1. UNCHANGED disk /\ book' = disk /\ todo'.pays = {}
    BY <1>9 DEF Crash, Nothing
  <2>. QED BY <1>1, <2>1, TotalEmpty, CapFacts DEF CapInv, CapKept
<1>10. ASSUME NEW r \in post, Answer(r) \/ NoAnswer(r) PROVE CapInv'
  <2>1. r.due \in todo.pays
    BY <1>1 DEF OwingInv
  <2>2. todo'.pays = todo.pays \ {r.due} /\ UNCHANGED disk
    BY <1>1, <1>10 DEF Answer, NoAnswer, Done, Todo
  <2>3. book'.owing \subseteq book.owing /\ book'.paid \in {book.paid, book.paid + r.due.amount}
    BY <1>1, <1>10 DEF Answer, NoAnswer, HousePaid, Ledger
  <2>. QED BY <1>1, <2>1, <2>2, <2>3, EndCap
<1>11. ASSUME NEW o \in todo.pays, PayFails(o) PROVE CapInv'
  <2>1. todo'.pays = todo.pays \ {o} /\ UNCHANGED <<book, disk>>
    BY <1>1, <1>11 DEF PayFails, Done, Todo
  <2>. QED BY <1>1, <2>1, EndCap
<1>12. ASSUME NEW S \in SUBSET book.owing, Poll(S) PROVE CapInv'
  <2>1. /\ book'.owing = book.owing /\ book'.paid = book.paid /\ todo'.pays = S /\ UNCHANGED disk
        /\ Total(S) <= Cap - book.paid
    BY <1>1, <1>12 DEF Poll, Payable, CapLeft, Ledger
  <2>2. S \in SUBSET Owing /\ IsFiniteSet(S)
    BY <1>1, FS_Subset DEF CapInv, Ledger
  <2>3. Total(S) \in Nat
    BY <2>2, TotalNat
  <2>. QED BY <1>1, <2>1, <2>3, CapFacts DEF CapInv, CapKept
<1>13. CASE Run
  BY <1>2, <1>8, <1>9, <1>10, <1>11, <1>12, <1>13 DEF Run, Send
<1>14. CASE NewDay
  <2>1. /\ book'.owing = book.owing /\ disk'.owing = disk.owing
        /\ book'.paid = 0 /\ disk'.paid = 0 /\ UNCHANGED todo
    BY <1>1, <1>14 DEF NewDay, Ledger
  <2>. QED BY <1>1, <2>1, CapFacts DEF CapInv, CapKept
<1>15. ASSUME NEW d \in book.owed, ClaimAges(d) PROVE CapInv'
  <2>1. /\ book'.owing = book.owing /\ disk'.owing = disk.owing
        /\ book'.paid = book.paid /\ disk'.paid = disk.paid /\ UNCHANGED todo
    BY <1>1, <1>15 DEF ClaimAges, Aged, Ledger
  <2>. QED BY <1>1, <2>1 DEF CapInv, CapKept
<1>16. CASE World
  BY <1>2, <1>14, <1>15, <1>16 DEF World, Mine, MemberPays
<1>. QED BY <1>2, <1>7, <1>13, <1>16 DEF Next, vars

-----------------------------------------------------------------------------
\* Before the first hand there is no debt and no transfer.
LEMMA InitIInv == Init => IInv
<1>. SUFFICES ASSUME Init PROVE IInv
  OBVIOUS
<1>1. TypeOK
  <2>1. EmptyBook \in Ledger /\ NoUnits \in [Hand -> [Party -> Nat]] /\ NoSeats \in Party \X Party
    BY DEF EmptyBook, Ledger, NoUnits, NoSeats, Party
  <2>2. NoFacts \in Facts /\ Scanned \in Facts
    BY <2>1 DEF Init, NoFacts, Scanned, Facts
  <2>. QED BY <2>1, <2>2, TodoType DEF Init, TypeOK
<1>2. HandInv
  BY DEF Init, HandInv, SeatInv, LiveInv, TurnWaiting, HouseToAct
<1>3. OwingInv /\ TakenInv
  BY DEF Init, EmptyBook, Nothing, OwingInv, TakenInv, PaidOnceUnlessSlipped, Taken
<1>4. StandInv
  BY DEF Init, StandInv, Stands, EmptyBook, NoFacts, Scanned, NoUnits
<1>5. CapInv
  BY FS_EmptySet, TotalEmpty DEF Init, CapInv, CapKept, EmptyBook, Nothing
<1>. QED BY <1>1, <1>2, <1>3, <1>4, <1>5 DEF IInv, BookInv

\* Every action of the table, the runner and the chain keeps the invariant.
LEMMA IInvStep == IInv /\ [Next]_vars => IInv'
BY TypeStep, HandStep, BookStep, CapStep DEF IInv, HandInv

\* So it holds in every state the house can reach.
THEOREM Safety == Spec => []IInv
BY InitIInv, IInvStep, PTL DEF Spec

\* Every variable keeps its type.
THEOREM TypeCorrect == Spec => []TypeOK
BY Safety, PTL DEF IInv

\* No member is in two hands: a session names the one hand in play its member
\* sits in, and a hand is dealt to members whose sessions name none.
THEOREM OneHand == Spec => []OneHandEach
<1>1. IInv => OneHandEach
  <2>. SUFFICES ASSUME IInv, NEW m \in Member, NEW g \in Hand, NEW h \in Hand, stage[g] = "play",
                       stage[h] = "play", Plays(g, m), Plays(h, m)
                PROVE  g = h
    BY DEF OneHandEach
  <2>1. live[m] = g /\ live[m] = h
    BY DEF IInv, HandInv, LiveInv, Plays
  <2>. QED BY <2>1
<1>. QED BY <1>1, Safety, PTL

\* A hand that waits for the house has a bot turn waiting.
THEOREM TurnWaits == Spec => []TurnWaiting
<1>1. IInv => TurnWaiting
  BY DEF IInv, HandInv
<1>. QED BY <1>1, Safety, PTL

\* The house pays a hand twice only when it slipped.
THEOREM PaidOnceElse == Spec => []PaidOnceUnlessSlipped
<1>1. IInv => PaidOnceUnlessSlipped
  BY DEF IInv, BookInv, TakenInv
<1>. QED BY <1>1, Safety, PTL

\* What the house pays out in a day, what is on its way counted in, keeps
\* within the cap.
THEOREM CapIsKept == Spec => []CapKept
<1>1. IInv => CapKept
  BY DEF IInv, CapInv
<1>. QED BY <1>1, Safety, PTL

\* A saved debt leaves the file only when the chain or the producer shows it paid.
THEOREM SavedStand == Spec => SavedDebtsStand
<1>1. IInv /\ [Next]_vars => [Stands(disk, disk')]_vars
  <2>. SUFFICES ASSUME IInv, [Next]_vars PROVE Stands(disk, disk')
    OBVIOUS
  <2>1. CASE disk' \in {disk, book}
    BY <2>1, StandsSelf DEF IInv, BookInv, StandInv
  <2>2. ASSUME NEW d \in book.owed, ClaimAges(d) PROVE Stands(disk, disk')
    <3>1. disk \in Ledger
      BY DEF IInv, TypeOK
    <3>2. disk'.owed = {IF e.hand = d.hand THEN [e EXCEPT !.claimed = FALSE] ELSE e : e \in disk.owed}
          /\ disk'.owing = disk.owing
      BY <2>2, <3>1 DEF ClaimAges, Aged, Ledger
    <3>3. disk.owed \subseteq Owed
      BY <3>1 DEF Ledger
    <3>4. \A x \in disk.owed : SameDebt(x, [x EXCEPT !.claimed = FALSE]) /\ SameDebt(x, x)
      BY <3>3 DEF SameDebt, Owed
    <3>. QED BY <3>2, <3>4 DEF Stands
  <2>3. CASE NewDay
    BY <2>3 DEF NewDay, Stands, SameDebt, IInv, TypeOK, Ledger
  <2>4. CASE Play
    BY <2>1, <2>4 DEF Play, Hello, Sit, Challenge, Accept, EndChallenge, BotActs, Act, Leave, Claim
  <2>5. CASE Run
    BY <2>1, <2>5 DEF Run, Persist, Crash, Answer, NoAnswer, PayFails, Send, Poll
  <2>6. CASE World
    BY <2>1, <2>2, <2>3, <2>6 DEF World, Mine, MemberPays
  <2>. QED BY <2>1, <2>4, <2>5, <2>6 DEF Next, vars
<1>. QED BY <1>1, Safety, PTL DEF SavedDebtsStand, Spec
=============================================================================
