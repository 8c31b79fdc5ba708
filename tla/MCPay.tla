-------------------------------- MODULE MCPay --------------------------------
(***************************************************************************)
(* A requester and an agent; an output, its namesake on another chain, and *)
(* one that was credited before the journal; a job that was over before    *)
(* the journal, one that was running, and a new one.                       *)
(***************************************************************************)
EXTENDS PayLedger, TLC

CONSTANTS d1, d2, s1, s2

Accounts == {"ann", "bot"}
Outpoints == {"btc:a", "alt:a", "btc:b"}
Txo == [o \in Outpoints |-> IF o = "btc:b" THEN "b" ELSE "a"]
Payee == [o \in Outpoints |-> IF o = "alt:a" THEN "bot" ELSE "ann"]
Value == [o \in Outpoints |-> IF o = "btc:a" THEN 3 ELSE 1]
OldDeposits == {"b"}

Before == [k \in Accounts |-> IF k = "ann" THEN 1 ELSE 0]

Jobs == {"old", "live", "new"}
Opening ==
    [j \in Jobs |->
        CASE j = "old" -> [status |-> "settled", requester |-> "ann", agent |-> "bot",
                           held |-> 2, actual |-> 1, timed |-> TRUE]
          [] j = "live" -> [status |-> "running", requester |-> "ann", agent |-> "bot",
                            held |-> 2, actual |-> 0, timed |-> TRUE]
          [] j = "new" -> [status |-> "none", requester |-> None, agent |-> None,
                           held |-> 0, actual |-> 0, timed |-> FALSE]]

Symmetry == Permutations({d1, d2}) \cup Permutations({s1, s2})

=============================================================================
