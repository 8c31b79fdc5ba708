------------------------------ MODULE MCHouse -------------------------------
(* Two members, two hands, three coins: a hand against the house and one   *)
(* between members, or two against the house on a day that can pay one.    *)
EXTENDS HouseTable
=============================================================================
