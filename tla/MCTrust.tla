------------------------------- MODULE MCTrust -------------------------------
EXTENDS TrustSweep

CONSTANTS ann, bea, cat

Members == {ann, bea, cat}
Order == [m \in Members |-> CASE m = ann -> 1 [] m = bea -> 2 [] m = cat -> 3]

Stored(level, count, mod) ==
    [level |-> level, days |-> count, posts |-> count, mod |-> mod,
     admin |-> FALSE, active |-> 0, updated |-> 0]

\* ann and bea keep their levels however long they stay away and come first in
\* every pass.  cat comes and goes, with a level she no longer earns or with a mod
\* action against her.
Rows == [m \in Members |->
            IF m = cat THEN {Stored(1, 0, FALSE), Stored(2, 1, TRUE)}
            ELSE {Stored(1, 1, FALSE)}]

Both(n) == [days |-> n, posts |-> n]
Need == <<Both(1), Both(2)>>
Keep == <<Both(1), Both(2)>>

=============================================================================
