------------------------------- MODULE MCSweep -------------------------------
EXTENDS CaseSweep

CONSTANTS c1, c2, c3

Cases == {c1, c2, c3}

Says(due, stale) == [due |-> due, stale |-> stale]

\* c1 is re-posted with a later expiry, that of c2, and c2 with none; c3 is no
\* proposal and ages at the same time as c1.
Asked == [c \in Cases |->
             CASE c = c1 -> <<Says(1, 1), Says(1, 2)>>
               [] c = c2 -> <<Says(0, 2), Says(2, None)>>
               [] c = c3 -> <<Says(1, None)>>]

=============================================================================
