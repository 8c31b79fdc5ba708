----------------------------- MODULE MCSession -----------------------------
EXTENDS RelaySession

CONSTANTS feed, a, b, c, dm, letter

MCAbout == [e \in {letter} |-> dm]
MCTo == [e \in {letter} |-> b]
=============================================================================
