---------------------------- MODULE MCOtaUpdates ----------------------------
EXTENDS OtaUpdates

V(a, b, c) == [major |-> a, minor |-> b, patch |-> c]
MCCore == {V(0, 1, 1), V(1, 0, 0), V(1, 0, 1), V(1, 1, 0)}
=============================================================================
