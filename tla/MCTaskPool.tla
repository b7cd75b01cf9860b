----------------------------- MODULE MCTaskPool -----------------------------
EXTENDS TaskPool, TLC

NoCountOr2 == {NoCount, 2}
=============================================================================
