----------------------------- MODULE MCAccounts -----------------------------
EXTENDS Accounts

MCMaxVersion == [u \in User |-> IF u \in Root THEN 0 ELSE 2]
=============================================================================
