------------------------------ MODULE MCAccounts ------------------------------
\* Two addresses, three ids (so that an address can be used again), one
\* browser that several people share.
EXTENDS Accounts, TLC

Perms == Permutations(Requests) \cup Permutations(Emails)
===============================================================================
