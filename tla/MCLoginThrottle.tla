---------------------------- MODULE MCLoginThrottle ----------------------------
\* More identities than the store holds.
EXTENDS LoginThrottle, TLC

Perms == Permutations(Attempts)
===============================================================================
