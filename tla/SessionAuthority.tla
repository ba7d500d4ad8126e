--------------------------- MODULE SessionAuthority ---------------------------
\* What sessions promise: a browser acts for an account only on a proof given
\* since the account was last changed. A revocation ends every session of the
\* account and voids every proof of it that is still on its way.
EXTENDS Naturals

CONSTANTS Browsers, Ids

VARIABLES
    proof,      \* <<b, i>>: b has proved to be i and awaits its session
    session     \* <<b, i>>: b acts for i

vars == <<proof, session>>

Without(S, i) == {s \in S : s[2] # i}
Others(b) == {s \in session : s[1] # b}

Init ==
    /\ proof = {}
    /\ session \in SUBSET (Browsers \X Ids)

Prove(b, i) ==
    /\ proof' = proof \cup {<<b, i>>}
    /\ UNCHANGED session

Open(b, i) ==
    /\ <<b, i>> \in proof
    /\ session' = Others(b) \cup {<<b, i>>}
    /\ proof' \in SUBSET proof

Close(b) ==
    /\ session' = Others(b)
    /\ proof' \in SUBSET proof

Forget ==
    /\ proof' \in SUBSET proof
    /\ UNCHANGED session

Revoke(i) ==
    /\ session' = Without(session, i)
    /\ proof' \in SUBSET Without(proof, i)

Next ==
    \/ \E b \in Browsers, i \in Ids : Prove(b, i) \/ Open(b, i)
    \/ \E b \in Browsers : Close(b)
    \/ \E i \in Ids : Revoke(i)
    \/ Forget

Spec == Init /\ [][Next]_vars
===============================================================================
