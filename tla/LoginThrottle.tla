----------------------------- MODULE LoginThrottle -----------------------------
\* lib/login-throttle.ts and the two routes that use it. Attempts interleave at
\* their awaits: the request body and the bcrypt comparison. Everything between
\* two awaits runs without interruption.
EXTENDS Naturals, Sequences, FiniteSets

CONSTANTS
    Accounts, Sources,
    Rotating,   \* accounts that use the change-password route as well
    Attempts,   \* bound: attempts in flight
    Threshold, Window, Lockout, MaxEntries, Budget,  \* resolvedConfig
    PruneBatch, \* PRUNE_BATCH_SIZE
    MaxTime     \* bound: the clock

\* readNumber accepts nothing below one.
Configured == {Threshold, Window, Lockout, MaxEntries, Budget} \subseteq Nat \ {0}

ASSUME ThrottleAssumption ==
    Configured /\ Rotating \subseteq Accounts /\ PruneBatch \in Nat

VARIABLES
    store,      \* Map in insertion order: [key, kind, n, start, until]
    candidates, \* evictionCandidates, in insertion order
    now,        \* Date.now()
    attempt,    \* attempts in flight
    compared    \* ghost: comparisons admitted during the current lock of a key

vars == <<store, candidates, now, attempt, compared>>

\* Failure counters and the budgets of comparisons that go with them.
LockKeys == ({"acct"} \X Accounts) \cup ({"pwchg"} \X Rotating)
BudgetOf(k) == <<IF k[1] = "acct" THEN "cmpl" ELSE "pwcmp", k[2]>>
Keys == ({"ip"} \X Sources) \cup LockKeys \cup {BudgetOf(k) : k \in LockKeys}

Idle == [pc |-> "idle", source |-> CHOOSE s \in Sources : TRUE,
         key |-> CHOOSE k \in LockKeys : TRUE, locked |-> FALSE]

-------------------------------------------------------------------------------
\* The store, as a pair m = [store, candidates].

Throttle == [store |-> store, candidates |-> candidates]

Fresh(k) == [key |-> k, kind |-> "failure", n |-> 0, start |-> 0, until |-> 0]
NewBudget(k, until) ==
    [key |-> k, kind |-> "budget", n |-> 0, start |-> 0, until |-> until]

Stored(m, k) == \E i \in DOMAIN m.store : m.store[i].key = k
Entry(m, k) == m.store[CHOOSE i \in DOMAIN m.store : m.store[i].key = k]

\* What stands at the positions I, in its order: a Map or a Set after deletions.
Picked(s, I) ==
    [j \in 1..Cardinality(I) |->
       s[CHOOSE i \in I : Cardinality({x \in I : x <= i}) = j]]
Drop(s, k) == Picked(s, {i \in DOMAIN s : s[i].key # k})
DropKey(s, k) == Picked(s, {i \in DOMAIN s : s[i] # k})

\* A lock that runs, or a budget of one: what must not be evicted.
\* Mutated form: budgets may go at any time.
Protected_FailuresOnly(e) == e.kind = "failure" /\ e.until > now
Protected(e) == e.until > now

\* refreshEvictionCandidate
Refresh(m, e) ==
    [m EXCEPT !.candidates =
        IF Protected(e) THEN DropKey(@, e.key)
                        ELSE Append(DropKey(@, e.key), e.key)]

\* The entry moves to the end of the insertion order.
Renew(m, e) ==
    Refresh([m EXCEPT !.store = Append(Drop(@, e.key), e)], e)

\* clearFailures
Clear(m, k) == [store |-> Drop(m.store, k),
                candidates |-> DropKey(m.candidates, k)]

\* evictOldestUnlocked: candidates are consumed until one may really go; when
\* none may, the index is left empty.
Evictable(m) ==
    {i \in DOMAIN m.candidates :
       Stored(m, m.candidates[i]) /\ ~Protected(Entry(m, m.candidates[i]))}
Evict(m) ==
    IF Evictable(m) = {} THEN [m EXCEPT !.candidates = <<>>]
    ELSE LET i == CHOOSE x \in Evictable(m) : \A y \in Evictable(m) : x <= y
         IN [store |-> Drop(m.store, m.candidates[i]),
             candidates |-> SubSeq(m.candidates, i + 1, Len(m.candidates))]

\* Room for a new key, or the store as it is when there is none.
MakeRoom(m) == IF Len(m.store) >= MaxEntries THEN Evict(m) ELSE m
Fits(m) == Len(m.store) < MaxEntries

\* lockedMsRemaining
Locked(m, k) == Stored(m, k) /\ Entry(m, k).until > now
Look(m, k) ==
    IF Stored(m, k) /\ ~Locked(m, k) THEN Refresh(m, Entry(m, k)) ELSE m

\* recordFailure on an entry: a window that has elapsed starts over, a lock
\* that runs is not extended.
Counted(e) ==
    LET over == now - e.start > Window /\ now >= e.start
        n == (IF over THEN 0 ELSE e.n) + 1
    IN [e EXCEPT !.n = n,
                 !.start = IF over THEN now ELSE @,
                 !.until = IF n >= Threshold /\ @ <= now THEN now + Lockout
                                                         ELSE @]
RecordFailure(m, k) ==
    IF Stored(m, k) THEN Renew(m, Counted(Entry(m, k)))
    ELSE LET room == MakeRoom(m) IN
         IF Fits(room) THEN Renew(room, Counted(Fresh(k))) ELSE room

\* verifyBudgetAllows: the budget belongs to the lock that runs until `until`.
\* Mutated form: a renewed lock, or any other, finds the old budget.
Epoch_Any(e, until) == [e EXCEPT !.n = 0]
Epoch(e, until) ==
    IF e.until = until THEN e ELSE [e EXCEPT !.n = 0, !.until = until]
BudgetEntry(m, k, until) ==
    IF Stored(m, k) THEN Epoch(Entry(m, k), until) ELSE NewBudget(k, until)
BudgetRoom(m, k) == IF Stored(m, k) THEN m ELSE MakeRoom(m)
\* A key without room, or whose budget is spent, is not admitted.
Admits(m, k, until) ==
    /\ Stored(m, k) \/ Fits(BudgetRoom(m, k))
    /\ BudgetEntry(BudgetRoom(m, k), k, until).n < Budget
Spend(m, k, until) ==
    Renew(BudgetRoom(m, k),
          [BudgetEntry(BudgetRoom(m, k), k, until) EXCEPT !.n = @ + 1])

\* pruneExpired: the oldest entries go when they have expired, and to the end
\* of the insertion order when they have not.
Expired(e) ==
    e.until <= now /\ (e.kind = "budget" \/ now - e.start > Window)
Prune(m) ==
    LET n == IF PruneBatch < Len(m.store) THEN PruneBatch ELSE Len(m.store)
        kept == {i \in 1..n : ~Expired(m.store[i])}
        free == Picked(m.store, {i \in kept : ~Protected(m.store[i])})
        others == {j \in DOMAIN m.candidates :
                     \A i \in 1..n : m.store[i].key # m.candidates[j]}
    IN [store |-> SubSeq(m.store, n + 1, Len(m.store)) \o Picked(m.store, kept),
        candidates |-> Picked(m.candidates, others)
                         \o [i \in DOMAIN free |-> free[i].key]]

Becomes(m) == store' = m.store /\ candidates' = m.candidates

-------------------------------------------------------------------------------
\* A login attempt arrives: the source axis is looked at before the body.
Arrive(r, s) ==
    LET m == Prune(Throttle) IN
    /\ attempt[r].pc = "idle"
    /\ Becomes(Look(m, <<"ip", s>>))
    /\ attempt' = IF Locked(m, <<"ip", s>>) THEN attempt
                  ELSE [attempt EXCEPT ![r] = [Idle EXCEPT !.pc = "body",
                                                           !.source = s]]
    /\ UNCHANGED <<now, compared>>

\* The account axis, the budget of a locked account, and the comparison begins.
Admit(r, k, m) ==
    LET seen == Look(m, k)
        locked == Locked(m, k)
        until == Entry(m, k).until
        b == BudgetOf(k) IN
    IF ~locked
    THEN /\ Becomes(seen)
         /\ attempt' = [attempt EXCEPT ![r].pc = "compare", ![r].key = k,
                                       ![r].locked = FALSE]
         /\ UNCHANGED compared
    ELSE IF Admits(seen, b, until)
    THEN /\ Becomes(Spend(seen, b, until))
         /\ attempt' = [attempt EXCEPT ![r].pc = "compare", ![r].key = k,
                                       ![r].locked = TRUE]
         /\ compared' = [compared EXCEPT ![k] = @ + 1]
    ELSE /\ Becomes(BudgetRoom(seen, b))
         /\ attempt' = [attempt EXCEPT ![r] = Idle]
         /\ UNCHANGED compared

Identify(r, a) ==
    /\ attempt[r].pc = "body"
    /\ Admit(r, <<"acct", a>>, Throttle)
    /\ UNCHANGED now

\* The change-password route prunes and looks after its body has arrived.
Rotate(r, a) ==
    /\ attempt[r].pc = "idle"
    /\ Admit(r, <<"pwchg", a>>, Prune(Throttle))
    /\ UNCHANGED now

\* The ghost counts from the moment a lock begins or ends.
LocksAfter(m) ==
    compared' = [k \in LockKeys |->
                   IF Stored(Throttle, k) /\ Stored(m, k)
                      /\ Entry(Throttle, k).until = Entry(m, k).until
                   THEN compared[k] ELSE 0]

\* The comparison fails: the source is counted always (by the login route), the
\* account only if it was not locked when the comparison began.
Fail(r) ==
    LET k == attempt[r].key
        m1 == IF k[1] = "acct"
              THEN RecordFailure(Throttle, <<"ip", attempt[r].source>>)
              ELSE Throttle
        m2 == IF attempt[r].locked THEN m1 ELSE RecordFailure(m1, k) IN
    /\ attempt[r].pc = "compare"
    /\ Becomes(m2) /\ LocksAfter(m2)
    /\ attempt' = [attempt EXCEPT ![r] = Idle]
    /\ UNCHANGED now

\* The right password clears the account, never the source.
Succeed(r) ==
    LET k == attempt[r].key
        m == Clear(Clear(Throttle, k), BudgetOf(k)) IN
    /\ attempt[r].pc = "compare"
    /\ Becomes(m) /\ LocksAfter(m)
    /\ attempt' = [attempt EXCEPT ![r] = Idle]
    /\ UNCHANGED now

Tick ==
    /\ now < MaxTime
    /\ now' = now + 1
    /\ UNCHANGED <<store, candidates, attempt, compared>>

Init ==
    /\ store = <<>> /\ candidates = <<>>
    /\ now = Window + 1     \* far from the epoch, where windowStart begins
    /\ attempt = [r \in Attempts |-> Idle]
    /\ compared = [k \in LockKeys |-> 0]

Next ==
    \/ \E r \in Attempts :
         \/ \E s \in Sources : Arrive(r, s)
         \/ \E a \in Accounts : Identify(r, a)
         \/ \E a \in Rotating : Rotate(r, a)
         \/ Fail(r) \/ Succeed(r)
    \/ Tick

Spec == Init /\ [][Next]_vars

-------------------------------------------------------------------------------
\* Memory is bounded whatever identities are tried, every key is stored once,
\* and the eviction index names stored keys only.
StoreBounded ==
    /\ Len(store) <= MaxEntries
    /\ \A i, j \in DOMAIN store : store[i].key = store[j].key => i = j
    /\ \A i \in DOMAIN candidates : Stored(Throttle, candidates[i])

\* A lock runs to its end: no flood of other identities, no pruning and no
\* later failure shortens or extends it. Only the right password of the same
\* account ends it early.
LocksHold ==
    [][\A k \in Keys : Locked(Throttle, k) =>
         \/ Stored(Throttle, k)' /\ Entry(Throttle, k)'.until
                                      = Entry(Throttle, k).until
         \/ \E r \in Attempts :
              /\ attempt[r].pc = "compare" /\ Succeed(r)
              /\ k \in {attempt[r].key, BudgetOf(attempt[r].key)}]_vars

\* While a lock runs, at most Budget comparisons are made for it, however they
\* interleave with other attempts and whatever is evicted meanwhile.
BudgetBindsToLock ==
    \A k \in LockKeys : Locked(Throttle, k) => compared[k] <= Budget

\* The store is sound under every interleaving of attempts: of bounded size,
\* coherent with its index, and no way around the comparisons of a lock.
StoreSound == StoreBounded /\ BudgetBindsToLock
===============================================================================
