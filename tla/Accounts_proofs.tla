---------------------------- MODULE Accounts_proofs ----------------------------
(***************************************************************************)
(* Accounts keep an Admin, sessions rest on the password in force, and the *)
(* whole implements SessionAuthority, for any number of accounts, browsers *)
(* and requests.  All of it rests on the watermark: an account is changed  *)
(* only together with it, and it only grows (RowsChange), so that whatever *)
(* was read of an account before a change compares as older ever after.    *)
(***************************************************************************)
EXTENDS Accounts, FiniteSetTheorems, TLAPS

-------------------------------------------------------------------------------
\* The inductive invariant.

\* What a cookie, or a credential on its way into one, says of its account: it
\* was read from a row that exists, it is not ahead of it, and as long as the
\* watermark stands so does the password.
Sound(c) ==
    c.id # NoOne =>
      /\ user[c.id].state # "none"
      /\ Live(c.id) =>
           /\ c.version <= user[c.id].version
           /\ c.version = user[c.id].version => c.hash = user[c.id].hash

\* A legacy cookie stands for the watermark nothing has moved yet.
LegacyIsOldest(c) == c.legacy => c.version = 0

SessionsSound ==
    /\ \A b \in Browsers : Sound(cookie[b]) /\ LegacyIsOldest(cookie[b])
    /\ \A r \in Requests :
         /\ Sound(req[r].set) /\ LegacyIsOldest(req[r].set)
         /\ Sound(req[r].cred)

OneAccount ==
    \A i, j \in Ids :
      Live(i) /\ Live(j) /\ user[i].email = user[j].email => i = j

\* A request that knows its actor has looked at a session of the account.
ActorsKnown ==
    \A r \in Requests : req[r].pc \in {"form", "rotate", "body"} =>
                         req[r].actor \in Ids

IInv ==
    TypeOK /\ OneAccount /\ SessionsSound /\ ActorsKnown /\ AdminRemains

-------------------------------------------------------------------------------
\* What the operations on rows do to a table of accounts.

Table == [Ids -> Account]

\* v is u with account i changed, its address kept and its sessions revoked.
Revised(u, v, i) ==
    /\ v \in Table
    /\ \A j \in Ids \ {i} : v[j] = u[j]
    /\ v[i].state = u[i].state /\ v[i].email = u[i].email
    /\ v[i].version > u[i].version

LEMMA LaterIsLater ==
    ASSUME NEW t \in Times, NEW n \in Nat
    PROVE  Later(t, n) \in Nat /\ Later(t, n) > n
BY AccountAssumption DEF Later

\* A new password: everything but the hash, the rotation owed and the
\* watermark stays.
LEMMA PasswordRevises ==
    ASSUME NEW u \in Table, NEW i \in Ids, NEW must \in BOOLEAN, NEW t \in Times
    PROVE  LET v == WithPassword(u, i, must, t) IN
             /\ Revised(u, v, i)
             /\ v[i].role = u[i].role /\ v[i].disabled = u[i].disabled
             /\ v[i].must = must
<1> DEFINE v == WithPassword(u, i, must, t)
<1>1. u[i] \in Account
  BY DEF Table
<1>2. u[i].version \in Nat /\ u[i].hash \in Nat
  BY <1>1 DEF Account
<1>3. Later(t, u[i].version) \in Nat /\ Later(t, u[i].version) > u[i].version
  BY <1>2, LaterIsLater
<1>4. v[i] = [u[i] EXCEPT !.hash = u[i].hash + 1, !.must = must,
                          !.version = Later(t, u[i].version)]
  BY <1>1 DEF WithPassword, Table, Account
<1>5. \A j \in Ids \ {i} : v[j] = u[j]
  BY DEF WithPassword, Table
<1>6. v[i] \in Account
  <2>1. u[i].hash + 1 \in Nat
    BY <1>2
  <2> HIDE DEF v
  <2> QED
    BY <1>1, <1>3, <1>4, <2>1 DEF Account
<1>7. v \in Table
  BY <1>5, <1>6 DEF WithPassword, Table
<1> QED
  BY <1>1, <1>3, <1>4, <1>5, <1>7 DEF Revised, Account

LEMMA DisabledRevises ==
    ASSUME NEW u \in Table, NEW i \in Ids, NEW disabled \in BOOLEAN,
           NEW t \in Times
    PROVE  LET v == WithDisabled(u, i, disabled, t) IN
             /\ Revised(u, v, i)
             /\ v[i].role = u[i].role /\ v[i].disabled = disabled
             /\ v[i].must = u[i].must
<1> DEFINE v == WithDisabled(u, i, disabled, t)
<1>1. u[i] \in Account
  BY DEF Table
<1>2. u[i].version \in Nat
  BY <1>1 DEF Account
<1>3. Later(t, u[i].version) \in Nat /\ Later(t, u[i].version) > u[i].version
  BY <1>2, LaterIsLater
<1>4. v[i] = [u[i] EXCEPT !.disabled = disabled,
                          !.version = Later(t, u[i].version)]
  BY <1>1 DEF WithDisabled, Table, Account
<1>5. \A j \in Ids \ {i} : v[j] = u[j]
  BY DEF WithDisabled, Table
<1>6. v[i] \in Account
  BY <1>1, <1>2, <1>3, <1>4 DEF Account
<1>7. v \in Table
  BY <1>5, <1>6 DEF WithDisabled, Table
<1> QED
  BY <1>1, <1>3, <1>4, <1>5, <1>7 DEF Revised, Account

LEMMA RoleRevises ==
    ASSUME NEW u \in Table, NEW i \in Ids, NEW role \in Roles, NEW t \in Times
    PROVE  LET v == WithRole(u, i, role, t) IN
             /\ v = u \/ Revised(u, v, i)
             /\ v \in Table
             /\ v[i].role = role /\ v[i].disabled = u[i].disabled
             /\ v[i].must = u[i].must /\ v[i].state = u[i].state
<1> DEFINE v == WithRole(u, i, role, t)
<1>1. u[i] \in Account
  BY DEF Table
<1>2. u[i].version \in Nat
  BY <1>1 DEF Account
<1>3. Later(t, u[i].version) \in Nat /\ Later(t, u[i].version) > u[i].version
  BY <1>2, LaterIsLater
<1>4. CASE u[i].role = role
  BY <1>4 DEF WithRole
<1>5. CASE u[i].role # role
  <2>1. v[i] = [u[i] EXCEPT !.role = role,
                            !.version = Later(t, u[i].version)]
    BY <1>1, <1>5 DEF WithRole, Table, Account
  <2>2. \A j \in Ids \ {i} : v[j] = u[j]
    BY <1>5 DEF WithRole, Table
  <2>3. v[i] \in Account
    BY <1>1, <1>2, <1>3, <2>1 DEF Account
  <2>4. v \in Table
    BY <1>5, <2>2, <2>3 DEF WithRole, Table
  <2> QED
    BY <1>1, <1>3, <2>1, <2>2, <2>4 DEF Revised, Account
<1> QED
  BY <1>4, <1>5

LEMMA RevisedTwice ==
    ASSUME NEW u \in Table, NEW v \in Table, NEW w \in Table, NEW i \in Ids,
           Revised(u, v, i), Revised(v, w, i)
    PROVE  Revised(u, w, i)
<1>1. u[i].version \in Nat /\ v[i].version \in Nat /\ w[i].version \in Nat
  BY DEF Table, Account
<1> QED
  BY <1>1 DEF Revised

-------------------------------------------------------------------------------
\* What a step does to the rows.

Revokes(i) == Live(i) /\ Revised(user, user', i)

Creates(i) ==
    /\ user[i].state = "none" /\ user'[i].state = "live"
    /\ \A j \in Ids : Live(j) => user[j].email # user'[i].email
    /\ user' \in Table /\ \A j \in Ids \ {i} : user'[j] = user[j]

Deletes(i) ==
    /\ Live(i) /\ user'[i].state = "deleted"
    /\ user' \in Table /\ \A j \in Ids \ {i} : user'[j] = user[j]

RowsChange ==
    UNCHANGED user \/ \E i \in Ids : Revokes(i) \/ Creates(i) \/ Deletes(i)

LEMMA TypedRows ==
    ASSUME TypeOK
    PROVE  /\ user \in Table
           /\ \A i \in Ids : /\ user[i] \in Account
                             /\ user[i].version \in Nat /\ user[i].hash \in Nat
BY DEF TypeOK, Table, Account

LEMMA CreateCreates ==
    ASSUME TypeOK, NEW i \in Ids, NEW e \in Emails, NEW role \in Roles,
           NEW must \in BOOLEAN, NEW t \in Times, Create(i, e, role, must, t)
    PROVE  /\ Creates(i)
           /\ user'[i].must = must /\ ~user'[i].disabled
<1> DEFINE row == [state |-> "live", email |-> e, role |-> role,
                   disabled |-> FALSE, must |-> must, hash |-> 0, version |-> t]
<1>1. row \in Account
  BY AccountAssumption DEF Account
<1>2. user' = [user EXCEPT ![i] = row] /\ HasEmail(e) = {} /\ NextId(i)
  BY DEF Create
<1>3. user'[i] = row /\ \A j \in Ids \ {i} : user'[j] = user[j]
  BY <1>2, TypedRows DEF Table
<1>4. user' \in Table
  BY <1>1, <1>2, TypedRows DEF Table
<1>5. \A j \in Ids : Live(j) => user[j].email # e
  BY <1>2 DEF HasEmail
<1> QED
  BY <1>2, <1>3, <1>4, <1>5 DEF Creates, NextId

LEMMA DeleteDeletes ==
    ASSUME TypeOK, NEW r \in Requests, NEW i \in Ids, DeleteAccount(r, i)
    PROVE  Deletes(i)
<1> DEFINE row == [Unused EXCEPT !.state = "deleted", !.email = user[i].email]
<1>1. user' = [user EXCEPT ![i] = row] /\ Live(i)
  BY DEF DeleteAccount
<1>2. user[i].email \in Emails \cup {NoEmail}
  BY DEF TypeOK, Account
<1>3. row \in Account /\ row.state = "deleted"
  BY <1>2 DEF Unused, Account, Roles
<1>4. user' \in Table /\ user'[i] = row
  BY <1>1, <1>3, TypedRows DEF Table
<1>5. \A j \in Ids \ {i} : user'[j] = user[j]
  BY <1>1, TypedRows DEF Table
<1> QED
  BY <1>1, <1>3, <1>4, <1>5 DEF Deletes

\* The two transactions of one request: a role, then the disabled flag.
LEMMA ChangeRevises ==
    ASSUME TypeOK, NEW r \in Requests, NEW i \in Ids, NEW role \in Roles,
           NEW disabled \in BOOLEAN, NEW t \in Times,
           ChangeAccount(r, i, role, disabled, t)
    PROVE  /\ UNCHANGED user \/ Revokes(i)
           /\ user'[i].must = user[i].must
<1> DEFINE u == WithRole(user, i, role, t)
           w == WithDisabled(u, i, disabled, t)
<1>1. Live(i) /\ (user' = u \/ user' = w)
  BY DEF ChangeAccount
<1>2. /\ u = user \/ Revised(user, u, i)
      /\ u \in Table /\ u[i].must = user[i].must
  BY TypedRows, RoleRevises
<1>3. Revised(u, w, i) /\ w[i].must = u[i].must
  BY <1>2, DisabledRevises
<1>4. w \in Table
  BY <1>3 DEF Revised
<1> HIDE DEF u, w
<1>5. Revised(user, w, i)
  BY <1>2, <1>3, <1>4, TypedRows, RevisedTwice
<1> QED
  BY <1>1, <1>2, <1>3, <1>5 DEF Revokes

LEMMA RotationRevises ==
    ASSUME TypeOK, ActorsKnown, NEW r \in Requests, NEW t \in Times,
           FinishRotation(r, t)
    PROVE  \/ UNCHANGED user
           \/ /\ Revokes(req[r].actor) /\ req[r].actor \in Ids
              /\ StillCurrent(req[r].actor, req[r].cred)
              /\ user' = WithPassword(user, req[r].actor, FALSE, t)
<1> DEFINE i == req[r].actor
<1> SUFFICES ASSUME ~UNCHANGED user
             PROVE  /\ Revokes(i) /\ i \in Ids
                    /\ StillCurrent(i, req[r].cred)
                    /\ user' = WithPassword(user, i, FALSE, t)
  OBVIOUS
<1>1. StillCurrent(i, req[r].cred) /\ user' = WithPassword(user, i, FALSE, t)
  BY DEF FinishRotation
<1>2. i \in Ids
  BY DEF FinishRotation, ActorsKnown
<1> QED
  BY <1>1, <1>2, TypedRows, PasswordRevises DEF Revokes, StillCurrent

LEMMA AdministerRows ==
    ASSUME TypeOK, NEW r \in Requests, NEW t \in Times, Administer(r, t)
    PROVE  RowsChange
<1>1. CASE CreateAccount(r, t)
  <2>1. PICK i \in Ids, e \in Emails, role \in Roles : Create(i, e, role, TRUE, t)
    BY <1>1 DEF CreateAccount
  <2> QED
    BY <2>1, CreateCreates DEF RowsChange
<1>2. ASSUME NEW i \in Ids, ResetPassword(r, i, t)
      PROVE  RowsChange
  BY <1>2, TypedRows, PasswordRevises DEF ResetPassword, RowsChange, Revokes
<1>3. ASSUME NEW i \in Ids, DeleteAccount(r, i)
      PROVE  RowsChange
  BY <1>3, DeleteDeletes DEF RowsChange
<1>4. ASSUME NEW i \in Ids, NEW role \in Roles, NEW disabled \in BOOLEAN,
             ChangeAccount(r, i, role, disabled, t)
      PROVE  RowsChange
  BY <1>4, ChangeRevises DEF RowsChange
<1> QED
  BY <1>1, <1>2, <1>3, <1>4 DEF Administer

LEMMA OperatorRows ==
    ASSUME TypeOK, NEW t \in Times,
           \/ \E e \in Emails : SetUpPassword(e, t) \/ SetUpCreate(e, t)
           \/ SetUpEnable(t)
    PROVE  RowsChange
<1>1. ASSUME NEW e \in Emails, SetUpPassword(e, t)
      PROVE  RowsChange
  <2>1. PICK i \in HasEmail(e) : user' = WithPassword(user, i, FALSE, t)
    BY <1>1 DEF SetUpPassword
  <2>2. i \in Ids /\ Live(i)
    BY DEF HasEmail
  <2> QED
    BY <2>1, <2>2, TypedRows, PasswordRevises DEF RowsChange, Revokes
<1>2. ASSUME NEW e \in Emails, SetUpCreate(e, t)
      PROVE  RowsChange
  <2>1. PICK i \in Ids : Create(i, e, "admin", FALSE, t)
    BY <1>2 DEF SetUpCreate
  <2> QED
    BY <2>1, CreateCreates DEF RowsChange, Roles
<1>3. CASE SetUpEnable(t)
  <2>1. operator \in Ids
    BY <1>3 DEF SetUpEnable, TypeOK
  <2> QED
    BY <1>3, <2>1, TypedRows, DisabledRevises
    DEF SetUpEnable, RowsChange, Revokes
<1> QED
  BY <1>1, <1>2, <1>3

\* Accounts are created, deleted for good, or changed with their watermark.
LEMMA RowsStep ==
    ASSUME TypeOK, ActorsKnown, [Next]_vars
    PROVE  RowsChange
<1>1. ASSUME NEW r \in Requests, NEW b \in Browsers,
             \/ CheckSession(r, b) \/ Logout(r, b) \/ StartLogin(r, b)
             \/ BeginRotation(r, b) \/ BeginAdmin(r, b)
      PROVE  RowsChange
  BY <1>1 DEF CheckSession, Logout, StartLogin, BeginRotation, BeginAdmin,
              RowsChange
<1>2. ASSUME NEW r \in Requests,
             Reply(r) \/ Drop(r) \/ FinishLogin(r) \/ StartRotation(r)
      PROVE  RowsChange
  BY <1>2 DEF Reply, Drop, FinishLogin, StartRotation, RowsChange
<1>3. ASSUME NEW r \in Requests, NEW t \in Times, FinishRotation(r, t)
      PROVE  RowsChange
  BY <1>3, RotationRevises DEF RowsChange
<1>4. CASE UNCHANGED vars
  BY <1>4 DEF vars, RowsChange
<1> QED
  BY <1>1, <1>2, <1>3, <1>4, AdministerRows, OperatorRows DEF Next

-------------------------------------------------------------------------------
\* What a cookie read before a step is worth after it.

LEMMA SoundKept ==
    ASSUME TypeOK, RowsChange, NEW c \in Cookies \cup Credentials, Sound(c)
    PROVE  Sound(c)'
<1> SUFFICES ASSUME c.id # NoOne
             PROVE  /\ user'[c.id].state # "none"
                    /\ user'[c.id].state = "live" =>
                         /\ c.version <= user'[c.id].version
                         /\ c.version = user'[c.id].version =>
                              c.hash = user'[c.id].hash
  BY DEF Sound, Live
<1>1. c.id \in Ids /\ c.version \in Nat
  BY DEF Cookies, Credentials
<1>2. /\ user[c.id].state # "none"
      /\ Live(c.id) => /\ c.version <= user[c.id].version
                       /\ c.version = user[c.id].version =>
                            c.hash = user[c.id].hash
  BY DEF Sound
<1>3. CASE user'[c.id] = user[c.id]
  BY <1>2, <1>3 DEF Live
<1>4. CASE user'[c.id] # user[c.id]
  <2>1. Revokes(c.id) \/ Creates(c.id) \/ Deletes(c.id)
    BY <1>1, <1>4 DEF RowsChange, Revokes, Creates, Deletes, Revised
  <2>2. CASE Revokes(c.id)
    <3>1. user[c.id].version \in Nat /\ user'[c.id].version \in Nat
      BY <1>1, <2>2, TypedRows DEF Revokes, Revised, Table, Account
    <3> QED
      BY <1>1, <1>2, <2>2, <3>1 DEF Revokes, Revised, Live
  <2> QED
    BY <1>2, <2>1, <2>2 DEF Creates, Deletes
<1> QED
  BY <1>3, <1>4

\* A session that acts after a step acted before it, and its account is none
\* of those the step revoked or deleted.
LEMMA ValidKept ==
    ASSUME TypeOK, RowsChange, NEW c \in Cookies, Sound(c), LegacyIsOldest(c),
           Valid(c)'
    PROVE  /\ Valid(c)
           /\ c.id \in Ids /\ user'[c.id] = user[c.id]
<1>1. c.id \in Ids /\ c.version \in Nat /\ c.id # NoOne
  BY DEF Cookies, Valid, Ids, NoOne
<1>2. user'[c.id].state = "live" /\ user[c.id].state # "none"
  BY <1>1 DEF Valid, Live, Sound
<1>3. ~Revokes(c.id)
  <2> SUFFICES ASSUME Revokes(c.id)
               PROVE  FALSE
    OBVIOUS
  <2>1. user[c.id].version \in Nat /\ user'[c.id].version \in Nat
    BY <1>1, TypedRows DEF Revokes, Revised, Table, Account
  <2>2. c.version < user'[c.id].version
    BY <1>1, <2>1 DEF Revokes, Revised, Sound
  <2>3. user'[c.id].version # 0
    BY <1>1, <2>1, <2>2
  <2> QED
    BY <1>1, <2>1, <2>2, <2>3 DEF Valid
<1>4. user'[c.id] = user[c.id]
  BY <1>1, <1>2, <1>3
  DEF RowsChange, Revokes, Creates, Deletes, Revised
<1> QED
  BY <1>1, <1>4 DEF Valid, Live

-------------------------------------------------------------------------------
\* Requests and cookies: all that a step hands on was read from the rows.

KnowsActor(q) == q.pc \in {"form", "rotate", "body"} => q.actor \in Ids

Carried(q) ==
    /\ q \in InFlight
    /\ Sound(q.set) /\ LegacyIsOldest(q.set) /\ Sound(q.cred)
    /\ KnowsActor(q)

LEMMA NobodyIsSound ==
    /\ \A c \in {NoCookie, Keep, NoCredential} : Sound(c)
    /\ LegacyIsOldest(NoCookie) /\ LegacyIsOldest(Keep)
    /\ NoCookie \in Cookies /\ Keep \in Cookies /\ NoCredential \in Credentials
    /\ Carried(Idle)
<1>1. /\ \A c \in {NoCookie, Keep, NoCredential} : Sound(c)
      /\ LegacyIsOldest(NoCookie) /\ LegacyIsOldest(Keep)
  BY DEF Sound, NoCookie, Keep, NoCredential, LegacyIsOldest
<1>2. NoCookie \in Cookies /\ Keep \in Cookies /\ NoCredential \in Credentials
  BY DEF NoCookie, Keep, NoCredential, Cookies, Credentials
<1>3. (CHOOSE b \in Browsers : TRUE) \in Browsers
  BY AccountAssumption
<1>4. Idle \in InFlight
  BY <1>2, <1>3 DEF Idle, InFlight
<1> QED
  BY <1>1, <1>2, <1>4 DEF Carried, Idle, KnowsActor

LEMMA InFlightCarried ==
    ASSUME IInv, NEW r \in Requests
    PROVE  /\ Carried(req[r])
           /\ req[r].browser \in Browsers
           /\ req[r].set \in Cookies /\ req[r].cred \in Credentials
BY DEF IInv, TypeOK, SessionsSound, ActorsKnown, Carried, KnowsActor, InFlight

\* The version a legacy cookie is stamped with is the watermark nothing moved.
LEMMA StampedIsSound ==
    ASSUME IInv, NEW b \in Browsers, Valid(cookie[b])
    PROVE  LET c == Stamped(cookie[b]) IN
             c \in Cookies /\ Sound(c) /\ LegacyIsOldest(c)
<1> DEFINE c == cookie[b]
<1>1. c \in Cookies /\ Sound(c) /\ LegacyIsOldest(c)
  BY DEF IInv, TypeOK, SessionsSound
<1>2. CASE ~c.legacy
  BY <1>2, NobodyIsSound DEF Stamped
<1>3. CASE c.legacy
  <2>1. c.id \in Ids /\ user[c.id].version = 0 /\ c.version = 0
    BY <1>1, <1>3 DEF Valid, LegacyIsOldest
  <2>2. Stamped(c) = [c EXCEPT !.version = 0, !.legacy = FALSE]
    BY <1>3, <2>1 DEF Stamped
  <2>3. Stamped(c).id = c.id /\ Stamped(c).version = c.version
        /\ Stamped(c).hash = c.hash /\ ~Stamped(c).legacy
        /\ Stamped(c) \in Cookies
    BY <1>1, <2>1, <2>2 DEF Cookies
  <2> QED
    BY <1>1, <2>3 DEF Sound, LegacyIsOldest
<1> QED
  BY <1>2, <1>3

\* A response carries on what its request held.
LEMMA RespondCarries ==
    ASSUME IInv, NEW r \in Requests, NEW c \in Cookies,
           Sound(c), LegacyIsOldest(c), Respond(r, c)
    PROVE  \A x \in Requests : Carried(req'[x])
<1>1. \A x \in Requests \ {r} : req'[x] = req[x]
  BY DEF Respond, IInv, TypeOK
<1>2. Carried(req'[r])
  <2>1. CASE c = Keep
    BY <2>1, NobodyIsSound DEF Respond, IInv, TypeOK
  <2>2. CASE c # Keep
    <3> DEFINE q == [Idle EXCEPT !.pc = "reply", !.browser = req[r].browser,
                                 !.set = c]
    <3>1. req'[r] = q
      BY <2>2 DEF Respond, IInv, TypeOK
    <3>2. Idle \in InFlight /\ Sound(Idle.cred)
      BY NobodyIsSound DEF Carried
    <3>3. q \in InFlight /\ q.set = c /\ q.cred = Idle.cred /\ q.pc = "reply"
      BY <3>2, InFlightCarried DEF InFlight
    <3> HIDE DEF q
    <3> QED
      BY <3>1, <3>2, <3>3 DEF Carried, KnowsActor
  <2> QED
    BY <2>1, <2>2
<1> QED
  BY <1>1, <1>2, InFlightCarried

\* A request begins, from one that is idle.
LEMMA BeginCarries ==
    ASSUME IInv, NEW r \in Requests, NEW q, Carried(q),
           req' = [req EXCEPT ![r] = q]
    PROVE  \A x \in Requests : Carried(req'[x])
<1>1. \A x \in Requests : req'[x] = IF x = r THEN q ELSE req[x]
  BY DEF IInv, TypeOK
<1> QED
  BY <1>1, InFlightCarried

LEMMA ReadableIsSound ==
    ASSUME IInv, NEW S \in SUBSET Ids, NEW c \in Readable(S)
    PROVE  c \in Credentials /\ Sound(c)
<1>1. CASE c = NoCredential
  BY <1>1, NobodyIsSound
<1>2. ASSUME NEW i \in S, Live(i), c = Credential(i)
      PROVE  c \in Credentials /\ Sound(c)
  <2>1. user[i].version \in Nat /\ user[i].hash \in Nat
    BY TypedRows DEF IInv
  <2> QED
    BY <1>2, <2>1 DEF Credential, Credentials, Sound, Live
<1> QED
  BY <1>1, <1>2 DEF Readable

LEMMA CheckSessionCarries ==
    ASSUME IInv, NEW r \in Requests, NEW b \in Browsers, CheckSession(r, b)
    PROVE  \A x \in Requests : Carried(req'[x])
<1> DEFINE c == IF Valid(cookie[b]) THEN Stamped(cookie[b]) ELSE NoCookie
           q == [Idle EXCEPT !.pc = "reply", !.browser = b, !.set = c]
<1>1. c \in Cookies /\ Sound(c) /\ LegacyIsOldest(c)
  BY StampedIsSound, NobodyIsSound
<1>2. req' = [req EXCEPT ![r] = q]
  BY DEF CheckSession
<1>3. Idle \in InFlight /\ Sound(Idle.cred)
  BY NobodyIsSound DEF Carried
<1> HIDE DEF c
<1>4. q \in InFlight /\ q.set = c /\ q.cred = Idle.cred /\ q.pc = "reply"
  BY <1>1, <1>3 DEF InFlight
<1> HIDE DEF q
<1>5. Carried(q)
  BY <1>1, <1>3, <1>4 DEF Carried, KnowsActor
<1> QED
  BY <1>2, <1>5, BeginCarries

LEMMA LogoutCarries ==
    ASSUME IInv, NEW r \in Requests, NEW b \in Browsers, Logout(r, b)
    PROVE  \A x \in Requests : Carried(req'[x])
<1> DEFINE q == [Idle EXCEPT !.pc = "reply", !.browser = b, !.set = NoCookie]
<1>1. req' = [req EXCEPT ![r] = q]
  BY DEF Logout
<1>2. Idle \in InFlight /\ Sound(Idle.cred)
  BY NobodyIsSound DEF Carried
<1>3. /\ q \in InFlight /\ q.set = NoCookie
      /\ q.cred = Idle.cred /\ q.pc = "reply"
  BY <1>2, NobodyIsSound DEF InFlight
<1> HIDE DEF q
<1>4. Carried(q)
  BY <1>2, <1>3, NobodyIsSound DEF Carried, KnowsActor
<1> QED
  BY <1>1, <1>4, BeginCarries

LEMMA StartLoginCarries ==
    ASSUME IInv, NEW r \in Requests, NEW b \in Browsers, StartLogin(r, b)
    PROVE  \A x \in Requests : Carried(req'[x])
<1>1. PICK c \in Readable(Ids) :
        req' = [req EXCEPT ![r] = [Idle EXCEPT !.pc = "login", !.browser = b,
                                               !.cred = c]]
  BY DEF StartLogin
<1>2. c \in Credentials /\ Sound(c)
  BY ReadableIsSound
<1> DEFINE q == [Idle EXCEPT !.pc = "login", !.browser = b, !.cred = c]
<1>3. Idle \in InFlight /\ Sound(Idle.set) /\ LegacyIsOldest(Idle.set)
  BY NobodyIsSound DEF Carried
<1>4. q \in InFlight /\ q.set = Idle.set /\ q.cred = c /\ q.pc = "login"
  BY <1>2, <1>3 DEF InFlight
<1>5. req' = [req EXCEPT ![r] = q]
  BY <1>1
<1> HIDE DEF q
<1>6. Carried(q)
  BY <1>2, <1>3, <1>4 DEF Carried, KnowsActor
<1> QED
  BY <1>5, <1>6, BeginCarries

LEMMA BeginRotationCarries ==
    ASSUME IInv, NEW r \in Requests, NEW b \in Browsers, BeginRotation(r, b)
    PROVE  \A x \in Requests : Carried(req'[x])
<1> DEFINE c == Stamped(cookie[b])
           i == cookie[b].id
           q == [Idle EXCEPT !.pc = "form", !.browser = b, !.actor = i,
                             !.set = c]
<1>1. c \in Cookies /\ Sound(c) /\ LegacyIsOldest(c) /\ i \in Ids
  BY StampedIsSound DEF BeginRotation, Valid
<1>2. req' = [req EXCEPT ![r] = q]
  BY DEF BeginRotation
<1>3. Idle \in InFlight /\ Sound(Idle.cred)
  BY NobodyIsSound DEF Carried
<1> HIDE DEF c, i
<1>4. q \in InFlight /\ q.set = c /\ q.cred = Idle.cred /\ q.actor = i
  BY <1>1, <1>3 DEF InFlight
<1> HIDE DEF q
<1>5. Carried(q)
  BY <1>1, <1>3, <1>4 DEF Carried, KnowsActor
<1> QED
  BY <1>2, <1>5, BeginCarries

LEMMA BeginAdminCarries ==
    ASSUME IInv, NEW r \in Requests, NEW b \in Browsers, BeginAdmin(r, b)
    PROVE  \A x \in Requests : Carried(req'[x])
<1> DEFINE c == Stamped(cookie[b])
           i == cookie[b].id
           q == [Idle EXCEPT !.pc = "body", !.browser = b, !.actor = i,
                             !.set = c]
<1>1. c \in Cookies /\ Sound(c) /\ LegacyIsOldest(c) /\ i \in Ids
  BY StampedIsSound DEF BeginAdmin, Valid
<1>2. req' = [req EXCEPT ![r] = q]
  BY DEF BeginAdmin
<1>3. Idle \in InFlight /\ Sound(Idle.cred)
  BY NobodyIsSound DEF Carried
<1> HIDE DEF c, i
<1>4. q \in InFlight /\ q.set = c /\ q.cred = Idle.cred /\ q.actor = i
  BY <1>1, <1>3 DEF InFlight
<1> HIDE DEF q
<1>5. Carried(q)
  BY <1>1, <1>3, <1>4 DEF Carried, KnowsActor
<1> QED
  BY <1>2, <1>5, BeginCarries

LEMMA EndCarries ==
    ASSUME IInv, NEW r \in Requests, Reply(r) \/ Drop(r)
    PROVE  \A x \in Requests : Carried(req'[x])
<1>1. req' = [req EXCEPT ![r] = Idle]
  BY DEF Reply, Drop
<1>2. \A x \in Requests : req'[x] = IF x = r THEN Idle ELSE req[x]
  BY <1>1 DEF IInv, TypeOK
<1> QED
  BY <1>2, NobodyIsSound, InFlightCarried

LEMMA SessionForIsSound ==
    ASSUME IInv, NEW r \in Requests
    PROVE  LET c == SessionFor(req[r].cred) IN
             c \in Cookies /\ Sound(c) /\ LegacyIsOldest(c)
<1>1. req[r].cred \in Credentials /\ Sound(req[r].cred)
  BY InFlightCarried DEF Carried
<1> QED
  BY <1>1 DEF SessionFor, Credentials, Cookies, Sound, LegacyIsOldest

LEMMA FinishLoginCarries ==
    ASSUME IInv, NEW r \in Requests, FinishLogin(r)
    PROVE  \A x \in Requests : Carried(req'[x])
<1>1. PICK c \in {Keep, SessionFor(req[r].cred)} : Respond(r, c)
  BY DEF FinishLogin
<1>2. c \in Cookies /\ Sound(c) /\ LegacyIsOldest(c)
  BY NobodyIsSound, SessionForIsSound
<1> QED
  BY <1>1, <1>2, RespondCarries

LEMMA StartRotationCarries ==
    ASSUME IInv, NEW r \in Requests, StartRotation(r)
    PROVE  \A x \in Requests : Carried(req'[x])
<1>1. PICK c \in Readable(HasEmail(user[req[r].actor].email)) :
        req' = [req EXCEPT ![r].pc = "rotate", ![r].cred = c]
  BY DEF StartRotation
<1>2. HasEmail(user[req[r].actor].email) \in SUBSET Ids
  BY DEF HasEmail
<1>3. c \in Credentials /\ Sound(c)
  BY <1>2, ReadableIsSound
<1>4. /\ Carried(req[r])
      /\ req[r].pc = "form"
  BY InFlightCarried DEF StartRotation
<1>5. \A x \in Requests \ {r} : req'[x] = req[x]
  BY <1>1 DEF IInv, TypeOK
<1>6. req'[r] = [req[r] EXCEPT !.pc = "rotate", !.cred = c]
  BY <1>1 DEF IInv, TypeOK, InFlight
<1>7. Carried(req'[r])
  BY <1>3, <1>4, <1>6 DEF Carried, InFlight, KnowsActor
<1> QED
  BY <1>5, <1>7, InFlightCarried

LEMMA MutationCarries ==
    ASSUME IInv, NEW r \in Requests, NEW t \in Times,
           FinishRotation(r, t) \/ Administer(r, t)
    PROVE  \A x \in Requests : Carried(req'[x])
<1>1. PICK c \in {NoCookie, req[r].set} : Respond(r, c)
  BY DEF FinishRotation, Administer, CreateAccount, ResetPassword,
         DeleteAccount, ChangeAccount
<1>2. c \in Cookies /\ Sound(c) /\ LegacyIsOldest(c)
  BY NobodyIsSound, InFlightCarried DEF Carried
<1> QED
  BY <1>1, <1>2, RespondCarries

LEMMA RequestsStep ==
    ASSUME IInv, [Next]_vars
    PROVE  \A x \in Requests : Carried(req'[x])
<1>1. ASSUME UNCHANGED req
      PROVE  \A x \in Requests : Carried(req'[x])
  BY <1>1, InFlightCarried
<1>2. ASSUME NEW t \in Times,
             \/ \E e \in Emails : SetUpPassword(e, t) \/ SetUpCreate(e, t)
             \/ SetUpEnable(t)
      PROVE  UNCHANGED req
  BY <1>2 DEF SetUpPassword, SetUpCreate, SetUpEnable
<1> QED
  BY <1>1, <1>2, CheckSessionCarries, LogoutCarries, StartLoginCarries,
     BeginRotationCarries, BeginAdminCarries, EndCarries, FinishLoginCarries,
     StartRotationCarries, MutationCarries
  DEF Next, vars

\* A browser's cookie changes only by a response to one of its requests.
LEMMA CookiesStep ==
    ASSUME IInv, [Next]_vars
    PROVE  \/ UNCHANGED cookie
           \/ \E r \in Requests :
                /\ Reply(r)
                /\ cookie' = [cookie EXCEPT ![req[r].browser] = req[r].set]
<1>1. ASSUME NEW r \in Requests, NEW b \in Browsers,
             \/ CheckSession(r, b) \/ Logout(r, b) \/ StartLogin(r, b)
             \/ BeginRotation(r, b) \/ BeginAdmin(r, b)
      PROVE  UNCHANGED cookie
  BY <1>1 DEF CheckSession, Logout, StartLogin, BeginRotation, BeginAdmin
<1>2. ASSUME NEW r \in Requests, Drop(r) \/ FinishLogin(r) \/ StartRotation(r)
      PROVE  UNCHANGED cookie
  BY <1>2 DEF Drop, FinishLogin, StartRotation
<1>3. ASSUME NEW r \in Requests, NEW t \in Times,
             FinishRotation(r, t) \/ Administer(r, t)
      PROVE  UNCHANGED cookie
  BY <1>3 DEF FinishRotation, Administer, CreateAccount, ResetPassword,
              DeleteAccount, ChangeAccount
<1>4. ASSUME NEW t \in Times,
             \/ \E e \in Emails : SetUpPassword(e, t) \/ SetUpCreate(e, t)
             \/ SetUpEnable(t)
      PROVE  UNCHANGED cookie
  BY <1>4 DEF SetUpPassword, SetUpCreate, SetUpEnable
<1>5. ASSUME NEW r \in Requests, Reply(r)
      PROVE  cookie' = [cookie EXCEPT ![req[r].browser] = req[r].set]
  BY <1>5 DEF Reply
<1> QED
  BY <1>1, <1>2, <1>3, <1>4, <1>5 DEF Next, vars

LEMMA RequestsStayFunction ==
    ASSUME TypeOK, [Next]_vars
    PROVE  req' = [x \in Requests |-> req'[x]]
<1>1. \A r \in Requests : \A q :
        req' = [req EXCEPT ![r] = q] => req' = [x \in Requests |-> req'[x]]
  BY DEF TypeOK
<1>2. ASSUME UNCHANGED req
      PROVE  req' = [x \in Requests |-> req'[x]]
  BY <1>2 DEF TypeOK
<1>3. ASSUME NEW r \in Requests, NEW c, Respond(r, c)
      PROVE  req' = [x \in Requests |-> req'[x]]
  BY <1>1, <1>3 DEF Respond
<1>4. ASSUME NEW r \in Requests, NEW b \in Browsers,
             \/ CheckSession(r, b) \/ Logout(r, b) \/ StartLogin(r, b)
             \/ BeginRotation(r, b) \/ BeginAdmin(r, b)
      PROVE  req' = [x \in Requests |-> req'[x]]
  BY <1>1, <1>4, Zenon
  DEF CheckSession, Logout, StartLogin, BeginRotation, BeginAdmin
<1>5. ASSUME NEW r \in Requests, Reply(r) \/ Drop(r)
      PROVE  req' = [x \in Requests |-> req'[x]]
  BY <1>1, <1>5 DEF Reply, Drop
<1>6. ASSUME NEW r \in Requests, FinishLogin(r)
      PROVE  req' = [x \in Requests |-> req'[x]]
  BY <1>3, <1>6 DEF FinishLogin
<1>7. ASSUME NEW r \in Requests, StartRotation(r)
      PROVE  req' = [x \in Requests |-> req'[x]]
  BY <1>7 DEF StartRotation, TypeOK
<1>8. ASSUME NEW r \in Requests, NEW t \in Times,
             FinishRotation(r, t) \/ Administer(r, t)
      PROVE  req' = [x \in Requests |-> req'[x]]
  <2>1. \E c : Respond(r, c)
    BY <1>8, Zenon DEF FinishRotation, Administer, CreateAccount,
         ResetPassword, DeleteAccount, ChangeAccount
  <2> QED
    BY <1>3, <2>1
<1>9. ASSUME NEW t \in Times,
             \/ \E e \in Emails : SetUpPassword(e, t) \/ SetUpCreate(e, t)
             \/ SetUpEnable(t)
      PROVE  UNCHANGED req
  BY <1>9 DEF SetUpPassword, SetUpCreate, SetUpEnable
<1> QED
  BY <1>2, <1>4, <1>5, <1>6, <1>7, <1>8, <1>9 DEF Next, vars

-------------------------------------------------------------------------------
\* An Admin who can sign in remains.

\* It is enough that the account that changes stays one, or that it may be
\* lost.
LEMMA AnotherRemains ==
    ASSUME TypeOK, AdminRemains, NEW i \in Ids,
           \A j \in Ids \ {i} : user'[j] = user[j],
           ActiveAdmin(user', i) \/ MayLose(user, i)
    PROVE  AdminRemains'
BY DEF AdminRemains, ActiveAdmin, MayLose

LEMMA PasswordKeepsAdmin ==
    ASSUME TypeOK, AdminRemains, NEW i \in Ids, NEW must \in BOOLEAN,
           NEW t \in Times, user' = WithPassword(user, i, must, t)
    PROVE  AdminRemains'
<1>1. /\ \A j \in Ids \ {i} : user'[j] = user[j]
      /\ user'[i].role = user[i].role /\ user'[i].disabled = user[i].disabled
      /\ user'[i].state = user[i].state
  BY TypedRows, PasswordRevises DEF Revised
<1> QED
  BY <1>1 DEF AdminRemains, ActiveAdmin

LEMMA CreateKeepsAdmin ==
    ASSUME TypeOK, AdminRemains, NEW i \in Ids, Creates(i)
    PROVE  AdminRemains'
BY DEF AdminRemains, ActiveAdmin, Creates

LEMMA ChangeKeepsAdmin ==
    ASSUME TypeOK, AdminRemains, NEW r \in Requests, NEW i \in Ids,
           NEW role \in Roles, NEW disabled \in BOOLEAN, NEW t \in Times,
           ChangeAccount(r, i, role, disabled, t)
    PROVE  AdminRemains'
<1> DEFINE u == WithRole(user, i, role, t)
           w == WithDisabled(u, i, disabled, t)
<1>1. /\ u = user \/ Revised(user, u, i)
      /\ u \in Table /\ u[i].role = role
      /\ u[i].disabled = user[i].disabled /\ u[i].state = user[i].state
  BY TypedRows, RoleRevises
<1>2. /\ Revised(u, w, i) /\ w[i].role = role
      /\ w[i].disabled = disabled /\ w[i].state = user[i].state
  BY <1>1, DisabledRevises DEF Revised
<1>3. /\ RoleAllowed(user, i, role)
      /\ user' = IF disabled # user[i].disabled /\ (disabled => MayLose(u, i))
                 THEN w ELSE u
  BY DEF ChangeAccount
<1>4. user[i].role = role => u = user
  BY DEF WithRole
<1> HIDE DEF u, w
<1>5. \A j \in Ids \ {i} : user'[j] = user[j]
  BY <1>1, <1>2, <1>3 DEF Revised
<1>6. ActiveAdmin(user', i) \/ MayLose(user, i)
  <2>1. CASE user[i].role # role
    <3>1. role = "admin" \/ MayLose(user, i)
      BY <1>3, <2>1 DEF RoleAllowed
    <3>2. CASE role = "admin"
      BY <1>1, <1>2, <1>3, <2>1, <3>2 DEF ActiveAdmin, MayLose
    <3> QED
      BY <3>1, <3>2
  <2>2. CASE user[i].role = role
    BY <1>1, <1>2, <1>3, <1>4, <2>2 DEF ActiveAdmin, MayLose
  <2> QED
    BY <2>1, <2>2
<1> QED
  BY <1>5, <1>6, AnotherRemains

LEMMA DeleteKeepsAdmin ==
    ASSUME TypeOK, AdminRemains, NEW r \in Requests, NEW i \in Ids,
           DeleteAccount(r, i)
    PROVE  AdminRemains'
<1>1. MayLose(user, i) /\ \A j \in Ids \ {i} : user'[j] = user[j]
  BY DeleteDeletes DEF DeleteAccount, Deletes
<1> QED
  BY <1>1, AnotherRemains

LEMMA AdminStep ==
    ASSUME TypeOK, ActorsKnown, AdminRemains, [Next]_vars
    PROVE  AdminRemains'
<1>1. ASSUME UNCHANGED user
      PROVE  AdminRemains'
  BY <1>1 DEF AdminRemains, ActiveAdmin
<1>2. ASSUME NEW r \in Requests, NEW b \in Browsers,
             \/ CheckSession(r, b) \/ Logout(r, b) \/ StartLogin(r, b)
             \/ BeginRotation(r, b) \/ BeginAdmin(r, b)
      PROVE  UNCHANGED user
  BY <1>2 DEF CheckSession, Logout, StartLogin, BeginRotation, BeginAdmin
<1>3. ASSUME NEW r \in Requests,
             Reply(r) \/ Drop(r) \/ FinishLogin(r) \/ StartRotation(r)
      PROVE  UNCHANGED user
  BY <1>3 DEF Reply, Drop, FinishLogin, StartRotation
<1>4. ASSUME NEW r \in Requests, NEW t \in Times, FinishRotation(r, t)
      PROVE  AdminRemains'
  BY <1>1, <1>4, RotationRevises, PasswordKeepsAdmin
<1>5. ASSUME NEW r \in Requests, NEW t \in Times, CreateAccount(r, t)
      PROVE  AdminRemains'
  BY <1>5, CreateCreates, CreateKeepsAdmin DEF CreateAccount
<1>6. ASSUME NEW r \in Requests, NEW t \in Times, NEW i \in Ids,
             ResetPassword(r, i, t)
      PROVE  AdminRemains'
  BY <1>6, PasswordKeepsAdmin DEF ResetPassword
<1>7. ASSUME NEW e \in Emails, NEW t \in Times, SetUpPassword(e, t)
      PROVE  AdminRemains'
  BY <1>7, PasswordKeepsAdmin DEF SetUpPassword, HasEmail
<1>8. ASSUME NEW e \in Emails, NEW t \in Times, SetUpCreate(e, t)
      PROVE  AdminRemains'
  BY <1>8, CreateCreates, CreateKeepsAdmin DEF SetUpCreate, Roles
<1>9. ASSUME NEW t \in Times, SetUpEnable(t)
      PROVE  AdminRemains'
  <2>1. operator \in Ids
    BY <1>9 DEF SetUpEnable, TypeOK
  <2>2. CASE user' = WithDisabled(user, operator, FALSE, t)
    <3>1. /\ \A j \in Ids \ {operator} : user'[j] = user[j]
          /\ user'[operator].role = user[operator].role
          /\ ~user'[operator].disabled
          /\ user'[operator].state = user[operator].state
      <4> DEFINE v == WithDisabled(user, operator, FALSE, t)
      <4>1. /\ Revised(user, v, operator)
            /\ v[operator].role = user[operator].role
            /\ v[operator].disabled = FALSE
        BY <2>1, TypedRows, DisabledRevises
      <4> HIDE DEF v
      <4>2. user' = v
        BY <2>2 DEF v
      <4> QED
        BY <4>1, <4>2 DEF Revised
    <3> QED
      BY <2>1, <3>1 DEF AdminRemains, ActiveAdmin
  <2> QED
    BY <1>1, <1>9, <2>2 DEF SetUpEnable
<1> QED
  BY <1>1, <1>2, <1>3, <1>4, <1>5, <1>6, <1>7, <1>8, <1>9,
     ChangeKeepsAdmin, DeleteKeepsAdmin DEF Next, vars, Administer

-------------------------------------------------------------------------------
\* The invariant.

LEMMA FirstAddresses ==
    ASSUME Init
    PROVE  /\ user \in Table
           /\ user[1].state = "live" /\ user[1].role = "admin"
           /\ ~user[1].disabled
           /\ \A i \in Ids : Live(i) => i \in {1, 2}
           /\ user[1].email # user[2].email
           /\ \A i \in {1, 2} : user[i].state = "live" /\ user[i].version = 0
                                /\ user[i].hash = 0
<1>1. PICK e \in [1..2 -> Emails], must \in BOOLEAN :
        /\ e[1] # e[2]
        /\ user = [i \in Ids |->
                     IF i > 2 THEN Unused
                     ELSE [Unused EXCEPT !.state = "live", !.email = e[i],
                             !.role = IF i = 1 THEN "admin" ELSE "member",
                             !.must = must]]
  BY DEF Init
<1>2. 1 \in Ids /\ 2 \in Ids /\ \A i \in Ids : ~(i > 2) => i \in {1, 2}
  BY AccountAssumption DEF Ids
<1>3. Unused \in Account /\ Unused.state = "none"
      /\ Unused.version = 0 /\ Unused.hash = 0 /\ ~Unused.disabled
  BY DEF Unused, Account, Roles
<1>4. \A i \in Ids : i > 2 => user[i] = Unused
  BY <1>1
<1>5. \A i \in {1, 2} :
        /\ user[i] \in Account
        /\ user[i].state = "live" /\ user[i].email = e[i]
        /\ user[i].role = IF i = 1 THEN "admin" ELSE "member"
        /\ user[i].version = 0 /\ user[i].hash = 0 /\ ~user[i].disabled
  <2> SUFFICES ASSUME NEW i \in {1, 2}
               PROVE  /\ user[i] \in Account
                      /\ user[i].state = "live" /\ user[i].email = e[i]
                      /\ user[i].role = IF i = 1 THEN "admin" ELSE "member"
                      /\ user[i].version = 0 /\ user[i].hash = 0
                      /\ ~user[i].disabled
    OBVIOUS
  <2>1. i \in Ids /\ ~(i > 2) /\ e[i] \in Emails
    BY <1>2
  <2> DEFINE role == IF i = 1 THEN "admin" ELSE "member"
  <2>2. role \in Roles
    BY DEF Roles
  <2>3. user[i] = [Unused EXCEPT !.state = "live", !.email = e[i],
                                 !.role = role, !.must = must]
    BY <1>1, <2>1
  <2> HIDE DEF role
  <2>4. /\ user[i] \in Account
        /\ user[i].state = "live" /\ user[i].email = e[i]
        /\ user[i].role = role
        /\ user[i].version = 0 /\ user[i].hash = 0 /\ ~user[i].disabled
    BY <1>3, <2>1, <2>2, <2>3 DEF Account
  <2> QED
    BY <2>4 DEF role
<1>6. \A i \in Ids : user[i] \in Account
  BY <1>2, <1>3, <1>4, <1>5
<1>7. user \in Table
  BY <1>1, <1>6 DEF Table
<1>8. \A i \in Ids : Live(i) => i \in {1, 2}
  BY <1>2, <1>3, <1>4 DEF Live
<1> QED
  BY <1>1, <1>5, <1>7, <1>8

LEMMA AtMostOne ==
    ASSUME NEW S, \A x, y \in S : x = y
    PROVE  Cardinality(S) <= 1
<1>1. CASE S = {}
  BY <1>1, FS_EmptySet
<1>2. ASSUME NEW x \in S
      PROVE  Cardinality(S) <= 1
  <2>1. S = {x}
    BY <1>2
  <2>2. Cardinality(S) = 1
    BY <2>1, FS_Singleton
  <2> QED
    BY <2>2
<1> QED
  BY <1>1, <1>2

LEMMA InitEstablishes == Init => IInv
<1> SUFFICES ASSUME Init
             PROVE  IInv
  OBVIOUS
<1>1. 1 \in Ids /\ 2 \in Ids /\ NoOne \notin Ids
  BY AccountAssumption DEF Ids, NoOne
<1>2. OneAccount
  BY FirstAddresses DEF OneAccount
<1>3. \A r \in Requests : req[r] = Idle
  BY DEF Init
<1>4. \A c \in {NoCookie, Legacy(1), Legacy(2)} :
        c \in Cookies /\ Sound(c) /\ LegacyIsOldest(c)
  <2>1. \A i \in {1, 2} : /\ Legacy(i) \in Cookies /\ Legacy(i).id = i
                          /\ Legacy(i).version = 0 /\ Legacy(i).hash = 0
    BY <1>1 DEF Legacy, Cookies
  <2>2. \A i \in {1, 2} : Sound(Legacy(i)) /\ LegacyIsOldest(Legacy(i))
    BY <2>1, FirstAddresses DEF Sound, LegacyIsOldest
  <2> QED
    BY <2>1, <2>2, NobodyIsSound
<1>5. TypeOK
  <2>1. user \in [Ids -> Account] /\ operator = NoOne
    BY FirstAddresses DEF Table, Init
  <2>2. cookie \in [Browsers -> Cookies]
    BY <1>4 DEF Init
  <2>3. req \in [Requests -> InFlight]
    BY NobodyIsSound DEF Init, Carried
  <2>4. \A e \in Emails : Cardinality(HasEmail(e)) <= 1
    BY <1>2, AtMostOne DEF OneAccount, HasEmail
  <2> QED
    BY <2>1, <2>2, <2>3, <2>4 DEF TypeOK
<1>6. SessionsSound
  BY <1>3, <1>4, NobodyIsSound DEF SessionsSound, Carried, Init
<1>7. ActorsKnown
  BY <1>3, NobodyIsSound DEF ActorsKnown, Idle
<1>8. AdminRemains
  BY <1>1, FirstAddresses DEF AdminRemains, ActiveAdmin
<1> QED
  BY <1>2, <1>5, <1>6, <1>7, <1>8 DEF IInv

LEMMA OneAccountStep ==
    ASSUME IInv, RowsChange
    PROVE  OneAccount'
<1>1. CASE UNCHANGED user
  BY <1>1 DEF IInv, OneAccount, Live
<1>2. ASSUME NEW i \in Ids, Revokes(i)
      PROVE  OneAccount'
  BY <1>2 DEF IInv, OneAccount, Live, Revokes, Revised
<1>3. ASSUME NEW i \in Ids, Creates(i)
      PROVE  OneAccount'
  BY <1>3 DEF IInv, OneAccount, Live, Creates
<1>4. ASSUME NEW i \in Ids, Deletes(i)
      PROVE  OneAccount'
  BY <1>4 DEF IInv, OneAccount, Live, Deletes
<1> QED
  BY <1>1, <1>2, <1>3, <1>4 DEF RowsChange

LEMMA OperatorStep ==
    ASSUME TypeOK, [Next]_vars
    PROVE  operator' \in Ids \cup {NoOne}
<1>1. ASSUME UNCHANGED operator
      PROVE  operator' \in Ids \cup {NoOne}
  BY <1>1 DEF TypeOK
<1>2. ASSUME NEW e \in Emails, NEW t \in Times, SetUpPassword(e, t)
      PROVE  operator' \in Ids \cup {NoOne}
  BY <1>2 DEF SetUpPassword, HasEmail
<1>3. ASSUME NEW t \in Times, SetUpEnable(t)
      PROVE  operator' \in Ids \cup {NoOne}
  BY <1>3 DEF SetUpEnable
<1>4. ASSUME NEW r \in Requests, NEW b \in Browsers,
             \/ CheckSession(r, b) \/ Logout(r, b) \/ StartLogin(r, b)
             \/ BeginRotation(r, b) \/ BeginAdmin(r, b)
      PROVE  UNCHANGED operator
  BY <1>4 DEF CheckSession, Logout, StartLogin, BeginRotation, BeginAdmin
<1>5. ASSUME NEW r \in Requests,
             Reply(r) \/ Drop(r) \/ FinishLogin(r) \/ StartRotation(r)
      PROVE  UNCHANGED operator
  BY <1>5 DEF Reply, Drop, FinishLogin, StartRotation
<1>6. ASSUME NEW r \in Requests, NEW t \in Times,
             FinishRotation(r, t) \/ Administer(r, t)
      PROVE  UNCHANGED operator
  BY <1>6 DEF FinishRotation, Administer, CreateAccount, ResetPassword,
              DeleteAccount, ChangeAccount
<1>7. ASSUME NEW e \in Emails, NEW t \in Times, SetUpCreate(e, t)
      PROVE  UNCHANGED operator
  BY <1>7 DEF SetUpCreate
<1> QED
  BY <1>1, <1>2, <1>3, <1>4, <1>5, <1>6, <1>7 DEF Next, vars

LEMMA StepPreserves == IInv /\ [Next]_vars => IInv'
<1> SUFFICES ASSUME IInv, [Next]_vars
             PROVE  IInv'
  OBVIOUS
<1>1. RowsChange /\ OneAccount' /\ AdminRemains'
  BY RowsStep, OneAccountStep, AdminStep DEF IInv
<1>2. \A r \in Requests : Carried(req'[r])
  BY RequestsStep
<1>3. \A b \in Browsers :
        /\ cookie'[b] \in Cookies
        /\ Sound(cookie'[b]) /\ LegacyIsOldest(cookie'[b])
  <2> SUFFICES ASSUME NEW b \in Browsers
               PROVE  /\ cookie'[b] \in Cookies
                      /\ Sound(cookie'[b]) /\ LegacyIsOldest(cookie'[b])
    OBVIOUS
  <2>1. cookie'[b] = cookie[b] \/ \E r \in Requests : cookie'[b] = req[r].set
    BY CookiesStep DEF IInv, TypeOK
  <2>2. cookie[b] \in Cookies /\ Sound(cookie[b]) /\ LegacyIsOldest(cookie[b])
    BY DEF IInv, TypeOK, SessionsSound
  <2> QED
    BY <2>1, <2>2, InFlightCarried DEF Carried
<1>4. TypeOK'
  <2>1. user' \in [Ids -> Account]
    BY <1>1 DEF RowsChange, Revokes, Revised, Creates, Deletes, Table, IInv, TypeOK
  <2>2. cookie' \in [Browsers -> Cookies]
    BY <1>3, CookiesStep DEF IInv, TypeOK
  <2>3. req' \in [Requests -> InFlight]
    BY <1>2, RequestsStayFunction DEF IInv, Carried
  <2>4. \A e \in Emails : Cardinality(HasEmail(e)') <= 1
    BY <1>1, AtMostOne DEF OneAccount, HasEmail
  <2> QED
    BY <2>1, <2>2, <2>3, <2>4, OperatorStep DEF IInv, TypeOK
<1>5. SessionsSound'
  <2>1. ASSUME NEW b \in Browsers
        PROVE  Sound(cookie[b])' /\ LegacyIsOldest(cookie[b])'
    <3>1. \A c \in Cookies : Sound(c) => Sound(c)'
      BY <1>1, SoundKept DEF IInv
    <3> QED
      BY <1>3, <3>1 DEF LegacyIsOldest, Sound, Live
  <2>2. ASSUME NEW r \in Requests
        PROVE  Sound(req[r].set)' /\ LegacyIsOldest(req[r].set)'
               /\ Sound(req[r].cred)'
    <3>1. \A c \in Cookies \cup Credentials : Sound(c) => Sound(c)'
      BY <1>1, SoundKept DEF IInv
    <3>2. req'[r].set \in Cookies /\ req'[r].cred \in Credentials
      BY <1>2 DEF Carried, InFlight
    <3> QED
      BY <1>2, <3>1, <3>2 DEF Carried, LegacyIsOldest, Sound, Live
  <2> QED
    BY <2>1, <2>2 DEF SessionsSound
<1>6. ActorsKnown'
  BY <1>2 DEF Carried, KnowsActor, ActorsKnown
<1> QED
  BY <1>1, <1>4, <1>5, <1>6 DEF IInv

-------------------------------------------------------------------------------
\* The types of the state, of every row, cookie and request (users/server.ts,
\* lib/session.ts), and that an address names one account: with
\* createUser's look at the address, nothing else can give it to a second one.
THEOREM TypeCorrect == Spec => []TypeOK
<1>1. IInv => TypeOK
  BY DEF IInv
<1> QED
  BY <1>1, InitEstablishes, StepPreserves, PTL DEF Spec

\* One Admin who can sign in always remains, whatever requests demote, disable
\* and delete, in any order and however late (assertNotLastActiveAdmin).
THEOREM AnAdminAlwaysRemains == Spec => []AdminRemains
<1>1. IInv => AdminRemains
  BY DEF IInv
<1> QED
  BY <1>1, InitEstablishes, StepPreserves, PTL DEF Spec

\* A session that getCurrentUser accepts was begun with the password in force:
\* verifyCredentials reads hash and watermark together, and the cookie carries
\* what was read, so a change in between makes it stale before it is written.
THEOREM SessionsAlwaysRestOnPassword == Spec => []SessionsRestOnPassword
<1>1. IInv => SessionsRestOnPassword
  BY DEF IInv, SessionsSound, SessionsRestOnPassword, Sound, LegacyIsOldest,
         Valid, Ids, NoOne
<1> QED
  BY <1>1, InitEstablishes, StepPreserves, PTL DEF Spec

-------------------------------------------------------------------------------
\* The rotation an account owes.

LEMMA PasswordSetsDuty ==
    ASSUME TypeOK, NEW i \in Ids, NEW j \in Ids, NEW must \in BOOLEAN,
           NEW t \in Times, user' = WithPassword(user, j, must, t)
    PROVE  user'[i].must = IF i = j THEN must ELSE user[i].must
BY TypedRows, PasswordRevises DEF Revised

LEMMA DisabledKeepsDuty ==
    ASSUME TypeOK, NEW i \in Ids, NEW j \in Ids, NEW disabled \in BOOLEAN,
           NEW t \in Times, user' = WithDisabled(user, j, disabled, t)
    PROVE  user'[i].must = user[i].must
<1> DEFINE v == WithDisabled(user, j, disabled, t)
<1>1. Revised(user, v, j) /\ v[j].must = user[j].must
  BY TypedRows, DisabledRevises
<1> HIDE DEF v
<1>2. user' = v
  BY DEF v
<1> QED
  BY <1>1, <1>2 DEF Revised

LEMMA RowsKeepDuty ==
    ASSUME TypeOK, [Next]_vars, NEW i \in Ids,
           user[i].must, Live(i), user'[i].state = "live", ~user'[i].must
    PROVE  \/ \E r \in Requests, t \in Times :
                FinishRotation(r, t) /\ user' # user
           \/ \E e \in Emails, t \in Times : SetUpPassword(e, t)
<1> SUFFICES ASSUME ~ \E e \in Emails, t \in Times : SetUpPassword(e, t),
                    ~ \E r \in Requests, t \in Times :
                         FinishRotation(r, t) /\ user' # user
             PROVE  FALSE
  OBVIOUS
<1>1. user' # user
  OBVIOUS
<1>2. ASSUME NEW r \in Requests, NEW b \in Browsers,
             \/ CheckSession(r, b) \/ Logout(r, b) \/ StartLogin(r, b)
             \/ BeginRotation(r, b) \/ BeginAdmin(r, b)
      PROVE  UNCHANGED user
  BY <1>2 DEF CheckSession, Logout, StartLogin, BeginRotation, BeginAdmin
<1>3. ASSUME NEW r \in Requests,
             Reply(r) \/ Drop(r) \/ FinishLogin(r) \/ StartRotation(r)
      PROVE  UNCHANGED user
  BY <1>3 DEF Reply, Drop, FinishLogin, StartRotation
<1>4. ASSUME NEW j \in Ids, Creates(j)
      PROVE  FALSE
  BY <1>4 DEF Creates, Live
<1>5. ASSUME NEW j \in Ids, NEW t \in Times,
             user' = WithPassword(user, j, TRUE, t)
      PROVE  FALSE
  BY <1>5, PasswordSetsDuty
<1>6. ASSUME NEW j \in Ids, NEW t \in Times,
             user' = WithDisabled(user, j, FALSE, t)
      PROVE  FALSE
  BY <1>6, DisabledKeepsDuty
<1>7. ASSUME NEW r \in Requests, NEW t \in Times, CreateAccount(r, t)
      PROVE  FALSE
  BY <1>4, <1>7, CreateCreates DEF CreateAccount
<1>8. ASSUME NEW e \in Emails, NEW t \in Times, SetUpCreate(e, t)
      PROVE  FALSE
  BY <1>4, <1>8, CreateCreates DEF SetUpCreate, Roles
<1>9. ASSUME NEW r \in Requests, NEW t \in Times, NEW j \in Ids,
             ResetPassword(r, j, t)
      PROVE  FALSE
  BY <1>5, <1>9 DEF ResetPassword
<1>10. ASSUME NEW r \in Requests, NEW j \in Ids, DeleteAccount(r, j)
       PROVE  FALSE
  BY <1>10, DeleteDeletes DEF Deletes
<1>11. ASSUME NEW r \in Requests, NEW t \in Times, NEW j \in Ids,
              NEW role \in Roles, NEW disabled \in BOOLEAN,
              ChangeAccount(r, j, role, disabled, t)
       PROVE  FALSE
  BY <1>11, ChangeRevises DEF Revokes, Revised
<1>12. ASSUME NEW t \in Times, SetUpEnable(t)
       PROVE  FALSE
  <2>1. operator \in Ids
    BY <1>12 DEF SetUpEnable, TypeOK
  <2> QED
    BY <1>1, <1>6, <1>12, <2>1 DEF SetUpEnable
<1> QED
  BY <1>1, <1>2, <1>3, <1>7, <1>8, <1>9, <1>10, <1>11, <1>12
  DEF Next, vars, Administer

LEMMA RotationEndsRequest ==
    ASSUME TypeOK, NEW r \in Requests, NEW t \in Times, FinishRotation(r, t)
    PROVE  req[r].pc = "rotate" /\ req'[r].pc # "rotate"
<1>1. PICK c \in {NoCookie, req[r].set} : Respond(r, c)
  BY DEF FinishRotation
<1>2. req'[r].pc \in {"idle", "reply"}
  BY <1>1 DEF Respond, Idle, TypeOK
<1> QED
  BY <1>2 DEF FinishRotation

\* What ends the duty of an account to choose a password is a comparison with
\* the password it has at that moment, or the operator (change-password route,
\* updateUserPasswordIfCurrent): an Admin's reset in between is never undone.
THEOREM RotationsReplaceWhatWasProved == Spec => RotationReplacesWhatWasProved
<1> DEFINE Replaces ==
      \A i \in Ids : user[i].must /\ Live(i) /\ user'[i].state = "live"
                     /\ ~user'[i].must =>
        \/ \E r \in Requests :
             /\ req[r].pc = "rotate" /\ req'[r].pc # "rotate"
             /\ req[r].actor = i
             /\ req[r].cred.id = i /\ req[r].cred.hash = user[i].hash
        \/ \E e \in Emails, t \in Times : SetUpPassword(e, t)
<1>1. IInv /\ [Next]_vars => Replaces
  <2> SUFFICES ASSUME IInv, [Next]_vars, NEW i \in Ids,
                      user[i].must, Live(i), user'[i].state = "live",
                      ~user'[i].must,
                      ~ \E e \in Emails, t \in Times : SetUpPassword(e, t)
               PROVE  \E r \in Requests :
                        /\ req[r].pc = "rotate" /\ req'[r].pc # "rotate"
                        /\ req[r].actor = i
                        /\ req[r].cred.id = i
                        /\ req[r].cred.hash = user[i].hash
    OBVIOUS
  <2>1. PICK r \in Requests, t \in Times : FinishRotation(r, t) /\ user' # user
    BY RowsKeepDuty DEF IInv
  <2>2. /\ Revokes(req[r].actor) /\ req[r].actor \in Ids
        /\ StillCurrent(req[r].actor, req[r].cred)
    BY <2>1, RotationRevises DEF IInv
  <2>3. req[r].actor = i
    BY <2>2 DEF Revokes, Revised
  <2>4. req[r].pc = "rotate" /\ req'[r].pc # "rotate"
    BY <2>1, RotationEndsRequest DEF IInv
  <2> QED
    BY <2>2, <2>3, <2>4 DEF StillCurrent
<1> HIDE DEF Replaces
<1>2. Spec => [][Replaces]_vars
  BY <1>1, InitEstablishes, StepPreserves, PTL DEF Spec
<1> QED
  BY <1>2 DEF Replaces, RotationReplacesWhatWasProved

-------------------------------------------------------------------------------
\* Accounts implement SessionAuthority.

\* Valid and OnItsWay with the rows they look at as a parameter, so that what
\* is carried over a step can be looked at on either side of it.
ValidIn(u, c) ==
    /\ c.id \in Ids
    /\ u[c.id].state = "live" /\ ~u[c.id].disabled
    /\ IF c.legacy THEN u[c.id].version = 0 ELSE c.version = u[c.id].version

Bears(u, q, x) ==
    /\ q.browser = x[1]
    /\ \/ q.pc # "idle" /\ q.set.id = x[2] /\ ValidIn(u, q.set)
       \/ q.pc = "login" /\ q.cred.id = x[2] /\ ValidIn(u, SessionFor(q.cred))

Way(u, q) == {x \in Browsers \X Ids : \E r \in Requests : Bears(u, q[r], x)}

LEMMA WayIs ==
    /\ OnItsWay = Way(user, req)
    /\ OnItsWay' = Way(user', req')
    /\ Acting = {x \in Browsers \X Ids :
                   cookie[x[1]].id = x[2] /\ ValidIn(user, cookie[x[1]])}
    /\ Acting' = {x \in Browsers \X Ids :
                    cookie'[x[1]].id = x[2] /\ ValidIn(user', cookie'[x[1]])}
BY DEF OnItsWay, Acting, Way, Bears, ValidIn, Valid, Live, SessionFor

LEMMA ValidInKept ==
    ASSUME TypeOK, RowsChange
    PROVE  \A c \in Cookies :
             Sound(c) /\ LegacyIsOldest(c) /\ ValidIn(user', c) =>
               ValidIn(user, c) /\ user'[c.id] = user[c.id]
<1> SUFFICES ASSUME NEW c \in Cookies, Sound(c), LegacyIsOldest(c),
                    ValidIn(user', c)
             PROVE  ValidIn(user, c) /\ user'[c.id] = user[c.id]
  OBVIOUS
<1>1. Valid(c)'
  BY DEF Valid, ValidIn, Live
<1> QED
  BY <1>1, ValidKept DEF Valid, ValidIn, Live

\* A session that is on its way after a step was so before, from what the
\* request now carries, and its account was not touched.
LEMMA BearsKept ==
    ASSUME TypeOK, RowsChange
    PROVE  \A q, x : Carried(q) /\ Bears(user', q, x) =>
             Bears(user, q, x) /\ user'[x[2]] = user[x[2]]
<1> SUFFICES ASSUME NEW q, NEW x, Carried(q), Bears(user', q, x)
             PROVE  Bears(user, q, x) /\ user'[x[2]] = user[x[2]]
  OBVIOUS
<1>1. q.set \in Cookies /\ Sound(q.set) /\ LegacyIsOldest(q.set)
  BY DEF Carried, InFlight
<1>2. LET c == SessionFor(q.cred) IN
        c \in Cookies /\ Sound(c) /\ LegacyIsOldest(c) /\ c.id = q.cred.id
  BY DEF Carried, InFlight, SessionFor, Credentials, Cookies, Sound,
         LegacyIsOldest
<1> QED
  BY <1>1, <1>2, ValidInKept DEF Bears

LEMMA ActingKept ==
    ASSUME IInv, RowsChange, UNCHANGED cookie
    PROVE  Acting' = {x \in Acting : user'[x[2]] = user[x[2]]}
<1>1. \A b \in Browsers : cookie[b] \in Cookies /\ Sound(cookie[b])
                          /\ LegacyIsOldest(cookie[b])
  BY DEF IInv, TypeOK, SessionsSound
<1>2. \A x \in Browsers \X Ids :
        cookie[x[1]].id = x[2] =>
          (ValidIn(user', cookie[x[1]]) <=>
             ValidIn(user, cookie[x[1]]) /\ user'[x[2]] = user[x[2]])
  BY <1>1, ValidInKept DEF IInv, ValidIn
<1> QED
  BY <1>2, WayIs

\* Nothing but the rows: what is on its way may shrink, and every session of
\* an account that was touched ends.
LEMMA RowsImplement ==
    ASSUME IInv, [Next]_vars, UNCHANGED cookie,
           OnItsWay' \subseteq {x \in OnItsWay : user'[x[2]] = user[x[2]]}
    PROVE  Authority!Next
<1>1. RowsChange
  BY RowsStep DEF IInv
<1>2. Acting' = {x \in Acting : user'[x[2]] = user[x[2]]}
  BY <1>1, ActingKept
<1>3. CASE UNCHANGED user
  <2>1. Authority!Forget
    BY <1>2, <1>3 DEF Authority!Forget
  <2> QED
    BY <2>1 DEF Authority!Next
<1>4. ASSUME NEW i \in Ids, Creates(i)
      PROVE  Authority!Next
  <2>1. \A x \in Acting : x[2] # i /\ x[2] \in Ids
    BY <1>4, WayIs DEF Creates, ValidIn
  <2>2. \A x \in Acting : user'[x[2]] = user[x[2]]
    BY <1>4, <2>1 DEF Creates
  <2>3. Authority!Forget
    BY <1>2, <2>2 DEF Authority!Forget
  <2> QED
    BY <2>3 DEF Authority!Next
<1>5. ASSUME NEW i \in Ids, Revokes(i) \/ Deletes(i)
      PROVE  Authority!Next
  <2>1. user'[i] # user[i] /\ \A j \in Ids \ {i} : user'[j] = user[j]
    <3>1. user[i].version \in Nat
      BY TypedRows DEF IInv
    <3> QED
      BY <1>5, <3>1 DEF Revokes, Deletes, Revised, Live
  <2>2. \A x \in Acting \cup OnItsWay : x[2] \in Ids
    BY WayIs DEF Way
  <2>3. Acting' = Authority!Without(Acting, i)
    BY <1>2, <2>1, <2>2 DEF Authority!Without
  <2>4. OnItsWay' \subseteq Authority!Without(OnItsWay, i)
    BY <2>1, <2>2 DEF Authority!Without
  <2>5. Authority!Revoke(i)
    BY <2>3, <2>4 DEF Authority!Revoke
  <2> QED
    BY <2>5 DEF Authority!Next
<1> QED
  BY <1>1, <1>3, <1>4, <1>5 DEF RowsChange

\* It is enough that no request bears more than some request did.
LEMMA CarryingImplements ==
    ASSUME IInv, [Next]_vars, UNCHANGED cookie,
           \A r \in Requests, x \in Browsers \X Ids :
             Bears(user, req'[r], x) => x \in Way(user, req)
    PROVE  Authority!Next
<1>1. RowsChange /\ \A r \in Requests : Carried(req'[r])
  BY RowsStep, RequestsStep DEF IInv
<1>2. ASSUME NEW x \in Way(user', req')
      PROVE  x \in Way(user, req) /\ user'[x[2]] = user[x[2]]
  <2>1. x \in Browsers \X Ids
        /\ \E r \in Requests : Bears(user', req'[r], x)
    BY <1>2 DEF Way
  <2>2. PICK r \in Requests : Bears(user', req'[r], x)
    BY <2>1
  <2>3. Bears(user, req'[r], x) /\ user'[x[2]] = user[x[2]]
    BY <1>1, <2>2, BearsKept DEF IInv
  <2> QED
    BY <2>1, <2>3
<1>3. OnItsWay' \subseteq {x \in OnItsWay : user'[x[2]] = user[x[2]]}
  BY <1>2, WayIs
<1> QED
  BY <1>3, RowsImplement

LEMMA NobodyIsInvalid ==
    ASSUME NEW u
    PROVE  /\ ~ValidIn(u, NoCookie) /\ ~ValidIn(u, Keep)
           /\ ~ValidIn(u, SessionFor(NoCredential))
BY DEF ValidIn, NoCookie, Keep, NoCredential, SessionFor, NoOne, Ids

LEMMA IdleBearsNothing ==
    ASSUME NEW u, NEW x, NEW q, q.pc = "idle"
    PROVE  ~Bears(u, q, x)
BY DEF Bears

\* A response bears nothing but the session it was given.
LEMMA RespondImplements ==
    ASSUME IInv, [Next]_vars, UNCHANGED cookie,
           NEW r \in Requests, NEW c, Respond(r, c),
           \A x \in Browsers \X Ids :
             x[1] = req[r].browser /\ x[2] = c.id /\ ValidIn(user, c) =>
               Bears(user, req[r], x)
    PROVE  Authority!Next
<1>1. \A s \in Requests \ {r} : req'[s] = req[s]
  BY DEF Respond, IInv, TypeOK
<1>2. ASSUME NEW x \in Browsers \X Ids, Bears(user, req'[r], x)
      PROVE  Bears(user, req[r], x)
  <2> DEFINE q == [Idle EXCEPT !.pc = "reply", !.browser = req[r].browser,
                               !.set = c]
  <2>1. CASE c = Keep
    <3>1. req'[r].pc = "idle"
      BY <2>1 DEF Respond, Idle, IInv, TypeOK
    <3> QED
      BY <1>2, <3>1, IdleBearsNothing
  <2>2. CASE c # Keep
    <3>1. req'[r] = q
      BY <2>2 DEF Respond, IInv, TypeOK
    <3>2. q.pc = "reply" /\ q.browser = req[r].browser /\ q.set = c
      BY DEF Idle
    <3> HIDE DEF q
    <3> QED
      BY <1>2, <3>1, <3>2 DEF Bears
  <2> QED
    BY <2>1, <2>2
<1> QED
  BY <1>1, <1>2, CarryingImplements DEF Way

LEMMA MutationImplements ==
    ASSUME IInv, [Next]_vars, NEW r \in Requests, NEW t \in Times,
           FinishRotation(r, t) \/ Administer(r, t)
    PROVE  Authority!Next
<1>1. PICK c \in {NoCookie, req[r].set} : Respond(r, c)
  BY DEF FinishRotation, Administer, CreateAccount, ResetPassword,
         DeleteAccount, ChangeAccount
<1>2. req[r].pc # "idle" /\ UNCHANGED cookie
  BY DEF FinishRotation, Administer, CreateAccount, ResetPassword,
         DeleteAccount, ChangeAccount
<1>3. \A x \in Browsers \X Ids :
        x[1] = req[r].browser /\ x[2] = c.id /\ ValidIn(user, c) =>
          Bears(user, req[r], x)
  BY <1>1, <1>2, NobodyIsInvalid DEF Bears
<1> QED
  BY <1>1, <1>2, <1>3, RespondImplements

LEMMA FinishLoginImplements ==
    ASSUME IInv, [Next]_vars, NEW r \in Requests, FinishLogin(r)
    PROVE  Authority!Next
<1> DEFINE d == SessionFor(req[r].cred)
<1>1. PICK c \in {Keep, d} : Respond(r, c)
  BY DEF FinishLogin
<1>2. req[r].pc = "login" /\ UNCHANGED cookie /\ d.id = req[r].cred.id
  BY DEF FinishLogin, SessionFor
<1>3. \A x \in Browsers \X Ids :
        x[1] = req[r].browser /\ x[2] = c.id /\ ValidIn(user, c) =>
          Bears(user, req[r], x)
  BY <1>1, <1>2, NobodyIsInvalid DEF Bears
<1> QED
  BY <1>1, <1>2, <1>3, RespondImplements

LEMMA DropImplements ==
    ASSUME IInv, [Next]_vars, NEW r \in Requests, Drop(r)
    PROVE  Authority!Next
<1>1. UNCHANGED cookie /\ Idle.pc = "idle"
  BY DEF Drop, Idle
<1>2. \A s \in Requests : req'[s] = IF s = r THEN Idle ELSE req[s]
  BY DEF Drop, IInv, TypeOK
<1>3. \A s \in Requests, x \in Browsers \X Ids :
        Bears(user, req'[s], x) => x \in Way(user, req)
  BY <1>1, <1>2, IdleBearsNothing DEF Way
<1> QED
  BY <1>1, <1>3, CarryingImplements

LEMMA StartRotationImplements ==
    ASSUME IInv, [Next]_vars, NEW r \in Requests, StartRotation(r)
    PROVE  Authority!Next
<1>1. PICK c : req' = [req EXCEPT ![r].pc = "rotate", ![r].cred = c]
  BY DEF StartRotation
<1>2. req[r].pc = "form" /\ UNCHANGED cookie
  BY DEF StartRotation
<1>3. /\ req'[r].pc = "rotate" /\ req'[r].browser = req[r].browser
      /\ req'[r].set = req[r].set
      /\ \A s \in Requests \ {r} : req'[s] = req[s]
  BY <1>1 DEF IInv, TypeOK, InFlight
<1>4. \A s \in Requests, x \in Browsers \X Ids :
        Bears(user, req'[s], x) => x \in Way(user, req)
  <2> SUFFICES ASSUME NEW s \in Requests, NEW x \in Browsers \X Ids,
                      Bears(user, req'[s], x)
               PROVE  Bears(user, req[s], x)
    BY DEF Way
  <2> QED
    BY <1>2, <1>3 DEF Bears
<1> QED
  BY <1>2, <1>4, CarryingImplements

\* What a request brings along when it begins is at most one proof.
LEMMA BeginningProves ==
    ASSUME IInv, NEW r \in Requests, NEW b \in Browsers, NEW q,
           req[r].pc = "idle", UNCHANGED <<user, cookie>>,
           req' = [req EXCEPT ![r] = q], q.browser = b,
           q.pc = "login" => q.set = Keep
    PROVE  Authority!Next
<1> DEFINE i == IF q.pc = "login" THEN q.cred.id ELSE q.set.id
<1>1. \A x : Bears(user, q, x) => x[1] = b /\ x[2] = i
  BY NobodyIsInvalid DEF Bears
<1>2. \A s \in Requests : req'[s] = IF s = r THEN q ELSE req[s]
  BY DEF IInv, TypeOK
<1>3. Way(user', req') = Way(user, req)
                         \cup {x \in Browsers \X Ids : Bears(user, q, x)}
  BY <1>2, IdleBearsNothing DEF Way
<1>4. Acting' = Acting
  BY WayIs
<1>5. CASE \E x \in Browsers \X Ids : Bears(user, q, x)
  <2>1. b \in Browsers /\ i \in Ids
        /\ {x \in Browsers \X Ids : Bears(user, q, x)} = {<<b, i>>}
    BY <1>1, <1>5
  <2> HIDE DEF i
  <2>2. Authority!Prove(b, i)
    BY <1>3, <1>4, <2>1, WayIs DEF Authority!Prove
  <2> QED
    BY <2>1, <2>2 DEF Authority!Next
<1>6. CASE ~ \E x \in Browsers \X Ids : Bears(user, q, x)
  <2>1. OnItsWay' = OnItsWay
    BY <1>3, <1>6, WayIs
  <2>2. Authority!Forget
    BY <1>4, <2>1 DEF Authority!Forget
  <2> QED
    BY <2>2 DEF Authority!Next
<1> QED
  BY <1>5, <1>6

LEMMA BeginImplements ==
    ASSUME IInv, NEW r \in Requests, NEW b \in Browsers,
           \/ CheckSession(r, b) \/ Logout(r, b) \/ StartLogin(r, b)
           \/ BeginRotation(r, b) \/ BeginAdmin(r, b)
    PROVE  Authority!Next
<1>1. req[r].pc = "idle" /\ UNCHANGED <<user, cookie>>
  BY DEF CheckSession, Logout, StartLogin, BeginRotation, BeginAdmin
<1>2. ASSUME NEW pc \in {"reply", "form", "body"}, NEW a, NEW c,
             req' = [req EXCEPT ![r] = [Idle EXCEPT !.pc = pc, !.browser = b,
                                                    !.actor = a, !.set = c]]
      PROVE  Authority!Next
  <2> DEFINE q == [Idle EXCEPT !.pc = pc, !.browser = b, !.actor = a, !.set = c]
  <2>1. q.browser = b /\ q.pc = pc
    BY DEF Idle
  <2>2. req' = [req EXCEPT ![r] = q]
    BY <1>2
  <2> HIDE DEF q
  <2> QED
    BY <1>1, <2>1, <2>2, BeginningProves
<1>3. ASSUME NEW c,
             req' = [req EXCEPT ![r] = [Idle EXCEPT !.pc = "reply",
                                                    !.browser = b, !.set = c]]
      PROVE  Authority!Next
  <2> DEFINE q == [Idle EXCEPT !.pc = "reply", !.browser = b, !.set = c]
  <2>1. q.browser = b /\ q.pc = "reply"
    BY DEF Idle
  <2>2. req' = [req EXCEPT ![r] = q]
    BY <1>3
  <2> HIDE DEF q
  <2> QED
    BY <1>1, <2>1, <2>2, BeginningProves
<1>4. CASE CheckSession(r, b) \/ Logout(r, b)
  <2>1. \E c : req' = [req EXCEPT ![r] = [Idle EXCEPT !.pc = "reply",
                                               !.browser = b, !.set = c]]
    BY <1>4, Zenon DEF CheckSession, Logout
  <2> QED
    BY <1>3, <2>1
<1>5. CASE StartLogin(r, b)
  <2>1. PICK c : req' = [req EXCEPT ![r] = [Idle EXCEPT !.pc = "login",
                                                 !.browser = b, !.cred = c]]
    BY <1>5 DEF StartLogin
  <2> DEFINE q == [Idle EXCEPT !.pc = "login", !.browser = b, !.cred = c]
  <2>2. q.browser = b /\ q.set = Keep
    BY DEF Idle
  <2>3. req' = [req EXCEPT ![r] = q]
    BY <2>1
  <2> HIDE DEF q
  <2> QED
    BY <1>1, <2>2, <2>3, BeginningProves
<1>6. CASE BeginRotation(r, b)
  BY <1>2, <1>6 DEF BeginRotation
<1>7. CASE BeginAdmin(r, b)
  BY <1>2, <1>7 DEF BeginAdmin
<1> QED
  BY <1>4, <1>5, <1>6, <1>7

\* A response opens the session it bears, or closes the one there was.
LEMMA ReplyImplements ==
    ASSUME IInv, NEW r \in Requests, Reply(r)
    PROVE  Authority!Next
<1> DEFINE b == req[r].browser
           c == req[r].set
<1>1. /\ req[r].pc = "reply" /\ UNCHANGED user
      /\ cookie' = [cookie EXCEPT ![b] = c] /\ b \in Browsers
  BY InFlightCarried DEF Reply
<1>2. \A s \in Requests : req'[s] = IF s = r THEN Idle ELSE req[s]
  BY DEF Reply, IInv, TypeOK
<1>3. OnItsWay' \subseteq OnItsWay
  <2>1. Idle.pc = "idle"
    BY DEF Idle
  <2>2. Way(user', req') \subseteq Way(user, req)
    BY <1>1, <1>2, <2>1, IdleBearsNothing DEF Way
  <2> QED
    BY <2>2, WayIs
<1>4. \A x \in Browsers : cookie'[x] = IF x = b THEN c ELSE cookie[x]
  BY <1>1 DEF IInv, TypeOK
<1>5. CASE ValidIn(user, c)
  <2>1. c.id \in Ids /\ <<b, c.id>> \in Browsers \X Ids
    BY <1>1, <1>5 DEF ValidIn
  <2>2. <<b, c.id>> \in OnItsWay
    <3>1. Bears(user, req[r], <<b, c.id>>)
      BY <1>1, <1>5 DEF Bears
    <3> QED
      BY <2>1, <3>1, WayIs DEF Way
  <2>3. Acting' = Authority!Others(b) \cup {<<b, c.id>>}
    BY <1>1, <1>4, <1>5, <2>1, WayIs DEF Authority!Others
  <2> HIDE DEF b, c
  <2>4. Authority!Open(b, c.id)
    BY <1>3, <2>2, <2>3 DEF Authority!Open
  <2> QED
    BY <1>1, <2>1, <2>4 DEF Authority!Next
<1>6. CASE ~ValidIn(user, c)
  <2>1. Acting' = Authority!Others(b)
    BY <1>1, <1>4, <1>6, WayIs DEF Authority!Others
  <2> HIDE DEF b, c
  <2>2. Authority!Close(b)
    BY <1>3, <2>1 DEF Authority!Close
  <2> QED
    BY <1>1, <2>2 DEF Authority!Next
<1> QED
  BY <1>5, <1>6

LEMMA OperatorImplements ==
    ASSUME IInv, [Next]_vars, NEW t \in Times,
           \/ \E e \in Emails : SetUpPassword(e, t) \/ SetUpCreate(e, t)
           \/ SetUpEnable(t)
    PROVE  Authority!Next
<1>1. UNCHANGED <<cookie, req>>
  BY DEF SetUpPassword, SetUpCreate, SetUpEnable
<1> QED
  BY <1>1, CarryingImplements DEF Way

\* Sessions as a whole: a browser acts for an account only on a proof given
\* since the account was last changed.  Every action of the routes, of a
\* response that arrives late, or of the operator is a step of the abstract
\* machine or none.
THEOREM Refinement == Spec => ImplementsAuthority
<1>1. Init => Authority!Init
  <2> SUFFICES ASSUME Init
               PROVE  Authority!Init
    OBVIOUS
  <2>1. \A r \in Requests : req[r].pc = "idle"
    BY DEF Init, Idle
  <2>2. OnItsWay = {}
    BY <2>1, WayIs, IdleBearsNothing DEF Way
  <2>3. Acting \subseteq Browsers \X Ids
    BY DEF Acting
  <2> QED
    BY <2>2, <2>3 DEF Authority!Init
<1>2. IInv /\ [Next]_vars => [Authority!Next]_(Authority!vars)
  <2> SUFFICES ASSUME IInv, [Next]_vars
               PROVE  [Authority!Next]_(Authority!vars)
    OBVIOUS
  <2>1. CASE UNCHANGED vars
    <3>1. OnItsWay' = OnItsWay /\ Acting' = Acting
      BY <2>1, WayIs DEF vars
    <3> QED
      BY <3>1 DEF Authority!vars
  <2> QED
    BY <2>1, BeginImplements, ReplyImplements, DropImplements,
       FinishLoginImplements, StartRotationImplements, MutationImplements,
       OperatorImplements
    DEF Next
<1> QED
  BY <1>1, <1>2, InitEstablishes, StepPreserves, PTL
  DEF Spec, ImplementsAuthority, Authority!Spec
===============================================================================
