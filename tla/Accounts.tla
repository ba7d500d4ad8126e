------------------------------- MODULE Accounts -------------------------------
\* features/users/server.ts, lib/session.ts and the routes that change accounts
\* or cookies: accounts with their revocation watermark, the cookie of each
\* browser, and the requests in flight. A handler is cut where it awaits (the
\* request body, a bcrypt comparison, the way of the response to the browser);
\* between two cuts it runs as one SQLite transaction.
EXTENDS Naturals, FiniteSets

CONSTANTS
    MaxId,      \* bound: account ids handed out (AUTOINCREMENT, never reused)
    Emails,
    Browsers,
    Requests,   \* bound: requests in flight
    Times,      \* readings of Date.now(); the clock may step back
    MaxVersion  \* bound: the watermark

ASSUME AccountAssumption ==
    /\ MaxId \in Nat \ {0, 1} /\ MaxVersion \in Nat
    /\ Times \subseteq Nat \ {0}
    /\ Browsers # {}

Ids == 1..MaxId

\* viewer and board are refused alike wherever an Admin is required.
Roles == {"admin", "member"}

VARIABLES
    user,       \* rows of users by id
    cookie,     \* the session cookie each browser holds
    req,        \* requests in flight
    operator    \* scripts/setup-admin.ts: the account it still has to enable

vars == <<user, cookie, req, operator>>

NoOne == 0

\* A cookie: the account, the watermark read at login, and (a ghost) the hash
\* the password was compared with.
NoCookie == [id |-> NoOne, version |-> 0, hash |-> 0, legacy |-> FALSE]
\* A cookie of a release without credentialVersion, issued before any change.
Legacy(i) == [id |-> i, version |-> 0, hash |-> 0, legacy |-> TRUE]
\* A response without Set-Cookie.
Keep == [id |-> NoOne, version |-> 0, hash |-> 0, legacy |-> TRUE]

NoCredential == [id |-> NoOne, version |-> 0, hash |-> 0]

Idle == [pc |-> "idle", browser |-> CHOOSE b \in Browsers : TRUE,
         actor |-> NoOne, cred |-> NoCredential, set |-> Keep]

NoEmail == "none"
Unused == [state |-> "none", email |-> NoEmail,
           role |-> "member", disabled |-> FALSE, must |-> FALSE,
           hash |-> 0, version |-> 0]

-------------------------------------------------------------------------------
\* Rows.

Live(i) == user[i].state = "live"
\* The account of an address.
HasEmail(e) == {i \in Ids : Live(i) /\ user[i].email = e}

ActiveAdmin(u, i) ==
    u[i].state = "live" /\ u[i].role = "admin" /\ ~u[i].disabled

\* assertNotLastActiveAdmin: another Admin who can sign in must remain.
\* Mutated form: the internal bypass row, always there, counts as one.
MayLose_CountsInternal(u, i) == TRUE
MayLose(u, i) ==
    ActiveAdmin(u, i) => \E j \in Ids \ {i} : ActiveAdmin(u, j)

\* sessions_valid_after = MAX(now, sessions_valid_after + 1).
Later(t, version) == IF t > version + 1 THEN t ELSE version + 1

\* createUser: the id is new even when the address was used before.
NextId(i) == ~Live(i) /\ user[i].state = "none"
             /\ \A j \in Ids : j < i => user[j].state # "none"
Create(i, e, role, must, t) ==
    /\ NextId(i)
    /\ HasEmail(e) = {}
    /\ t <= MaxVersion
    /\ user' = [user EXCEPT ![i] =
                  [state |-> "live", email |-> e, role |-> role,
                   disabled |-> FALSE, must |-> must, hash |-> 0,
                   version |-> t]]

\* updateUserPassword: a new hash, so an earlier comparison is void.
WithPassword(u, i, must, t) ==
    [u EXCEPT ![i].hash = @ + 1, ![i].must = must,
              ![i].version = Later(t, @)]

WithRole(u, i, role, t) ==
    IF u[i].role = role THEN u
    ELSE [u EXCEPT ![i].role = role, ![i].version = Later(t, @)]
RoleAllowed(u, i, role) ==
    u[i].role = role \/ role = "admin" \/ MayLose(u, i)

\* setUserDisabled. Mutated form: enabling an account leaves its watermark.
WithDisabled_KeepsWatermark(u, i, disabled, t) ==
    [u EXCEPT ![i].disabled = disabled]
WithDisabled(u, i, disabled, t) ==
    [u EXCEPT ![i].disabled = disabled, ![i].version = Later(t, @)]

Bounded(u) == \A i \in Ids : u[i].version <= MaxVersion

-------------------------------------------------------------------------------
\* Sessions.

\* getCurrentUser and getCurrentUserReadOnly, on one cookie.
Valid(c) ==
    /\ c.id \in Ids
    /\ Live(c.id) /\ ~user[c.id].disabled
    /\ IF c.legacy THEN user[c.id].version = 0
                   ELSE c.version = user[c.id].version

\* What getCurrentUser saves: a legacy cookie is given the live version.
Stamped(c) ==
    IF c.legacy
    THEN [c EXCEPT !.version = user[c.id].version, !.legacy = FALSE]
    ELSE Keep

\* The handler ends; a cookie it saved or destroyed travels with the response.
Respond(r, set) ==
    req' = [req EXCEPT ![r] =
              IF set = Keep THEN Idle
              ELSE [Idle EXCEPT !.pc = "reply", !.browser = req[r].browser,
                                !.set = set]]

\* The response arrives, in any order with other responses.
Reply(r) ==
    /\ req[r].pc = "reply"
    /\ cookie' = [cookie EXCEPT ![req[r].browser] = req[r].set]
    /\ req' = [req EXCEPT ![r] = Idle]
    /\ UNCHANGED <<user, operator>>

\* The body is refused, the throttle answers, or the response is lost.
Drop(r) ==
    /\ req[r].pc \in {"body", "form", "reply"}
    /\ req' = [req EXCEPT ![r] = Idle]
    /\ UNCHANGED <<user, cookie, operator>>

\* Any route that looks at the session and changes nothing else (/api/auth/me),
\* or that finds the session invalid and destroys the cookie.
CheckSession(r, b) ==
    /\ req[r].pc = "idle" /\ cookie[b] # NoCookie
    /\ ~Valid(cookie[b]) \/ cookie[b].legacy
    /\ req' = [req EXCEPT ![r] =
                 [Idle EXCEPT !.pc = "reply", !.browser = b,
                              !.set = IF Valid(cookie[b])
                                      THEN Stamped(cookie[b])
                                      ELSE NoCookie]]
    /\ UNCHANGED <<user, cookie, operator>>

Logout(r, b) ==
    /\ req[r].pc = "idle" /\ cookie[b] # NoCookie
    /\ req' = [req EXCEPT ![r] = [Idle EXCEPT !.pc = "reply", !.browser = b,
                                              !.set = NoCookie]]
    /\ UNCHANGED <<user, cookie, operator>>

-------------------------------------------------------------------------------
\* Signing in.

\* The record verifyCredentials reads before it awaits bcrypt; a comparison
\* that will fail keeps none, whoever the address belongs to.
Credential(i) == [id |-> i, version |-> user[i].version, hash |-> user[i].hash]
Readable(S) == {NoCredential} \cup
    {Credential(i) : i \in {j \in S : Live(j) /\ ~user[j].disabled}}

StartLogin(r, b) ==
    /\ req[r].pc = "idle"
    /\ \E c \in Readable(Ids) :
         req' = [req EXCEPT ![r] = [Idle EXCEPT !.pc = "login",
                                                !.browser = b, !.cred = c]]
    /\ UNCHANGED <<user, cookie, operator>>

\* The session carries the version read with the hash, not the live one.
\* Mutated form: the version is read again when the session is written.
SessionFor_Reread(c) ==
    [id |-> c.id, version |-> user[c.id].version, hash |-> c.hash,
     legacy |-> FALSE]
SessionFor(c) ==
    [id |-> c.id, version |-> c.version, hash |-> c.hash, legacy |-> FALSE]

FinishLogin(r) ==
    /\ req[r].pc = "login"
    /\ IF req[r].cred = NoCredential THEN Respond(r, Keep)
                                     ELSE Respond(r, SessionFor(req[r].cred))
    /\ UNCHANGED <<user, cookie, operator>>

-------------------------------------------------------------------------------
\* The forced rotation (/api/auth/change-password).

BeginRotation(r, b) ==
    /\ req[r].pc = "idle" /\ Valid(cookie[b])
    /\ user[cookie[b].id].must
    /\ req' = [req EXCEPT ![r] =
                 [Idle EXCEPT !.pc = "form", !.browser = b,
                              !.actor = cookie[b].id,
                              !.set = Stamped(cookie[b])]]
    /\ UNCHANGED <<user, cookie, operator>>

\* The credential is looked up by the actor's address, which may by now belong
\* to another account.
StartRotation(r) ==
    /\ req[r].pc = "form"
    /\ \E c \in Readable(HasEmail(user[req[r].actor].email)) :
         req' = [req EXCEPT ![r].pc = "rotate", ![r].cred = c]
    /\ UNCHANGED <<user, cookie, operator>>

\* updateUserPasswordIfCurrent: the hash compared is still the stored one.
\* Mutated form: the account only has to exist.
StillCurrent_Unchecked(i, c) == Live(i)
StillCurrent(i, c) == Live(i) /\ c.id = i /\ c.hash = user[i].hash

FinishRotation(r, t) ==
    LET i == req[r].actor
        c == req[r].cred IN
    /\ req[r].pc = "rotate"
    /\ \/ /\ c = NoCredential
          /\ Respond(r, req[r].set)
          /\ UNCHANGED user
       \/ /\ c # NoCredential /\ ~StillCurrent(i, c)
          /\ Respond(r, NoCookie)
          /\ UNCHANGED user
       \/ /\ c # NoCredential /\ StillCurrent(i, c)
          /\ user' = WithPassword(user, i, FALSE, t)
          /\ Bounded(user')
          /\ Respond(r, NoCookie)
    /\ UNCHANGED <<cookie, operator>>

-------------------------------------------------------------------------------
\* Account administration (/api/users, /api/users/account).

\* requireAdmin, then the body is awaited.
BeginAdmin(r, b) ==
    /\ req[r].pc = "idle" /\ Valid(cookie[b])
    /\ LET u == user[cookie[b].id] IN ~u.must /\ u.role = "admin"
    /\ req' = [req EXCEPT ![r] =
                 [Idle EXCEPT !.pc = "body", !.browser = b,
                              !.actor = cookie[b].id,
                              !.set = Stamped(cookie[b])]]
    /\ UNCHANGED <<user, cookie, operator>>

CreateAccount(r, t) ==
    /\ req[r].pc = "body"
    /\ \E i \in Ids, e \in Emails, role \in Roles : Create(i, e, role, TRUE, t)
    /\ Respond(r, req[r].set)
    /\ UNCHANGED <<cookie, operator>>

ResetPassword(r, i, t) ==
    /\ req[r].pc = "body" /\ Live(i)
    /\ user' = WithPassword(user, i, TRUE, t)
    /\ Bounded(user')
    /\ Respond(r, req[r].set)
    /\ UNCHANGED <<cookie, operator>>

\* A role and a disabled flag in one request are two transactions; the guard
\* may refuse the second when the first is done.
ChangeAccount(r, i, role, disabled, t) ==
    LET u == WithRole(user, i, role, t) IN
    /\ req[r].pc = "body" /\ Live(i) /\ i # req[r].actor
    /\ RoleAllowed(user, i, role)
    /\ user' = IF /\ disabled # user[i].disabled
                  /\ disabled => MayLose(u, i)
               THEN WithDisabled(u, i, disabled, t) ELSE u
    /\ Bounded(user')
    /\ Respond(r, req[r].set)
    /\ UNCHANGED <<cookie, operator>>

DeleteAccount(r, i) ==
    /\ req[r].pc = "body" /\ Live(i) /\ i # req[r].actor
    /\ MayLose(user, i)
    /\ user' = [user EXCEPT ![i] = [Unused EXCEPT !.state = "deleted",
                                                  !.email = user[i].email]]
    /\ Respond(r, req[r].set)
    /\ UNCHANGED <<cookie, operator>>

-------------------------------------------------------------------------------
\* scripts/setup-admin.ts, from another process: two transactions.

SetUpPassword(e, t) ==
    /\ operator = NoOne
    /\ \E i \in HasEmail(e) :
         /\ user' = WithPassword(user, i, FALSE, t)
         /\ Bounded(user')
         /\ operator' = IF user[i].disabled THEN i ELSE NoOne
    /\ UNCHANGED <<cookie, req>>

SetUpEnable(t) ==
    /\ operator # NoOne
    /\ user' = IF Live(operator) THEN WithDisabled(user, operator, FALSE, t)
                                 ELSE user
    /\ Bounded(user')
    /\ operator' = NoOne
    /\ UNCHANGED <<cookie, req>>

SetUpCreate(e, t) ==
    /\ operator = NoOne
    /\ \E i \in Ids : Create(i, e, "admin", FALSE, t)
    /\ UNCHANGED <<cookie, req, operator>>

-------------------------------------------------------------------------------
\* ensureSeedAdmin provisions an Admin and a viewer who owe a rotation; a
\* database of an earlier release has watermarks of 0 and legacy cookies.
Init ==
    /\ \E e \in [1..2 -> Emails], must \in BOOLEAN :
         /\ e[1] # e[2]
         /\ user = [i \in Ids |->
                      IF i > 2 THEN Unused
                      ELSE [Unused EXCEPT !.state = "live", !.email = e[i],
                              !.role = IF i = 1 THEN "admin" ELSE "member",
                              !.must = must]]
    /\ cookie \in [Browsers -> {NoCookie, Legacy(1), Legacy(2)}]
    /\ req = [r \in Requests |-> Idle]
    /\ operator = NoOne

Administer(r, t) ==
    \/ CreateAccount(r, t)
    \/ \E i \in Ids : ResetPassword(r, i, t) \/ DeleteAccount(r, i)
    \/ \E i \in Ids, role \in Roles, disabled \in BOOLEAN :
         ChangeAccount(r, i, role, disabled, t)

Next ==
    \/ \E r \in Requests, b \in Browsers :
         \/ CheckSession(r, b) \/ Logout(r, b) \/ StartLogin(r, b)
         \/ BeginRotation(r, b) \/ BeginAdmin(r, b)
    \/ \E r \in Requests : Reply(r) \/ Drop(r) \/ FinishLogin(r)
                           \/ StartRotation(r)
    \/ \E r \in Requests, t \in Times : FinishRotation(r, t) \/ Administer(r, t)
    \/ \E e \in Emails, t \in Times : SetUpPassword(e, t) \/ SetUpCreate(e, t)
    \/ \E t \in Times : SetUpEnable(t)

Spec == Init /\ [][Next]_vars

-------------------------------------------------------------------------------
Account ==
    [state : {"none", "live", "deleted"}, email : Emails \cup {NoEmail},
     role : Roles, disabled : BOOLEAN, must : BOOLEAN, hash : Nat, version : Nat]
Cookies ==
    [id : Ids \cup {NoOne}, version : Nat, hash : Nat, legacy : BOOLEAN]
Credentials == [id : Ids \cup {NoOne}, version : Nat, hash : Nat]
InFlight ==
    [pc : {"idle", "login", "form", "rotate", "body", "reply"},
     browser : Browsers, actor : Ids \cup {NoOne},
     cred : Credentials, set : Cookies]

\* Types of rows, cookies and requests; an address names one account at most.
TypeOK ==
    /\ user \in [Ids -> Account]
    /\ cookie \in [Browsers -> Cookies]
    /\ req \in [Requests -> InFlight]
    /\ operator \in Ids \cup {NoOne}
    /\ \A e \in Emails : Cardinality(HasEmail(e)) <= 1

\* However Admins demote, disable and delete each other, and however late
\* their requests are applied, one who can sign in remains.
AdminRemains == \E i \in Ids : ActiveAdmin(user, i)

\* A session that acts rests on the password in force, however the login was
\* delayed between reading the row, comparing and writing the cookie.
SessionsRestOnPassword ==
    \A b \in Browsers : LET c == cookie[b] IN
        Valid(c) => c.hash = user[c.id].hash

\* A rotation replaces the very password its comparison was about: an Admin
\* reset that got in between stays, and so does the rotation it asks for.
RotationReplacesWhatWasProved ==
    [][\A i \in Ids : user[i].must /\ Live(i) /\ user'[i].state = "live"
                      /\ ~user'[i].must =>
         \/ \E r \in Requests :
              /\ req[r].pc = "rotate" /\ req'[r].pc # "rotate"
              /\ req[r].actor = i
              /\ req[r].cred.id = i /\ req[r].cred.hash = user[i].hash
         \/ \E e \in Emails, t \in Times : SetUpPassword(e, t)]_vars

\* Sessions on their way: a cookie in a response, a login being compared.
OnItsWay ==
    {x \in Browsers \X Ids : \E r \in Requests :
       /\ req[r].browser = x[1]
       /\ \/ /\ req[r].pc # "idle" /\ req[r].set.id = x[2]
             /\ Valid(req[r].set)
          \/ /\ req[r].pc = "login" /\ req[r].cred.id = x[2]
             /\ Valid(SessionFor(req[r].cred))}
Acting == {x \in Browsers \X Ids : cookie[x[1]].id = x[2] /\ Valid(cookie[x[1]])}

\* Accounts keep the promise of SessionAuthority.
Authority == INSTANCE SessionAuthority WITH proof <- OnItsWay, session <- Acting
ImplementsAuthority == Authority!Spec
===============================================================================
