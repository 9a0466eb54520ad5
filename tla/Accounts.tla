------------------------------- MODULE Accounts -------------------------------
(***************************************************************************)
(* The account of one email address: its user, its workspace and the ways  *)
(* to log in to it (apps/api: application/authApplicationService.ts and    *)
(* the rows the Postgres repository keeps).                                *)
(* A registration and a first OAuth login make the account in several      *)
(* saves, each after reads that other requests may overtake.  An account   *)
(* is disabled by nobody: no operation of the program calls                *)
(* updateUserStatus.                                                       *)
(***************************************************************************)
EXTENDS Naturals, FiniteSets

CONSTANTS
    Request,      \* requests that may be in progress at once, each with a password of its own
    Provider,     \* OAuth providers
    MaxUsers,     \* bound: user ids made
    MaxFailures   \* bound: saves that fail, and deaths of the process

\* What the module assumes of its constants; the module of a run asserts it.
Assumptions ==
    /\ MaxUsers \in Nat \ {0} /\ MaxFailures \in Nat
    /\ "password" \notin Provider

VARIABLES
    users,       \* ids of the rows of users
    workspaces,  \* ids of the users that own a workspace
    identity,    \* provider -> its row of auth_identities
    req,         \* request -> what it does
    granted,     \* the ways to log in of the requests that were answered with a cookie
    failures     \* saves that failed, and deaths of the process

vars == <<users, workspaces, identity, req, granted, failures>>

None == "none"
Way == {"password"} \cup Provider
NoIdentity == [user |-> 0]
Idle == [op |-> None]
Secret(q, way) == IF way = "password" THEN q ELSE None

TypeOK ==
    /\ users \subseteq 1 .. MaxUsers /\ workspaces \subseteq users
    /\ \A w \in Way :
        identity[w] = NoIdentity \/ identity[w].user \in users
    /\ \A q \in Request :
        req[q] = Idle \/ (req[q].op \in {"finding", "looking", "creating", "linking", "opening"}
                          /\ req[q].way \in Way /\ req[q].user \in 0 .. MaxUsers)
    /\ failures \in 0 .. MaxFailures

Init ==
    /\ users = {} /\ workspaces = {}
    /\ identity = [w \in Way |-> NoIdentity]
    /\ req = [q \in Request |-> Idle]
    /\ granted = {} /\ failures = 0

-----------------------------------------------------------------------------
Goto(q, op, user) == req' = [req EXCEPT ![q].op = op, ![q].user = user]

End(q) == req' = [req EXCEPT ![q] = Idle]

\* registerUser, past the checks on the address and the password.
registerUser(q) ==
    /\ req[q] = Idle
    /\ req' = [req EXCEPT ![q] = [op |-> "looking", way |-> "password", user |-> 0]]
    /\ UNCHANGED <<users, workspaces, identity, granted, failures>>

\* completeOAuthLogin, once the provider has told a verified address.
completeOAuthLogin(q, provider) ==
    /\ req[q] = Idle
    /\ req' = [req EXCEPT ![q] = [op |-> "finding", way |-> provider, user |-> 0]]
    /\ UNCHANGED <<users, workspaces, identity, granted, failures>>

\* findOrCreateOAuthUser: a known identity leads to its user, who needs a workspace.
getAuthIdentityByProvider(q) ==
    /\ req[q].op = "finding"
    /\ LET user == identity[req[q].way].user IN
        IF user = 0 THEN Goto(q, "looking", 0)
        ELSE IF user \in workspaces THEN Goto(q, "opening", user)
        ELSE End(q)
    /\ UNCHANGED <<users, workspaces, identity, granted, failures>>

\* getUserByEmail: a registration is refused when the address is taken, an
\* OAuth login is linked to its user, if that has a workspace.
getUserByEmail(q) ==
    /\ req[q].op = "looking"
    /\ IF users = {} THEN Goto(q, "creating", 0)
       ELSE IF req[q].way = "password" THEN End(q)
       ELSE \E user \in users :
            IF user \in workspaces THEN Goto(q, "linking", user) ELSE End(q)
    /\ UNCHANGED <<users, workspaces, identity, granted, failures>>

NewUser == CHOOSE n \in 1 .. MaxUsers : n \notin users /\ \A m \in 1 .. n - 1 : m \in users

\* Mutant: addresses that need not be unique.
createUserAnyway(q) ==
    /\ req[q].op = "creating"
    /\ Cardinality(users) < MaxUsers
    /\ users' = users \cup {NewUser}
    /\ workspaces' = workspaces \cup {NewUser}
    /\ Goto(q, "linking", NewUser)
    /\ UNCHANGED <<identity, granted, failures>>

\* createUserWithWorkspace: users.email is unique, so only one request makes
\* the row.  The workspace is a save of its own, but the reads wait for it
\* (flush), so that it is seen missing only when it failed or the process died.
createUserWithWorkspace(q) ==
    /\ req[q].op = "creating"
    /\ IF users # {}
       THEN End(q) /\ UNCHANGED <<users, workspaces, failures>>
       ELSE /\ users' = {NewUser}
            /\ \/ /\ workspaces' = {NewUser}
                  /\ Goto(q, "linking", NewUser)
                  /\ UNCHANGED failures
               \/ /\ failures < MaxFailures
                  /\ failures' = failures + 1
                  /\ End(q)
                  /\ UNCHANGED workspaces
    /\ UNCHANGED <<identity, granted>>

\* createAuthIdentity: the row of a provider's subject keeps its user and gets
\* the new password.
createAuthIdentity(q) ==
    /\ req[q].op = "linking"
    /\ LET way == req[q].way IN
        identity' = [identity EXCEPT ![way] =
            [user |-> IF @ = NoIdentity THEN req[q].user ELSE @.user, secret |-> Secret(q, way)]]
    /\ Goto(q, "opening", req[q].user)
    /\ UNCHANGED <<users, workspaces, granted, failures>>

\* createAuthSessionForUser, and the answer with its cookie.
createAuthSession(q) ==
    /\ req[q].op = "opening"
    /\ granted' = granted \cup {[way |-> req[q].way, secret |-> Secret(q, req[q].way)]}
    /\ End(q)
    /\ UNCHANGED <<users, workspaces, identity, failures>>

\* A save throws, and the request fails.
failRequest(q) ==
    /\ req[q].op \in {"creating", "linking", "opening"}
    /\ failures < MaxFailures
    /\ failures' = failures + 1
    /\ End(q)
    /\ UNCHANGED <<users, workspaces, identity, granted>>

restart ==
    /\ failures < MaxFailures
    /\ failures' = failures + 1
    /\ req' = [q \in Request |-> Idle]
    /\ UNCHANGED <<users, workspaces, identity, granted>>

Next ==
    \/ restart
    \/ \E q \in Request :
        \/ registerUser(q)
        \/ \E provider \in Provider : completeOAuthLogin(q, provider)
        \/ getAuthIdentityByProvider(q) \/ getUserByEmail(q)
        \/ createUserWithWorkspace(q) \/ createAuthIdentity(q) \/ createAuthSession(q)
        \/ failRequest(q)

Spec == Init /\ [][Next]_vars

-----------------------------------------------------------------------------
(* Properties.                                                             *)

\* loginUser and a later OAuth login: whether the way still leads in.
loginUser(way, secret) ==
    /\ identity[way] # NoIdentity
    /\ identity[way].secret = secret
    /\ identity[way].user \in workspaces

\* Whatever requests overlap, fail or are cut off, one that was answered with
\* a cookie can log in again the same way, and all ways lead to one user
\* (authApplicationService.ts:27, 161).
AnsweredCanReturn ==
    /\ \A g \in granted : loginUser(g.way, g.secret)
    /\ \A v, w \in Way :
        identity[v] # NoIdentity /\ identity[w] # NoIdentity => identity[v].user = identity[w].user

\* An address nobody was let in with can still be registered.  It does not
\* hold: a user whose identity or workspace was never saved makes every later
\* registration end with USER_ALREADY_EXISTS (authApplicationService.ts:34).
UnusedCanRegister ==
    users # {} /\ (\A q \in Request : req[q] = Idle) => \E w \in Way : identity[w] # NoIdentity
=============================================================================
