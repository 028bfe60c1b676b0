------------------------------ MODULE Accounts ------------------------------
(***************************************************************************)
(* Registration, login with lockout, refresh tokens, password reset and    *)
(* verification (src/api/auth/router.py over src/db/crud.py), behind the   *)
(* sliding-window limiter of src/core/rate_limit.py.  Endpoints are        *)
(* synchronous and run in a pool of threads, each with a session of its    *)
(* own: a request reads rows in one step and commits what it computed from *)
(* them in another, with other requests in between.                        *)
(*                                                                         *)
(* An account is named by its user, whose e-mail and username are unique   *)
(* columns; clients share one address, whose key at the limiter is         *)
(* "auth:<ip>".  The middleware applies the same limiter under another key  *)
(* first: what it refuses never arrives here.  The limiter reads the clock  *)
(* before it takes its lock; here that is one step, within a tick.          *)
(*                                                                         *)
(* External: an UPDATE names the columns whose value differs from the one  *)
(* the session loaded, and no others; bcrypt salts, so that a password set *)
(* anew always differs; tokens are random, and given once.                 *)
(***************************************************************************)
EXTENDS Integers, Sequences, FiniteSets

CONSTANTS
    Users, Passwords,
    Tokens,       \* refresh tokens, each given once
    Resets,       \* reset tokens, each given once
    Requests,     \* requests that may be in progress at once
    None,
    Limit, Window,                                \* RATE_LIMIT_DEFAULT, in ticks
    MaxFailures, LockFor,                         \* 5 failures lock for 30 minutes
    ResetFor, RefreshFor, AccessFor,              \* lifetimes of tokens
    MaxTime                                       \* bound: ticks

ASSUME PeriodAssumption == {Limit, Window, MaxFailures, LockFor, ResetFor, RefreshFor, AccessFor} \subseteq Nat \ {0}
ASSUME TimeAssumption   == MaxTime \in Nat

\* A User row, as far as these endpoints change it; 0 in `lock` stands for NULL,
\* and the clock starts at 1.
Account == [password : Passwords, attempts : Nat, lock : Nat, verified : BOOLEAN,
            reset : Resets \cup {None}, resetEnd : Nat]

\* A RefreshToken row, with the token it was exchanged for.
Refresh == [user : Users, revoked : BOOLEAN, end : Nat, parent : Tokens \cup {None}]

ASSUME NoneAssumption == None \notin Users \cup Passwords \cup Tokens \cup Resets \cup Account \cup Refresh

VARIABLES
    now,
    users,        \* the accounts: a row or None
    tokens,       \* the refresh tokens: a row or None
    access,       \* per user, when its last access token expires
    hits,         \* RateLimiter._hits of the key
    req,          \* per request: what it has read and is about to commit, or None
    failures,     \* history: wrong passwords recorded per user
    admitted,     \* history: when each request let through arrived, in order
    used          \* history: reset tokens sent, and those that set a password

vars == <<now, users, tokens, access, hits, req, failures, admitted, used>>

Times == 1..MaxTime

Init ==
    /\ now = 1
    /\ users = [u \in Users |-> None]
    /\ tokens = [t \in Tokens |-> None]
    /\ access = [u \in Users |-> 0]
    /\ hits = <<>>
    /\ req = [r \in Requests |-> None]
    /\ failures = [u \in Users |-> 0]
    /\ admitted = <<>>
    /\ used = [sent |-> {}, spent |-> {}]

Tick ==
    /\ now < MaxTime
    /\ now' = now + 1
    /\ UNCHANGED <<users, tokens, access, hits, req, failures, admitted, used>>

-----------------------------------------------------------------------------
(* The limiter. *)

\* Mutant: a hit is dropped as soon as it is a window old.
RecentExclusive(times) == SelectSeq(times, LAMBDA t : now - t < Window)

\* What is left of the hits when the oldest have been popped, one after the
\* other, as long as the first is out of the window.
Recent(times) ==
    LET fresh == {i \in DOMAIN times : now - times[i] <= Window}
    IN  IF fresh = {} THEN <<>>
        ELSE SubSeq(times, CHOOSE i \in fresh : \A j \in fresh : i <= j, Len(times))

\* RateLimiter.allow lets the request through and records it.
Allow ==
    /\ Len(Recent(hits)) < Limit
    /\ hits' = Append(Recent(hits), now)
    /\ admitted' = Append(admitted, now)

\* ... or refuses it, unrecorded, with 429.
Refuse ==
    /\ Len(Recent(hits)) >= Limit
    /\ hits' = Recent(hits)
    /\ UNCHANGED <<now, users, tokens, access, req, failures, admitted, used>>

\* A request passes the limiter and reads, in one step; it goes on with what it
\* has read, or is answered on the spot.
Arrive(r, pending) ==
    /\ req[r] = None
    /\ Allow
    /\ req' = [req EXCEPT ![r] = pending]
    /\ UNCHANGED <<now, users, tokens, access, failures, used>>

Waits(r, op) == req[r] # None /\ req[r].op = op
Answer(r)    == req' = [req EXCEPT ![r] = None]

-----------------------------------------------------------------------------
(* Registration. *)

RegisterReads(r, u, p) ==
    Arrive(r, IF users[u] = None THEN [op |-> "register", user |-> u, password |-> p] ELSE None)

NewAccount(p) ==
    [password |-> p, attempts |-> 0, lock |-> 0, verified |-> FALSE, reset |-> None, resetEnd |-> 0]

\* create_user inserts; an account registered meanwhile violates the unique
\* columns and nothing is written.
RegisterCommits(r) ==
    /\ Waits(r, "register")
    /\ LET u == req[r].user IN
       users' = IF users[u] # None THEN users
                ELSE [users EXCEPT ![u] = NewAccount(req[r].password)]
    /\ Answer(r)
    /\ UNCHANGED <<now, tokens, access, hits, failures, admitted, used>>

-----------------------------------------------------------------------------
(* Login. *)

Locked(row) == row.lock > now

\* authenticate_user reads the account: unknown or locked, there is no login.
LoginReads(r, u, p) ==
    Arrive(r, IF users[u] = None \/ Locked(users[u]) THEN None
              ELSE [op |-> "login", user |-> u, right |-> p = users[u].password, seen |-> users[u]])

\* Mutant: the limit is one failure short.
FailSooner(row, seen) ==
    LET count == seen.attempts + 1 IN
    [row EXCEPT !.attempts = count, !.lock = IF count + 1 >= MaxFailures THEN now + LockFor ELSE @]

\* The count is that of the row read, plus one.
Fail(row, seen) ==
    LET count == seen.attempts + 1 IN
    [row EXCEPT !.attempts = count, !.lock = IF count >= MaxFailures THEN now + LockFor ELSE @]

\* Mutant: the whole row is written back.
SucceedWhole(row, seen) == [row EXCEPT !.attempts = 0, !.lock = 0]

\* Count and lock are reset where the row read had any.
Succeed(row, seen) ==
    [row EXCEPT !.attempts = IF seen.attempts # 0 THEN 0 ELSE @,
                !.lock = IF seen.lock # 0 THEN 0 ELSE @]

LoginFails(r) ==
    /\ Waits(r, "login")
    /\ ~req[r].right
    /\ users' = [users EXCEPT ![req[r].user] = Fail(@, req[r].seen)]
    /\ failures' = [failures EXCEPT ![req[r].user] = @ + 1]
    /\ Answer(r)
    /\ UNCHANGED <<now, tokens, access, hits, admitted, used>>

\* authenticate_user commits, and the handler goes on to its tokens.
LoginSucceeds(r) ==
    /\ Waits(r, "login")
    /\ req[r].right
    /\ users' = [users EXCEPT ![req[r].user] = Succeed(@, req[r].seen)]
    /\ req' = [req EXCEPT ![r] = [op |-> "issue", user |-> req[r].user]]
    /\ UNCHANGED <<now, tokens, access, hits, failures, admitted, used>>

Issued(u, parent) == [user |-> u, revoked |-> FALSE, end |-> now + RefreshFor, parent |-> parent]
Granted(u)        == access' = [access EXCEPT ![u] = now + AccessFor]

\* The second commit of a login: a refresh token.
LoginIssues(r, new) ==
    /\ Waits(r, "issue")
    /\ tokens[new] = None
    /\ tokens' = [tokens EXCEPT ![new] = Issued(req[r].user, None)]
    /\ Granted(req[r].user)
    /\ Answer(r)
    /\ UNCHANGED <<now, users, hits, failures, admitted, used>>

-----------------------------------------------------------------------------
(* Refresh and logout. *)

Live(row) == row # None /\ ~row.revoked /\ row.end > now

RefreshReads(r, t) ==
    Arrive(r, IF Live(tokens[t]) THEN [op |-> "refresh", token |-> t] ELSE None)

\* Mutant: the old token is left as it is.
RefreshKeepsOld(t, new) == [tokens EXCEPT ![new] = Issued(tokens[t].user, t)]

\* One commit revokes the token and adds its successor; nothing is read again.
Exchange(t, new) == [tokens EXCEPT ![t].revoked = TRUE, ![new] = Issued(tokens[t].user, t)]

RefreshCommits(r, new) ==
    /\ Waits(r, "refresh")
    /\ tokens[new] = None
    /\ tokens' = Exchange(req[r].token, new)
    /\ Granted(tokens[req[r].token].user)
    /\ Answer(r)
    /\ UNCHANGED <<now, users, hits, failures, admitted, used>>

\* No limiter here, and a row that only ever becomes revoked: reading and
\* committing may be one step.
Logout(t) ==
    /\ tokens[t] # None
    /\ tokens' = [tokens EXCEPT ![t].revoked = TRUE]
    /\ UNCHANGED <<now, users, access, hits, req, failures, admitted, used>>

-----------------------------------------------------------------------------
(* Password reset and verification. *)

\* update_user, for a reset token: it goes over any other.
StoreReset(row, reset) == [row EXCEPT !.reset = reset, !.resetEnd = now + ResetFor]

\* Of the account only its existence is read: reading and writing may be one step.
RequestReset(u, new) ==
    /\ Allow
    /\ users[u] # None
    /\ new \notin used.sent
    /\ users' = [users EXCEPT ![u] = StoreReset(@, new)]
    /\ used' = [used EXCEPT !.sent = @ \cup {new}]
    /\ UNCHANGED <<now, tokens, access, req, failures>>

\* The account whose token this is, unexpired; change_password refuses the
\* password the account has, and the token stays.
ResetReads(r, reset, p) ==
    \E u \in Users :
       /\ users[u] # None
       /\ users[u].reset = reset
       /\ Arrive(r, IF users[u].resetEnd > now /\ users[u].password # p
                    THEN [op |-> "reset", user |-> u, password |-> p, reset |-> reset] ELSE None)

SetPassword(row, p) == [row EXCEPT !.password = p, !.reset = None, !.resetEnd = 0]

\* The password is set and the row's token, whichever it now is, cleared.
ResetCommits(r) ==
    /\ Waits(r, "reset")
    /\ users' = [users EXCEPT ![req[r].user] = SetPassword(@, req[r].password)]
    /\ used' = [used EXCEPT !.spent = @ \cup {req[r].reset}]
    /\ Answer(r)
    /\ UNCHANGED <<now, tokens, access, hits, failures, admitted>>

\* get_current_active_user: an unexpired access token; nobody is deactivated.
CurrentUser(u) == access[u] > now

VerifyEmail(u) ==
    /\ CurrentUser(u)
    /\ users' = [users EXCEPT ![u].verified = TRUE]
    /\ UNCHANGED <<now, tokens, access, hits, req, failures, admitted, used>>

-----------------------------------------------------------------------------
Request(r) ==
    \/ \E u \in Users, p \in Passwords : RegisterReads(r, u, p) \/ LoginReads(r, u, p)
    \/ RegisterCommits(r) \/ LoginFails(r) \/ LoginSucceeds(r) \/ ResetCommits(r)
    \/ \E t \in Tokens : LoginIssues(r, t) \/ RefreshReads(r, t) \/ RefreshCommits(r, t)
    \/ \E t \in Resets, p \in Passwords : ResetReads(r, t, p)

Next ==
    \/ Tick \/ Refuse
    \/ \E r \in Requests : Request(r)
    \/ \E t \in Tokens : Logout(t)
    \/ \E u \in Users : VerifyEmail(u) \/ \E new \in Resets : RequestReset(u, new)

Spec == Init /\ [][Next]_vars

-----------------------------------------------------------------------------
Accounted == {u \in Users : users[u] # None}

\* However logins overlap, the count is never above the wrong passwords given,
\* so an account is locked only after MaxFailures of them.
LockIsEarned ==
    \A u \in Accounted :
       /\ users[u].attempts <= failures[u]
       /\ users[u].lock # 0 => failures[u] >= MaxFailures

\* A lock in force is neither lifted nor shortened by a login that is under way,
\* but for one that began when an earlier lock of the account had run out: it
\* still resets the column it has read.
LockOutlivesRaces ==
    [][\A u \in Accounted :
          Locked(users[u]) =>
             \/ users'[u].lock >= users[u].lock
             \/ \E r \in Requests : Waits(r, "login") /\ req[r].user = u /\ req[r].seen.lock # 0]_vars

\* A refresh token that has been exchanged is revoked, and a reset token that
\* has set a password is in no account: neither is good for a request that
\* arrives afterwards, whatever other requests overlap.
SpentBuysNothing ==
    /\ \A t \in Tokens : tokens[t] # None /\ tokens[t].parent # None => tokens[tokens[t].parent].revoked
    /\ \A u \in Accounted : users[u].reset \notin used.spent

\* In no period as long as the window, both ends included, are more than Limit
\* requests let through.
WindowBound ==
    \A start \in Times :
       Cardinality({i \in DOMAIN admitted : admitted[i] \in start..(start + Window)}) <= Limit

=============================================================================
