--------------------------- MODULE AccountsProofs ---------------------------
(***************************************************************************)
(* For any users, requests, tokens and limits: an account is locked only   *)
(* after enough wrong passwords, no login under way undoes a lock set      *)
(* meanwhile, tokens that are spent stay spent, and the limiter lets no    *)
(* more than its limit through in a window.                                *)
(***************************************************************************)
EXTENDS Accounts, FiniteSetTheorems, SequenceTheorems, TLAPS

Typed ==
    /\ now \in Nat
    /\ users \in [Users -> Account \cup {None}]
    /\ tokens \in [Tokens -> Refresh \cup {None}]
    /\ access \in [Users -> Nat]
    /\ failures \in [Users -> Nat]
    /\ used \in [sent : SUBSET Resets, spent : SUBSET Resets]
    /\ req = [r \in Requests |-> req[r]]

\* What a request goes on with is about accounts and tokens that exist; the row
\* a login has read counts no more failures than there were, and the reset
\* token of a reset is, or was, in no other account.
Fit(q) ==
    /\ q.op = "register" => q.user \in Users /\ q.password \in Passwords
    /\ q.op = "login" =>
          /\ q.user \in Accounted
          /\ q.seen \in Account
          /\ q.seen.attempts <= failures[q.user]
    /\ q.op = "issue" => q.user \in Accounted
    /\ q.op = "refresh" => q.token \in Tokens /\ tokens[q.token] # None
    /\ q.op = "reset" =>
          /\ q.user \in Accounted
          /\ q.password \in Passwords
          /\ q.reset \in used.sent
          /\ \A v \in Accounted : v # q.user => users[v].reset # q.reset

Pending == \A r \in Requests : req[r] # None => Fit(req[r])

\* Tokens are given to accounts.
Owned ==
    /\ \A u \in Users : access[u] # 0 => u \in Accounted
    /\ \A t \in Tokens : tokens[t] # None => tokens[t].user \in Accounted

\* LockIsEarned, and no lock reaches further than one set now.
Counted ==
    \A u \in Accounted :
       /\ users[u].attempts <= failures[u]
       /\ users[u].lock # 0 => failures[u] >= MaxFailures
       /\ users[u].lock <= now + LockFor

\* A token's predecessor is there, and revoked.
Chained ==
    \A t \in Tokens :
       tokens[t] # None /\ tokens[t].parent # None =>
          tokens[tokens[t].parent] # None /\ tokens[tokens[t].parent].revoked

\* A reset token was sent to one account, and has not been spent while there.
Apart ==
    /\ used.spent \subseteq used.sent
    /\ \A u \in Accounted :
          /\ users[u].reset \in used.sent \cup {None}
          /\ users[u].reset \notin used.spent
    /\ \A u, v \in Accounted :
          users[u].reset = users[v].reset /\ users[u].reset # None => u = v

AccountsInv == Typed /\ Pending /\ Owned /\ Counted /\ Chained /\ Apart

-----------------------------------------------------------------------------
\* The periods are positive numbers.
LEMMA Periods ==
    {LockFor, MaxFailures, ResetFor, RefreshFor, AccessFor} \subseteq Nat \ {0}
  BY PeriodAssumption

\* None is no value of the model.
LEMMA NoneApart == None \notin Tokens \cup Resets \cup Account \cup Refresh
  BY NoneAssumption

\* An account just made has no failures, no lock and no reset token.
LEMMA NewAccountEffect ==
    ASSUME NEW p \in Passwords
    PROVE  /\ NewAccount(p) \in Account
           /\ NewAccount(p).attempts = 0
           /\ NewAccount(p).lock = 0
           /\ NewAccount(p).reset = None
  BY DEF NewAccount, Account

\* A failed login counts one more than the row it read, and may lock.
LEMMA FailEffect ==
    ASSUME NEW row \in Account, NEW seen \in Account, now \in Nat
    PROVE  /\ Fail(row, seen) \in Account
           /\ Fail(row, seen).attempts = seen.attempts + 1
           /\ Fail(row, seen).reset = row.reset
           /\ \/ Fail(row, seen).lock = row.lock
              \/ Fail(row, seen).lock = now + LockFor /\ seen.attempts + 1 >= MaxFailures
  <1>1. now + LockFor \in Nat
    BY Periods
  <1>2. seen.attempts + 1 \in Nat
    BY DEF Account
  <1>3. CASE seen.attempts + 1 >= MaxFailures
    BY <1>1, <1>2, <1>3 DEF Fail, Account
  <1>4. CASE ~(seen.attempts + 1 >= MaxFailures)
    BY <1>2, <1>4 DEF Fail, Account
  <1> QED
    BY <1>3, <1>4

\* A login that succeeds lowers count and lock to 0, or leaves them; it lowers
\* the lock only if the row it read had one.
LEMMA SucceedEffect ==
    ASSUME NEW row \in Account, NEW seen \in Account
    PROVE  /\ Succeed(row, seen) \in Account
           /\ Succeed(row, seen).attempts \in {0, row.attempts}
           /\ Succeed(row, seen).lock \in {0, row.lock}
           /\ seen.lock = 0 => Succeed(row, seen).lock = row.lock
           /\ Succeed(row, seen).reset = row.reset
  BY DEF Succeed, Account

\* What is fit stays fit while accounts, tokens, failures and the reset tokens
\* sent only grow, and no account takes a reset token that was sent before.
LEMMA FitKept ==
    ASSUME NEW q, Fit(q), Typed, Typed',
           Accounted \subseteq Accounted',
           \A u \in Users : failures[u] <= failures'[u],
           \A t \in Tokens : tokens[t] # None => tokens'[t] # None,
           used.sent \subseteq used'.sent,
           \A v \in Accounted' :
              \/ v \in Accounted /\ users'[v].reset = users[v].reset
              \/ users'[v].reset \notin used.sent
    PROVE  Fit(q)'
  <1>1. Accounted \subseteq Users
    BY DEF Accounted
  <1>2. (q.op = "login" => q.seen.attempts <= failures[q.user])'
    BY <1>1 DEF Fit, Typed, Account
  <1> QED
    BY <1>1, <1>2 DEF Fit

\* A request that passes the limiter changes nothing but what it goes on with.
LEMMA ArriveKeeps ==
    ASSUME AccountsInv, NEW r \in Requests, NEW pending, Arrive(r, pending),
           pending # None => Fit(pending)
    PROVE  AccountsInv'
  <1> USE DEF AccountsInv, Arrive
  <1>1. Typed'
    BY DEF Allow, Typed
  <1>2. Pending'
    BY DEF Allow, Typed, Pending, Fit, Accounted
  <1>3. (Owned /\ Counted /\ Chained /\ Apart)'
    BY DEF Allow, Owned, Counted, Chained, Apart, Accounted
  <1> QED
    BY <1>1, <1>2, <1>3

-----------------------------------------------------------------------------
\* What a request goes on with is fit, as it comes from the tables.
LEMMA ReadsFit ==
    ASSUME AccountsInv, NEW r \in Requests,
           \/ \E u \in Users, p \in Passwords : RegisterReads(r, u, p) \/ LoginReads(r, u, p)
           \/ \E t \in Tokens : RefreshReads(r, t)
           \/ \E t \in Resets, p \in Passwords : ResetReads(r, t, p)
    PROVE  AccountsInv'
  <1>1. ASSUME NEW u \in Users, NEW p \in Passwords, RegisterReads(r, u, p)
        PROVE  AccountsInv'
    <2> DEFINE q == [op |-> "register", user |-> u, password |-> p]
    <2>1. Fit(q)
      BY DEF Fit
    <2> QED
      BY <1>1, <2>1, ArriveKeeps DEF RegisterReads
  <1>2. ASSUME NEW u \in Users, NEW p \in Passwords, LoginReads(r, u, p)
        PROVE  AccountsInv'
    <2> DEFINE q == [op |-> "login", user |-> u, right |-> p = users[u].password, seen |-> users[u]]
    <2>1. ASSUME users[u] # None
          PROVE  Fit(q)
      BY <2>1 DEF Fit, Accounted, AccountsInv, Typed, Counted
    <2> QED
      BY <1>2, <2>1, ArriveKeeps DEF LoginReads
  <1>3. ASSUME NEW t \in Tokens, RefreshReads(r, t)
        PROVE  AccountsInv'
    <2> DEFINE q == [op |-> "refresh", token |-> t]
    <2>1. ASSUME Live(tokens[t])
          PROVE  Fit(q)
      BY <2>1 DEF Fit, Live
    <2> QED
      BY <1>3, <2>1, ArriveKeeps DEF RefreshReads
  <1>4. ASSUME NEW t \in Resets, NEW p \in Passwords, ResetReads(r, t, p)
        PROVE  AccountsInv'
    <2>1. PICK u \in Users :
             /\ users[u] # None
             /\ users[u].reset = t
             /\ Arrive(r, IF users[u].resetEnd > now /\ users[u].password # p
                          THEN [op |-> "reset", user |-> u, password |-> p, reset |-> t] ELSE None)
      BY <1>4 DEF ResetReads
    <2> DEFINE q == [op |-> "reset", user |-> u, password |-> p, reset |-> t]
    <2>2. Fit(q)
      BY <2>1, NoneApart DEF Fit, Accounted, AccountsInv, Apart
    <2> QED
      BY <2>1, <2>2, ArriveKeeps
  <1> QED
    BY <1>1, <1>2, <1>3, <1>4

-----------------------------------------------------------------------------
(* Steps that change accounts: one row u, put there or changed. *)

\* The row may take the reset token it had, none, or one not sent before; it
\* counts no more failures than there were; of the requests one may be answered,
\* or go on to the tokens of a login.
RowStep(u, row) ==
    /\ u \in Users
    /\ row \in Account
    /\ users' = [users EXCEPT ![u] = row]
    /\ UNCHANGED <<now, tokens, access>>
    /\ failures' \in [Users -> Nat]
    /\ \A v \in Users : failures[v] <= failures'[v]
    /\ row.attempts <= failures'[u]
    /\ row.lock # 0 => failures'[u] >= MaxFailures
    /\ row.lock <= now + LockFor
    /\ used' \in [sent : SUBSET Resets, spent : SUBSET Resets]
    /\ used.sent \subseteq used'.sent
    /\ used'.spent \subseteq used'.sent
    /\ (u \in Accounted /\ row.reset = users[u].reset) \/ row.reset \notin used.sent
    /\ row.reset \in used'.sent \cup {None}
    /\ row.reset \notin used'.spent
    /\ \A v \in Accounted : v # u => users[v].reset \notin used'.spent
    /\ req' = [s \in Requests |-> req'[s]]
    /\ \A s \in Requests :
          \/ req'[s] \in {None, req[s]}
          \/ req'[s] = [op |-> "issue", user |-> u]

\* Such a step keeps the invariant.
LEMMA RowStepKeeps ==
    ASSUME AccountsInv, NEW u, NEW row, RowStep(u, row)
    PROVE  AccountsInv'
  <1> USE DEF AccountsInv
  <1>1. Typed'
    BY DEF Typed, RowStep
  <1>2. /\ users'[u] = row
        /\ \A v \in Users : v # u => users'[v] = users[v]
    BY DEF Typed, RowStep
  <1>3. Accounted' = Accounted \cup {u}
    BY <1>2, NoneApart DEF Accounted, RowStep
  <1>4. Pending'
    <2>1. \A v \in Accounted' :
             (v \in Accounted /\ users'[v].reset = users[v].reset) \/ users'[v].reset \notin used.sent
      BY <1>2, <1>3 DEF RowStep, Accounted
    <2>2. ASSUME NEW q, Fit(q)
          PROVE  Fit(q)'
      BY <1>1, <1>3, <2>1, <2>2, FitKept DEF RowStep
    <2>3. ASSUME NEW s \in Requests, (req[s] # None)'
          PROVE  Fit(req[s])'
      <3>1. CASE req'[s] = req[s]
        BY <2>2, <2>3, <3>1 DEF Pending, Fit, Accounted
      <3>2. CASE req'[s] = [op |-> "issue", user |-> u]
        BY <1>3, <3>2 DEF Fit
      <3> QED
        BY <2>3, <3>1, <3>2 DEF RowStep
    <2> QED
      BY <2>3 DEF Pending
  <1>5. Owned'
    BY <1>3 DEF Owned, RowStep
  <1>6. Counted'
    <2> SUFFICES ASSUME NEW v \in Accounted'
                 PROVE  /\ users'[v].attempts <= failures'[v]
                        /\ users'[v].lock # 0 => failures'[v] >= MaxFailures
                        /\ users'[v].lock <= now + LockFor
      BY DEF Counted, RowStep
    <2>1. CASE v = u
      BY <1>2, <2>1 DEF RowStep
    <2>2. CASE v # u
      <3>1. v \in Accounted /\ v \in Users /\ users[v] \in Account
        BY <1>3, <2>2 DEF Accounted, Typed
      <3>2. failures[v] \in Nat /\ failures'[v] \in Nat /\ failures[v] <= failures'[v]
        BY <1>1, <3>1 DEF Typed, RowStep
      <3>3. MaxFailures \in Nat
        BY Periods
      <3> QED
        BY <1>2, <2>2, <3>1, <3>2, <3>3 DEF Counted, Account
    <2> QED
      BY <2>1, <2>2
  <1>7. Chained'
    BY DEF Chained, RowStep
  <1>8. Apart'
    <2>1. \A v \in Accounted' : /\ users'[v].reset \in used'.sent \cup {None}
                               /\ users'[v].reset \notin used'.spent
      BY <1>2, <1>3 DEF Apart, RowStep, Accounted
    <2>2. ASSUME NEW v \in Accounted, v # u, row.reset # None
          PROVE  users[v].reset # row.reset
      BY <2>2 DEF Apart, RowStep
    <2>3. \A v, w \in Accounted' : users'[v].reset = users'[w].reset /\ users'[v].reset # None => v = w
      BY <1>2, <1>3, <2>2 DEF Apart, Accounted
    <2> QED
      BY <2>1, <2>3 DEF Apart, RowStep
  <1> QED
    BY <1>1, <1>4, <1>5, <1>6, <1>7, <1>8

\* Registration, the commits of a login and of a reset, the sending of a reset
\* token and verification are such steps, or change no account.
LEMMA RegisterKeeps ==
    ASSUME AccountsInv, NEW r \in Requests, RegisterCommits(r)
    PROVE  AccountsInv'
  <1> DEFINE u   == req[r].user
             row == NewAccount(req[r].password)
  <1> USE DEF AccountsInv
  <1>1. u \in Users /\ req[r].password \in Passwords
    BY DEF RegisterCommits, Waits, Pending, Fit
  <1>2. row \in Account /\ row.attempts = 0 /\ row.lock = 0 /\ row.reset = None
    BY <1>1, NewAccountEffect
  <1>3. /\ UNCHANGED <<now, tokens, access, failures, used>>
        /\ req' = [req EXCEPT ![r] = None]
    BY DEF RegisterCommits, Answer
  <1>4. CASE users[u] # None
    <2>1. users' = users
      BY <1>4 DEF RegisterCommits
    <2>2. (Typed /\ Owned /\ Counted /\ Chained /\ Apart)'
      BY <1>3, <2>1 DEF Typed, Owned, Counted, Chained, Apart, Accounted
    <2>3. Pending'
      BY <1>3, <2>1 DEF Typed, Pending, Fit, Accounted
    <2> QED
      BY <2>2, <2>3
  <1>5. CASE users[u] = None
    <2>1. users' = [users EXCEPT ![u] = row]
      BY <1>5 DEF RegisterCommits
    <2>2. used.spent \subseteq used.sent /\ used.sent \subseteq Resets
      BY DEF Apart, Typed
    <2>3. None \notin used.sent
      BY <2>2, NoneApart
    <2>4. \A v \in Accounted : users[v].reset \notin used.spent
      BY DEF Apart
    <2>5. row.lock <= now + LockFor /\ row.attempts <= failures[u] /\ \A v \in Users : failures[v] <= failures[v]
      BY <1>1, <1>2, Periods DEF Typed
    <2> HIDE DEF row
    <2>6. RowStep(u, row)
      BY <1>1, <1>2, <1>3, <2>1, <2>2, <2>3, <2>4, <2>5 DEF RowStep, Typed
    <2> QED
      BY <2>6, RowStepKeeps
  <1> QED
    BY <1>4, <1>5

\* A wrong password: one more failure, counted from the row that was read.
LEMMA LoginFailsKeeps ==
    ASSUME AccountsInv, NEW r \in Requests, LoginFails(r)
    PROVE  AccountsInv'
  <1> DEFINE u   == req[r].user
             row == Fail(users[u], req[r].seen)
  <1> USE DEF AccountsInv
  <1>1. /\ u \in Accounted /\ u \in Users /\ users[u] \in Account
        /\ req[r].seen \in Account
        /\ req[r].seen.attempts <= failures[u]
    BY DEF LoginFails, Waits, Pending, Fit, Accounted, Typed
  <1>2. /\ row \in Account
        /\ row.attempts = req[r].seen.attempts + 1
        /\ row.reset = users[u].reset
        /\ \/ row.lock = users[u].lock
           \/ row.lock = now + LockFor /\ req[r].seen.attempts + 1 >= MaxFailures
    BY <1>1, FailEffect DEF Typed
  <1>3. /\ users' = [users EXCEPT ![u] = row]
        /\ failures' = [failures EXCEPT ![u] = @ + 1]
        /\ req' = [req EXCEPT ![r] = None]
        /\ UNCHANGED <<now, tokens, access, used>>
    BY DEF LoginFails, Answer
  <1> HIDE DEF row
  <1>4. /\ failures' \in [Users -> Nat]
        /\ \A v \in Users : failures[v] <= failures'[v]
        /\ failures'[u] = failures[u] + 1
    BY <1>1, <1>3 DEF Typed
  <1>5. /\ users[u].lock # 0 => failures[u] >= MaxFailures
        /\ users[u].lock <= now + LockFor
    BY <1>1 DEF Counted
  <1>6. /\ row.attempts <= failures'[u]
        /\ row.lock # 0 => failures'[u] >= MaxFailures
        /\ row.lock <= now + LockFor
    <2>1. MaxFailures \in Nat /\ now + LockFor \in Nat /\ failures[u] \in Nat /\ req[r].seen.attempts \in Nat
      BY <1>1, Periods DEF Typed, Account
    <2> QED
      BY <1>1, <1>2, <1>4, <1>5, <2>1
  <1>7. RowStep(u, row)
    BY <1>1, <1>2, <1>3, <1>4, <1>6 DEF RowStep, Typed, Apart
  <1> QED
    BY <1>7, RowStepKeeps

\* The right one: count and lock may fall to 0.
LEMMA LoginSucceedsKeeps ==
    ASSUME AccountsInv, NEW r \in Requests, LoginSucceeds(r)
    PROVE  AccountsInv'
  <1> DEFINE u   == req[r].user
             row == Succeed(users[u], req[r].seen)
  <1> USE DEF AccountsInv
  <1>1. u \in Accounted /\ u \in Users /\ users[u] \in Account /\ req[r].seen \in Account
    BY DEF LoginSucceeds, Waits, Pending, Fit, Accounted, Typed
  <1>2. /\ row \in Account
        /\ row.attempts \in {0, users[u].attempts}
        /\ row.lock \in {0, users[u].lock}
        /\ row.reset = users[u].reset
    BY <1>1, SucceedEffect
  <1>3. /\ users' = [users EXCEPT ![u] = row]
        /\ req' = [req EXCEPT ![r] = [op |-> "issue", user |-> u]]
        /\ UNCHANGED <<now, tokens, access, failures, used>>
    BY DEF LoginSucceeds
  <1> HIDE DEF row
  <1>4. /\ row.attempts <= failures[u]
        /\ row.lock # 0 => failures[u] >= MaxFailures
        /\ row.lock <= now + LockFor
        /\ \A v \in Users : failures[v] <= failures[v]
    BY <1>1, <1>2, Periods DEF Counted, Typed
  <1>5. RowStep(u, row)
    BY <1>1, <1>2, <1>3, <1>4 DEF RowStep, Typed, Apart
  <1> QED
    BY <1>5, RowStepKeeps

\* A reset spends its token, which no other account has.
LEMMA ResetKeeps ==
    ASSUME AccountsInv, NEW r \in Requests, ResetCommits(r)
    PROVE  AccountsInv'
  <1> DEFINE u   == req[r].user
             row == SetPassword(users[u], req[r].password)
  <1> USE DEF AccountsInv
  <1>1. /\ u \in Accounted /\ u \in Users /\ users[u] \in Account
        /\ req[r].password \in Passwords
        /\ req[r].reset \in used.sent
        /\ \A v \in Accounted : v # u => users[v].reset # req[r].reset
    BY DEF ResetCommits, Waits, Pending, Fit, Accounted, Typed
  <1>2. /\ row \in Account
        /\ row.attempts = users[u].attempts
        /\ row.lock = users[u].lock
        /\ row.reset = None
    BY <1>1 DEF SetPassword, Account
  <1>3. /\ users' = [users EXCEPT ![u] = row]
        /\ used' = [used EXCEPT !.spent = @ \cup {req[r].reset}]
        /\ req' = [req EXCEPT ![r] = None]
        /\ UNCHANGED <<now, tokens, access, failures>>
    BY DEF ResetCommits, Answer
  <1> HIDE DEF row
  <1>4. /\ row.attempts <= failures[u]
        /\ row.lock # 0 => failures[u] >= MaxFailures
        /\ row.lock <= now + LockFor
        /\ \A v \in Users : failures[v] <= failures[v]
    BY <1>1, <1>2 DEF Counted, Typed
  <1>5. /\ used' \in [sent : SUBSET Resets, spent : SUBSET Resets]
        /\ used'.sent = used.sent
        /\ used'.spent = used.spent \cup {req[r].reset}
        /\ None \notin used'.sent
    BY <1>1, <1>3, NoneApart DEF Typed
  <1>6. RowStep(u, row)
    BY <1>1, <1>2, <1>3, <1>4, <1>5 DEF RowStep, Typed, Apart
  <1> QED
    BY <1>6, RowStepKeeps

\* A reset token that was not sent before goes into one account.
LEMMA RequestResetKeeps ==
    ASSUME AccountsInv, NEW u \in Users, NEW new \in Resets, RequestReset(u, new)
    PROVE  AccountsInv'
  <1> DEFINE row == StoreReset(users[u], new)
  <1> USE DEF AccountsInv
  <1>1. u \in Accounted /\ users[u] \in Account /\ new \notin used.sent
    BY DEF RequestReset, Accounted, Typed
  <1>2. /\ row \in Account
        /\ row.attempts = users[u].attempts
        /\ row.lock = users[u].lock
        /\ row.reset = new
    <2>1. now + ResetFor \in Nat
      BY Periods DEF Typed
    <2> QED
      BY <1>1, <2>1 DEF StoreReset, Account
  <1>3. /\ users' = [users EXCEPT ![u] = row]
        /\ used' = [used EXCEPT !.sent = @ \cup {new}]
        /\ UNCHANGED <<now, tokens, access, req, failures>>
    BY DEF RequestReset, Allow
  <1> HIDE DEF row
  <1>4. /\ row.attempts <= failures[u]
        /\ row.lock # 0 => failures[u] >= MaxFailures
        /\ row.lock <= now + LockFor
        /\ \A v \in Users : failures[v] <= failures[v]
    BY <1>1, <1>2 DEF Counted, Typed
  <1>5. /\ used' \in [sent : SUBSET Resets, spent : SUBSET Resets]
        /\ used'.sent = used.sent \cup {new}
        /\ used'.spent = used.spent
    BY <1>3 DEF Typed
  <1>6. RowStep(u, row)
    BY <1>1, <1>2, <1>3, <1>4, <1>5 DEF RowStep, Typed, Apart
  <1> QED
    BY <1>6, RowStepKeeps

\* Verification needs an access token, which only accounts are given.
LEMMA VerifyKeeps ==
    ASSUME AccountsInv, NEW u \in Users, VerifyEmail(u)
    PROVE  AccountsInv'
  <1> DEFINE row == [users[u] EXCEPT !.verified = TRUE]
  <1> USE DEF AccountsInv
  <1>1. u \in Accounted /\ users[u] \in Account
    BY DEF VerifyEmail, CurrentUser, Owned, Accounted, Typed
  <1>2. /\ row \in Account
        /\ row.attempts = users[u].attempts
        /\ row.lock = users[u].lock
        /\ row.reset = users[u].reset
    BY <1>1 DEF Account
  <1>3. /\ users' = [users EXCEPT ![u] = row]
        /\ UNCHANGED <<now, tokens, access, req, failures, used>>
    BY DEF VerifyEmail
  <1> HIDE DEF row
  <1>4. /\ row.attempts <= failures[u]
        /\ row.lock # 0 => failures[u] >= MaxFailures
        /\ row.lock <= now + LockFor
        /\ \A v \in Users : failures[v] <= failures[v]
    BY <1>1, <1>2 DEF Counted, Typed
  <1>5. RowStep(u, row)
    BY <1>1, <1>2, <1>3, <1>4 DEF RowStep, Typed, Apart
  <1> QED
    BY <1>5, RowStepKeeps

-----------------------------------------------------------------------------
(* Steps that change tokens. *)

\* A token given out, with no predecessor or with one that is revoked at once.
LEMMA TokenStepKeeps ==
    ASSUME AccountsInv, NEW r \in Requests, NEW new \in Tokens,
           LoginIssues(r, new) \/ RefreshCommits(r, new)
    PROVE  AccountsInv'
  <1> USE DEF AccountsInv
  <1>1. /\ UNCHANGED <<now, users, failures, used>>
        /\ req' = [req EXCEPT ![r] = None]
        /\ tokens[new] = None
    BY DEF LoginIssues, RefreshCommits, Answer
  <1> DEFINE Revoked(s) == [tokens[s] EXCEPT !.revoked = TRUE]
  <1>2. \E u \in Accounted, t \in Tokens \cup {None} :
           /\ access' = [access EXCEPT ![u] = now + AccessFor]
           /\ tokens' = [s \in Tokens |-> tokens'[s]]
           /\ tokens'[new] = Issued(u, t)
           /\ \A s \in Tokens : s \notin {new, t} => tokens'[s] = tokens[s]
           /\ t # None => tokens[t] # None /\ tokens'[t] = Revoked(t)
    <2>1. CASE LoginIssues(r, new)
      <3> DEFINE u == req[r].user
      <3>1. u \in Accounted
        BY <2>1 DEF LoginIssues, Waits, Pending, Fit
      <3>2. /\ access' = [access EXCEPT ![u] = now + AccessFor]
            /\ tokens' = [tokens EXCEPT ![new] = Issued(u, None)]
        BY <2>1 DEF LoginIssues, Granted
      <3> HIDE DEF u
      <3> QED
        BY <3>1, <3>2 DEF Typed
    <2>2. CASE RefreshCommits(r, new)
      <3> DEFINE t == req[r].token
                 u == tokens[t].user
      <3>1. t \in Tokens /\ tokens[t] # None
        BY <2>2 DEF RefreshCommits, Waits, Pending, Fit
      <3>2. u \in Accounted
        BY <3>1 DEF Owned
      <3>3. access' = [access EXCEPT ![u] = now + AccessFor]
        BY <2>2 DEF RefreshCommits, Granted
      <3>4. /\ tokens' = [s \in Tokens |-> tokens'[s]]
            /\ tokens'[new] = Issued(u, t)
            /\ \A s \in Tokens : s \notin {new, t} => tokens'[s] = tokens[s]
            /\ tokens'[t] = Revoked(t)
        BY <1>1, <2>2, <3>1 DEF RefreshCommits, Exchange, Typed
      <3> HIDE DEF u, t
      <3> QED
        BY <3>1, <3>2, <3>3, <3>4
    <2> QED
      BY <2>1, <2>2
  <1>3. PICK u \in Accounted, t \in Tokens \cup {None} :
           /\ access' = [access EXCEPT ![u] = now + AccessFor]
           /\ tokens' = [s \in Tokens |-> tokens'[s]]
           /\ tokens'[new] = Issued(u, t)
           /\ \A s \in Tokens : s \notin {new, t} => tokens'[s] = tokens[s]
           /\ t # None => tokens[t] # None /\ tokens'[t] = Revoked(t)
    BY <1>2
  <1>4. /\ Issued(u, t) \in Refresh
        /\ Issued(u, t).user = u
        /\ Issued(u, t).parent = t
    <2>1. now + RefreshFor \in Nat
      BY Periods DEF Typed
    <2> QED
      BY <1>3, <2>1 DEF Issued, Refresh, Accounted
  <1>5. ASSUME NEW s \in Tokens, tokens[s] # None
        PROVE  /\ Revoked(s) \in Refresh
               /\ Revoked(s).revoked
               /\ Revoked(s).user = tokens[s].user
               /\ Revoked(s).parent = tokens[s].parent
    BY <1>5 DEF Typed, Refresh
  <1> HIDE DEF Revoked
  <1>6. \A s \in Tokens :
           \/ s = new /\ tokens'[s] = Issued(u, t)
           \/ s # new /\ s # t /\ tokens'[s] = tokens[s]
           \/ s # new /\ s = t /\ tokens[s] # None /\ tokens'[s] = Revoked(s)
    BY <1>1, <1>3, NoneApart
  <1>7. Typed'
    <2>1. \A s \in Tokens : tokens'[s] \in Refresh \cup {None}
      BY <1>4, <1>5, <1>6 DEF Typed
    <2>2. now + AccessFor \in Nat
      BY Periods DEF Typed
    <2>3. access' \in [Users -> Nat]
      BY <1>3, <2>2 DEF Typed
    <2> QED
      BY <1>1, <1>3, <2>1, <2>3 DEF Typed
  <1>8. \A s \in Tokens : tokens[s] # None => tokens'[s] # None
    BY <1>1, <1>5, <1>6, NoneApart
  <1>9. Pending'
    BY <1>1, <1>8 DEF Pending, Fit, Accounted, Typed
  <1>10. Owned'
    <2>1. \A v \in Users : access'[v] # 0 => v \in Accounted
      BY <1>3 DEF Owned, Typed, Accounted
    <2>2. \A s \in Tokens : tokens'[s] # None => tokens'[s].user \in Accounted
      BY <1>4, <1>5, <1>6 DEF Owned
    <2> QED
      BY <1>1, <2>1, <2>2 DEF Owned, Accounted
  <1>11. Chained'
    <2> SUFFICES ASSUME NEW s \in Tokens, tokens'[s] # None, tokens'[s].parent # None
                 PROVE  tokens'[tokens'[s].parent] # None /\ tokens'[tokens'[s].parent].revoked
      BY DEF Chained
    <2>1. CASE s = new
      <3>1. tokens'[s].parent = t /\ t \in Tokens /\ t # new
        BY <1>1, <1>3, <1>4, <2>1
      <3> QED
        BY <1>3, <1>5, <1>8, <3>1
    <2>2. CASE s # new
      <3>1. /\ tokens[s] # None /\ tokens[s].parent # None
            /\ tokens'[s].parent = tokens[s].parent
        BY <1>5, <1>6, <2>2
      <3>2. tokens[s].parent \in Tokens
        BY <3>1 DEF Typed, Refresh
      <3>3. tokens[tokens[s].parent] # None /\ tokens[tokens[s].parent].revoked
        BY <3>1 DEF Chained
      <3> QED
        BY <1>1, <1>5, <1>6, <1>8, <3>1, <3>2, <3>3
    <2> QED
      BY <2>1, <2>2
  <1>12. (Counted /\ Apart)'
    BY <1>1 DEF Counted, Apart, Accounted
  <1> QED
    BY <1>7, <1>9, <1>10, <1>11, <1>12

\* Logout revokes a token and leaves the rest of it.
LEMMA LogoutKeeps ==
    ASSUME AccountsInv, NEW t \in Tokens, Logout(t)
    PROVE  AccountsInv'
  <1> USE DEF AccountsInv
  <1>1. /\ UNCHANGED <<now, users, access, failures, used, req>>
        /\ tokens' = [tokens EXCEPT ![t] = [@ EXCEPT !.revoked = TRUE]]
        /\ tokens[t] \in Refresh
    BY DEF Logout, Typed
  <1>2. /\ [tokens[t] EXCEPT !.revoked = TRUE] \in Refresh
        /\ [tokens[t] EXCEPT !.revoked = TRUE].revoked
        /\ [tokens[t] EXCEPT !.revoked = TRUE].user = tokens[t].user
        /\ [tokens[t] EXCEPT !.revoked = TRUE].parent = tokens[t].parent
    BY <1>1 DEF Refresh
  <1>3. Typed'
    BY <1>1, <1>2 DEF Typed
  <1>4. Pending'
    BY <1>1, <1>2, NoneApart DEF Pending, Fit, Accounted, Typed
  <1>5. Owned'
    BY <1>1, <1>2, NoneApart DEF Owned, Accounted, Typed
  <1>6. Chained'
    <2> SUFFICES ASSUME NEW s \in Tokens, tokens'[s] # None, tokens'[s].parent # None
                 PROVE  tokens'[tokens'[s].parent] # None /\ tokens'[tokens'[s].parent].revoked
      BY DEF Chained
    <2>1. tokens[s] # None /\ tokens'[s].parent = tokens[s].parent
      BY <1>1, <1>2, NoneApart DEF Typed
    <2>2. tokens[s].parent \in Tokens
      BY <2>1 DEF Typed, Refresh
    <2>3. tokens[tokens[s].parent] # None /\ tokens[tokens[s].parent].revoked
      BY <2>1 DEF Chained
    <2> QED
      BY <1>1, <1>2, <2>1, <2>2, <2>3, NoneApart DEF Typed
  <1>7. (Counted /\ Apart)'
    BY <1>1 DEF Counted, Apart, Accounted
  <1> QED
    BY <1>3, <1>4, <1>5, <1>6, <1>7

-----------------------------------------------------------------------------
(* The theorems. *)

\* At the start there are no accounts, tokens or requests.
LEMMA InitInv == Init => AccountsInv
  BY NoneApart DEF Init, AccountsInv, Typed, Pending, Owned, Counted, Chained, Apart, Accounted

\* Every step keeps the invariant.
LEMMA StepInv == AccountsInv /\ [Next]_vars => AccountsInv'
  <1> SUFFICES ASSUME AccountsInv, [Next]_vars
               PROVE  AccountsInv'
    OBVIOUS
  <1>1. ASSUME UNCHANGED <<users, tokens, access, req, failures, used>>, now' \in Nat, now <= now'
        PROVE  AccountsInv'
    <2>1. (Typed /\ Owned /\ Chained /\ Apart)'
      BY <1>1 DEF AccountsInv, Typed, Owned, Chained, Apart, Accounted
    <2>2. Pending'
      BY <1>1 DEF AccountsInv, Pending, Fit, Accounted
    <2>3. Counted'
      <3> SUFFICES ASSUME NEW u \in Accounted
                   PROVE  users[u].lock <= now' + LockFor
        BY <1>1 DEF AccountsInv, Counted, Accounted
      <3>1. users[u].lock \in Nat /\ users[u].lock <= now + LockFor
        BY DEF AccountsInv, Counted, Accounted, Typed, Account
      <3>2. LockFor \in Nat
        BY Periods
      <3> QED
        BY <1>1, <3>1, <3>2 DEF AccountsInv, Typed
    <2> QED
      BY <2>1, <2>2, <2>3 DEF AccountsInv
  <1>2. CASE Tick
    BY <1>1, <1>2 DEF Tick, AccountsInv, Typed
  <1>3. CASE Refuse
    BY <1>1, <1>3 DEF Refuse, AccountsInv, Typed
  <1>4. CASE UNCHANGED vars
    BY <1>1, <1>4 DEF vars, AccountsInv, Typed
  <1>5. ASSUME NEW r \in Requests, Request(r)
        PROVE  AccountsInv'
    BY <1>5, ReadsFit, RegisterKeeps, LoginFailsKeeps, LoginSucceedsKeeps, ResetKeeps, TokenStepKeeps
       DEF Request
  <1>6. ASSUME NEW t \in Tokens, Logout(t)
        PROVE  AccountsInv'
    BY <1>6, LogoutKeeps
  <1>7. ASSUME NEW u \in Users, VerifyEmail(u) \/ \E new \in Resets : RequestReset(u, new)
        PROVE  AccountsInv'
    BY <1>7, VerifyKeeps, RequestResetKeeps
  <1> QED
    BY <1>2, <1>3, <1>4, <1>5, <1>6, <1>7 DEF Next

\* Rows, tokens and requests keep their types and agree, whatever overlaps.
THEOREM Consistent == Spec => []AccountsInv
  BY InitInv, StepInv, PTL DEF Spec

\* However many logins overlap, an account is locked only after MaxFailures
\* wrong passwords (crud.authenticate_user).
THEOREM LocksEarned == Spec => []LockIsEarned
  <1>1. AccountsInv => LockIsEarned
    BY DEF AccountsInv, Counted, LockIsEarned
  <1> QED
    BY <1>1, Consistent, PTL

\* A refresh token once exchanged is revoked, and a reset token once used is in
\* no account (router.refresh_token, reset_password), whatever overlaps.
THEOREM SpentIsSpent == Spec => []SpentBuysNothing
  <1>1. AccountsInv => SpentBuysNothing
    BY DEF AccountsInv, Chained, Apart, SpentBuysNothing
  <1> QED
    BY <1>1, Consistent, PTL

\* A lock in force outlives the logins under way (crud.authenticate_user), but
\* for those that have read an earlier lock.
THEOREM LocksOutliveRaces == Spec => LockOutlivesRaces
  <1> DEFINE Kept(u) ==
        Locked(users[u]) =>
           \/ users'[u].lock >= users[u].lock
           \/ \E r \in Requests : Waits(r, "login") /\ req[r].user = u /\ req[r].seen.lock # 0
  <1>1. ASSUME AccountsInv, [Next]_vars
        PROVE  [\A u \in Accounted : Kept(u)]_vars
    <2> SUFFICES ASSUME Next, NEW u \in Accounted, Locked(users[u])
                 PROVE  \/ users'[u].lock >= users[u].lock
                        \/ \E r \in Requests : Waits(r, "login") /\ req[r].user = u /\ req[r].seen.lock # 0
      BY <1>1
    <2>1. /\ u \in Users /\ users[u] \in Account /\ users[u] # None
          /\ users \in [Users -> Account \cup {None}]
      BY <1>1 DEF AccountsInv, Typed, Accounted
    <2>2. users[u].lock \in Nat
      BY <2>1 DEF Account
    <2>3. ASSUME users'[u] = users[u] \/ users'[u].lock = users[u].lock
          PROVE  users'[u].lock >= users[u].lock
      BY <2>2, <2>3
    <2>4. CASE Tick \/ Refuse
      BY <2>3, <2>4 DEF Tick, Refuse
    <2>5. ASSUME NEW r \in Requests, Request(r)
          PROVE  \/ users'[u].lock >= users[u].lock
                 \/ \E s \in Requests : Waits(s, "login") /\ req[s].user = u /\ req[s].seen.lock # 0
      <3>1. CASE \/ \E v \in Users, p \in Passwords : RegisterReads(r, v, p) \/ LoginReads(r, v, p)
                 \/ \E t \in Tokens : LoginIssues(r, t) \/ RefreshReads(r, t) \/ RefreshCommits(r, t)
                 \/ \E t \in Resets, p \in Passwords : ResetReads(r, t, p)
        <4>1. users' = users
          BY <3>1 DEF RegisterReads, LoginReads, LoginIssues, RefreshReads, RefreshCommits, ResetReads, Arrive
        <4> QED
          BY <2>3, <4>1
      <3>2. CASE RegisterCommits(r)
        <4>1. users'[u] = users[u]
          BY <2>1, <3>2 DEF RegisterCommits
        <4> QED
          BY <2>3, <4>1
      <3>3. CASE LoginFails(r)
        <4>1. req[r].seen \in Account
          BY <1>1, <3>3 DEF LoginFails, Waits, AccountsInv, Pending, Fit
        <4>2. CASE req[r].user # u
          BY <2>1, <2>3, <3>3, <4>2 DEF LoginFails
        <4>3. CASE req[r].user = u
          <5>1. users'[u] = Fail(users[u], req[r].seen)
            BY <2>1, <3>3, <4>3 DEF LoginFails
          <5>2. now \in Nat /\ LockFor \in Nat /\ users[u].lock <= now + LockFor
            BY <1>1, Periods DEF AccountsInv, Typed, Counted
          <5> QED
            BY <2>1, <2>2, <4>1, <5>1, <5>2, FailEffect
        <4> QED
          BY <4>2, <4>3
      <3>4. CASE LoginSucceeds(r)
        <4>1. req[r].seen \in Account
          BY <1>1, <3>4 DEF LoginSucceeds, Waits, AccountsInv, Pending, Fit
        <4>2. CASE req[r].user # u
          BY <2>1, <2>3, <3>4, <4>2 DEF LoginSucceeds
        <4>3. CASE req[r].user = u
          <5>1. users'[u] = Succeed(users[u], req[r].seen) /\ Waits(r, "login")
            BY <2>1, <3>4, <4>3 DEF LoginSucceeds
          <5> QED
            BY <2>1, <2>3, <4>1, <4>3, <5>1, SucceedEffect
        <4> QED
          BY <4>2, <4>3
      <3>5. CASE ResetCommits(r)
        <4>1. users'[u] = users[u] \/ users'[u] = SetPassword(users[u], req[r].password)
          BY <2>1, <3>5 DEF ResetCommits
        <4> QED
          BY <2>1, <2>3, <4>1 DEF SetPassword, Account
      <3> QED
        BY <2>5, <3>1, <3>2, <3>3, <3>4, <3>5 DEF Request
    <2>6. ASSUME NEW t \in Tokens, Logout(t)
          PROVE  users'[u].lock >= users[u].lock
      BY <2>3, <2>6 DEF Logout
    <2>7. ASSUME NEW v \in Users, VerifyEmail(v)
          PROVE  users'[u].lock >= users[u].lock
      <3>1. users'[u] = users[u] \/ users'[u] = [users[u] EXCEPT !.verified = TRUE]
        BY <2>1, <2>7 DEF VerifyEmail
      <3> QED
        BY <2>1, <2>3, <3>1 DEF Account
    <2>8. ASSUME NEW v \in Users, NEW new \in Resets, RequestReset(v, new)
          PROVE  users'[u].lock >= users[u].lock
      <3>1. users'[u] = users[u] \/ users'[u] = StoreReset(users[u], new)
        BY <2>1, <2>8 DEF RequestReset
      <3> QED
        BY <2>1, <2>3, <3>1 DEF StoreReset, Account
    <2> QED
      BY <2>4, <2>5, <2>6, <2>7, <2>8 DEF Next
  <1> QED
    BY <1>1, Consistent, PTL DEF Spec, LockOutlivesRaces


-----------------------------------------------------------------------------
(* The limiter. *)

\* Hits are stamped in order, and none in the future.
Ordered(times) ==
    /\ \A i \in DOMAIN times : times[i] <= now
    /\ \A i, j \in DOMAIN times : i <= j => times[i] <= times[j]

\* `times` is what is left of `all` without the first k.
Suffix(times, all, k) ==
    /\ Len(times) = Len(all) - k
    /\ \A i \in 1 .. Len(times) : times[i] = all[k + i]

\* What the limiter no longer remembers of the requests let through is out of
\* the window.
Remembers ==
    \E k \in 0 .. Len(admitted) :
        /\ Suffix(hits, admitted, k)
        /\ \A i \in 1 .. k : now - admitted[i] > Window

\* Of Limit + 1 requests in a row, the last comes a window after the first.
Spaced ==
    \A i \in DOMAIN admitted :
        i + Limit \in DOMAIN admitted => admitted[i + Limit] - admitted[i] > Window

LimiterInv ==
    /\ now \in Nat
    /\ hits \in Seq(Nat) /\ admitted \in Seq(Nat)
    /\ Ordered(admitted)
    /\ Remembers
    /\ Spaced

\* A set of natural numbers has a least one.
LEMMA LeastNatural ==
    ASSUME NEW T \in SUBSET Nat, T # {}
    PROVE  \E x \in T : \A y \in T : x <= y
  <1> DEFINE Below == {1 .. x : x \in T}
  <1>1. Below \subseteq FiniteSubsetsOf(Nat) /\ Below # {}
    <2>1. ASSUME NEW x \in T PROVE 1 .. x \in SUBSET Nat /\ IsFiniteSet(1 .. x)
      BY FS_Interval
    <2> QED
      BY <2>1 DEF FiniteSubsetsOf
  <1>2. \E b \in Below : \A a \in Below : ~ (<<a, b>> \in StrictSubsetOrdering(Nat))
    <2>1. IsWellFoundedOn(StrictSubsetOrdering(Nat), FiniteSubsetsOf(Nat))
      BY FS_StrictSubsetOrderingWellFounded
    <2> HIDE DEF Below
    <2> QED
      BY <1>1, <2>1, WFMin
  <1>3. PICK x \in T : \A y \in T : ~ (<<1 .. y, 1 .. x>> \in StrictSubsetOrdering(Nat))
    BY <1>2
  <1>4. ASSUME NEW y \in T, y < x PROVE FALSE
    <2>1. 1 .. y \subseteq 1 .. x /\ x \in 1 .. x /\ x \notin 1 .. y
      BY <1>4
    <2>2. 1 .. y \in SUBSET Nat /\ 1 .. x \in SUBSET Nat
      OBVIOUS
    <2>3. <<1 .. y, 1 .. x>> \in StrictSubsetOrdering(Nat)
      BY <2>1, <2>2 DEF StrictSubsetOrdering
    <2> QED
      BY <1>3, <2>3
  <1> QED
    BY <1>4

\* The pops take the first hits, all of them out of the window, and no more.
LEMMA RecentEffect ==
    ASSUME NEW times \in Seq(Nat), now \in Nat
    PROVE  /\ Recent(times) \in Seq(Nat)
           /\ \E k \in 0 .. Len(times) :
                 /\ Suffix(Recent(times), times, k)
                 /\ \A i \in 1 .. k : now - times[i] > Window
  <1> DEFINE fresh == {i \in DOMAIN times : now - times[i] <= Window}
             first == CHOOSE i \in fresh : \A j \in fresh : i <= j
  <1>1. /\ Len(times) \in Nat /\ DOMAIN times = 1 .. Len(times)
        /\ \A i \in DOMAIN times : times[i] \in Nat
        /\ Window \in Nat
    BY PeriodAssumption
  <1>2. Recent(times) = IF fresh = {} THEN <<>> ELSE SubSeq(times, first, Len(times))
    BY DEF Recent
  <1>3. CASE fresh = {}
    <2>1. \A i \in 1 .. Len(times) : now - times[i] > Window
      BY <1>1, <1>3
    <2>2. Suffix(<<>>, times, Len(times)) /\ Len(times) \in 0 .. Len(times)
      BY <1>1 DEF Suffix
    <2> QED
      BY <1>2, <1>3, <2>1, <2>2
  <1>4. CASE fresh # {}
    <2>1. fresh \in SUBSET Nat
      BY <1>1
    <2>2. first \in fresh /\ \A j \in fresh : first <= j
      <3>1. \E i \in fresh : \A j \in fresh : i <= j
        BY <1>4, <2>1, LeastNatural
      <3> HIDE DEF fresh
      <3> QED
        BY <3>1
    <2>3. first \in 1 .. Len(times)
      BY <1>1, <2>2
    <2> HIDE DEF first
    <2>4. ASSUME NEW i \in 1 .. (first - 1) PROVE now - times[i] > Window
      <3>1. i \in 1 .. Len(times) /\ ~(first <= i)
        BY <1>1, <2>3
      <3>2. i \notin fresh /\ times[i] \in Nat
        BY <1>1, <2>2, <3>1
      <3> QED
        BY <1>1, <3>1, <3>2
    <2> HIDE DEF fresh
    <2>5. SubSeq(times, first, Len(times)) \in Seq(Nat)
      BY <1>1, <2>3
    <2>6. Suffix(SubSeq(times, first, Len(times)), times, first - 1)
      <3>1. Len(SubSeq(times, first, Len(times))) = Len(times) - (first - 1)
        BY <1>1, <2>3
      <3>2. \A i \in 1 .. (Len(times) - (first - 1)) :
               SubSeq(times, first, Len(times))[i] = times[(first - 1) + i]
        BY <1>1, <2>3
      <3> QED
        BY <3>1, <3>2 DEF Suffix
    <2>7. first - 1 \in 0 .. Len(times)
      BY <1>1, <2>3
    <2> QED
      BY <1>2, <1>4, <2>4, <2>5, <2>6, <2>7
  <1> QED
    BY <1>3, <1>4

\* What is left after pops is still what is left of all the requests let through.
LEMMA RecentRemembers ==
    ASSUME LimiterInv
    PROVE  /\ Recent(hits) \in Seq(Nat)
           /\ \E k \in 0 .. Len(admitted) :
                 /\ Suffix(Recent(hits), admitted, k)
                 /\ \A i \in 1 .. k : now - admitted[i] > Window
  <1>1. PICK k \in 0 .. Len(admitted) :
           /\ Suffix(hits, admitted, k)
           /\ \A i \in 1 .. k : now - admitted[i] > Window
    BY DEF LimiterInv, Remembers
  <1>2. /\ Recent(hits) \in Seq(Nat)
        /\ \E j \in 0 .. Len(hits) :
              /\ Suffix(Recent(hits), hits, j)
              /\ \A i \in 1 .. j : now - hits[i] > Window
    BY RecentEffect DEF LimiterInv
  <1>3. PICK j \in 0 .. Len(hits) :
           /\ Suffix(Recent(hits), hits, j)
           /\ \A i \in 1 .. j : now - hits[i] > Window
    BY <1>2
  <1>4. Len(hits) \in Nat /\ Len(admitted) \in Nat /\ Len(hits) = Len(admitted) - k
    BY <1>1 DEF LimiterInv, Suffix
  <1>5. k + j \in 0 .. Len(admitted)
    BY <1>4
  <1>6. Len(Recent(hits)) = Len(admitted) - (k + j)
    BY <1>3, <1>4 DEF Suffix
  <1>7. ASSUME NEW i \in 1 .. Len(Recent(hits))
        PROVE  Recent(hits)[i] = admitted[(k + j) + i]
    <2>1. Recent(hits)[i] = hits[j + i] /\ j + i \in 1 .. Len(hits)
      BY <1>3, <1>4, <1>6 DEF Suffix
    <2>2. hits[j + i] = admitted[k + (j + i)] /\ k + (j + i) = (k + j) + i
      BY <1>1, <1>4, <2>1 DEF Suffix
    <2> QED
      BY <2>1, <2>2
  <1>8. ASSUME NEW i \in 1 .. (k + j)
        PROVE  now - admitted[i] > Window
    <2>1. CASE i <= k
      BY <1>1, <2>1
    <2>2. CASE i > k
      <3>1. i - k \in 1 .. j /\ i - k \in 1 .. Len(hits) /\ k + (i - k) = i
        BY <1>4, <2>2
      <3>2. hits[i - k] = admitted[i]
        BY <1>1, <3>1 DEF Suffix
      <3> QED
        BY <1>3, <3>1, <3>2
    <2> QED
      BY <2>1, <2>2
  <1> QED
    BY <1>2, <1>5, <1>6, <1>7, <1>8 DEF Suffix

\* A request let through is the last of its kind for a window.
LEMMA AllowKeeps ==
    ASSUME LimiterInv, Allow, now' = now
    PROVE  LimiterInv'
  <1> DEFINE rest == Recent(hits)
             n    == Len(admitted)
  <1>1. /\ rest \in Seq(Nat)
        /\ \E k \in 0 .. n : Suffix(rest, admitted, k) /\ \A i \in 1 .. k : now - admitted[i] > Window
    BY RecentRemembers
  <1>2. PICK k \in 0 .. n : Suffix(rest, admitted, k) /\ \A i \in 1 .. k : now - admitted[i] > Window
    BY <1>1
  <1>3. /\ Len(rest) < Limit /\ hits' = Append(rest, now) /\ admitted' = Append(admitted, now)
        /\ now \in Nat /\ admitted \in Seq(Nat) /\ n \in Nat /\ Limit \in Nat \ {0} /\ Window \in Nat
    BY PeriodAssumption DEF Allow, LimiterInv
  <1>4. Len(rest) = n - k
    BY <1>2 DEF Suffix
  <1> HIDE DEF rest
  <1>5. /\ hits' \in Seq(Nat) /\ admitted' \in Seq(Nat)
        /\ Len(hits') = (n - k) + 1 /\ Len(admitted') = n + 1
        /\ \A i \in 1 .. (n - k) : hits'[i] = rest[i]
        /\ hits'[(n - k) + 1] = now
        /\ \A i \in 1 .. n : admitted'[i] = admitted[i]
        /\ admitted'[n + 1] = now
        /\ DOMAIN admitted' = 1 .. (n + 1) /\ DOMAIN admitted = 1 .. n
    BY <1>1, <1>3, <1>4
  <1>6. \A i \in 1 .. n : admitted[i] \in Nat /\ admitted[i] <= now
    <2>1. \A i \in 1 .. n : admitted[i] \in Nat
      BY <1>3
    <2>2. \A i \in 1 .. n : admitted[i] <= now
      BY <1>5 DEF LimiterInv, Ordered
    <2> QED
      BY <2>1, <2>2
  <1>7. \A i, j \in 1 .. n : i <= j => admitted[i] <= admitted[j]
    BY <1>5 DEF LimiterInv, Ordered
  <1>8. \A i \in 1 .. n : i + Limit \in 1 .. n => admitted[i + Limit] - admitted[i] > Window
    BY <1>5 DEF LimiterInv, Spaced
  <1> HIDE DEF n
  <1>9. Ordered(admitted)'
    <2>1. ASSUME NEW i \in 1 .. (n + 1) PROVE admitted'[i] <= now
      BY <1>3, <1>5, <1>6
    <2>2. ASSUME NEW i \in 1 .. (n + 1), NEW j \in 1 .. (n + 1), i <= j
          PROVE  admitted'[i] <= admitted'[j]
      <3>1. CASE j = n + 1
        BY <1>5, <2>1, <3>1
      <3>2. CASE j # n + 1
        BY <1>3, <1>5, <1>7, <2>2, <3>2
      <3> QED
        BY <3>1, <3>2
    <2> QED
      BY <1>5, <2>1, <2>2 DEF Ordered
  <1>10. Remembers'
    <2>1. k \in 0 .. Len(admitted')
      BY <1>3, <1>5
    <2>2. Suffix(hits', admitted', k)
      <3>1. ASSUME NEW i \in 1 .. ((n - k) + 1) PROVE hits'[i] = admitted'[k + i]
        <4>1. CASE i = (n - k) + 1
          BY <1>3, <1>5, <4>1
        <4>2. CASE i # (n - k) + 1
          <5>1. i \in 1 .. (n - k) /\ k + i \in 1 .. n
            BY <1>3, <4>2
          <5>2. rest[i] = admitted[k + i]
            BY <1>2, <1>4, <5>1 DEF Suffix
          <5> QED
            BY <1>5, <5>1, <5>2
        <4> QED
          BY <4>1, <4>2
      <3>2. Len(hits') = Len(admitted') - k
        BY <1>3, <1>5
      <3> QED
        BY <1>5, <3>1, <3>2 DEF Suffix
    <2>3. \A i \in 1 .. k : now' - admitted'[i] > Window
      BY <1>2, <1>3, <1>5
    <2> QED
      BY <2>1, <2>2, <2>3 DEF Remembers, Suffix
  <1>11. Spaced'
    <2>1. ASSUME NEW i \in 1 .. (n + 1), i + Limit \in 1 .. (n + 1)
          PROVE  admitted'[i + Limit] - admitted'[i] > Window
      <3>1. CASE i + Limit = n + 1
        <4>1. i \in 1 .. k /\ i \in 1 .. n
          BY <1>3, <1>4, <3>1
        <4> QED
          BY <1>2, <1>5, <3>1, <4>1
      <3>2. CASE i + Limit # n + 1
        <4>1. i \in 1 .. n /\ i + Limit \in 1 .. n
          BY <1>3, <2>1, <3>2
        <4> QED
          BY <1>5, <1>8, <4>1
      <3> QED
        BY <3>1, <3>2
    <2> QED
      BY <1>5, <2>1 DEF Spaced
  <1> QED
    BY <1>3, <1>5, <1>9, <1>10, <1>11 DEF LimiterInv

LEMMA LimiterStep == LimiterInv /\ [Next]_vars => LimiterInv'
  <1> SUFFICES ASSUME LimiterInv, [Next]_vars PROVE LimiterInv'
    OBVIOUS
  <1>1. ASSUME UNCHANGED <<now, hits, admitted>> PROVE LimiterInv'
    BY <1>1 DEF LimiterInv, Ordered, Remembers, Spaced, Suffix
  <1>2. CASE Tick
    <2>1. /\ now' = now + 1 /\ now \in Nat /\ hits' = hits /\ admitted' = admitted
          /\ Window \in Nat /\ \A i \in DOMAIN admitted : admitted[i] \in Nat
          /\ Len(admitted) \in Nat /\ DOMAIN admitted = 1 .. Len(admitted)
      BY <1>2, PeriodAssumption DEF Tick, LimiterInv
    <2>2. Ordered(admitted)'
      BY <2>1 DEF LimiterInv, Ordered
    <2>3. Remembers'
      <3>1. PICK k \in 0 .. Len(admitted) :
               Suffix(hits, admitted, k) /\ \A i \in 1 .. k : now - admitted[i] > Window
        BY DEF LimiterInv, Remembers
      <3>2. \A i \in 1 .. k : now' - admitted'[i] > Window
        BY <2>1, <3>1
      <3> QED
        BY <2>1, <3>1, <3>2 DEF Remembers, Suffix
    <2> QED
      BY <2>1, <2>2, <2>3 DEF LimiterInv, Spaced
  <1>3. CASE Refuse
    <2>1. hits' = Recent(hits) /\ now' = now /\ admitted' = admitted
      BY <1>3 DEF Refuse
    <2> QED
      BY <2>1, RecentRemembers DEF LimiterInv, Ordered, Remembers, Spaced, Suffix
  <1>4. ASSUME NEW r \in Requests, NEW pending, Arrive(r, pending) PROVE LimiterInv'
    BY <1>4, AllowKeeps DEF Arrive
  <1>5. ASSUME NEW r \in Requests, Request(r) PROVE LimiterInv'
    <2>1. ASSUME NEW u \in Users, NEW p \in Passwords, RegisterReads(r, u, p) \/ LoginReads(r, u, p)
          PROVE  LimiterInv'
      BY <1>4, <2>1 DEF RegisterReads, LoginReads
    <2>2. ASSUME NEW t \in Tokens, RefreshReads(r, t) PROVE LimiterInv'
      BY <1>4, <2>2 DEF RefreshReads
    <2>3. ASSUME NEW t \in Resets, NEW p \in Passwords, ResetReads(r, t, p) PROVE LimiterInv'
      BY <1>4, <2>3 DEF ResetReads
    <2>4. CASE RegisterCommits(r) \/ LoginFails(r) \/ LoginSucceeds(r) \/ ResetCommits(r)
      BY <1>1, <2>4 DEF RegisterCommits, LoginFails, LoginSucceeds, ResetCommits
    <2>5. ASSUME NEW t \in Tokens, LoginIssues(r, t) \/ RefreshCommits(r, t) PROVE LimiterInv'
      BY <1>1, <2>5 DEF LoginIssues, RefreshCommits
    <2> QED
      BY <1>5, <2>1, <2>2, <2>3, <2>4, <2>5 DEF Request
  <1>6. ASSUME NEW u \in Users, NEW new \in Resets, RequestReset(u, new) PROVE LimiterInv'
    BY <1>6, AllowKeeps DEF RequestReset
  <1>7. ASSUME NEW u \in Users, VerifyEmail(u) PROVE LimiterInv'
    BY <1>1, <1>7 DEF VerifyEmail
  <1>8. ASSUME NEW t \in Tokens, Logout(t) PROVE LimiterInv'
    BY <1>1, <1>8 DEF Logout
  <1>9. CASE UNCHANGED vars
    BY <1>1, <1>9 DEF vars
  <1> QED
    BY <1>2, <1>3, <1>5, <1>6, <1>7, <1>8, <1>9 DEF Next

\* A window that begins anywhere has the requests let through from the first in
\* it on, and fewer than Limit after that one.
LEMMA WindowHolds == LimiterInv => WindowBound
  <1> SUFFICES ASSUME LimiterInv, NEW start \in Times
               PROVE  Cardinality({i \in DOMAIN admitted : admitted[i] \in start .. (start + Window)}) <= Limit
    BY DEF WindowBound
  <1> DEFINE inside == {i \in DOMAIN admitted : admitted[i] \in start .. (start + Window)}
  <1>1. /\ start \in Nat /\ Window \in Nat /\ Limit \in Nat \ {0}
        /\ Len(admitted) \in Nat /\ DOMAIN admitted = 1 .. Len(admitted)
        /\ \A i \in DOMAIN admitted : admitted[i] \in Nat
    BY PeriodAssumption, TimeAssumption DEF LimiterInv, Times
  <1>2. inside \in SUBSET Nat
    BY <1>1
  <1>3. CASE inside = {}
    BY <1>1, <1>3, FS_EmptySet
  <1>4. CASE inside # {}
    <2>1. PICK i \in inside : \A j \in inside : i <= j
      <3> HIDE DEF inside
      <3> QED
        BY <1>2, <1>4, LeastNatural
    <2>2. ASSUME NEW j \in inside PROVE j \in i .. (i + Limit - 1)
      <3>1. /\ i \in 1 .. Len(admitted) /\ admitted[i] \in Nat /\ admitted[i] >= start
            /\ j \in 1 .. Len(admitted) /\ admitted[j] \in Nat /\ admitted[j] <= start + Window
            /\ i <= j
        BY <1>1, <2>1
      <3>2. ASSUME j >= i + Limit PROVE FALSE
        <4>1. i + Limit \in DOMAIN admitted
          BY <1>1, <3>1, <3>2
        <4>2. admitted[i + Limit] \in Nat /\ admitted[i + Limit] - admitted[i] > Window
          BY <1>1, <3>1, <4>1 DEF LimiterInv, Spaced
        <4>3. admitted[i + Limit] <= admitted[j]
          BY <1>1, <3>1, <3>2, <4>1 DEF LimiterInv, Ordered
        <4> QED
          BY <1>1, <3>1, <4>2, <4>3
      <3> QED
        BY <1>1, <3>1, <3>2
    <2>3. i \in Int /\ i + Limit - 1 \in Int /\ ~(i > i + Limit - 1) /\ (i + Limit - 1) - i + 1 = Limit
      BY <1>1, <1>2
    <2>4. IsFiniteSet(i .. (i + Limit - 1)) /\ Cardinality(i .. (i + Limit - 1)) = Limit
      BY <2>3, FS_Interval, Zenon
    <2> HIDE DEF inside
    <2>5. inside \in SUBSET (i .. (i + Limit - 1))
      BY <2>2
    <2>6. Cardinality(inside) <= Cardinality(i .. (i + Limit - 1))
      BY <2>4, <2>5, FS_Subset
    <2> QED
      BY <2>4, <2>6 DEF inside
  <1> QED
    BY <1>3, <1>4

\* In no period as long as the window does RateLimiter.allow let more than Limit
\* requests through, whatever comes between them.
THEOREM WindowKept == Spec => []WindowBound
  <1>1. Init => LimiterInv
    BY DEF Init, LimiterInv, Ordered, Remembers, Spaced, Suffix
  <1> QED
    BY <1>1, LimiterStep, WindowHolds, PTL DEF Spec

=============================================================================
