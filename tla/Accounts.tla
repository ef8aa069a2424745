------------------------------ MODULE Accounts ------------------------------
(***************************************************************************)
(* What the API knows of its users: rows of the users table, which the     *)
(* handlers of UserController read and then write, and three things that   *)
(* live in the memory of one worker and die with it, the revoked tokens of *)
(* jwt.service, the attempts that PasswordService counts and those that    *)
(* UserController counts.                                                  *)
(***************************************************************************)
EXTENDS Naturals, Sequences

CONSTANTS Procs,                  \* the workers
          UserIds, None,
          MAX_ATTEMPTS,           \* also MAX_PASSWORD_ATTEMPTS; both are 5
          LOG_LIMIT,              \* entries that the model's hook keeps: 100
          MaxRequests,            \* bound: requests of all kinds together
          MaxRestarts             \* bound: restarts, all of one worker

ASSUMPTION AccountsAssumption ==
    /\ MAX_ATTEMPTS \in Nat \ {0} /\ LOG_LIMIT \in Nat \ {0}
    /\ MaxRequests \in Nat /\ MaxRestarts \in Nat

Requests == 1 .. MaxRequests

VARIABLES
    requests,       \* how many there have been
    restarts,       \* of each worker
    issued,         \* refresh tokens; their jti is the number of the request
    refresh,        \* the calls of refreshAccessToken() that found theirs valid
    tokenBlacklist,
    attempts,       \* of RateLimited: the count of a method and a user
    timers,         \* attempts whose timer has not fired
    emptied,        \* history: a timer fired and left younger attempts uncounted
    rateLimitMap,
    active, securityLog,          \* columns of a user's row
    op,             \* the handlers of UserController
    concurrent      \* history: handlers that ran beside one of the same user

memory == <<tokenBlacklist, attempts, timers, emptied, rateLimitMap>>
tokens == <<issued, refresh>>
rows == <<active, securityLog>>
accountsVars == <<requests, restarts, tokens, memory, rows, op, concurrent>>

Limited == {"hashNewPassword", "verifyPassword"} \X UserIds

\* A refresh of the token `of` by a worker, in which of its lives; it has
\* returned ("done"), or its worker has ended before ("dead").
Refresh == [of : Requests, by : Procs, at : 0 .. MaxRestarts,
            stage : {"verified", "done", "dead"}]

\* What revokeToken() is given: refreshAccessToken() gives the jti, logout() of
\* AuthController gives the token.
Revocation == {"jti", "token"} \X Requests

\* Entries of a security log: the event of a handler, or the event that the
\* hook of the model adds for it.
Entry == {"handler", "hook"} \X Requests

Op == [kind : {"update", "preferences", "delete"}, user : UserIds,
       stage : {"read", "written", "done", "failed"},
       log : Seq(Entry)]          \* as the handler holds it, the newest first

ASSUME NoneIsNoRecord == None \notin Refresh /\ None \notin Op

AccountsTypeOK ==
    /\ requests \in 0 .. MaxRequests
    /\ restarts \in [Procs -> 0 .. MaxRestarts]
    /\ issued \in SUBSET Requests
    /\ refresh \in [Requests -> Refresh \cup {None}]
    /\ tokenBlacklist \in [Procs -> SUBSET Revocation]
    /\ attempts \in [Procs -> [Limited -> 0 .. MAX_ATTEMPTS]]
    /\ timers \in [Procs -> [Limited -> 0 .. MaxRequests]]
    /\ emptied \in [Procs -> [Limited -> BOOLEAN]]
    /\ rateLimitMap \in [Procs -> [UserIds -> 0 .. MAX_ATTEMPTS]]
    /\ active \in [UserIds -> BOOLEAN]
    /\ securityLog \in [UserIds -> Seq(Entry)]
    /\ op \in [Requests -> Op \cup {None}]
    /\ concurrent \in SUBSET Requests

AccountsInit ==
    /\ requests = 0
    /\ restarts = [p \in Procs |-> 0]
    /\ issued = {}
    /\ refresh = [r \in Requests |-> None]
    /\ tokenBlacklist = [p \in Procs |-> {}]
    /\ attempts = [p \in Procs |-> [k \in Limited |-> 0]]
    /\ timers = [p \in Procs |-> [k \in Limited |-> 0]]
    /\ emptied = [p \in Procs |-> [k \in Limited |-> FALSE]]
    /\ rateLimitMap = [p \in Procs |-> [u \in UserIds |-> 0]]
    /\ active = [u \in UserIds |-> TRUE]
    /\ securityLog = [u \in UserIds |-> <<>>]
    /\ op = [r \in Requests |-> None]
    /\ concurrent = {}

Arrives == requests < MaxRequests /\ requests' = requests + 1

-----------------------------------------------------------------------------
\* Tokens.

\* A login: the services generate its tokens without any I/O in between.  The
\* controllers' own access tokens are not among them: login(), register() and
\* oauthLogin() pass claims to generateToken() that it sets itself, which
\* jwt.sign() refuses.
Issue(p) ==
    /\ Arrives
    /\ issued' = issued \cup {requests'}
    /\ UNCHANGED <<restarts, refresh, memory, rows, op, concurrent>>

\* verifyToken(), for a token that has not expired, from the device it is for.
Valid(p, t) == t \in issued /\ <<"jti", t>> \notin tokenBlacklist[p]

\* refreshAccessToken(), until it awaits verifyToken(): other calls run before
\* it goes on, among them refreshes of the same token.
RefreshAccessToken(p, t) ==
    /\ Arrives /\ Valid(p, t)
    /\ refresh' = [refresh EXCEPT ![requests'] =
                    [of |-> t, by |-> p, at |-> restarts[p], stage |-> "verified"]]
    /\ UNCHANGED <<restarts, issued, memory, rows, op, concurrent>>

Revoke(p, r) ==
    tokenBlacklist' = [tokenBlacklist EXCEPT ![p] = @ \cup {r}]

\* Bug: the old token is revoked the way logout() does it.
BugRevokeRefreshed(r) ==
    /\ refresh[r] # None /\ refresh[r].stage = "verified"
    /\ issued' = issued \cup {r}
    /\ Revoke(refresh[r].by, <<"token", refresh[r].of>>)
    /\ refresh' = [refresh EXCEPT ![r].stage = "done"]
    /\ UNCHANGED <<requests, restarts, attempts, timers, emptied, rateLimitMap, rows,
                   op, concurrent>>

\* The rest of it.  It awaits the new tokens too, but nobody has them before it
\* returns, and the old one is not looked at again: it is revoked, once more if
\* another refresh has done so.
RevokeRefreshed(r) ==
    /\ refresh[r] # None /\ refresh[r].stage = "verified"
    /\ issued' = issued \cup {r}
    /\ Revoke(refresh[r].by, <<"jti", refresh[r].of>>)
    /\ refresh' = [refresh EXCEPT ![r].stage = "done"]
    /\ UNCHANGED <<requests, restarts, attempts, timers, emptied, rateLimitMap, rows,
                   op, concurrent>>

Logout(p, t) ==
    /\ Arrives /\ t \in issued
    /\ Revoke(p, <<"token", t>>)
    /\ UNCHANGED <<restarts, tokens, attempts, timers, emptied, rateLimitMap,
                   rows, op, concurrent>>

-----------------------------------------------------------------------------
\* Passwords.

\* Bug: an attempt is counted when it has ended, and those that throw are not.
BugAttempt(p, k) ==
    /\ attempts[p][k] < MAX_ATTEMPTS
    /\ attempts' \in {attempts, [attempts EXCEPT ![p][k] = @ + 1]}
    /\ timers' = [timers EXCEPT ![p][k] = @ + 1]

\* RateLimited lets an attempt pass, counts it and sets a timer for it.
Attempt(p, k) ==
    /\ attempts[p][k] < MAX_ATTEMPTS
    /\ attempts' = [attempts EXCEPT ![p][k] = @ + 1]
    /\ timers' = [timers EXCEPT ![p][k] = @ + 1]

HashNewPassword(p, u) == Attempt(p, <<"hashNewPassword", u>>)
VerifyPassword(p, u) == Attempt(p, <<"verifyPassword", u>>)

\* The timer of the oldest attempt forgets all of them.
AttemptExpires(p, k) ==
    /\ timers[p][k] > 0
    /\ timers' = [timers EXCEPT ![p][k] = @ - 1]
    /\ attempts' = [attempts EXCEPT ![p][k] = 0]
    /\ emptied' = [emptied EXCEPT ![p][k] = timers[p][k] > 1]
    /\ UNCHANGED <<requests, restarts, tokens, tokenBlacklist, rateLimitMap,
                   rows, op, concurrent>>

\* login(), if loginLimiter lets it pass: verifyPassword() gets the email for
\* the stored hash, which KMS does not decrypt, and counts by it.
Login(p, u) ==
    /\ Arrives
    /\ VerifyPassword(p, u)
    /\ UNCHANGED <<restarts, tokens, tokenBlacklist, emptied, rateLimitMap, rows,
                   op, concurrent>>

\* createUser() counts by email in a map of its own.  A known email ends it; an
\* unknown one has its password hashed, and then the model's hook, which calls
\* a hashNewPassword() that password.service does not export, fails.
CreateUser(p, u) ==
    /\ Arrives
    /\ rateLimitMap[p][u] < MAX_ATTEMPTS
    /\ rateLimitMap' = [rateLimitMap EXCEPT ![p][u] = @ + 1]
    /\ \/ UNCHANGED <<attempts, timers>>
       \/ HashNewPassword(p, u)
    /\ UNCHANGED <<restarts, tokens, tokenBlacklist, emptied, rows, op, concurrent>>

CleanRateLimitMap(p) ==
    /\ rateLimitMap' = [rateLimitMap EXCEPT ![p] = [u \in UserIds |-> 0]]
    /\ UNCHANGED <<requests, restarts, tokens, tokenBlacklist, attempts, timers,
                   emptied, rows, op, concurrent>>

\* What was being refreshed in a worker that ends is not answered.
Ended(p, r) == r # None /\ r.by = p /\ r.stage = "verified"

\* A worker ends and another one takes its place.
Restart(p) ==
    /\ restarts[p] < MaxRestarts /\ \A q \in Procs \ {p} : restarts[q] = 0
    /\ restarts' = [restarts EXCEPT ![p] = @ + 1]
    /\ tokenBlacklist' = [tokenBlacklist EXCEPT ![p] = {}]
    /\ attempts' = [attempts EXCEPT ![p] = [k \in Limited |-> 0]]
    /\ timers' = [timers EXCEPT ![p] = [k \in Limited |-> 0]]
    /\ emptied' = [emptied EXCEPT ![p] = [k \in Limited |-> FALSE]]
    /\ rateLimitMap' = [rateLimitMap EXCEPT ![p] = [u \in UserIds |-> 0]]
    /\ refresh' = [r \in Requests |->
                    IF Ended(p, refresh[r]) THEN [refresh[r] EXCEPT !.stage = "dead"]
                    ELSE refresh[r]]
    /\ UNCHANGED <<requests, issued, rows, op, concurrent>>

-----------------------------------------------------------------------------
\* The handlers of UserController.

At(r, kind, stage) == op[r] # None /\ op[r].kind = kind /\ op[r].stage = stage
Running(r) == op[r] # None /\ op[r].stage \in {"read", "written"}

\* The caller may do it and the row is there.
FindByPk(kind, u) ==
    LET r == requests + 1
        others == {s \in Requests : Running(s) /\ op[s].user = u} IN
    /\ Arrives
    /\ op' = [op EXCEPT ![r] =
                [kind |-> kind, user |-> u, stage |-> "read", log |-> securityLog[u]]]
    /\ concurrent' = IF others = {} THEN concurrent ELSE concurrent \cup others \cup {r}
    /\ UNCHANGED <<restarts, tokens, memory, rows>>

\* The entry of r: its own, and the one that the model's hook puts in front of
\* the log when a column that matters for security has changed.  Only the hook
\* keeps the log short.
HandlerEntry(r) == <<"handler", r>>
HookEntry(r) == <<"hook", r>>
Capped(log) == SubSeq(log, 1, IF Len(log) < LOG_LIMIT THEN Len(log) ELSE LOG_LIMIT)
HookLog(r, log) == Capped(<<HookEntry(r)>> \o log)

\* The handler r writes this log.
WriteLog(r, log, stage) ==
    /\ securityLog' = [securityLog EXCEPT ![op[r].user] = log]
    /\ op' = [op EXCEPT ![r] = [@ EXCEPT !.stage = stage,
                                         !.log = IF stage = "done" THEN <<>> ELSE log]]
    /\ UNCHANGED <<requests, restarts, tokens, memory, concurrent>>

\* updateUser(), its first write: the columns that the caller's roles allow.
UpdateUser(r) ==
    /\ At(r, "update", "read")
    /\ \/ WriteLog(r, HookLog(r, op[r].log), "written")
       \/ /\ op' = [op EXCEPT ![r].stage = "written"]
          /\ UNCHANGED <<requests, restarts, tokens, memory, securityLog, concurrent>>
    /\ UNCHANGED active

\* Bug: save() writes the whole row as it was read.
BugSaveLog(r) ==
    /\ At(r, "update", "written")
    /\ WriteLog(r, <<HandlerEntry(r)>> \o op[r].log, "done")
    /\ active' = [active EXCEPT ![op[r].user] = TRUE]

\* Its second write: the log with the entry of the handler, no other column.
SaveLog(r) ==
    /\ At(r, "update", "written")
    /\ WriteLog(r, <<HandlerEntry(r)>> \o op[r].log, "done")
    /\ UNCHANGED active

\* Bug: the log is written with the new entry only.
BugUpdatePreferences(r) ==
    /\ At(r, "preferences", "read")
    /\ WriteLog(r, <<HandlerEntry(r)>>, "done")
    /\ UNCHANGED active

\* updatePreferences(): one write for the preferences and the log.
UpdatePreferences(r) ==
    /\ At(r, "preferences", "read")
    /\ WriteLog(r, <<HandlerEntry(r)>> \o op[r].log, "done")
    /\ UNCHANGED active

\* deleteUser() keeps the row.  In the same write the hook adds its entry, unless
\* the row was inactive when it was read.
DeleteUser(r) ==
    LET log == <<HandlerEntry(r)>> \o op[r].log IN
    /\ At(r, "delete", "read")
    /\ \/ WriteLog(r, HookLog(r, log), "done")
       \/ ~ active[op[r].user] /\ WriteLog(r, log, "done")
    /\ active' = [active EXCEPT ![op[r].user] = FALSE]

\* The database or, for preferences, KMS fails, or the worker dies.
OpFails(r) ==
    /\ Running(r)
    /\ op' = [op EXCEPT ![r] = [@ EXCEPT !.stage = "failed", !.log = <<>>]]
    /\ UNCHANGED <<requests, restarts, tokens, memory, rows, concurrent>>

-----------------------------------------------------------------------------
AccountsNext ==
    \/ \E p \in Procs : Issue(p) \/ CleanRateLimitMap(p) \/ Restart(p)
    \/ \E p \in Procs, t \in Requests : RefreshAccessToken(p, t) \/ Logout(p, t)
    \/ \E p \in Procs, k \in Limited : AttemptExpires(p, k)
    \/ \E p \in Procs, u \in UserIds : Login(p, u) \/ CreateUser(p, u)
    \/ \E u \in UserIds, kind \in {"update", "preferences", "delete"} : FindByPk(kind, u)
    \/ \E r \in Requests : \/ RevokeRefreshed(r) \/ UpdateUser(r) \/ SaveLog(r) \/ UpdatePreferences(r)
                           \/ DeleteUser(r) \/ OpFails(r)

AccountsSpec == AccountsInit /\ [][AccountsNext]_accountsVars

-----------------------------------------------------------------------------
\* Properties.

\* The calls r and s use one token in one life of a worker.
SameUse(r, s) == r.of = s.of /\ r.by = s.by /\ r.at = s.at

\* tokenBlacklist is the memory of one worker, and refreshAccessToken() awaits
\* between its check and revokeToken().  Once a call has returned, its worker
\* lets nobody else refresh the same token for as long as it lives; until then,
\* in another worker or after a restart the token passes again.
RefreshOnce ==
    [][\A r, s \in Requests :
          /\ refresh[r] = None /\ refresh'[r] # None
          /\ refresh[s] # None /\ refresh[s].stage = "done"
          => ~ SameUse(refresh'[r], refresh[s])]_accountsVars

\* RateLimited lets more than MAX_PASSWORD_ATTEMPTS attempts pass within
\* PASSWORD_CACHE_TTL only after the timer of an older attempt has emptied the
\* count that held younger ones.
AttemptsExplained ==
    \A p \in Procs : \A k \in Limited :
        timers[p][k] > MAX_ATTEMPTS => emptied[p][k]

\* The log is full of entries that r or later handlers have added.
PushedOut(r, log) == Len(log) >= LOG_LIMIT /\ \A i \in 1 .. LOG_LIMIT : log[i][2] >= r

\* updateUser(), updatePreferences() and deleteUser() write the log that they
\* have read: the entry of a handler that answered is missing only if the
\* handler ran beside another one of the same user, or if the hook has cut off
\* the log behind LOG_LIMIT entries that are not older.
LogLossExplained ==
    \A r \in Requests :
        op[r] # None /\ op[r].stage = "done" =>
            LET log == securityLog[op[r].user] IN
            \/ \E i \in 1 .. Len(log) : log[i] = HandlerEntry(r)
            \/ r \in concurrent
            \/ PushedOut(r, log)

\* deleteUser(): a deleted account stays deleted, whatever was read before.
DeletedStays ==
    [][\A u \in UserIds : ~ active[u] => ~ active'[u]]_accountsVars

=============================================================================
