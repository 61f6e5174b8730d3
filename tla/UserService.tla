---------------------------- MODULE UserService ----------------------------
(***************************************************************************)
(* The account and session service (internal/service/user) over its two    *)
(* tables: users (soft-deleted) and refresh_token_entities (really         *)
(* deleted).  Requests run concurrently; a request is a sequence of        *)
(* statements, each one an action, some of them inside a transaction       *)
(* (txManager.WithinTx), the others autocommitted.                         *)
(*                                                                         *)
(* Data abstraction.  A refresh token is the number of the GenerateRefresh *)
(* call that made it (its jti, a fresh uuid); it also stands for the       *)
(* access token minted with it.  A stored password is its version: how     *)
(* many times the account's password was replaced.                         *)
(***************************************************************************)
EXTENDS Naturals, FiniteSets

CONSTANTS
    Procs,      \* request slots: how many requests may be in flight at once
    Ids,        \* user ids (uuid.New)
    Emails,     \* addresses clients register with
    None,       \* no id, no address
    MaxReqs,    \* bound: requests started in a behaviour
    MaxAged,    \* bound: refresh tokens that get to expire
    Isolation   \* "serial": sqlite, one writer at a time, which holds the
                \*   database from its first write to its commit;
                \* "readcommitted": postgres, row locks only, and a statement
                \*   sees what was committed when it started

ASSUME ConstantsAssumption ==
    /\ None \notin Ids \cup Emails
    /\ MaxReqs \in Nat /\ MaxAged \in Nat
    /\ Isolation \in {"serial", "readcommitted"}

Tokens == 1 .. (MaxReqs + 1)

VARIABLES
    user,       \* users: status, email and password version of every id
    rows,       \* refresh_token_entities: the tokens that have a row
    token,      \* what each minted token says, and (history) how its row ended
    minted,     \* how many refresh tokens were generated
    jwtDead,    \* tokens 1..jwtDead no longer verify as JWTs
    rowDead,    \* tokens 1..rowDead have expires_at < now
    delivered,  \* pairs whose Set-Cookie reached a client
    req,        \* the request in each slot
    started,    \* requests started so far (bounded by MaxReqs)
    raced,      \* history: ids for which a request that issues a token was
                \*   in flight across a revocation (OverlapAt...)
    forked      \* history: tokens two refreshes rotated at the same time

db    == <<user, rows, token>>
clock == <<jwtDead, rowDead>>
history == <<raced, forked>>
vars  == <<user, rows, token, minted, jwtDead, rowDead, delivered, req,
           started, raced, forked>>

---------------------------------------------------------------------------
(* Types *)

Statuses == {"absent", "live", "deleted"}

Ops == {"none", "register", "login", "refresh", "reuse", "changePassword",
        "deleteAccount", "logout"}

Stages == {"idle", "find", "insert", "drop", "delete", "update", "revoke",
           "revoking", "issue", "softdelete", "commit"}

\* How a row left the table.
Ends == {"stored", "rotated", "expired", "logout", "reuse",
         "changePassword", "deleteAccount"}

UserRow == [status : Statuses, email : Emails \cup {None}, ver : Nat]

\* from: the pair the issuing request presented, if any; ver: the password
\* version the session was authorised by; via: the operation that issued it.
TokenRow == [owner : Ids \cup {None}, from : {0} \cup Tokens, ver : Nat,
             via : Ops, ended : Ends]

\* hit: the request's transaction wrote (and locks) the user row uid;
\* del: token rows it deleted (and locks); tgt: rows its running
\* DELETE ... WHERE user_id still has to visit; new: the token it inserted.
Request == [op : Ops, pc : Stages, uid : Ids \cup {None},
            tok : {0} \cup Tokens, email : Emails \cup {None}, ver : Nat,
            hit : BOOLEAN, del : SUBSET Tokens, tgt : SUBSET Tokens,
            new : {0} \cup Tokens]

Idle == [op |-> "none", pc |-> "idle", uid |-> None, tok |-> 0,
         email |-> None, ver |-> 0, hit |-> FALSE, del |-> {}, tgt |-> {},
         new |-> 0]

NoUser  == [status |-> "absent", email |-> None, ver |-> 0]
NoToken == [owner |-> None, from |-> 0, ver |-> 0, via |-> "none",
            ended |-> "stored"]

TypeOK ==
    /\ user \in [Ids -> UserRow]
    /\ rows \subseteq Tokens
    /\ token \in [Tokens -> TokenRow]
    /\ minted \in 0 .. MaxReqs + 1
    /\ jwtDead \in 0 .. minted /\ rowDead \in 0 .. jwtDead
    /\ delivered \subseteq Tokens
    /\ req \in [Procs -> Request]
    /\ started \in 0 .. MaxReqs
    /\ raced \subseteq Ids
    /\ forked \subseteq Tokens

---------------------------------------------------------------------------
(* The database as a request sees it *)

Others(p) == Procs \ {p}

\* FindByEmail and FindByID do not see a soft-deleted row (gorm.DeletedAt).
Live(u) == user[u].status = "live"
FindByEmail(e) == {u \in Ids : Live(u) /\ user[u].email = e}

\* The unique index on email does see it.
EmailTaken(e) == \E u \in Ids : user[u].status # "absent" /\ user[u].email = e

\* Variant: only the sessions that are still active are revoked.
ActiveRowsOf(u) == {t \in rows : token[t].owner = u /\ t > rowDead}

\* DeleteByUserID selects every row of the user, expired or not.
RowsOf(u) == {t \in rows : token[t].owner = u}

\* p is inside a transaction (or a running statement) that has written.
InTx(p) ==
    \/ req[p].pc \in {"revoking", "softdelete", "commit"}
    \/ req[p].pc = "issue" /\ req[p].op # "login"
    \/ req[p].pc = "revoke" /\ req[p].op = "changePassword"

\* Variant: a nested WithinTx opens a second transaction.
WriterFreeForEveryone(p) ==
    Isolation = "serial" => \A q \in Procs : ~InTx(q)

\* sqlite: the first write of a transaction waits for the one writer.  A
\* transaction never waits for itself: WithinTx puts the *gorm.DB of the
\* transaction on the context and every repository takes it from there.
WriterFree(p) == Isolation = "serial" => \A q \in Others(p) : ~InTx(q)

\* A row another transaction deleted or updated is locked until that one ends.
TokenRowFree(p, t) == \A q \in Others(p) : t \notin req[q].del
UserRowFree(p, u)  == \A q \in Others(p) : ~(req[q].hit /\ req[q].uid = u)

\* An INSERT waits for another uncommitted INSERT of the same unique key.
EmailIndexFree(p, e) ==
    \A q \in Others(p) :
        ~(req[q].op = "register" /\ req[q].hit /\ req[q].email = e)

---------------------------------------------------------------------------
(* History: revocations that overlap a request which issues a token *)

\* p has taken its list of sessions to revoke and has not committed yet.
Revoking(p, o, u) ==
    /\ req[p].op = o /\ req[p].uid = u
    /\ req[p].pc \in {"revoking", "issue", "softdelete", "commit"}

\* q authenticated for u and has not yet stored the token it is about to issue.
Issuing(q, u) ==
    /\ req[q].uid = u
    /\ \/ req[q].op = "login"   /\ req[q].pc = "issue"
       \/ req[q].op = "refresh" /\ req[q].pc \in {"delete", "issue", "commit"}

\* The same for ChangePassword, which only a DeleteAccount can overlap: two
\* password changes are serialised by the lock on the user row.
Reissuing(q, u) ==
    /\ req[q].op = "changePassword" /\ req[q].uid = u
    /\ req[q].pc \in {"update", "revoke", "revoking", "issue", "commit"}

\* p, running operation o, takes its snapshot of the sessions of u.
OverlapAtRevoke(p, o, u) ==
    \E q \in Others(p) :
        \/ o \in {"changePassword", "deleteAccount"} /\ Issuing(q, u)
        \/ o = "deleteAccount" /\ Reissuing(q, u)

\* A request of operation o passes its check for u.
OverlapAtCheck(o, u) ==
    \E q \in Procs :
        \/ Revoking(q, "deleteAccount", u)
        \/ o # "changePassword" /\ Revoking(q, "changePassword", u)

\* q found the row of t and has not committed its rotation.
Rotating(q, t) ==
    /\ req[q].op = "refresh" /\ req[q].tok = t
    /\ req[q].pc \in {"delete", "issue", "commit"}

MarkIf(b, u) == raced' = IF b THEN raced \cup {u} ELSE raced

---------------------------------------------------------------------------
(* Requests *)

\* A request enters the service.
Begin(p, r) ==
    /\ req[p] = Idle
    /\ started < MaxReqs
    /\ started' = started + 1
    /\ req' = [req EXCEPT ![p] = r]
    /\ UNCHANGED <<db, minted, clock, delivered, history>>

\* The request moves to stage s; nothing else changes.
Goto(p, s) ==
    /\ req' = [req EXCEPT ![p].pc = s]
    /\ UNCHANGED <<db, minted, clock, delivered, started, forked>>

\* The request is answered without having changed anything.
Answer(p) ==
    /\ req' = [req EXCEPT ![p] = Idle]
    /\ UNCHANGED <<db, minted, clock, delivered, started, history>>

At(p, o, s) == req[p].op = o /\ req[p].pc = s

\* An autocommitted DELETE of S by p, recorded as the end of those rows.
Remove(S, how) ==
    /\ rows' = rows \ S
    /\ token' = [t \in Tokens |->
                    IF t \in S THEN [token[t] EXCEPT !.ended = how] ELSE token[t]]

---------------------------------------------------------------------------
(* Register *)

StartRegister(p, e) ==
    \E u \in Ids :
        /\ user[u].status = "absent"
        /\ \A q \in Procs : req[q].uid # u
        /\ Begin(p, [Idle EXCEPT !.op = "register", !.pc = "find",
                                 !.uid = u, !.email = e])

RegisterFind(p) ==
    /\ At(p, "register", "find")
    /\ \/ FindByEmail(req[p].email) # {} /\ Answer(p)
       \/ /\ FindByEmail(req[p].email) = {}
          /\ Goto(p, "insert") /\ UNCHANGED raced

\* Variant: Create does not take the transaction from the context.
CreateUserOutsideTx(p) ==
    /\ At(p, "register", "insert")
    /\ WriterFree(p) /\ ~EmailTaken(req[p].email)
    /\ user' = [user EXCEPT ![req[p].uid] =
                    [status |-> "live", email |-> req[p].email, ver |-> 0]]
    /\ req' = [req EXCEPT ![p].pc = "issue"]
    /\ UNCHANGED <<rows, token, minted, clock, delivered, started, history>>

\* Variant: no unique index, only the FindByEmail that came before.
CreateUserUnindexed(p) ==
    /\ At(p, "register", "insert")
    /\ WriterFree(p)
    /\ req' = [req EXCEPT ![p].hit = TRUE, ![p].pc = "issue"]
    /\ UNCHANGED <<db, minted, clock, delivered, started, history>>

\* userRepository.Create: a duplicate key rolls the transaction back (409).
CreateUser(p) ==
    /\ At(p, "register", "insert")
    /\ WriterFree(p) /\ EmailIndexFree(p, req[p].email)
    /\ \/ EmailTaken(req[p].email) /\ Answer(p)
       \/ /\ ~EmailTaken(req[p].email)
          /\ req' = [req EXCEPT ![p].hit = TRUE, ![p].pc = "issue"]
          /\ UNCHANGED <<db, minted, clock, delivered, started, history>>

---------------------------------------------------------------------------
(* Login *)

StartLogin(p, e) ==
    Begin(p, [Idle EXCEPT !.op = "login", !.pc = "find", !.email = e])

\* An unknown address and a wrong password are refused alike.
LoginFind(p) ==
    /\ At(p, "login", "find")
    /\ \/ Answer(p)
       \/ \E u \in FindByEmail(req[p].email) :
            /\ req' = [req EXCEPT ![p].uid = u, ![p].ver = user[u].ver,
                                  ![p].pc = "issue"]
            /\ MarkIf(OverlapAtCheck("login", u), u)
            /\ UNCHANGED <<db, minted, clock, delivered, started, forked>>

---------------------------------------------------------------------------
(* Refresh and handleReuse *)

\* A client presents the cookies of pair t, whose claims name the user.
Cookies(t, o, s, k) ==
    [Idle EXCEPT !.op = o, !.pc = s, !.uid = token[t].owner, !.tok = k]

\* ValidateRefreshToken: only a token that still verifies gets further.
StartRefresh(p, t) ==
    /\ t \in delivered /\ t > jwtDead
    /\ Begin(p, Cookies(t, "refresh", "find", t))

\* FindByTokenHash, outside the transaction that uses its answer.
RefreshFind(p) ==
    LET t == req[p].tok
        u == req[p].uid
    IN  /\ At(p, "refresh", "find")
        /\ \/ /\ t \notin rows                            \* handleReuse
              /\ req' = [req EXCEPT ![p].op = "reuse", ![p].pc = "revoke"]
              /\ UNCHANGED <<db, minted, clock, delivered, started, history>>
           \/ /\ t \in rows /\ t <= rowDead               \* expired
              /\ Goto(p, "drop") /\ UNCHANGED raced
           \/ /\ t \in rows /\ t > rowDead                \* rotate
              /\ req' = [req EXCEPT ![p].ver = token[t].ver,
                                    ![p].pc = "delete"]
              /\ MarkIf(OverlapAtCheck("refresh", u), u)
              /\ forked' = IF \E q \in Others(p) : Rotating(q, t)
                           THEN forked \cup {t} ELSE forked
              /\ UNCHANGED <<db, minted, clock, delivered, started>>

DropExpired(p) ==
    /\ At(p, "refresh", "drop")
    /\ WriterFree(p) /\ TokenRowFree(p, req[p].tok)
    /\ Remove({req[p].tok} \cap rows, "expired")
    /\ req' = [req EXCEPT ![p] = Idle]
    /\ UNCHANGED <<user, minted, clock, delivered, started, history>>

\* Variant: the rotation keeps the presented token.
RotateWithoutDelete(p) ==
    /\ At(p, "refresh", "delete")
    /\ WriterFree(p)
    /\ req' = [req EXCEPT ![p].pc = "issue"]
    /\ UNCHANGED <<db, minted, clock, delivered, started, history>>

\* Variant: the rotation ends the account's other sessions as well.
RotateAndRevoke(p) ==
    /\ At(p, "refresh", "delete")
    /\ WriterFree(p) /\ TokenRowFree(p, req[p].tok)
    /\ req' = [req EXCEPT ![p].del = {req[p].tok} \cap rows,
                          ![p].tgt = RowsOf(req[p].uid) \ {req[p].tok},
                          ![p].pc = "revoking"]
    /\ UNCHANGED <<db, minted, clock, delivered, started, history>>

\* The rotation's DELETE: how many rows it removed is not looked at.
DeleteByTokenHash(p) ==
    /\ At(p, "refresh", "delete")
    /\ WriterFree(p) /\ TokenRowFree(p, req[p].tok)
    /\ req' = [req EXCEPT ![p].del = {req[p].tok} \cap rows,
                          ![p].pc = "issue"]
    /\ UNCHANGED <<db, minted, clock, delivered, started, history>>

---------------------------------------------------------------------------
(* ChangePassword, DeleteAccount and Logout: AuthMiddleware accepts the    *)
(* access token of a pair the client holds, which expires before the       *)
(* refresh token minted with it.                                           *)

Authenticated(t) == t \in delivered /\ t > jwtDead

StartChangePassword(p, t) ==
    Authenticated(t) /\ Begin(p, Cookies(t, "changePassword", "find", t))

StartDeleteAccount(p, t) ==
    Authenticated(t) /\ Begin(p, Cookies(t, "deleteAccount", "find", 0))

StartLogout(p, t) ==
    Authenticated(t) /\ Begin(p, Cookies(t, "logout", "revoke", 0))

\* FindByID and the check of the current password, outside the transaction.
ChangePasswordFind(p) ==
    /\ At(p, "changePassword", "find")
    /\ \/ Answer(p)
       \/ /\ Live(req[p].uid)
          /\ Goto(p, "update")
          /\ MarkIf(OverlapAtCheck("changePassword", req[p].uid), req[p].uid)

\* Variant: the password changes and the sessions stay.
UpdatePasswordOnly(p) ==
    LET u == req[p].uid
    IN  /\ At(p, "changePassword", "update")
        /\ WriterFree(p) /\ UserRowFree(p, u)
        /\ req' = [req EXCEPT ![p].hit = Live(u),
                              ![p].ver = user[u].ver + 1,
                              ![p].pc = "issue"]
        /\ UNCHANGED <<db, minted, clock, delivered, started, history>>

\* UPDATE ... WHERE id = ? AND deleted_at IS NULL: no row is not an error.
UpdatePassword(p) ==
    LET u == req[p].uid
    IN  /\ At(p, "changePassword", "update")
        /\ WriterFree(p) /\ UserRowFree(p, u)
        /\ req' = [req EXCEPT ![p].hit = Live(u),
                              ![p].ver = user[u].ver + 1,
                              ![p].pc = "revoke"]
        /\ UNCHANGED <<db, minted, clock, delivered, started, history>>

DeleteAccountFind(p) ==
    /\ At(p, "deleteAccount", "find")
    /\ \/ ~Live(req[p].uid) /\ Answer(p)
       \/ Live(req[p].uid) /\ Goto(p, "revoke") /\ UNCHANGED raced

\* The soft delete of the user row; it, too, may find nothing to update.
SoftDelete(p) ==
    /\ At(p, "deleteAccount", "softdelete")
    /\ UserRowFree(p, req[p].uid)
    /\ req' = [req EXCEPT ![p].hit = Live(req[p].uid), ![p].pc = "commit"]
    /\ UNCHANGED <<db, minted, clock, delivered, started, history>>

---------------------------------------------------------------------------
(* RevokeRefreshTokens: DELETE ... WHERE user_id = ?, one statement that   *)
(* takes its list of rows when it starts and visits them one by one,       *)
(* waiting for each row that another transaction has locked.               *)

RevokeRefreshTokens(p) ==
    LET u == req[p].uid
    IN  /\ req[p].pc = "revoke"
        /\ WriterFree(p)
        /\ req' = [req EXCEPT ![p].tgt = RowsOf(u), ![p].pc = "revoking"]
        /\ MarkIf(OverlapAtRevoke(p, req[p].op, u), u)
        /\ UNCHANGED <<db, minted, clock, delivered, started, forked>>

\* A row another request removed in the meantime is skipped.
RevokeRow(p) ==
    /\ req[p].pc = "revoking"
    /\ \E t \in req[p].tgt :
        /\ TokenRowFree(p, t)
        /\ req' = [req EXCEPT ![p].tgt = @ \ {t},
                              ![p].del = @ \cup ({t} \cap rows)]
    /\ UNCHANGED <<db, minted, clock, delivered, started, history>>

\* Outside a transaction the statement commits by itself.
Revoked(p) ==
    /\ req[p].pc = "revoking" /\ req[p].tgt = {}
    /\ \/ /\ req[p].op \in {"logout", "reuse"}
          /\ Remove(req[p].del, req[p].op)
          /\ req' = [req EXCEPT ![p] = Idle]
          /\ UNCHANGED <<user, minted, clock, delivered, started, history>>
       \/ /\ req[p].op = "changePassword"
          /\ Goto(p, "issue") /\ UNCHANGED raced
       \/ /\ req[p].op = "deleteAccount"
          /\ Goto(p, "softdelete") /\ UNCHANGED raced

---------------------------------------------------------------------------
(* issueTokens, StoreRefreshToken and the commit *)

\* Variant: no jti, so two tokens of the same second are the same string.
NextTokenWithoutJti == IF minted = 0 THEN 1 ELSE minted

\* GenerateRefreshToken: the jti makes every token a new one.
NextToken == minted + 1

Minted(p) == [owner |-> req[p].uid, from |-> req[p].tok, ver |-> req[p].ver,
              via |-> req[p].op, ended |-> "stored"]

\* Login stores the token outside any transaction; everyone else inside one.
IssueTokens(p) ==
    /\ req[p].pc = "issue"
    /\ WriterFree(p)
    /\ NextToken \in Tokens         \* bound; a request issues one token at most
    /\ minted' = NextToken
    /\ token' = [token EXCEPT ![NextToken] = Minted(p)]
    /\ \/ /\ req[p].op = "login"
          /\ rows' = rows \cup {NextToken}
          /\ delivered' \in {delivered, delivered \cup {NextToken}}
          /\ req' = [req EXCEPT ![p] = Idle]
       \/ /\ req[p].op # "login"
          /\ req' = [req EXCEPT ![p].new = NextToken, ![p].pc = "commit"]
          /\ UNCHANGED <<rows, delivered>>
    /\ UNCHANGED <<user, clock, started, history>>

\* What the transaction of p leaves in the user row.
Written(p) ==
    LET u == user[req[p].uid]
    IN  CASE req[p].op = "register" ->
                [status |-> "live", email |-> req[p].email, ver |-> 0]
          [] req[p].op = "changePassword" -> [u EXCEPT !.ver = req[p].ver]
          [] req[p].op = "deleteAccount"  -> [u EXCEPT !.status = "deleted"]
          [] OTHER -> u

HowEnded(p) == IF req[p].op = "refresh" THEN "rotated" ELSE req[p].op

New(p) == {req[p].new} \ {0}

\* COMMIT.  The answer may still be lost on its way to the client.
Commit(p) ==
    /\ req[p].pc = "commit"
    /\ rows' = (rows \ req[p].del) \cup New(p)
    /\ token' = [t \in Tokens |->
                    IF t \in req[p].del
                    THEN [token[t] EXCEPT !.ended = HowEnded(p)]
                    ELSE token[t]]
    /\ user' = IF req[p].hit
               THEN [user EXCEPT ![req[p].uid] = Written(p)]
               ELSE user
    /\ delivered' \in {delivered, delivered \cup New(p)}
    /\ req' = [req EXCEPT ![p] = Idle]
    /\ UNCHANGED <<minted, clock, started, history>>

\* The deadline, a database error, a cancelled client or a crash of the
\* process: the open transaction is rolled back.
Abort(p) == req[p].pc # "idle" /\ Answer(p)

---------------------------------------------------------------------------
(* The janitor and the clock *)

\* Variant: the sweep stops one token short.
ExpiredButLast == {t \in rows : t < rowDead}

\* DeleteExpired, every tick of Container.StartJanitor.
Expired == {t \in rows : t <= rowDead}

PurgeExpiredRefreshTokens ==
    /\ Expired # {}
    /\ Isolation = "serial" => \A q \in Procs : ~InTx(q)
    /\ \A t \in Expired, q \in Procs : t \notin req[q].del
    /\ Remove(Expired, "expired")
    /\ UNCHANGED <<user, minted, clock, delivered, req, started, history>>

\* Variant: rows get a shorter life than the JWTs they stand for.
RowExpiresFirst ==
    /\ rowDead < minted /\ rowDead < MaxAged
    /\ rowDead' = rowDead + 1
    /\ UNCHANGED <<db, minted, jwtDead, delivered, req, started, history>>

\* Every token lives equally long, so they expire in the order they were
\* minted, and the JWT, whose exp is cut to whole seconds and is computed
\* first, never after its row.
JwtExpires ==
    /\ jwtDead < minted /\ jwtDead < MaxAged
    /\ jwtDead' = jwtDead + 1
    /\ UNCHANGED <<db, minted, rowDead, delivered, req, started, history>>

RowExpires ==
    /\ rowDead < jwtDead
    /\ rowDead' = rowDead + 1
    /\ UNCHANGED <<db, minted, jwtDead, delivered, req, started, history>>

---------------------------------------------------------------------------
(* The service boots on an empty database, or on one with an account that  *)
(* has one session.                                                        *)

InitWith(n) ==
    /\ minted = n /\ delivered = 1 .. n /\ rows = 1 .. n
    /\ jwtDead = 0 /\ rowDead = 0
    /\ req = [p \in Procs |-> Idle]
    /\ started = 0 /\ raced = {} /\ forked = {}

Init ==
    \/ /\ user = [u \in Ids |-> NoUser]
       /\ token = [t \in Tokens |-> NoToken]
       /\ InitWith(0)
    \/ \E u \in Ids, e \in Emails :
        /\ user = [[v \in Ids |-> NoUser] EXCEPT
                        ![u] = [status |-> "live", email |-> e, ver |-> 0]]
        /\ token = [[t \in Tokens |-> NoToken] EXCEPT
                        ![1] = [NoToken EXCEPT !.owner = u, !.via = "login"]]
        /\ InitWith(1)

Start(p) ==
    \/ \E e \in Emails : StartRegister(p, e) \/ StartLogin(p, e)
    \/ \E t \in Tokens : \/ StartRefresh(p, t)
                         \/ StartChangePassword(p, t)
                         \/ StartDeleteAccount(p, t)
                         \/ StartLogout(p, t)

Step(p) ==
    \/ RegisterFind(p) \/ CreateUser(p)
    \/ LoginFind(p)
    \/ RefreshFind(p) \/ DropExpired(p) \/ DeleteByTokenHash(p)
    \/ ChangePasswordFind(p) \/ UpdatePassword(p)
    \/ DeleteAccountFind(p) \/ SoftDelete(p)
    \/ RevokeRefreshTokens(p) \/ RevokeRow(p) \/ Revoked(p)
    \/ IssueTokens(p) \/ Commit(p)

Next ==
    \/ \E p \in Procs : Start(p) \/ Step(p) \/ Abort(p)
    \/ PurgeExpiredRefreshTokens
    \/ JwtExpires
    \/ RowExpires

Spec == Init /\ [][Next]_vars

\* The Go scheduler and the database run every request that is not waiting for
\* a lock; the janitor's ticker keeps firing.
Fairness ==
    /\ \A p \in Procs : WF_vars(Step(p))
    /\ WF_vars(PurgeExpiredRefreshTokens)

FairSpec == Spec /\ Fairness

---------------------------------------------------------------------------
(* What holds *)

\* The token t was rotated from, 0 if it began a session.
Parent(t) == IF token[t].via = "refresh" THEN token[t].from ELSE 0

\* At most one account, deleted ones included, has an address: two
\* registrations that both pass FindByEmail cannot both be committed
\* (register.service.go 26-71, the unique index of entity.UserEntity).
EmailUnique ==
    \A u, v \in Ids :
        /\ user[u].status # "absent" /\ user[v].status # "absent"
        /\ user[u].email = user[v].email
        => u = v

\* DeleteAccount ends every session of the account, unless a request that was
\* already past its own check when the sessions were listed issues a token
\* afterwards (delete_account.service.go 41-53).
OrphanOnlyIfRaced ==
    \A t \in rows :
        ~Live(token[t].owner) => token[t].owner \in raced

\* A session authorised by an earlier password survives ChangePassword only
\* through such a request (change_password.service.go 69-91): never through
\* an earlier login or rotation, a second password change or a crash.
OldSessionOnlyIfRaced ==
    \A t \in rows :
        /\ Live(token[t].owner)
        /\ token[t].ver # user[token[t].owner].ver
        => token[t].owner \in raced

\* Once the successor of a token is stored the token itself is dead, whatever
\* rolled back or ran in between (refresh.service.go 57-76).
RotatedAway ==
    \A t \in rows : Parent(t) \notin rows

\* One token has two live successors only if two refreshes had both found its
\* row before either of them committed (refresh.service.go 38-61).
SiblingsOnlyIfForked ==
    \A s, t \in rows :
        /\ Parent(s) # 0 /\ Parent(s) = Parent(t)
        => s = t \/ Parent(s) \in forked

\* The requests p waits for: they hold the row its next statement writes, or
\* have inserted the address it registers.
WaitsFor(p) ==
    LET r == req[p]
        holdsUser == {q \in Others(p) : req[q].hit /\ req[q].uid = r.uid}
        holdsEmail == {q \in Others(p) : req[q].op = "register" /\ req[q].hit
                                            /\ req[q].email = r.email}
        holds(t) == {q \in Others(p) : t \in req[q].del}
    IN  CASE r.pc = "insert" -> holdsEmail
          [] r.pc \in {"update", "softdelete"} -> holdsUser
          [] r.pc \in {"drop", "delete"} -> holds(r.tok)
          [] r.pc = "revoking" /\ \A t \in r.tgt : holds(t) # {}
                -> UNION {holds(t) : t \in r.tgt}
          [] OTHER -> {}

\* Requests that wait for each other all revoke sessions, and each waits for
\* one that works on its own account: a rotation, a login or a registration is
\* never part of a deadlock, nor do two accounts meet in one
\* (change_password.service.go 69-91, delete_account.service.go 41-53,
\* refresh.service.go 60-75).
DeadlockOnlyAmongRevokers ==
    \A D \in SUBSET Procs :
        /\ \A p \in D : WaitsFor(p) \cap D # {} /\ \E q \in D : p \in WaitsFor(q)
        => \A p \in D :
               /\ req[p].op \in {"changePassword", "deleteAccount", "logout", "reuse"}
               /\ \A q \in D \cap WaitsFor(p) : req[p].uid = req[q].uid

\* A token whose row was revoked, rotated or swept never gets one again: rows
\* appear only for tokens that never had one, whatever was rolled back in
\* between (generate_refresh_token.service.go 17-32,
\* store_refresh_token.service.go 22-40).
NoResurrection ==
    [][\A t \in rows' \ rows : token[t].ended = "stored"]_vars

\* An account becomes visible together with its first session, so no failure
\* leaves an address that is taken and cannot sign in
\* (register.service.go 55-75).
AccountBornWithSession ==
    [][\A u \in Ids :
        user[u].status = "absent" /\ user'[u].status = "live"
            => \E t \in rows' : token'[t].owner = u]_vars

\* With a single writer nothing slips into a revocation: the commit of a
\* password change leaves exactly one session, the caller's new one
\* (change_password.service.go 22-27), and that of DeleteAccount leaves none
\* (delete_account.service.go 42-44).
RevocationIsComplete ==
    [][\A u \in Ids :
        LET sessions == {t \in rows' : token'[t].owner = u}
        IN  /\ user'[u].ver # user[u].ver => Cardinality(sessions) = 1
            /\ user[u].status = "live" /\ user'[u].status = "deleted"
                    => sessions = {}]_vars

\* No request waits for ever: with a single writer there is no cycle of
\* waiting requests (tx.gorm.go 21-35), not even without the deadline.
EveryRequestAnswered ==
    \A p \in Procs : req[p].pc # "idle" ~> req[p].pc = "idle"

\* The janitor removes every row whose time has come (container.go 353-390).
ExpiredSwept ==
    \A t \in Tokens : t \in rows /\ t <= rowDead ~> t \notin rows

---------------------------------------------------------------------------
(* What the documentation says and the code does not do *)

\* "Half of it would either leave two live tokens for one session"
\* (refresh.service.go 57-59), "usable for one request" (AUTH.md 861).
SingleUse ==
    \A s, t \in rows :
        Parent(s) # 0 /\ Parent(s) = Parent(t) => s = t

\* "there is no window in which a token outlives the account it belongs to"
\* (delete_account.service.go 43-44).
NoTokenOutlivesAccount == \A t \in rows : Live(token[t].owner)

\* "a state where the password has changed but the old sessions survive must
\* not exist" (change_password.service.go 22-24).
PasswordChangeEndsOldSessions ==
    \A t \in rows :
        Live(token[t].owner) => token[t].ver = user[token[t].owner].ver

\* "There are two ways to get here: the token was revoked by a logout, or it
\* was already rotated and this is a replay" (refresh.service.go 86-87).
\* A family revocation by an earlier reuse counts as the first.
ReuseIsReplayOrLogout ==
    \A p \in Procs :
        req[p].op = "reuse"
            => token[req[p].tok].ended \in {"rotated", "logout", "reuse"}

\* "the client that asked stays signed in while every other device is signed
\* out" (change_password.service.go 26-27): another device, signed out by the
\* change, does not end the session the change issued to the caller.
CallerStaysSignedIn ==
    \A p \in Procs :
        /\ req[p].op = "reuse"
        /\ token[req[p].tok].ended = "changePassword"
        => \A t \in req[p].del :
            token[t].via = "changePassword" => token[t].from = req[p].tok
============================================================================
