------------------------- MODULE UserServiceProofs -------------------------
(***************************************************************************)
(* Proofs about UserService, for any constants: the types; which sessions  *)
(* outlive a deletion of their account or a change of its password; and    *)
(* tokens over their whole life, with rotation, revocation, the locks held *)
(* on the way and what one writer at a time adds.                          *)
(***************************************************************************)
EXTENDS UserService, FiniteSetTheorems, TLAPS

---------------------------------------------------------------------------
(* The inductive invariant of the type theorem: what every request carries *)
(* at each stage, and that tokens in use were minted.                      *)

\* The stages each operation goes through.
InFlow(r) ==
    /\ r.op = "none" => r = Idle
    /\ r.op = "register" => /\ r.pc \in {"find", "insert", "issue", "commit"}
                            /\ r.del = {}
    /\ r.op = "login" => r.pc \in {"find", "issue"}
    /\ r.op = "refresh" => r.pc \in {"find", "drop", "delete", "issue", "commit"}
    /\ r.op \in {"reuse", "logout"} => r.pc \in {"revoke", "revoking"}
    /\ r.op = "changePassword" => r.pc \in {"find", "update", "revoke",
                                            "revoking", "issue", "commit"}
    /\ r.op = "deleteAccount" => r.pc \in {"find", "revoke", "revoking",
                                           "softdelete", "commit"}

\* Except for a login that has not found its account, a request has a user.
HasUser(r) ==
    r.op # "none" /\ ~(r.op = "login" /\ r.pc = "find") => r.uid \in Ids

RequestsOK ==
    \A p \in Procs :
        /\ InFlow(req[p]) /\ HasUser(req[p])
        /\ req[p].new \in 0 .. minted /\ req[p].tok \in 0 .. minted

MintedOK ==
    /\ rows \subseteq 1 .. minted
    /\ delivered \subseteq 1 .. minted
    /\ \A t \in 1 .. minted : token[t].owner \in Ids

Shape == TypeOK /\ RequestsOK /\ MintedOK

---------------------------------------------------------------------------

\* Token numbers start at 1, whatever the bound on requests.
LEMMA TokensAreNumbers == Tokens \subseteq Nat \ {0} /\ 1 \in Tokens
  BY ConstantsAssumption DEF Tokens

\* The empty records are well typed.
LEMMA Records ==
    /\ Idle \in Request
    /\ NoUser \in UserRow
    /\ NoToken \in TokenRow
  BY DEF Idle, NoUser, NoToken, UserRow, TokenRow, Request, Ops, Stages, Ends, Statuses

\* The boot states, with and without an account, have the shape.
LEMMA InitShape == Init => Shape
<1> SUFFICES ASSUME Init PROVE Shape
  OBVIOUS
<1> PICK n \in {0, 1} : InitWith(n)
  BY DEF Init
<1>1. minted = n /\ delivered = 1 .. n /\ rows = 1 .. n /\ jwtDead = 0
      /\ rowDead = 0 /\ started = 0 /\ raced = {} /\ forked = {}
      /\ req = [p \in Procs |-> Idle]
  BY DEF InitWith
<1>2. user \in [Ids -> UserRow]
  <2>1. CASE user = [u \in Ids |-> NoUser]
    BY <2>1, Records
  <2>2. CASE \E u \in Ids, e \in Emails :
            user = [[v \in Ids |-> NoUser] EXCEPT
                        ![u] = [status |-> "live", email |-> e, ver |-> 0]]
    BY <2>2, Records DEF UserRow, Statuses
  <2> QED
    BY <2>1, <2>2 DEF Init
<1>3. token \in [Tokens -> TokenRow] /\ (n = 1 => token[1].owner \in Ids)
  <2>1. CASE n = 0 /\ token = [t \in Tokens |-> NoToken]
    BY <2>1, Records
  <2>2. CASE \E u \in Ids : token = [[t \in Tokens |-> NoToken] EXCEPT
                        ![1] = [NoToken EXCEPT !.owner = u, !.via = "login"]]
    <3> PICK u \in Ids : token = [[t \in Tokens |-> NoToken] EXCEPT
                        ![1] = [NoToken EXCEPT !.owner = u, !.via = "login"]]
      BY <2>2
    <3>1. [NoToken EXCEPT !.owner = u, !.via = "login"] \in TokenRow
      BY Records DEF TokenRow, NoToken, Ops
    <3>2. [NoToken EXCEPT !.owner = u, !.via = "login"].owner = u
      BY DEF NoToken
    <3> QED
      BY <3>1, <3>2, Records, TokensAreNumbers
  <2> QED
    BY <1>1, <2>1, <2>2 DEF Init, InitWith
<1>4. TypeOK
  BY <1>1, <1>2, <1>3, Records, ConstantsAssumption DEF TypeOK, Tokens
<1>5. RequestsOK
  BY <1>1 DEF RequestsOK, InFlow, HasUser, Idle
<1>6. MintedOK
  BY <1>1, <1>3 DEF MintedOK
<1> QED
  BY <1>4, <1>5, <1>6 DEF Shape

\* What was minted lies within the bound.
LEMMA MintedAreTokens ==
    ASSUME Shape
    PROVE  minted \in Nat /\ 1 .. minted \subseteq Tokens
  BY ConstantsAssumption DEF Shape, TypeOK, Tokens

\* An ended request meets every constraint on requests.
LEMMA IdleFits ==
    ASSUME Shape
    PROVE  /\ InFlow(Idle) /\ HasUser(Idle)
           /\ Idle.new \in 0 .. minted /\ Idle.tok \in 0 .. minted
<1>1. minted \in Nat
  BY DEF Shape, TypeOK
<1> QED
  BY <1>1 DEF InFlow, HasUser, Idle

\* A step that changes one request, and of the rest at most the history.
LEMMA ShapeRequest ==
    ASSUME Shape, NEW p \in Procs, NEW r \in Request,
           InFlow(r), HasUser(r), r.new \in 0 .. minted, r.tok \in 0 .. minted,
           req' = [req EXCEPT ![p] = r],
           UNCHANGED <<db, minted, clock, delivered>>,
           started' \in 0 .. MaxReqs, raced' \subseteq Ids, forked' \subseteq Tokens
    PROVE  Shape'
<1> USE DEF Shape
<1>1. TypeOK'
  BY DEF TypeOK, db, clock
<1>2. RequestsOK'
  BY DEF TypeOK, RequestsOK
<1>3. MintedOK'
  BY DEF MintedOK, db
<1> QED
  BY <1>1, <1>2, <1>3

\* A step that ends one request, or none, and takes rows away.
LEMMA ShapeRemove ==
    ASSUME Shape, NEW S \in SUBSET Tokens, NEW how \in Ends, Remove(S, how),
           UNCHANGED <<user, minted, clock, delivered, started, history>>,
           \/ UNCHANGED req
           \/ \E p \in Procs : req' = [req EXCEPT ![p] = Idle]
    PROVE  Shape'
<1> USE DEF Shape
<1>1. token' \in [Tokens -> TokenRow]
      /\ \A t \in Tokens : token'[t].owner = token[t].owner
  BY DEF Remove, TypeOK, TokenRow
<1>2. req' \in [Procs -> Request] /\ RequestsOK'
  <2>1. CASE UNCHANGED req
    BY <2>1 DEF TypeOK, RequestsOK
  <2>2. ASSUME NEW p \in Procs, req' = [req EXCEPT ![p] = Idle]
        PROVE  req' \in [Procs -> Request] /\ RequestsOK'
    BY <2>2, Records, IdleFits DEF TypeOK, RequestsOK
  <2> QED
    BY <2>1, <2>2
<1>3. TypeOK'
  BY <1>1, <1>2 DEF TypeOK, Remove, clock, history
<1>4. MintedOK'
  <2>1. 1 .. minted \subseteq Tokens
    BY MintedAreTokens
  <2>2. rows' \subseteq rows /\ minted' = minted /\ delivered' = delivered
    BY DEF Remove
  <2> QED
    BY <1>1, <2>1, <2>2 DEF MintedOK
<1> QED
  BY <1>2, <1>3, <1>4

\* Answering a request changes nothing but the request.
LEMMA AnswerShape ==
    ASSUME Shape, NEW p \in Procs, Answer(p)
    PROVE  Shape'
<1>1. UNCHANGED <<db, minted, clock, delivered>> /\ started' = started
      /\ raced' = raced /\ forked' = forked /\ req' = [req EXCEPT ![p] = Idle]
  BY DEF Answer, history
<1>2. started \in 0 .. MaxReqs /\ raced \subseteq Ids /\ forked \subseteq Tokens
  BY DEF Shape, TypeOK
<1> QED
  BY <1>1, <1>2, IdleFits, Records, ShapeRequest

\* Moving to a stage that suits the operation keeps the shape.
LEMMA GotoShape ==
    ASSUME Shape, NEW p \in Procs, NEW s \in Stages, Goto(p, s),
           raced' \subseteq Ids, req[p].op # "none",
           InFlow([req[p] EXCEPT !.pc = s]), HasUser([req[p] EXCEPT !.pc = s])
    PROVE  Shape'
<1> DEFINE r == [req[p] EXCEPT !.pc = s]
<1>1. r \in Request /\ r.new \in 0 .. minted /\ r.tok \in 0 .. minted
  BY DEF Shape, TypeOK, RequestsOK, Request
<1>2. req' = [req EXCEPT ![p] = r]
  BY DEF Goto, Shape, TypeOK
<1> QED
  BY <1>1, <1>2, ShapeRequest DEF Goto, Shape, TypeOK

\* Starting a well-formed request keeps the shape.
LEMMA BeginShape ==
    ASSUME Shape, NEW p \in Procs, NEW r \in Request, Begin(p, r),
           InFlow(r), HasUser(r), r.new \in 0 .. minted, r.tok \in 0 .. minted
    PROVE  Shape'
<1>1. started' \in 0 .. MaxReqs
  BY ConstantsAssumption DEF Begin, Shape, TypeOK
<1>2. raced' \subseteq Ids /\ forked' \subseteq Tokens
      /\ UNCHANGED <<db, minted, clock, delivered>> /\ req' = [req EXCEPT ![p] = r]
  BY DEF Begin, history, Shape, TypeOK
<1> QED
  BY <1>1, <1>2, ShapeRequest

\* Every way a request enters the service is well formed.
LEMMA StartShape ==
    ASSUME Shape, NEW p \in Procs, Start(p)
    PROVE  Shape'
<1>0. 0 \in 0 .. minted
  BY MintedAreTokens
<1>1. ASSUME NEW e \in Emails, StartRegister(p, e)
      PROVE  Shape'
  <2> PICK u \in Ids : Begin(p, [Idle EXCEPT !.op = "register", !.pc = "find",
                                 !.uid = u, !.email = e])
    BY <1>1 DEF StartRegister
  <2> DEFINE r == [Idle EXCEPT !.op = "register", !.pc = "find",
                                 !.uid = u, !.email = e]
  <2>1. r \in Request /\ InFlow(r) /\ HasUser(r) /\ r.new = 0 /\ r.tok = 0
    BY DEF Request, Idle, InFlow, HasUser, Ops, Stages
  <2> QED
    BY <1>0, <2>1, BeginShape
<1>2. ASSUME NEW e \in Emails, StartLogin(p, e)
      PROVE  Shape'
  <2> DEFINE r == [Idle EXCEPT !.op = "login", !.pc = "find", !.email = e]
  <2>1. r \in Request /\ InFlow(r) /\ HasUser(r) /\ r.new = 0 /\ r.tok = 0
    BY DEF Request, Idle, InFlow, HasUser, Ops, Stages
  <2> QED
    BY <1>0, <1>2, <2>1, BeginShape DEF StartLogin
<1>3. ASSUME NEW t \in Tokens,
             \/ StartRefresh(p, t) \/ StartChangePassword(p, t)
             \/ StartDeleteAccount(p, t) \/ StartLogout(p, t)
      PROVE  Shape'
  <2>1. t \in 1 .. minted /\ t \in 0 .. minted /\ token[t].owner \in Ids
    <3>1. t \in delivered
      BY <1>3 DEF StartRefresh, StartChangePassword, StartDeleteAccount,
         StartLogout, Authenticated
    <3>2. t \in 1 .. minted /\ token[t].owner \in Ids
      BY <3>1 DEF Shape, MintedOK
    <3> QED
      BY <3>2, MintedAreTokens
  <2>2. PICK o \in {"refresh", "changePassword", "deleteAccount", "logout"},
             k \in {0, t}, s \in {"find", "revoke"} :
          (s = "revoke" <=> o = "logout") /\ Begin(p, Cookies(t, o, s, k))
    BY <1>3 DEF StartRefresh, StartChangePassword, StartDeleteAccount, StartLogout
  <2> DEFINE r == Cookies(t, o, s, k)
  <2>3. r \in Request /\ InFlow(r) /\ HasUser(r) /\ r.new = 0 /\ r.tok = k
    BY <2>1, <2>2 DEF Cookies, Request, Idle, InFlow, HasUser, Ops, Stages
  <2> QED
    BY <1>0, <2>1, <2>2, <2>3, BeginShape
<1> QED
  BY <1>1, <1>2, <1>3 DEF Start

\* The steps of a request that touch nothing but the request.
LEMMA FindShape ==
    ASSUME Shape, NEW p \in Procs,
           \/ RegisterFind(p) \/ CreateUser(p) \/ LoginFind(p) \/ RefreshFind(p)
           \/ DeleteByTokenHash(p) \/ ChangePasswordFind(p) \/ UpdatePassword(p)
           \/ DeleteAccountFind(p) \/ SoftDelete(p) \/ RevokeRefreshTokens(p)
           \/ RevokeRow(p),
           ~Answer(p)
    PROVE  Shape'
<1> DEFINE r == req'[p]
<1> USE DEF At, Goto, MarkIf, history
<1>1. /\ req[p] \in Request /\ InFlow(req[p]) /\ HasUser(req[p])
      /\ req[p].new \in 0 .. minted /\ req[p].tok \in 0 .. minted
      /\ rows \subseteq Tokens /\ minted \in Nat
      /\ started \in 0 .. MaxReqs /\ raced \subseteq Ids /\ forked \subseteq Tokens
      /\ req \in [Procs -> Request] /\ user \in [Ids -> UserRow]
      /\ token \in [Tokens -> TokenRow]
  BY DEF Shape, TypeOK, RequestsOK
<1>2. /\ r \in Request /\ InFlow(r) /\ HasUser(r)
      /\ r.new = req[p].new /\ r.tok = req[p].tok
      /\ req' = [req EXCEPT ![p] = r]
      /\ UNCHANGED <<db, minted, clock, delivered>>
      /\ started' = started /\ raced' \subseteq Ids /\ forked' \subseteq Tokens
  <2>1. CASE RegisterFind(p)
    BY <1>1, <2>1 DEF RegisterFind, Request, InFlow, HasUser, Stages
  <2>2. CASE CreateUser(p)
    BY <1>1, <2>2 DEF CreateUser, Request, InFlow, HasUser, Stages
  <2>3. CASE LoginFind(p)
    <3> PICK u \in Ids :
            /\ req' = [req EXCEPT ![p].uid = u, ![p].ver = user[u].ver,
                                  ![p].pc = "issue"]
            /\ MarkIf(OverlapAtCheck("login", u), u)
            /\ UNCHANGED <<db, minted, clock, delivered, started, forked>>
      BY <2>3 DEF LoginFind, FindByEmail
    <3>1. user[u].ver \in Nat
      BY <1>1 DEF UserRow
    <3> QED
      <4>1. req[p].op = "login"
        BY <2>3 DEF LoginFind
      <4>2. raced' \subseteq Ids
        BY <1>1
      <4> QED
        BY <1>1, <3>1, <4>1, <4>2 DEF Request, InFlow, HasUser, Stages
  <2>4. CASE RefreshFind(p)
    BY <1>1, <2>4 DEF RefreshFind, Request, InFlow, HasUser, Stages, Ops, TokenRow
  <2>5. CASE DeleteByTokenHash(p)
    BY <1>1, <2>5 DEF DeleteByTokenHash, Request, InFlow, HasUser, Stages
  <2>6. CASE ChangePasswordFind(p)
    BY <1>1, <2>6 DEF ChangePasswordFind, Request, InFlow, HasUser, Stages
  <2>7. CASE UpdatePassword(p)
    <3>1. req[p].op = "changePassword" /\ req[p].pc = "update" /\ req[p].uid \in Ids
      BY <1>1, <2>7 DEF UpdatePassword, HasUser
    <3>2. user[req[p].uid].ver + 1 \in Nat
      BY <1>1, <3>1 DEF UserRow
    <3>3. PICK v \in Nat, h \in BOOLEAN :
            /\ req' = [req EXCEPT ![p].hit = h, ![p].ver = v, ![p].pc = "revoke"]
            /\ UNCHANGED <<db, minted, clock, delivered, started, history>>
      BY <2>7, <3>2 DEF UpdatePassword, Live
    <3> QED
      BY <1>1, <3>1, <3>3 DEF Request, InFlow, HasUser, Stages
  <2>8. CASE DeleteAccountFind(p)
    BY <1>1, <2>8 DEF DeleteAccountFind, Request, InFlow, HasUser, Stages
  <2>9. CASE SoftDelete(p)
    BY <1>1, <2>9 DEF SoftDelete, Live, Request, InFlow, HasUser, Stages
  <2>10. CASE RevokeRefreshTokens(p)
    <3>1. req[p].op \in {"reuse", "logout", "changePassword", "deleteAccount"}
          /\ req[p].uid \in Ids
      BY <1>1, <2>10 DEF RevokeRefreshTokens, InFlow, HasUser, Request, Ops, Idle
    <3>2. RowsOf(req[p].uid) \in SUBSET Tokens
      BY <1>1 DEF RowsOf
    <3> QED
      BY <1>1, <2>10, <3>1, <3>2 DEF RevokeRefreshTokens, InFlow, HasUser, Request, Stages
  <2>11. CASE RevokeRow(p)
    <3>1. PICK t \in req[p].tgt :
            req' = [req EXCEPT ![p].tgt = req[p].tgt \ {t},
                               ![p].del = req[p].del \cup ({t} \cap rows)]
      BY <1>1, <2>11 DEF RevokeRow
    <3>2. req[p].op \in {"reuse", "logout", "changePassword", "deleteAccount"}
      <4>1. req[p].pc = "revoking"
        BY <2>11 DEF RevokeRow
      <4> QED
        BY <1>1, <4>1 DEF InFlow, Request, Ops, Idle
    <3> QED
      BY <1>1, <2>11, <3>1, <3>2 DEF RevokeRow, InFlow, HasUser, Request
  <2> QED
    BY <2>1, <2>2, <2>3, <2>4, <2>5, <2>6, <2>7, <2>8, <2>9, <2>10, <2>11
<1> QED
  BY <1>1, <1>2, ShapeRequest

\* Deleting an expired row keeps the shape.
LEMMA DropExpiredShape ==
    ASSUME Shape, NEW p \in Procs, DropExpired(p)
    PROVE  Shape'
<1>1. {req[p].tok} \cap rows \in SUBSET Tokens
  BY DEF Shape, TypeOK
<1> QED
  BY <1>1, ShapeRemove DEF DropExpired, Ends

\* So does the sweep of the janitor.
LEMMA PurgeShape ==
    ASSUME Shape, PurgeExpiredRefreshTokens
    PROVE  Shape'
<1>1. Expired \in SUBSET Tokens
  BY DEF Shape, TypeOK, Expired
<1> QED
  BY <1>1, ShapeRemove DEF PurgeExpiredRefreshTokens, Ends

\* The end of a revocation: autocommit, or on to the next stage.
LEMMA RevokedShape ==
    ASSUME Shape, NEW p \in Procs, Revoked(p)
    PROVE  Shape'
<1>1. CASE req[p].op \in {"logout", "reuse"}
  <2>0. req[p].del \in SUBSET Tokens
    BY DEF Shape, TypeOK, Request
  <2>1. req[p].op \in Ends /\ Remove(req[p].del, req[p].op)
        /\ req' = [req EXCEPT ![p] = Idle]
        /\ UNCHANGED <<user, minted, clock, delivered, started, history>>
    BY <1>1 DEF Revoked, Ends
  <2> QED
    BY <2>0, <2>1, ShapeRemove
<1>2. CASE req[p].op \in {"changePassword", "deleteAccount"}
  <2>1. PICK s \in {"issue", "softdelete"} :
            Goto(p, s) /\ raced' = raced
            /\ (s = "issue" <=> req[p].op = "changePassword")
    BY <1>2 DEF Revoked
  <2>2. InFlow([req[p] EXCEPT !.pc = s]) /\ HasUser([req[p] EXCEPT !.pc = s])
    BY <1>2, <2>1 DEF InFlow, HasUser, Shape, TypeOK, RequestsOK, Request
  <2>3. raced' \subseteq Ids
    BY <2>1 DEF Shape, TypeOK
  <2> QED
    BY <1>2, <2>1, <2>2, <2>3, GotoShape DEF Stages
<1> QED
  BY <1>1, <1>2 DEF Revoked

\* Minting uses the next number and stores its owner.
LEMMA IssueShape ==
    ASSUME Shape, NEW p \in Procs, IssueTokens(p)
    PROVE  Shape'
<1>1. minted' = minted + 1 /\ minted \in Nat /\ minted + 1 \in Tokens
      /\ token' = [token EXCEPT ![minted + 1] = Minted(p)]
      /\ req[p].pc = "issue" /\ UNCHANGED <<user, clock, started, history>>
  BY MintedAreTokens DEF IssueTokens, NextToken
<1>2. req[p].uid \in Ids /\ req[p] \in Request /\ req[p].op # "none"
  BY <1>1 DEF Shape, TypeOK, RequestsOK, HasUser, InFlow, Idle
<1>3. Minted(p) \in TokenRow /\ Minted(p).owner \in Ids
  BY <1>2 DEF Minted, TokenRow, Request, Ends
<1>4. token' \in [Tokens -> TokenRow] /\ \A t \in 1 .. minted' : token'[t].owner \in Ids
  BY <1>1, <1>3, MintedAreTokens DEF Shape, TypeOK, MintedOK
<1>5. rows' \subseteq 1 .. minted' /\ delivered' \subseteq 1 .. minted'
  BY <1>1 DEF IssueTokens, NextToken, Shape, MintedOK
<1>6. req' \in [Procs -> Request] /\ RequestsOK'
  <2> DEFINE r == req'[p]
  <2>1. r \in Request /\ InFlow(r) /\ HasUser(r) /\ r.new \in 0 .. minted'
        /\ r.tok \in 0 .. minted' /\ req' = [req EXCEPT ![p] = r]
    <3>1. CASE req[p].op = "login"
      <4>1. req' = [req EXCEPT ![p] = Idle]
        BY <3>1 DEF IssueTokens
      <4> QED
        BY <1>1, <4>1, Records, IdleFits DEF Shape, TypeOK
    <3>2. CASE req[p].op # "login"
      <4>1. req' = [req EXCEPT ![p].new = minted + 1, ![p].pc = "commit"]
        BY <3>2 DEF IssueTokens, NextToken
      <4>2. InFlow(req[p]) /\ HasUser(req[p]) /\ req[p].tok \in 0 .. minted
        BY DEF Shape, RequestsOK
      <4> QED
        BY <1>1, <1>2, <3>2, <4>1, <4>2
           DEF Shape, TypeOK, Request, Stages, InFlow, HasUser
    <3> QED
      BY <3>1, <3>2
  <2> QED
    BY <1>1, <2>1 DEF Shape, TypeOK, RequestsOK
<1>7. jwtDead' \in 0 .. minted' /\ rowDead' \in 0 .. jwtDead'
      /\ minted' \in 0 .. MaxReqs + 1
  BY <1>1, ConstantsAssumption DEF Shape, TypeOK, clock, Tokens
<1>8. TypeOK'
  BY <1>1, <1>4, <1>5, <1>6, <1>7, ConstantsAssumption
     DEF Shape, TypeOK, history, Tokens
<1> QED
  BY <1>4, <1>5, <1>6, <1>8 DEF Shape, MintedOK

\* A commit publishes well-typed rows of a token that was minted.
LEMMA CommitShape ==
    ASSUME Shape, NEW p \in Procs, Commit(p)
    PROVE  Shape'
<1>1. /\ req[p].pc = "commit" /\ minted' = minted
      /\ req' = [req EXCEPT ![p] = Idle] /\ UNCHANGED <<clock, started, history>>
  BY DEF Commit
<1>2. /\ req[p] \in Request /\ req[p].new \in 0 .. minted
      /\ req[p].op \in {"register", "refresh", "changePassword", "deleteAccount"}
      /\ req[p].uid \in Ids
  BY <1>1 DEF Shape, TypeOK, RequestsOK, InFlow, HasUser, Idle, Request, Ops
<1>3. New(p) \subseteq 1 .. minted
  BY <1>2, MintedAreTokens DEF New
<1>4. /\ token' \in [Tokens -> TokenRow]
      /\ \A t \in Tokens : token'[t].owner = token[t].owner
  <2>1. CASE req[p].op = "register"
    <3>1. req[p].del = {}
      BY <2>1 DEF Shape, RequestsOK, InFlow
    <3> QED
      BY <3>1 DEF Commit, Shape, TypeOK
  <2>2. CASE req[p].op # "register"
    <3>1. HowEnded(p) \in Ends
      BY <1>2, <2>2 DEF HowEnded, Ends
    <3> QED
      BY <3>1 DEF Commit, Shape, TypeOK, TokenRow
  <2> QED
    BY <2>1, <2>2
<1>5. user' \in [Ids -> UserRow]
  <2>1. Written(p) \in UserRow
    BY <1>2 DEF Written, UserRow, Statuses, Shape, TypeOK, Request
  <2> QED
    BY <1>2, <2>1 DEF Commit, Shape, TypeOK
<1>6. rows' \subseteq 1 .. minted /\ delivered' \subseteq 1 .. minted
  BY <1>3 DEF Commit, Shape, MintedOK
<1>7. req' \in [Procs -> Request] /\ RequestsOK'
  BY <1>1, Records, IdleFits DEF Shape, TypeOK, RequestsOK
<1>8. TypeOK'
  BY <1>1, <1>4, <1>5, <1>6, <1>7, MintedAreTokens DEF Shape, TypeOK, clock, history
<1> QED
  BY <1>1, <1>4, <1>6, <1>7, <1>8, MintedAreTokens DEF Shape, MintedOK

\* Expiry keeps rows from dying before their JWT.
LEMMA ClockShape ==
    ASSUME Shape, JwtExpires \/ RowExpires
    PROVE  Shape'
<1>1. jwtDead' \in 0 .. minted /\ rowDead' \in 0 .. jwtDead'
  BY MintedAreTokens DEF JwtExpires, RowExpires, Shape, TypeOK
<1>2. UNCHANGED <<db, minted, delivered, req, started, history>>
  BY DEF JwtExpires, RowExpires
<1> QED
  BY <1>1, <1>2 DEF Shape, TypeOK, RequestsOK, MintedOK, db, history

\* Shape is inductive.
LEMMA NextShape == Shape /\ [Next]_vars => Shape'
<1> SUFFICES ASSUME Shape, [Next]_vars PROVE Shape'
  OBVIOUS
<1>1. ASSUME NEW p \in Procs, Start(p) PROVE Shape'
  BY <1>1, StartShape
<1>2. ASSUME NEW p \in Procs, Step(p) PROVE Shape'
  BY <1>2, AnswerShape, FindShape, DropExpiredShape, RevokedShape, IssueShape,
     CommitShape DEF Step
<1>3. ASSUME NEW p \in Procs, Abort(p) PROVE Shape'
  BY <1>3, AnswerShape DEF Abort
<1>4. CASE PurgeExpiredRefreshTokens
  BY <1>4, PurgeShape
<1>5. CASE JwtExpires \/ RowExpires
  BY <1>5, ClockShape
<1>6. CASE UNCHANGED vars
  BY <1>6 DEF vars, Shape, TypeOK, RequestsOK, MintedOK
<1> QED
  BY <1>1, <1>2, <1>3, <1>4, <1>5, <1>6 DEF Next

\* Every reachable state is well typed, whatever the constants: requests carry
\* a user where the code dereferences one, tokens in use were minted, and a
\* row never expires before the JWT it stands for.
THEOREM TypeCorrect == Spec => []TypeOK
<1>1. Spec => []Shape
  BY InitShape, NextShape, PTL DEF Spec
<1> QED
  BY <1>1, PTL DEF Shape

---------------------------------------------------------------------------
(* The inductive invariant of the session theorems: what holds of one      *)
(* request, of two requests, and of the stored sessions.                   *)

Known(u) == u \in Ids /\ user[u].status # "absent"

\* A registration's account does not exist yet; everybody else's does.
KnownRequest(p) ==
    LET r == req[p]
    IN  /\ r.op = "register" => user[r.uid].status = "absent" /\ r.ver = 0
        /\ r.op \notin {"none", "register"} /\ ~(r.op = "login" /\ r.pc = "find")
                => Known(r.uid)
        /\ r.op = "refresh" => r.tok \in 1 .. minted /\ token[r.tok].owner = r.uid

\* Who may have written the row of its user.
Writes(p) ==
    LET r == req[p]
    IN  /\ r.op = "register" /\ r.pc \in {"issue", "commit"} => r.hit
        /\ r.hit =>
            \/ r.op = "register" /\ r.pc \in {"issue", "commit"}
            \/ /\ r.op = "changePassword" /\ Live(r.uid)
               /\ r.pc \in {"revoke", "revoking", "issue", "commit"}
            \/ r.op = "deleteAccount" /\ Live(r.uid) /\ r.pc = "commit"

\* The token waiting for the commit is the request's own.
Pending(p) ==
    LET r == req[p]
    IN  /\ r.new # 0 => /\ r.pc = "commit" /\ r.op # "deleteAccount"
                        /\ token[r.new].owner = r.uid /\ token[r.new].ver = r.ver
        /\ r.pc # "revoking" => r.tgt = {}

\* Unless raced, what a request found out about its account still holds.
Checked(p) ==
    LET r == req[p]
    IN  r.uid \notin raced =>
        /\ Issuing(p, r.uid) => Live(r.uid) /\ r.ver = user[r.uid].ver
        /\ Reissuing(p, r.uid) => Live(r.uid)
        /\ Reissuing(p, r.uid) /\ r.pc # "update" =>
                r.hit /\ r.ver = user[r.uid].ver + 1

\* p is ending the sessions of its account and that account is not raced.
Ending(p) ==
    /\ req[p].uid \notin raced
    /\ \E o \in {"changePassword", "deleteAccount"} : Revoking(p, o, req[p].uid)

\* It then has all of them on its lists ...
Listed(p) ==
    Ending(p) => \A t \in rows :
        token[t].owner = req[p].uid => t \in req[p].del \cup req[p].tgt

\* ... and nobody else is about to add one.
Quiet(p, q) ==
    Ending(p) =>
        /\ ~Issuing(q, req[p].uid)
        /\ req[p].op = "deleteAccount" => ~Reissuing(q, req[p].uid)

\* A registration shares its id with nobody, a written user row has one writer.
Apart(p, q) ==
    /\ req[p].op = "register" => req[q].uid # req[p].uid
    /\ req[p].hit /\ req[q].hit => req[p].uid # req[q].uid

RequestInv(p) == KnownRequest(p) /\ Writes(p) /\ Pending(p) /\ Checked(p) /\ Listed(p)

PairInv(p, q) == Quiet(p, q) /\ Apart(p, q)

\* Unless raced, a stored session belongs to a live account and was
\* authorised by its present password.
RowsCurrent ==
    /\ \A t \in rows \cup delivered : Known(token[t].owner)
    /\ \A t \in rows :
        token[t].owner \notin raced =>
            /\ Live(token[t].owner)
            /\ token[t].ver = user[token[t].owner].ver

SessionInv ==
    /\ Shape /\ RowsCurrent
    /\ \A p \in Procs : RequestInv(p)
    /\ \A p \in Procs : \A q \in Others(p) : PairInv(p, q)

---------------------------------------------------------------------------
(* Frames *)

\* What SessionInv says of the types, in the form the steps use it.
LEMMA SessionTypes ==
    ASSUME SessionInv
    PROVE  /\ user \in [Ids -> UserRow] /\ token \in [Tokens -> TokenRow]
           /\ req \in [Procs -> Request] /\ rows \subseteq 1 .. minted
           /\ delivered \subseteq 1 .. minted /\ 1 .. minted \subseteq Tokens
           /\ minted \in Nat /\ raced \subseteq Ids
  BY MintedAreTokens DEF SessionInv, Shape, TypeOK, MintedOK

\* A step that changes the request of p only, adds no session and takes no
\* account out of raced, keeps everything that does not concern p.
LEMMA LocalStep ==
    ASSUME SessionInv, Shape', NEW p \in Procs,
           user' = user, delivered' = delivered, rows' \subseteq rows,
           minted <= minted',
           \A t \in 1 .. minted : /\ token'[t].owner = token[t].owner
                                  /\ token'[t].ver = token[t].ver,
           raced \subseteq raced',
           \A q \in Others(p) : req'[q] = req[q],
           RequestInv(p)',
           \A q \in Others(p) : PairInv(p, q)' /\ PairInv(q, p)'
    PROVE  SessionInv'
<1> USE SessionTypes
<1>0. minted' \in Nat /\ 1 .. minted \subseteq 1 .. minted'
  BY DEF Shape, TypeOK
<1>1. RowsCurrent'
  BY DEF SessionInv, RowsCurrent, Known, Live
<1>2. ASSUME NEW q \in Others(p) PROVE RequestInv(q)'
  <2>0. q \in Procs /\ RequestInv(q) /\ req'[q] = req[q]
        /\ req[q].new \in 0 .. minted /\ Others(q)' = Others(q)
    BY DEF SessionInv, Shape, RequestsOK, Others
  <2>1. KnownRequest(q)' /\ Writes(q)' /\ Pending(q)'
    BY <1>0, <2>0 DEF RequestInv, KnownRequest, Writes, Pending, Known, Live
  <2>2. Checked(q)'
    BY <2>0 DEF RequestInv, Checked, Issuing, Reissuing, Live
  <2>3. Listed(q)'
    BY <2>0 DEF RequestInv, Listed, Ending, Revoking
  <2> QED
    BY <2>1, <2>2, <2>3 DEF RequestInv
<1>3. ASSUME NEW a \in Procs, NEW b \in Others(a) PROVE PairInv(a, b)'
  <2>1. CASE a = p
    BY <2>1 DEF Others
  <2>2. CASE b = p
    BY <2>2 DEF Others
  <2>3. CASE a # p /\ b # p
    BY <2>3 DEF SessionInv, Others, PairInv, Quiet, Apart, Ending, Revoking,
       Issuing, Reissuing
  <2> QED
    BY <2>1, <2>2, <2>3
<1> QED
  BY <1>1, <1>2, <1>3 DEF SessionInv, Others

\* A request that has ended satisfies everything.
LEMMA IdleInv ==
    ASSUME SessionInv, Shape', NEW p \in Procs, req'[p] = Idle,
           \A q \in Others(p) : req'[q] = req[q]
    PROVE  RequestInv(p)' /\ \A q \in Others(p) : PairInv(p, q)' /\ PairInv(q, p)'
<1>1. RequestInv(p)'
  BY DEF RequestInv, KnownRequest, Writes, Pending, Checked, Listed, Ending,
     Revoking, Issuing, Reissuing, Idle
<1>2. ASSUME NEW q \in Others(p) PROVE PairInv(p, q)' /\ PairInv(q, p)'
  <2>1. req[q].op = "register" => req[q].uid \in Ids
    BY DEF Others, SessionInv, Shape, RequestsOK, HasUser
  <2> QED
    BY <2>1, ConstantsAssumption DEF PairInv, Quiet, Apart, Ending, Revoking,
       Issuing, Reissuing, Idle
<1> QED
  BY <1>1, <1>2

---------------------------------------------------------------------------
(* Steps that end a request, or no request, and only take sessions away *)

\* An answered request, or one rolled back, keeps the invariant.
LEMMA AnswerSession ==
    ASSUME SessionInv, NEW p \in Procs, Answer(p)
    PROVE  SessionInv'
<1>1. Shape'
  BY AnswerShape DEF SessionInv
<1>2. req' = [req EXCEPT ![p] = Idle] /\ UNCHANGED <<user, rows, token, minted,
          delivered, raced>>
  BY DEF Answer, db, history
<1>3. req'[p] = Idle /\ \A q \in Others(p) : req'[q] = req[q]
  BY <1>2, SessionTypes DEF Others
<1> QED
  BY <1>1, <1>2, <1>3, IdleInv, LocalStep, SessionTypes

\* So does an autocommitted deletion of rows.
LEMMA RemoveSession ==
    ASSUME SessionInv, NEW p \in Procs, NEW S \in SUBSET Tokens, NEW how \in Ends,
           Remove(S, how), req' = [req EXCEPT ![p] = Idle],
           UNCHANGED <<user, minted, clock, delivered, started, history>>
    PROVE  SessionInv'
<1>1. Shape'
  BY ShapeRemove DEF SessionInv
<1>2. req'[p] = Idle /\ \A q \in Others(p) : req'[q] = req[q]
  BY SessionTypes DEF Others
<1>3. rows' \subseteq rows /\ raced' = raced
      /\ \A t \in Tokens : /\ token'[t].owner = token[t].owner
                           /\ token'[t].ver = token[t].ver
  BY SessionTypes DEF Remove, history, TokenRow
<1> QED
  BY <1>1, <1>2, <1>3, IdleInv, LocalStep, SessionTypes

\* The janitor and the clocks touch no request.
LEMMA SweepSession ==
    ASSUME SessionInv, PurgeExpiredRefreshTokens \/ JwtExpires \/ RowExpires
    PROVE  SessionInv'
<1>1. Shape'
  BY PurgeShape, ClockShape DEF SessionInv
<1>2. /\ user' = user /\ minted' = minted /\ delivered' = delivered
      /\ req' = req /\ raced' = raced /\ rows' \subseteq rows
      /\ \A t \in Tokens : /\ token'[t].owner = token[t].owner
                           /\ token'[t].ver = token[t].ver
  BY SessionTypes DEF PurgeExpiredRefreshTokens, JwtExpires, RowExpires, Remove,
     db, history, TokenRow
<1>3. RowsCurrent'
  BY <1>2, SessionTypes DEF SessionInv, RowsCurrent, Known, Live
<1>4. ASSUME NEW q \in Procs PROVE RequestInv(q)'
  <2>0. RequestInv(q) /\ req[q].new \in 0 .. minted
    BY DEF SessionInv, Shape, RequestsOK
  <2>1. KnownRequest(q)' /\ Writes(q)' /\ Pending(q)'
    BY <1>2, <2>0, SessionTypes DEF RequestInv, KnownRequest, Writes, Pending,
       Known, Live
  <2>2. Checked(q)'
    BY <1>2, <2>0 DEF RequestInv, Checked, Issuing, Reissuing, Live
  <2>3. Listed(q)'
    BY <1>2, <2>0, SessionTypes DEF RequestInv, Listed, Ending, Revoking
  <2> QED
    BY <2>1, <2>2, <2>3 DEF RequestInv
<1>5. ASSUME NEW a \in Procs, NEW b \in Others(a) PROVE PairInv(a, b)'
  BY <1>2 DEF SessionInv, Others, PairInv, Quiet, Apart, Ending, Revoking,
     Issuing, Reissuing
<1> QED
  BY <1>1, <1>3, <1>4, <1>5 DEF SessionInv, Others

---------------------------------------------------------------------------
(* Steps of one request that leave the database alone *)

\* A step that changes only the request of p needs looking at p only.
LEMMA RequestStep ==
    ASSUME SessionInv, Shape', NEW p \in Procs, NEW r,
           req' = [req EXCEPT ![p] = r], UNCHANGED <<db, minted, delivered>>,
           raced \subseteq raced',
           RequestInv(p)', \A q \in Others(p) : PairInv(p, q)' /\ PairInv(q, p)'
    PROVE  SessionInv'
<1>1. \A q \in Others(p) : req'[q] = req[q]
  BY SessionTypes DEF Others
<1>2. user' = user /\ rows' = rows /\ token' = token
  BY DEF db
<1> QED
  BY <1>1, <1>2, LocalStep, SessionTypes

\* What SessionInv says of one request and of a pair of them.
LEMMA RequestFacts ==
    ASSUME SessionInv, NEW p \in Procs
    PROVE  /\ RequestInv(p) /\ req[p] \in Request
           /\ InFlow(req[p]) /\ HasUser(req[p])
           /\ req[p].new \in 0 .. minted
           /\ \A q \in Others(p) : /\ q \in Procs /\ PairInv(p, q) /\ PairInv(q, p)
                                   /\ req[q] \in Request /\ HasUser(req[q])
                                   /\ KnownRequest(q)
  BY SessionTypes DEF SessionInv, Shape, RequestsOK, Others, RequestInv

\* A request that has just entered holds no lock and is about to look its user up.
LEMMA BeginSession ==
    ASSUME SessionInv, Shape', NEW p \in Procs, NEW r, Begin(p, r),
           r.pc = IF r.op = "logout" THEN "revoke" ELSE "find", r.hit = FALSE, r.tgt = {}, r.new = 0, r.ver = 0,
           \/ /\ r.op = "register" /\ r.uid \in Ids
              /\ user[r.uid].status = "absent" /\ \A q \in Procs : req[q].uid # r.uid
           \/ r.op = "login" /\ r.uid = None /\ r.pc = "find"
           \/ /\ r.op \in {"refresh", "changePassword", "deleteAccount", "logout"}
              /\ Known(r.uid)
              /\ r.op = "refresh" => r.tok \in 1 .. minted /\ token[r.tok].owner = r.uid
    PROVE  SessionInv'
<1>1. /\ req' = [req EXCEPT ![p] = r] /\ UNCHANGED <<db, minted, delivered>>
      /\ raced' = raced
  BY DEF Begin, history
<1>2. /\ req'[p] = r /\ user' = user /\ token' = token /\ minted' = minted
      /\ r \in Request /\ \A q \in Others(p) : req'[q] = req[q]
  BY <1>1, SessionTypes DEF db, Others, Shape, TypeOK
<1>3. RequestInv(p)'
  <2>1. KnownRequest(p)'
    BY <1>2 DEF KnownRequest, Known
  <2>2. Writes(p)'
    BY <1>2 DEF Writes
  <2>3. Pending(p)'
    BY <1>2 DEF Pending
  <2>4. ~Issuing(p, r.uid)' /\ ~Reissuing(p, r.uid)' /\ ~Ending(p)'
    BY <1>2 DEF Issuing, Reissuing, Ending, Revoking
  <2>5. Checked(p)' /\ Listed(p)'
    BY <1>2, <2>4 DEF Checked, Listed
  <2> QED
    BY <2>1, <2>2, <2>3, <2>5 DEF RequestInv
<1>4. ASSUME NEW q \in Others(p) PROVE PairInv(p, q)' /\ PairInv(q, p)'
  <2>1. q \in Procs /\ HasUser(req[q]) /\ KnownRequest(q) /\ req[q] \in Request
    BY RequestFacts
  <2>2. req[q].op = "register" => req[q].uid # r.uid
    BY <2>1, ConstantsAssumption DEF HasUser, KnownRequest, Known
  <2>3. Quiet(p, q)' /\ Quiet(q, p)'
    BY <1>2 DEF Quiet, Ending, Revoking, Issuing, Reissuing
  <2>4. Apart(p, q)' /\ Apart(q, p)'
    BY <1>2, <2>1, <2>2 DEF Apart
  <2> QED
    BY <2>3, <2>4 DEF PairInv
<1> QED
  BY <1>1, <1>3, <1>4, RequestStep

\* A request that enters knows its account, or has an id of its own.
LEMMA StartSession ==
    ASSUME SessionInv, NEW p \in Procs, Start(p)
    PROVE  SessionInv'
<1>0. Shape'
  BY StartShape DEF SessionInv
<1>1. ASSUME NEW e \in Emails, StartRegister(p, e)
      PROVE  SessionInv'
  <2> PICK u \in Ids :
        /\ user[u].status = "absent" /\ \A q \in Procs : req[q].uid # u
        /\ Begin(p, [Idle EXCEPT !.op = "register", !.pc = "find",
                                 !.uid = u, !.email = e])
    BY <1>1 DEF StartRegister
  <2> DEFINE r == [Idle EXCEPT !.op = "register", !.pc = "find",
                               !.uid = u, !.email = e]
  <2>1. /\ r.pc = "find" /\ r.hit = FALSE /\ r.tgt = {} /\ r.new = 0 /\ r.ver = 0
        /\ r.op = "register" /\ r.uid = u
    BY DEF Idle
  <2> QED
    BY <1>0, <2>1, BeginSession
<1>2. ASSUME NEW e \in Emails, StartLogin(p, e)
      PROVE  SessionInv'
  <2> DEFINE r == [Idle EXCEPT !.op = "login", !.pc = "find", !.email = e]
  <2>1. /\ r.pc = "find" /\ r.hit = FALSE /\ r.tgt = {} /\ r.new = 0 /\ r.ver = 0
        /\ r.op = "login" /\ r.uid = None
    BY DEF Idle
  <2> QED
    BY <1>0, <1>2, <2>1, BeginSession DEF StartLogin
<1>3. ASSUME NEW t \in Tokens,
             \/ StartRefresh(p, t) \/ StartChangePassword(p, t)
             \/ StartDeleteAccount(p, t) \/ StartLogout(p, t)
      PROVE  SessionInv'
  <2>1. t \in delivered
    BY <1>3 DEF StartRefresh, StartChangePassword, StartDeleteAccount,
       StartLogout, Authenticated
  <2>2. t \in 1 .. minted /\ Known(token[t].owner)
    BY <2>1, SessionTypes DEF SessionInv, RowsCurrent
  <2>3. PICK o \in {"refresh", "changePassword", "deleteAccount", "logout"},
             k \in {0, t}, s \in {"find", "revoke"} :
          /\ (o = "refresh" => k = t) /\ s = IF o = "logout" THEN "revoke" ELSE "find"
          /\ Begin(p, Cookies(t, o, s, k))
    BY <1>3 DEF StartRefresh, StartChangePassword, StartDeleteAccount, StartLogout
  <2> DEFINE r == Cookies(t, o, s, k)
  <2>4. /\ r.pc = s /\ r.hit = FALSE /\ r.tgt = {} /\ r.new = 0 /\ r.ver = 0
        /\ r.op = o /\ r.uid = token[t].owner /\ r.tok = k
    BY DEF Idle, Cookies
  <2> QED
    BY <1>0, <2>2, <2>3, <2>4, BeginSession
<1> QED
  BY <1>1, <1>2, <1>3 DEF Start

\* A request that moves on within a stage of the flow in which it neither holds
\* nor gains anything the invariant speaks of.
LEMMA PassSession ==
    ASSUME SessionInv, Shape', NEW p \in Procs, NEW r,
           req' = [req EXCEPT ![p] = r], UNCHANGED <<db, minted, delivered>>,
           raced' = raced,
           r.uid = req[p].uid, r.hit = req[p].hit, r.tgt = req[p].tgt,
           r.new = req[p].new, r.ver = req[p].ver, r.tok = req[p].tok,
           req[p].pc \in {"find", "revoke"},
           \/ r.op = "register" /\ req[p].op = "register" /\ r.pc = "insert"
           \/ r.op = "reuse" /\ req[p].op = "refresh" /\ r.pc = "revoke"
           \/ r.op = "refresh" /\ req[p].op = "refresh" /\ r.pc = "drop"
           \/ r.op = "deleteAccount" /\ req[p].op = "deleteAccount" /\ r.pc = "revoke"
    PROVE  SessionInv'
<1>1. /\ req'[p] = r /\ user' = user /\ token' = token /\ minted' = minted
      /\ rows' = rows /\ \A q \in Others(p) : req'[q] = req[q]
  BY SessionTypes DEF db, Others
<1>2. RequestInv(p)'
  BY <1>1, RequestFacts DEF RequestInv, KnownRequest, Writes, Pending, Checked,
     Listed, Ending, Revoking, Issuing, Reissuing, Known, Live
<1>3. ASSUME NEW q \in Others(p) PROVE PairInv(p, q)' /\ PairInv(q, p)'
  BY <1>1, RequestFacts DEF PairInv, Quiet, Apart, Ending, Revoking, Issuing, Reissuing
<1> QED
  BY <1>2, <1>3, RequestStep

\* The look-up of the address decides nothing about sessions.
LEMMA RegisterFindSession ==
    ASSUME SessionInv, Shape', NEW p \in Procs, RegisterFind(p)
    PROVE  SessionInv'
<1>1. CASE Answer(p)
  BY <1>1, AnswerSession
<1>2. CASE Goto(p, "insert") /\ UNCHANGED raced
  <2> DEFINE r == [req[p] EXCEPT !.pc = "insert"]
  <2>1. req' = [req EXCEPT ![p] = r] /\ UNCHANGED <<db, minted, delivered>>
    BY <1>2, SessionTypes DEF Goto
  <2>2. /\ r.op = req[p].op /\ r.uid = req[p].uid /\ r.hit = req[p].hit
        /\ r.tgt = req[p].tgt /\ r.new = req[p].new /\ r.ver = req[p].ver
        /\ r.tok = req[p].tok /\ r.pc = "insert"
    BY RequestFacts DEF Request
  <2>3. req[p].op = "register" /\ req[p].pc = "find" /\ raced' = raced
    BY <1>2 DEF RegisterFind, At
  <2> QED
    BY <2>1, <2>2, <2>3, PassSession
<1> QED
  BY <1>1, <1>2 DEF RegisterFind

\* The insert takes the lock on a row nobody else knows.
LEMMA CreateUserSession ==
    ASSUME SessionInv, Shape', NEW p \in Procs, CreateUser(p)
    PROVE  SessionInv'
<1>1. CASE Answer(p)
  BY <1>1, AnswerSession
<1>2. CASE ~Answer(p)
  <2> DEFINE r == [req[p] EXCEPT !.hit = TRUE, !.pc = "issue"]
  <2>1. req' = [req EXCEPT ![p] = r] /\ UNCHANGED <<db, minted, delivered>>
        /\ raced' = raced
    BY <1>2, SessionTypes DEF CreateUser, history
  <2>2. /\ req'[p] = r /\ user' = user /\ token' = token /\ minted' = minted
        /\ rows' = rows /\ \A q \in Others(p) : req'[q] = req[q]
    BY <2>1, SessionTypes DEF db, Others
  <2>3. /\ r.op = "register" /\ r.uid = req[p].uid /\ r.hit = TRUE
        /\ r.tgt = req[p].tgt /\ r.new = req[p].new /\ r.ver = req[p].ver
        /\ r.pc = "issue" /\ req[p].op = "register" /\ req[p].pc = "insert"
    BY RequestFacts DEF Request, CreateUser, At
  <2>4. RequestInv(p)'
    BY <2>2, <2>3, RequestFacts DEF RequestInv, KnownRequest, Writes, Pending,
       Checked, Listed, Ending, Revoking, Issuing, Reissuing
  <2>5. ASSUME NEW q \in Others(p) PROVE PairInv(p, q)' /\ PairInv(q, p)'
    <3>1. PairInv(p, q) /\ PairInv(q, p) /\ req[q] \in Request
      BY RequestFacts
    <3>2. Quiet(p, q)' /\ Quiet(q, p)'
      BY <2>2, <2>3 DEF Quiet, Ending, Revoking, Issuing, Reissuing
    <3>3. Apart(p, q)' /\ Apart(q, p)'
      BY <2>2, <2>3, <3>1 DEF Apart, PairInv
    <3> QED
      BY <3>2, <3>3 DEF PairInv
  <2> QED
    BY <2>1, <2>4, <2>5, RequestStep
<1> QED
  BY <1>1, <1>2

\* A mark at the check covers every revocation that is under way.
LEMMA CheckMark ==
    ASSUME NEW q \in Procs, NEW u, NEW o,
           raced' = IF OverlapAtCheck(o, u) THEN raced \cup {u} ELSE raced,
           req'[q] = req[q], Ending(q)', req[q].uid = u
    PROVE  o = "changePassword" /\ req[q].op # "deleteAccount"
<1>2. u \notin raced'
  BY DEF Ending
<1>3. ~OverlapAtCheck(o, u)
  BY <1>2
<1>4. Revoking(q, "changePassword", u) \/ Revoking(q, "deleteAccount", u)
  BY DEF Ending, Revoking
<1> QED
  BY <1>3, <1>4 DEF OverlapAtCheck, Revoking

\* A login that starts to issue while the account's sessions are being ended
\* makes the account raced.
LEMMA LoginFindSession ==
    ASSUME SessionInv, Shape', NEW p \in Procs, LoginFind(p)
    PROVE  SessionInv'
<1>1. CASE Answer(p)
  BY <1>1, AnswerSession
<1>2. CASE ~Answer(p)
  <2>0. PICK u \in Ids :
          /\ Live(u)
          /\ req' = [req EXCEPT ![p].uid = u, ![p].ver = user[u].ver,
                                ![p].pc = "issue"]
          /\ MarkIf(OverlapAtCheck("login", u), u)
          /\ UNCHANGED <<db, minted, delivered>>
    BY <1>2 DEF LoginFind, FindByEmail
  <2> DEFINE r == [req[p] EXCEPT !.uid = u, !.ver = user[u].ver, !.pc = "issue"]
  <2>1. req' = [req EXCEPT ![p] = r] /\ raced \subseteq raced'
    BY <2>0, SessionTypes DEF MarkIf
  <2>2. /\ req'[p] = r /\ user' = user /\ token' = token /\ minted' = minted
        /\ rows' = rows /\ \A q \in Others(p) : req'[q] = req[q]
    BY <2>0, <2>1, SessionTypes DEF db, Others
  <2>3. /\ r.op = "login" /\ r.uid = u /\ r.hit = req[p].hit
        /\ r.tgt = req[p].tgt /\ r.new = req[p].new /\ r.ver = user[u].ver
        /\ r.pc = "issue" /\ req[p].op = "login" /\ req[p].pc = "find"
    <3>1. req[p].op = "login" /\ req[p].pc = "find"
      BY DEF LoginFind, At
    <3> QED
      BY <3>1, RequestFacts DEF Request
  <2> HIDE DEF r
  <2>4. RequestInv(p)'
    BY <2>0, <2>2, <2>3, RequestFacts DEF RequestInv, KnownRequest, Writes,
       Pending, Checked, Listed, Ending, Revoking, Issuing, Reissuing, Known, Live
  <2>5. ASSUME NEW q \in Others(p) PROVE PairInv(p, q)' /\ PairInv(q, p)'
    <3>1. /\ q \in Procs /\ PairInv(p, q) /\ PairInv(q, p) /\ req[q] \in Request
          /\ KnownRequest(q)
      BY RequestFacts
    <3>2. Quiet(p, q)'
      BY <2>2, <2>3 DEF Quiet, Ending, Revoking
    <3>3. Quiet(q, p)'
      <4>1. ASSUME Ending(q)', req[q].uid = u PROVE FALSE
        <5>1. raced' = IF OverlapAtCheck("login", u) THEN raced \cup {u} ELSE raced
          BY <2>0 DEF MarkIf
        <5>2. req'[q] = req[q]
          BY <2>2
        <5>3. "login" = "changePassword"
          BY <3>1, <4>1, <5>1, <5>2, CheckMark
        <5> QED
          BY <5>3
      <4> QED
        BY <2>2, <2>3, <4>1 DEF Quiet, Issuing, Reissuing
    <3>4. ~r.hit
      BY <2>3, RequestFacts DEF RequestInv, Writes, Request
    <3>5. Apart(p, q)' /\ Apart(q, p)'
      BY <2>0, <2>2, <2>3, <3>1, <3>4 DEF Apart, KnownRequest, Live
    <3> QED
      BY <3>2, <3>3, <3>5 DEF PairInv
  <2> QED
    BY <2>0, <2>1, <2>4, <2>5, RequestStep
<1> QED
  BY <1>1, <1>2

\* So does a rotation; the row it found says that the session is current.
LEMMA RefreshFindSession ==
    ASSUME SessionInv, Shape', NEW p \in Procs, RefreshFind(p)
    PROVE  SessionInv'
<1>0. req[p].op = "refresh" /\ req[p].pc = "find" /\ UNCHANGED <<db, minted, delivered>>
  BY DEF RefreshFind, At, Goto
<1>1. CASE req' = [req EXCEPT ![p].op = "reuse", ![p].pc = "revoke"] /\ raced' = raced
  <2> DEFINE r == [req[p] EXCEPT !.op = "reuse", !.pc = "revoke"]
  <2>1. req' = [req EXCEPT ![p] = r]
    BY <1>1, SessionTypes
  <2>2. /\ r.op = "reuse" /\ r.uid = req[p].uid /\ r.hit = req[p].hit
        /\ r.tgt = req[p].tgt /\ r.new = req[p].new /\ r.ver = req[p].ver
        /\ r.tok = req[p].tok /\ r.pc = "revoke"
    BY RequestFacts DEF Request
  <2> QED
    BY <1>0, <1>1, <2>1, <2>2, PassSession
<1>2. CASE Goto(p, "drop") /\ raced' = raced
  <2> DEFINE r == [req[p] EXCEPT !.pc = "drop"]
  <2>1. req' = [req EXCEPT ![p] = r]
    BY <1>2, SessionTypes DEF Goto
  <2>2. /\ r.op = req[p].op /\ r.uid = req[p].uid /\ r.hit = req[p].hit
        /\ r.tgt = req[p].tgt /\ r.new = req[p].new /\ r.ver = req[p].ver
        /\ r.tok = req[p].tok /\ r.pc = "drop"
    BY RequestFacts DEF Request
  <2> QED
    BY <1>0, <1>2, <2>1, <2>2, PassSession
<1>3. CASE /\ req[p].tok \in rows
           /\ req' = [req EXCEPT ![p].ver = token[req[p].tok].ver, ![p].pc = "delete"]
           /\ MarkIf(OverlapAtCheck("refresh", req[p].uid), req[p].uid)
  <2> DEFINE u == req[p].uid
             r == [req[p] EXCEPT !.ver = token[req[p].tok].ver, !.pc = "delete"]
  <2>1. req' = [req EXCEPT ![p] = r] /\ raced \subseteq raced'
    BY <1>3, SessionTypes DEF MarkIf
  <2>2. /\ req'[p] = r /\ user' = user /\ token' = token /\ minted' = minted
        /\ rows' = rows /\ \A q \in Others(p) : req'[q] = req[q]
    BY <1>0, <2>1, SessionTypes DEF db, Others
  <2>3. /\ r.op = "refresh" /\ r.uid = u /\ r.hit = req[p].hit /\ r.tok = req[p].tok
        /\ r.tgt = req[p].tgt /\ r.new = req[p].new /\ r.ver = token[req[p].tok].ver
        /\ r.pc = "delete"
    BY <1>0, RequestFacts DEF Request
  <2> HIDE DEF r
  <2>4. u \notin raced => Live(u) /\ r.ver = user[u].ver
    BY <1>0, <1>3, <2>3, RequestFacts DEF SessionInv, RowsCurrent, RequestInv, KnownRequest
  <2>5. RequestInv(p)'
    <3>1. KnownRequest(p)' /\ Writes(p)' /\ Pending(p)'
      BY <1>0, <2>1, <2>2, <2>3, RequestFacts DEF RequestInv, KnownRequest, Writes,
         Pending, Known
    <3>2. Checked(p)' /\ Listed(p)'
      BY <1>0, <2>1, <2>2, <2>3, <2>4, RequestFacts DEF RequestInv, KnownRequest,
         Checked, Listed, Ending, Revoking, Issuing, Reissuing, Live
    <3> QED
      BY <3>1, <3>2 DEF RequestInv
  <2>6. ASSUME NEW q \in Others(p) PROVE PairInv(p, q)' /\ PairInv(q, p)'
    <3>1. q \in Procs /\ PairInv(p, q) /\ PairInv(q, p) /\ req[q] \in Request
      BY RequestFacts
    <3>2. Quiet(p, q)'
      BY <2>2, <2>3 DEF Quiet, Ending, Revoking
    <3>3. Quiet(q, p)'
      <4>1. ASSUME Ending(q)', req[q].uid = u PROVE FALSE
        <5>1. raced' = IF OverlapAtCheck("refresh", u) THEN raced \cup {u} ELSE raced
          BY <1>3 DEF MarkIf
        <5>2. req'[q] = req[q]
          BY <2>2
        <5>3. "refresh" = "changePassword"
          BY <3>1, <4>1, <5>1, <5>2, CheckMark
        <5> QED
          BY <5>3
      <4> QED
        BY <2>2, <2>3, <4>1 DEF Quiet, Issuing, Reissuing
    <3>4. Apart(p, q)' /\ Apart(q, p)'
      BY <1>0, <2>2, <2>3, <3>1 DEF Apart, PairInv
    <3> QED
      BY <3>2, <3>3, <3>4 DEF PairInv
  <2> QED
    BY <1>0, <2>1, <2>5, <2>6, RequestStep
<1> QED
  BY <1>1, <1>2, <1>3 DEF RefreshFind, history

\* Deleting an expired row takes a session away and ends the request.
LEMMA DropExpiredSession ==
    ASSUME SessionInv, NEW p \in Procs, DropExpired(p)
    PROVE  SessionInv'
<1>1. {req[p].tok} \cap rows \in SUBSET Tokens
  BY SessionTypes
<1> QED
  BY <1>1, RemoveSession DEF DropExpired, Ends

\* A request that stays in the same phase: what it holds may only grow.
LEMMA SamePhase ==
    ASSUME SessionInv, Shape', NEW p \in Procs, NEW r,
           req' = [req EXCEPT ![p] = r], UNCHANGED <<db, minted, delivered>>,
           raced' = raced, r \in Request,
           r.op = req[p].op, r.uid = req[p].uid, r.ver = req[p].ver,
           r.hit = req[p].hit, r.tok = req[p].tok, r.new = req[p].new,
           req[p].new = 0, r.pc # "revoking" => r.tgt = {},
           (req[p].del \cup req[p].tgt) \cap rows \subseteq r.del \cup r.tgt,
           \/ /\ r.op \in {"reuse", "logout", "changePassword", "deleteAccount"}
              /\ req[p].pc = "revoking" /\ r.pc = "revoking"
           \/ r.op = "changePassword" /\ req[p].pc = "revoking" /\ r.pc = "issue"
           \/ r.op = "deleteAccount" /\ req[p].pc = "revoking" /\ r.pc = "softdelete"
    PROVE  SessionInv'
<1>1. /\ req'[p] = r /\ user' = user /\ token' = token /\ minted' = minted
      /\ rows' = rows /\ \A q \in Others(p) : req'[q] = req[q]
  BY SessionTypes DEF db, Others
<1>2. RequestInv(p)'
  <2>1. RequestInv(p) /\ req[p] \in Request
    BY RequestFacts
  <2>2. KnownRequest(p)' /\ Writes(p)' /\ Pending(p)'
    BY <1>1, <2>1 DEF RequestInv, KnownRequest, Writes, Pending, Known, Live
  <2>3. Checked(p)'
    BY <1>1, <2>1 DEF RequestInv, Checked, Issuing, Reissuing, Live
  <2>4. Listed(p)'
    BY <1>1, <2>1 DEF RequestInv, Listed, Ending, Revoking
  <2> QED
    BY <2>2, <2>3, <2>4 DEF RequestInv
<1>3. ASSUME NEW q \in Others(p) PROVE PairInv(p, q)' /\ PairInv(q, p)'
  <2>1. PairInv(p, q) /\ PairInv(q, p) /\ req[q] \in Request /\ req'[q] = req[q]
    BY <1>1, RequestFacts
  <2>2. Quiet(p, q)'
    BY <1>1, <2>1 DEF PairInv, Quiet, Ending, Revoking, Issuing, Reissuing
  <2>3. Quiet(q, p)'
    BY <1>1, <2>1 DEF PairInv, Quiet, Ending, Revoking, Issuing, Reissuing
  <2>4. Apart(p, q)' /\ Apart(q, p)'
    BY <1>1, <2>1 DEF PairInv, Apart
  <2> QED
    BY <2>2, <2>3, <2>4 DEF PairInv
<1> QED
  BY <1>2, <1>3, RequestStep

\* At the stages before the commit no token is pending.
LEMMA NothingPending ==
    ASSUME SessionInv, NEW p \in Procs, req[p].pc # "commit"
    PROVE  req[p].new = 0 /\ (req[p].pc # "revoking" => req[p].tgt = {})
  BY RequestFacts DEF RequestInv, Pending

\* The rotation has listed the presented row; it was authorised before.
LEMMA DeleteByTokenHashSession ==
    ASSUME SessionInv, Shape', NEW p \in Procs, DeleteByTokenHash(p)
    PROVE  SessionInv'
<1> DEFINE r == [req[p] EXCEPT !.del = {req[p].tok} \cap rows, !.pc = "issue"]
<1>1. /\ req[p].op = "refresh" /\ req[p].pc = "delete"
      /\ UNCHANGED <<db, minted, delivered>> /\ raced' = raced
  BY DEF DeleteByTokenHash, At, history
<1>2. req' = [req EXCEPT ![p] = r] /\ req'[p] = r
  BY SessionTypes DEF DeleteByTokenHash
<1>3. /\ r.op = req[p].op /\ r.uid = req[p].uid /\ r.ver = req[p].ver
      /\ r.hit = req[p].hit /\ r.tok = req[p].tok /\ r.new = req[p].new
      /\ r.pc = "issue" /\ r.tgt = req[p].tgt
  BY RequestFacts DEF Request
<1>4. r \in Request
  BY <1>2 DEF Shape, TypeOK
<1> HIDE DEF r
<1>5. RequestInv(p)'
  <2>1. RequestInv(p) /\ req[p] \in Request
    BY RequestFacts
  <2>2. user' = user /\ token' = token /\ rows' = rows /\ minted' = minted
    BY <1>1 DEF db
  <2> QED
    BY <1>1, <1>2, <1>3, <2>1, <2>2 DEF RequestInv, KnownRequest, Writes, Pending,
       Checked, Listed, Ending, Revoking, Issuing, Reissuing, Known, Live
<1>6. ASSUME NEW q \in Others(p) PROVE PairInv(p, q)' /\ PairInv(q, p)'
  <2>1. PairInv(p, q) /\ PairInv(q, p) /\ req[q] \in Request /\ req'[q] = req[q]
    BY <1>2, RequestFacts, SessionTypes DEF Others
  <2>2. Quiet(p, q)' /\ Quiet(q, p)'
    BY <1>1, <1>2, <1>3, <2>1 DEF PairInv, Quiet, Ending, Revoking, Issuing, Reissuing
  <2>3. Apart(p, q)' /\ Apart(q, p)'
    BY <1>1, <1>2, <1>3, <2>1 DEF PairInv, Apart
  <2> QED
    BY <2>2, <2>3 DEF PairInv
<1> QED
  BY <1>1, <1>2, <1>5, <1>6, RequestStep

\* A password change that passes its check while the account is being deleted
\* makes the account raced.
LEMMA ChangePasswordFindSession ==
    ASSUME SessionInv, Shape', NEW p \in Procs, ChangePasswordFind(p)
    PROVE  SessionInv'
<1>1. CASE Answer(p)
  BY <1>1, AnswerSession
<1>2. CASE ~Answer(p)
  <2> DEFINE u == req[p].uid
             r == [req[p] EXCEPT !.pc = "update"]
  <2>0. /\ req[p].op = "changePassword" /\ req[p].pc = "find" /\ Live(u)
        /\ raced' = IF OverlapAtCheck("changePassword", u) THEN raced \cup {u} ELSE raced
        /\ UNCHANGED <<db, minted, delivered>>
    BY <1>2 DEF ChangePasswordFind, At, Goto, MarkIf
  <2>1. req' = [req EXCEPT ![p] = r] /\ raced \subseteq raced'
    BY <1>2, <2>0, SessionTypes DEF ChangePasswordFind, Goto
  <2>2. /\ req'[p] = r /\ user' = user /\ token' = token /\ minted' = minted
        /\ rows' = rows /\ \A q \in Others(p) : req'[q] = req[q]
    BY <2>0, <2>1, SessionTypes DEF db, Others
  <2>3. /\ r.op = "changePassword" /\ r.uid = u /\ r.hit = req[p].hit
        /\ r.tgt = req[p].tgt /\ r.new = req[p].new /\ r.pc = "update"
    BY <2>0, RequestFacts DEF Request
  <2> HIDE DEF r
  <2>4. RequestInv(p)'
    BY <2>0, <2>2, <2>3, RequestFacts DEF RequestInv, KnownRequest, Writes,
       Pending, Checked, Listed, Ending, Revoking, Issuing, Reissuing, Known, Live
  <2>5. ASSUME NEW q \in Others(p) PROVE PairInv(p, q)' /\ PairInv(q, p)'
    <3>1. /\ q \in Procs /\ PairInv(p, q) /\ PairInv(q, p) /\ req[q] \in Request
          /\ req'[q] = req[q]
      BY <2>2, RequestFacts
    <3>2. Quiet(p, q)'
      BY <2>2, <2>3 DEF Quiet, Ending, Revoking
    <3>3. Quiet(q, p)'
      <4>1. ASSUME Ending(q)', req[q].uid = u PROVE req[q].op # "deleteAccount"
        BY <2>0, <3>1, <4>1, CheckMark
      <4> QED
        BY <2>2, <2>3, <3>1, <4>1 DEF Quiet, Issuing, Reissuing
    <3>4. Apart(p, q)' /\ Apart(q, p)'
      BY <2>0, <2>2, <2>3, <3>1 DEF Apart, PairInv
    <3> QED
      BY <3>2, <3>3, <3>4 DEF PairInv
  <2> QED
    BY <2>0, <2>1, <2>4, <2>5, RequestStep
<1> QED
  BY <1>1, <1>2

\* The update takes the lock on the user row: the new version is one more than
\* the stored one and stays so until the commit.
LEMMA UpdatePasswordSession ==
    ASSUME SessionInv, Shape', NEW p \in Procs, UpdatePassword(p)
    PROVE  SessionInv'
<1> DEFINE u == req[p].uid
           r == [req[p] EXCEPT !.hit = Live(u), !.ver = user[u].ver + 1, !.pc = "revoke"]
<1>1. /\ req[p].op = "changePassword" /\ req[p].pc = "update"
      /\ UNCHANGED <<db, minted, delivered>> /\ raced' = raced /\ UserRowFree(p, u)
  BY DEF UpdatePassword, At, history
<1>2. req' = [req EXCEPT ![p] = r] /\ req'[p] = r
  BY SessionTypes DEF UpdatePassword
<1>3. /\ r.op = "changePassword" /\ r.uid = u /\ r.ver = user[u].ver + 1
      /\ r.hit = Live(u) /\ r.tok = req[p].tok /\ r.new = req[p].new
      /\ r.pc = "revoke" /\ r.tgt = req[p].tgt
  BY <1>1, RequestFacts DEF Request
<1> HIDE DEF r
<1>4. user' = user /\ token' = token /\ rows' = rows /\ minted' = minted
  BY <1>1 DEF db
<1>5. RequestInv(p)'
  <2>1. RequestInv(p) /\ req[p] \in Request
    BY RequestFacts
  <2>2. KnownRequest(p)' /\ Pending(p)' /\ Listed(p)'
    BY <1>1, <1>2, <1>3, <1>4, <2>1 DEF RequestInv, KnownRequest, Pending, Listed,
       Ending, Revoking, Known
  <2>3. Writes(p)'
    BY <1>2, <1>3, <1>4 DEF Writes, Live
  <2>4. u \notin raced => Live(u)
    BY <1>1, <2>1 DEF RequestInv, Checked, Reissuing
  <2>5. u \notin raced => r.hit
    BY <1>3, <2>4
  <2>6. Checked(p)'
    BY <1>1, <1>2, <1>3, <1>4, <2>4, <2>5 DEF Checked, Issuing, Live
  <2> QED
    BY <2>2, <2>3, <2>6 DEF RequestInv
<1>6. ASSUME NEW q \in Others(p) PROVE PairInv(p, q)' /\ PairInv(q, p)'
  <2>1. PairInv(p, q) /\ PairInv(q, p) /\ req[q] \in Request /\ req'[q] = req[q]
    BY <1>2, RequestFacts, SessionTypes DEF Others
  <2>2. Quiet(p, q)' /\ Quiet(q, p)'
    BY <1>1, <1>2, <1>3, <2>1 DEF PairInv, Quiet, Ending, Revoking, Issuing, Reissuing
  <2>3. ~(req[q].hit /\ req[q].uid = u)
    BY <1>1 DEF UserRowFree
  <2>4. Apart(p, q)' /\ Apart(q, p)'
    BY <1>1, <1>2, <1>3, <2>1, <2>3 DEF PairInv, Apart
  <2> QED
    BY <2>2, <2>4 DEF PairInv
<1> QED
  BY <1>1, <1>2, <1>5, <1>6, RequestStep

\* The check of DeleteAccount changes no session.
LEMMA DeleteAccountFindSession ==
    ASSUME SessionInv, Shape', NEW p \in Procs, DeleteAccountFind(p)
    PROVE  SessionInv'
<1>1. CASE Answer(p)
  BY <1>1, AnswerSession
<1>2. CASE Goto(p, "revoke") /\ UNCHANGED raced
  <2> DEFINE r == [req[p] EXCEPT !.pc = "revoke"]
  <2>1. req' = [req EXCEPT ![p] = r] /\ UNCHANGED <<db, minted, delivered>>
    BY <1>2, SessionTypes DEF Goto
  <2>2. /\ r.op = req[p].op /\ r.uid = req[p].uid /\ r.hit = req[p].hit
        /\ r.tgt = req[p].tgt /\ r.new = req[p].new /\ r.ver = req[p].ver
        /\ r.tok = req[p].tok /\ r.pc = "revoke"
    BY RequestFacts DEF Request
  <2>3. req[p].op = "deleteAccount" /\ req[p].pc = "find" /\ raced' = raced
    BY <1>2 DEF DeleteAccountFind, At
  <2> QED
    BY <2>1, <2>2, <2>3, PassSession
<1> QED
  BY <1>1, <1>2 DEF DeleteAccountFind

\* The soft delete waits for the one other writer of the user row.
LEMMA SoftDeleteSession ==
    ASSUME SessionInv, Shape', NEW p \in Procs, SoftDelete(p)
    PROVE  SessionInv'
<1> DEFINE u == req[p].uid
           r == [req[p] EXCEPT !.hit = Live(u), !.pc = "commit"]
<1>1. /\ req[p].op = "deleteAccount" /\ req[p].pc = "softdelete"
      /\ UNCHANGED <<db, minted, delivered>> /\ raced' = raced /\ UserRowFree(p, u)
  BY DEF SoftDelete, At, history
<1>2. req' = [req EXCEPT ![p] = r] /\ req'[p] = r
  BY SessionTypes DEF SoftDelete
<1>3. /\ r.op = "deleteAccount" /\ r.uid = u /\ r.hit = Live(u) /\ r.new = req[p].new
      /\ r.pc = "commit" /\ r.tgt = req[p].tgt /\ r.del = req[p].del
  BY <1>1, RequestFacts DEF Request
<1> HIDE DEF r
<1>4. user' = user /\ token' = token /\ rows' = rows /\ minted' = minted
  BY <1>1 DEF db
<1>5. RequestInv(p)'
  <2>1. RequestInv(p) /\ req[p] \in Request
    BY RequestFacts
  <2>2. KnownRequest(p)' /\ Pending(p)' /\ Listed(p)'
    BY <1>1, <1>2, <1>3, <1>4, <2>1 DEF RequestInv, KnownRequest, Pending, Listed,
       Ending, Revoking, Known
  <2>3. Writes(p)'
    BY <1>2, <1>3, <1>4 DEF Writes, Live
  <2>4. Checked(p)'
    BY <1>2, <1>3 DEF Checked, Issuing, Reissuing
  <2> QED
    BY <2>2, <2>3, <2>4 DEF RequestInv
<1>6. ASSUME NEW q \in Others(p) PROVE PairInv(p, q)' /\ PairInv(q, p)'
  <2>1. PairInv(p, q) /\ PairInv(q, p) /\ req[q] \in Request /\ req'[q] = req[q]
    BY <1>2, RequestFacts, SessionTypes DEF Others
  <2>2. Quiet(p, q)' /\ Quiet(q, p)'
    BY <1>1, <1>2, <1>3, <2>1 DEF PairInv, Quiet, Ending, Revoking, Issuing, Reissuing
  <2>3. ~(req[q].hit /\ req[q].uid = u)
    BY <1>1 DEF UserRowFree
  <2>4. Apart(p, q)' /\ Apart(q, p)'
    BY <1>1, <1>2, <1>3, <2>1, <2>3 DEF PairInv, Apart
  <2> QED
    BY <2>2, <2>4 DEF PairInv
<1> QED
  BY <1>1, <1>2, <1>5, <1>6, RequestStep

\* The statement that ends the sessions has all of them on its list when it
\* starts, and marks the account if somebody is about to add one.
LEMMA RevokeSession ==
    ASSUME SessionInv, Shape', NEW p \in Procs, RevokeRefreshTokens(p)
    PROVE  SessionInv'
<1> DEFINE u == req[p].uid
           r == [req[p] EXCEPT !.tgt = RowsOf(u), !.pc = "revoking"]
<1>1. /\ req[p].pc = "revoke" /\ UNCHANGED <<db, minted, delivered>>
      /\ raced' = IF OverlapAtRevoke(p, req[p].op, u) THEN raced \cup {u} ELSE raced
  BY DEF RevokeRefreshTokens, MarkIf
<1>2. req' = [req EXCEPT ![p] = r] /\ req'[p] = r /\ raced \subseteq raced'
  BY <1>1, SessionTypes DEF RevokeRefreshTokens
<1>3. /\ r.op = req[p].op /\ r.uid = u /\ r.hit = req[p].hit /\ r.new = req[p].new
      /\ r.pc = "revoking" /\ r.tgt = RowsOf(u) /\ r.ver = req[p].ver
  BY RequestFacts DEF Request
<1> HIDE DEF r
<1>4. user' = user /\ token' = token /\ rows' = rows /\ minted' = minted
  BY <1>1 DEF db
<1>5. req[p].op \in {"reuse", "logout", "changePassword", "deleteAccount"}
  BY <1>1, RequestFacts DEF InFlow, Request, Ops, Idle
<1>6. RequestInv(p)'
  <2>1. RequestInv(p) /\ req[p] \in Request
    BY RequestFacts
  <2>2. KnownRequest(p)' /\ Writes(p)' /\ Pending(p)'
    BY <1>1, <1>2, <1>3, <1>4, <1>5, <2>1 DEF RequestInv, KnownRequest, Writes,
       Pending, Known, Live
  <2>3. Checked(p)'
    BY <1>1, <1>2, <1>3, <1>4, <1>5, <2>1 DEF RequestInv, Checked, Issuing, Reissuing, Live
  <2>4. Listed(p)'
    BY <1>2, <1>3, <1>4 DEF Listed, RowsOf
  <2> QED
    BY <2>2, <2>3, <2>4 DEF RequestInv
<1>7. ASSUME NEW q \in Others(p) PROVE PairInv(p, q)' /\ PairInv(q, p)'
  <2>1. PairInv(p, q) /\ PairInv(q, p) /\ req[q] \in Request /\ req'[q] = req[q]
    BY <1>2, RequestFacts, SessionTypes DEF Others
  <2>2. Quiet(p, q)'
    <3>1. ASSUME Ending(p)' PROVE ~OverlapAtRevoke(p, req[p].op, u)
      BY <1>1, <1>2, <1>3, <3>1 DEF Ending
    <3>2. Ending(p)' => req[p].op \in {"changePassword", "deleteAccount"}
      BY <1>2, <1>3 DEF Ending, Revoking
    <3> QED
      BY <1>2, <1>3, <2>1, <3>1, <3>2 DEF Quiet, OverlapAtRevoke, Issuing, Reissuing
  <2>3. Quiet(q, p)'
    BY <1>1, <1>2, <1>3, <1>5, <2>1 DEF PairInv, Quiet, Ending, Revoking, Issuing, Reissuing
  <2>4. Apart(p, q)' /\ Apart(q, p)'
    BY <1>1, <1>2, <1>3, <1>5, <2>1 DEF PairInv, Apart
  <2> QED
    BY <2>2, <2>3, <2>4 DEF PairInv
<1> QED
  BY <1>1, <1>2, <1>6, <1>7, RequestStep

\* A visited row that is still there goes from one list to the other.
LEMMA RevokeRowSession ==
    ASSUME SessionInv, Shape', NEW p \in Procs, RevokeRow(p)
    PROVE  SessionInv'
<1>1. PICK t \in req[p].tgt :
        req' = [req EXCEPT ![p].tgt = req[p].tgt \ {t},
                           ![p].del = req[p].del \cup ({t} \cap rows)]
  BY SessionTypes DEF RevokeRow
<1> DEFINE r == [req[p] EXCEPT !.tgt = req[p].tgt \ {t},
                               !.del = req[p].del \cup ({t} \cap rows)]
<1>2. /\ req[p].pc = "revoking" /\ UNCHANGED <<db, minted, delivered>> /\ raced' = raced
  BY DEF RevokeRow, history
<1>3. req' = [req EXCEPT ![p] = r] /\ req'[p] = r
  BY <1>1, SessionTypes
<1>4. /\ r.op = req[p].op /\ r.uid = req[p].uid /\ r.ver = req[p].ver
      /\ r.hit = req[p].hit /\ r.tok = req[p].tok /\ r.new = req[p].new
      /\ r.pc = "revoking" /\ r.tgt = req[p].tgt \ {t}
      /\ r.del = req[p].del \cup ({t} \cap rows)
  BY <1>2, RequestFacts DEF Request
<1>5. r \in Request
  BY <1>3 DEF Shape, TypeOK
<1> HIDE DEF r
<1>6. req[p].op \in {"reuse", "logout", "changePassword", "deleteAccount"}
  BY <1>2, RequestFacts DEF InFlow, Request, Ops, Idle
<1>7. (req[p].del \cup req[p].tgt) \cap rows \subseteq r.del \cup r.tgt
  BY <1>4
<1> QED
  BY <1>2, <1>3, <1>4, <1>5, <1>6, <1>7, NothingPending, SamePhase

\* The revocation ends: a sweep of the list, or the next statement.
LEMMA RevokedSession ==
    ASSUME SessionInv, Shape', NEW p \in Procs, Revoked(p)
    PROVE  SessionInv'
<1>0. req[p].pc = "revoking" /\ req[p].tgt = {}
  BY DEF Revoked
<1>1. CASE req[p].op \in {"logout", "reuse"}
  <2>1. req[p].del \in SUBSET Tokens /\ req[p].op \in Ends
    BY <1>1, RequestFacts DEF Request, Ends
  <2>2. /\ Remove(req[p].del, req[p].op) /\ req' = [req EXCEPT ![p] = Idle]
        /\ UNCHANGED <<user, minted, clock, delivered, started, history>>
    BY <1>1 DEF Revoked
  <2> QED
    BY <2>1, <2>2, RemoveSession
<1>2. CASE req[p].op \in {"changePassword", "deleteAccount"}
  <2>1. PICK s \in {"issue", "softdelete"} :
            Goto(p, s) /\ raced' = raced
            /\ (s = "issue" <=> req[p].op = "changePassword")
    BY <1>2 DEF Revoked
  <2> DEFINE r == [req[p] EXCEPT !.pc = s]
  <2>2. req' = [req EXCEPT ![p] = r] /\ req'[p] = r /\ UNCHANGED <<db, minted, delivered>>
    BY <2>1, SessionTypes DEF Goto
  <2>3. /\ r.op = req[p].op /\ r.uid = req[p].uid /\ r.ver = req[p].ver
        /\ r.hit = req[p].hit /\ r.tok = req[p].tok /\ r.new = req[p].new
        /\ r.pc = s /\ r.tgt = req[p].tgt /\ r.del = req[p].del
    BY RequestFacts DEF Request
  <2>4. r \in Request
    BY <2>2 DEF Shape, TypeOK
  <2> HIDE DEF r
  <2> QED
    BY <1>0, <1>2, <2>1, <2>2, <2>3, <2>4, NothingPending, SamePhase
<1> QED
  BY <1>1, <1>2 DEF Revoked

---------------------------------------------------------------------------
(* Steps that add a session *)

\* Inside a transaction the new token only waits for the commit.
LEMMA IssueInTxSession ==
    ASSUME SessionInv, Shape', NEW p \in Procs, IssueTokens(p), req[p].op # "login"
    PROVE  SessionInv'
<1> DEFINE r == [req[p] EXCEPT !.new = minted + 1, !.pc = "commit"]
<1>1. /\ req[p].pc = "issue" /\ minted' = minted + 1 /\ minted + 1 \in Tokens
      /\ token' = [token EXCEPT ![minted + 1] = Minted(p)]
      /\ user' = user /\ rows' = rows /\ delivered' = delivered /\ raced' = raced
  BY DEF IssueTokens, NextToken, history
<1>2. req' = [req EXCEPT ![p] = r]
  BY SessionTypes DEF IssueTokens, NextToken
<1>3. /\ req'[p] = r /\ \A q \in Others(p) : req'[q] = req[q]
      /\ \A t \in 1 .. minted : token'[t] = token[t]
      /\ token'[minted + 1] = Minted(p) /\ minted \in Nat
  BY <1>1, <1>2, SessionTypes DEF Others
<1>4. /\ r.op = req[p].op /\ r.uid = req[p].uid /\ r.ver = req[p].ver
      /\ r.hit = req[p].hit /\ r.tok = req[p].tok /\ r.new = minted + 1
      /\ r.pc = "commit" /\ r.tgt = req[p].tgt /\ r.del = req[p].del
  BY RequestFacts DEF Request
<1> HIDE DEF r
<1>5. req[p].op \in {"register", "refresh", "changePassword"}
  BY <1>1, RequestFacts DEF InFlow, Request, Ops, Idle
<1>6. RequestInv(p)'
  <2>1. RequestInv(p) /\ req[p] \in Request
    BY RequestFacts
  <2>2. KnownRequest(p)'
    <3>1. 1 .. minted \subseteq 1 .. minted'
      BY <1>1, <1>3
    <3> QED
      BY <1>1, <1>3, <1>4, <1>5, <2>1, <3>1 DEF RequestInv, KnownRequest, Known
  <2>3. Writes(p)'
    BY <1>1, <1>3, <1>4, <1>5, <2>1 DEF RequestInv, Writes, Live
  <2>4. Pending(p)'
    BY <1>1, <1>3, <1>4, <1>5, <2>1 DEF RequestInv, Pending, Minted
  <2>5. Checked(p)'
    BY <1>1, <1>3, <1>4, <1>5, <2>1 DEF RequestInv, Checked, Issuing, Reissuing, Live
  <2>6. Listed(p)'
    BY <1>1, <1>3, <1>4, <1>5, <2>1, SessionTypes DEF RequestInv, Listed, Ending, Revoking
  <2> QED
    BY <2>2, <2>3, <2>4, <2>5, <2>6 DEF RequestInv
<1>7. ASSUME NEW q \in Others(p) PROVE PairInv(p, q)' /\ PairInv(q, p)'
  <2>1. PairInv(p, q) /\ PairInv(q, p) /\ req[q] \in Request /\ req'[q] = req[q]
    BY <1>3, RequestFacts
  <2>2. Quiet(p, q)' /\ Quiet(q, p)'
    BY <1>1, <1>3, <1>4, <1>5, <2>1 DEF PairInv, Quiet, Ending, Revoking, Issuing, Reissuing
  <2>3. Apart(p, q)' /\ Apart(q, p)'
    BY <1>1, <1>3, <1>4, <2>1 DEF PairInv, Apart
  <2> QED
    BY <2>2, <2>3 DEF PairInv
<1> QED
  BY <1>1, <1>3, <1>6, <1>7, LocalStep

\* p ends, deleting the rows D and adding the sessions N of its user.
Adds(p, N, D) ==
    /\ req' = [req EXCEPT ![p] = Idle] /\ raced' = raced
    /\ rows' = (rows \ D) \cup N /\ delivered' \subseteq delivered \cup N
    /\ minted <= minted' /\ N \subseteq 1 .. minted'
    /\ \A t \in 1 .. minted : /\ token'[t].owner = token[t].owner
                              /\ token'[t].ver = token[t].ver
    /\ \A t \in N : token'[t].owner = req[p].uid
    /\ req[p].uid \in Ids
    /\ \A u \in Ids : u # req[p].uid => user'[u] = user[u]
    /\ \A u \in Ids : user[u].status # "absent" => user'[u].status # "absent"
    /\ N # {} => user'[req[p].uid].status # "absent"

\* q relies on nothing that such a step of p changes.
Unconcerned(p, q, N) ==
    req[q].uid = req[p].uid =>
        /\ Writes(q)' /\ Checked(q)' /\ req[q].op # "register"
        /\ N # {} => ~Ending(q)

\* Unless raced, the sessions the step of p leaves are current.
LeavesCurrent(p) ==
    \A t \in rows' : token'[t].owner = req[p].uid /\ req[p].uid \notin raced =>
        /\ user'[req[p].uid].status = "live"
        /\ token'[t].ver = user'[req[p].uid].ver

\* Such a step keeps the invariant.
LEMMA AddSessions ==
    ASSUME SessionInv, Shape', NEW p \in Procs, NEW N, NEW D, Adds(p, N, D),
           \A q \in Others(p) : Unconcerned(p, q, N), LeavesCurrent(p)
    PROVE  SessionInv'
<1> USE DEF Adds, Unconcerned, LeavesCurrent
<1>0. /\ minted' \in Nat /\ 1 .. minted \subseteq 1 .. minted'
      /\ req'[p] = Idle /\ \A q \in Others(p) : req'[q] = req[q]
  BY SessionTypes DEF Shape, TypeOK, Others
<1>1. RowsCurrent'
  <2>1. ASSUME NEW t \in rows' \cup delivered' PROVE Known(token[t].owner)'
    <3>1. CASE t \in N
      BY <3>1 DEF Known
    <3>2. CASE t \in rows \cup delivered
      BY <3>2, SessionTypes DEF SessionInv, RowsCurrent, Known
    <3> QED
      BY <3>1, <3>2
  <2>2. ASSUME NEW t \in rows', token'[t].owner \notin raced'
        PROVE  Live(token[t].owner)' /\ token'[t].ver = user'[token'[t].owner].ver
    <3>1. CASE token'[t].owner = req[p].uid
      BY <2>2, <3>1 DEF Live
    <3>2. CASE token'[t].owner # req[p].uid
      <4>1. t \in rows /\ token'[t].owner = token[t].owner /\ token'[t].ver = token[t].ver
        BY <3>2, SessionTypes
      <4>2. Live(token[t].owner) /\ token[t].ver = user[token[t].owner].ver
            /\ token[t].owner \in Ids
        BY <2>2, <4>1 DEF SessionInv, RowsCurrent, Known
      <4> QED
        BY <3>2, <4>1, <4>2 DEF Live
    <3> QED
      BY <3>1, <3>2
  <2> QED
    BY <2>1, <2>2 DEF RowsCurrent
<1>2. ASSUME NEW q \in Others(p) PROVE RequestInv(q)'
  <2>0. /\ q \in Procs /\ RequestInv(q) /\ req'[q] = req[q] /\ HasUser(req[q])
        /\ req[q].new \in 0 .. minted
    BY <1>0, RequestFacts DEF SessionInv, Others, Shape, RequestsOK
  <2>1. KnownRequest(q)'
    <3>1. req[q].op = "register" => user'[req[q].uid] = user[req[q].uid]
      BY <2>0 DEF HasUser
    <3>2. req[q].op = "refresh" => token'[req[q].tok].owner = token[req[q].tok].owner
      BY <2>0 DEF RequestInv, KnownRequest
    <3> QED
      BY <1>0, <2>0, <3>1, <3>2 DEF RequestInv, KnownRequest, Known
  <2>2. Pending(q)'
    BY <1>0, <2>0, SessionTypes DEF RequestInv, Pending
  <2>3. Writes(q)' /\ Checked(q)'
    <3>1. CASE req[q].uid # req[p].uid /\ req[q].uid \in Ids
      BY <2>0, <3>1 DEF RequestInv, Writes, Checked, Issuing, Reissuing, Live
    <3>2. CASE req[q].uid \notin Ids
      BY <2>0, <3>2 DEF RequestInv, HasUser, Writes, Checked, Issuing, Reissuing
    <3> QED
      BY <3>1, <3>2
  <2>4. Listed(q)'
    <3> SUFFICES ASSUME Ending(q)', NEW t \in rows', token'[t].owner = req[q].uid
                 PROVE  t \in req[q].del \cup req[q].tgt
      BY <2>0 DEF Listed
    <3>1. Ending(q)
      BY <2>0 DEF Ending, Revoking
    <3>2. t \notin N
      BY <3>1
    <3> QED
      BY <2>0, <3>1, <3>2, SessionTypes DEF RequestInv, Listed
  <2> QED
    BY <2>1, <2>2, <2>3, <2>4 DEF RequestInv
<1>3. ASSUME NEW a \in Procs, NEW b \in Others(a) PROVE PairInv(a, b)'
  <2>1. CASE a = p \/ b = p
    BY <1>0, <2>1, IdleInv DEF Others
  <2>2. CASE a # p /\ b # p
    BY <1>0, <2>2 DEF SessionInv, Others, PairInv, Quiet, Apart, Ending, Revoking,
       Issuing, Reissuing
  <2> QED
    BY <2>1, <2>2
<1>4. RequestInv(p)'
  BY <1>0, IdleInv
<1> QED
  BY <1>1, <1>2, <1>3, <1>4 DEF SessionInv, Others

\* What others know of an account outlives a step that keeps the user rows.
LEMMA OthersKeep ==
    ASSUME SessionInv, NEW p \in Procs, NEW q \in Others(p),
           user' = user, raced' = raced, req'[q] = req[q]
    PROVE  Writes(q)' /\ Checked(q)'
<1>1. RequestInv(q)
  BY RequestFacts DEF Others, SessionInv
<1> QED
  BY <1>1 DEF RequestInv, Writes, Checked, Issuing, Reissuing, Live

\* Login stores a session the present password authorised, unless raced.
LEMMA LoginIssueSession ==
    ASSUME SessionInv, Shape', NEW p \in Procs, IssueTokens(p), req[p].op = "login"
    PROVE  SessionInv'
<1> DEFINE n == minted + 1
           u == req[p].uid
<1>1. /\ req[p].pc = "issue" /\ minted' = n /\ n \in Tokens
      /\ token' = [token EXCEPT ![n] = Minted(p)] /\ rows' = rows \cup {n}
      /\ delivered' \subseteq delivered \cup {n} /\ req' = [req EXCEPT ![p] = Idle]
      /\ user' = user /\ raced' = raced
  BY DEF IssueTokens, NextToken, history
<1>2. /\ minted \in Nat /\ minted <= minted' /\ {n} \subseteq 1 .. minted'
      /\ \A t \in 1 .. minted : token'[t] = token[t]
      /\ token'[n] = Minted(p) /\ rows' = (rows \ {}) \cup {n}
      /\ \A q \in Others(p) : req'[q] = req[q]
  BY <1>1, SessionTypes DEF Others
<1>3. Minted(p).owner = u /\ Minted(p).ver = req[p].ver
  BY DEF Minted
<1>4. /\ Issuing(p, u) /\ Known(u) /\ RequestInv(p)
  BY <1>1, RequestFacts DEF Issuing, RequestInv, KnownRequest
<1>5. ASSUME NEW q \in Others(p), req[q].uid = u
      PROVE  Writes(q)' /\ Checked(q)' /\ req[q].op # "register" /\ ~Ending(q)
  <2>1. PairInv(q, p) /\ req'[q] = req[q]
    BY <1>2, RequestFacts
  <2> QED
    BY <1>1, <1>4, <1>5, <2>1, OthersKeep DEF PairInv, Quiet, Apart
<1>6. ASSUME NEW t \in rows', token'[t].owner = u, u \notin raced
      PROVE  user'[u].status = "live" /\ token'[t].ver = user'[u].ver
  <2>1. CASE t = n
    BY <1>1, <1>2, <1>3, <1>4, <1>6, <2>1 DEF RequestInv, Checked, Live
  <2>2. CASE t \in rows
    BY <1>1, <1>2, <1>6, <2>2, SessionTypes DEF SessionInv, RowsCurrent, Live
  <2> QED
    BY <1>1, <2>1, <2>2
<1>7. Adds(p, {n}, {})
  BY <1>1, <1>2, <1>3, <1>4 DEF Adds, Known
<1>8. \A q \in Others(p) : Unconcerned(p, q, {n})
  BY <1>5 DEF Unconcerned
<1>9. LeavesCurrent(p)
  BY <1>6 DEF LeavesCurrent
<1> QED
  BY <1>7, <1>8, <1>9, AddSessions

\* What a commit does to the tables, for any operation.
LEMMA CommitEffect ==
    ASSUME SessionInv, Shape', NEW p \in Procs, Commit(p)
    PROVE  /\ req[p].pc = "commit" /\ req' = [req EXCEPT ![p] = Idle] /\ raced' = raced
           /\ rows' = (rows \ req[p].del) \cup New(p)
           /\ delivered' \subseteq delivered \cup New(p)
           /\ minted' = minted /\ minted <= minted' /\ New(p) \subseteq 1 .. minted'
           /\ \A t \in Tokens : /\ token'[t].owner = token[t].owner
                                /\ token'[t].ver = token[t].ver
           /\ \A t \in New(p) : /\ token'[t].owner = req[p].uid
                                /\ token'[t].ver = req[p].ver
           /\ req[p].uid \in Ids
           /\ \A u \in Ids : u # req[p].uid => user'[u] = user[u]
           /\ req[p].hit => user'[req[p].uid] = Written(p)
           /\ ~req[p].hit => user' = user
           /\ req[p].op \in {"register", "refresh", "changePassword", "deleteAccount"}
           /\ \A q \in Others(p) : req'[q] = req[q]
<1>1. req[p].pc = "commit" /\ RequestInv(p) /\ req[p] \in Request
      /\ req[p].new \in 0 .. minted
  BY RequestFacts DEF Commit
<1>2. req[p].op \in {"register", "refresh", "changePassword", "deleteAccount"}
      /\ req[p].uid \in Ids
  BY <1>1, RequestFacts DEF InFlow, HasUser, Request, Ops, Idle
<1>3. /\ req' = [req EXCEPT ![p] = Idle] /\ raced' = raced
      /\ rows' = (rows \ req[p].del) \cup New(p)
      /\ delivered' \subseteq delivered \cup New(p) /\ minted' = minted
      /\ \A q \in Others(p) : req'[q] = req[q]
  BY SessionTypes DEF Commit, history, Others
<1>4. minted <= minted' /\ New(p) \subseteq 1 .. minted'
  BY <1>1, <1>3, SessionTypes DEF New
<1>5. \A t \in Tokens : /\ token'[t].owner = token[t].owner
                        /\ token'[t].ver = token[t].ver
  BY SessionTypes DEF Commit, TokenRow
<1>6. \A t \in New(p) : /\ token'[t].owner = req[p].uid
                        /\ token'[t].ver = req[p].ver
  <2>1. New(p) \subseteq Tokens
    BY <1>3, <1>4, SessionTypes
  <2> QED
    BY <1>1, <1>5, <2>1 DEF New, RequestInv, Pending
<1>7. /\ \A u \in Ids : u # req[p].uid => user'[u] = user[u]
      /\ req[p].hit => user'[req[p].uid] = Written(p)
      /\ ~req[p].hit => user' = user
  BY <1>2, SessionTypes DEF Commit
<1> QED
  BY <1>1, <1>2, <1>3, <1>4, <1>5, <1>6, <1>7
\* Registered accounts appear live, with their first password.
LEMMA CommitRegister ==
    ASSUME SessionInv, Shape', NEW p \in Procs, Commit(p), req[p].op = "register"
    PROVE  /\ req[p].hit
           /\ user'[req[p].uid] = [status |-> "live", email |-> req[p].email, ver |-> 0]
           /\ user'[req[p].uid].status = "live" /\ user'[req[p].uid].ver = 0
<1>1. req[p].hit
  BY RequestFacts DEF Commit, RequestInv, Writes
<1>2. Written(p) = [status |-> "live", email |-> req[p].email, ver |-> 0]
  BY DEF Written
<1> QED
  BY <1>1, <1>2, CommitEffect

\* A commit has the form AddSessions asks for.
LEMMA CommitAdds ==
    ASSUME SessionInv, Shape', NEW p \in Procs, Commit(p)
    PROVE  Adds(p, New(p), req[p].del)
<1>1. RequestInv(p) /\ req[p] \in Request /\ user \in [Ids -> UserRow]
      /\ 1 .. minted \subseteq Tokens
  BY RequestFacts, SessionTypes
<1>2. req[p].op = "deleteAccount" => New(p) = {}
  BY <1>1 DEF RequestInv, Pending, New
<1>3. req[p].op = "register" => user'[req[p].uid].status = "live"
  BY <1>1, CommitRegister
<1>4. req[p].op # "register" => /\ user[req[p].uid].status # "absent"
                                /\ req[p].op # "deleteAccount"
                                    => user'[req[p].uid].status = user[req[p].uid].status
                                /\ user'[req[p].uid].status # "absent"
  <2> SUFFICES ASSUME req[p].op # "register"
               PROVE  /\ user[req[p].uid].status # "absent"
                      /\ req[p].op # "deleteAccount"
                            => user'[req[p].uid].status = user[req[p].uid].status
                      /\ user'[req[p].uid].status # "absent"
    OBVIOUS
  <2>1. Known(req[p].uid)
    BY <1>1, CommitEffect DEF RequestInv, KnownRequest
  <2>2. CASE ~req[p].hit
    BY <2>1, <2>2, CommitEffect DEF Known
  <2>3. CASE req[p].hit
    <3>1. user[req[p].uid] \in UserRow /\ user'[req[p].uid] = Written(p)
      BY <1>1, <2>1, <2>3, CommitEffect DEF Known
    <3>2. /\ req[p].op # "deleteAccount" => Written(p).status = user[req[p].uid].status
          /\ req[p].op = "deleteAccount" => Written(p).status = "deleted"
      BY <3>1 DEF Written, UserRow
    <3> QED
      BY <2>1, <3>1, <3>2 DEF Known
  <2> QED
    BY <2>2, <2>3
<1>5. \A u \in Ids : user[u].status # "absent" => user'[u].status # "absent"
  BY <1>3, <1>4, CommitEffect
<1> QED
  BY <1>1, <1>2, <1>3, <1>4, <1>5, CommitEffect DEF Adds

\* Nobody else acts for an account that is only now registered.
LEMMA CommitRegisterSession ==
    ASSUME SessionInv, Shape', NEW p \in Procs, Commit(p), req[p].op = "register"
    PROVE  SessionInv'
<1>1. RequestInv(p) /\ req[p].uid \in Ids
  BY RequestFacts, CommitEffect
<1>2. \A q \in Others(p) : req[q].uid # req[p].uid
  BY RequestFacts DEF PairInv, Apart
<1>3. user'[req[p].uid].status = "live" /\ user'[req[p].uid].ver = 0
  BY CommitRegister
<1>4. user[req[p].uid].status = "absent" /\ req[p].ver = 0
  BY <1>1 DEF RequestInv, KnownRequest
<1>5. LeavesCurrent(p)
  <2>1. ASSUME NEW t \in rows PROVE token'[t].owner # req[p].uid
    BY <1>4, CommitEffect, SessionTypes DEF SessionInv, RowsCurrent, Known
  <2> QED
    BY <1>3, <1>4, <2>1, CommitEffect DEF LeavesCurrent
<1> QED
  BY <1>2, <1>5, CommitAdds, AddSessions DEF Unconcerned

\* A rotation writes no user row; whoever ends the sessions of its account
\* has raced with it.
LEMMA CommitRefreshSession ==
    ASSUME SessionInv, Shape', NEW p \in Procs, Commit(p), req[p].op = "refresh"
    PROVE  SessionInv'
<1>1. RequestInv(p) /\ req[p].uid \in Ids /\ Issuing(p, req[p].uid)
  BY RequestFacts, CommitEffect DEF Issuing
<1>2. user' = user
  BY <1>1, CommitEffect DEF RequestInv, Writes
<1>3. ASSUME NEW q \in Others(p) PROVE Unconcerned(p, q, New(p))
  <2>1. PairInv(q, p) /\ req'[q] = req[q]
    BY RequestFacts, CommitEffect
  <2>2. Writes(q)' /\ Checked(q)'
    BY <1>2, <2>1, CommitEffect, OthersKeep
  <2> QED
    BY <1>1, <2>1, <2>2 DEF Unconcerned, PairInv, Quiet, Apart
<1>4. LeavesCurrent(p)
  <2>1. SUFFICES ASSUME NEW t \in rows', token'[t].owner = req[p].uid, req[p].uid \notin raced
                 PROVE  Live(req[p].uid) /\ token'[t].ver = user[req[p].uid].ver
    BY <1>2 DEF LeavesCurrent, Live
  <2>2. CASE t \in New(p)
    BY <1>1, <2>1, <2>2, CommitEffect DEF RequestInv, Checked
  <2>3. CASE t \in rows
    BY <2>1, <2>3, CommitEffect, SessionTypes DEF SessionInv, RowsCurrent
  <2> QED
    BY <2>2, <2>3, CommitEffect
<1> QED
  BY <1>3, <1>4, CommitAdds, AddSessions

\* An old session that is still stored was added after the list was taken, and
\* a request that could have added it has raced.
LEMMA CommitChangePasswordSession ==
    ASSUME SessionInv, Shape', NEW p \in Procs, Commit(p), req[p].op = "changePassword"
    PROVE  SessionInv'
<1> DEFINE u == req[p].uid
<1>1. RequestInv(p) /\ u \in Ids /\ Reissuing(p, u) /\ req[p].pc = "commit"
  BY RequestFacts, CommitEffect DEF Reissuing
<1>2. u \notin raced => /\ Ending(p) /\ Live(u) /\ req[p].hit
                        /\ req[p].ver = user[u].ver + 1
  BY <1>1 DEF RequestInv, Checked, Ending, Revoking
<1>3. /\ req[p].hit => user'[u] = [user[u] EXCEPT !.ver = req[p].ver]
      /\ user[u] \in UserRow
  BY <1>1, CommitEffect, SessionTypes DEF Written
<1>4. user'[u].status = user[u].status
  BY <1>3, CommitEffect DEF UserRow
<1>5. ASSUME NEW q \in Others(p) PROVE Unconcerned(p, q, New(p))
  <2> SUFFICES ASSUME req[q].uid = u
               PROVE  /\ Writes(q)' /\ Checked(q)' /\ req[q].op # "register" /\ ~Ending(q)
    BY DEF Unconcerned
  <2>1. /\ PairInv(q, p) /\ PairInv(p, q) /\ req'[q] = req[q] /\ RequestInv(q)
        /\ raced' = raced
    BY RequestFacts, CommitEffect DEF Others
  <2>2. req[q].op # "register"
    BY <2>1 DEF PairInv, Apart
  <2>3. Writes(q)'
    BY <1>4, <2>1, <2>2 DEF RequestInv, Writes, Live
  <2>4. u \notin raced => /\ ~Issuing(q, u)
                          /\ ~(Reissuing(q, u) /\ req[q].pc # "update")
    <3>1. u \notin raced => ~Issuing(q, u) /\ ~req[q].hit
      BY <1>2, <2>1 DEF PairInv, Quiet, Apart
    <3> QED
      BY <2>1, <3>1 DEF RequestInv, Checked
  <2>5. Checked(q)'
    BY <1>4, <1>2, <2>1, <2>4 DEF RequestInv, Checked, Issuing, Reissuing, Live
  <2>6. ~Ending(q)
    <3>1. SUFFICES ASSUME Ending(q) PROVE FALSE
      OBVIOUS
    <3>2. u \notin raced
      BY <3>1 DEF Ending
    <3>3. CASE req[q].op = "deleteAccount"
      <4>1. Reissuing(p, req[q].uid)
        BY <1>1
      <4>2. Quiet(q, p)
        BY <2>1 DEF PairInv
      <4> QED
        BY <3>1, <3>3, <4>1, <4>2 DEF Quiet
    <3>4. CASE req[q].op = "changePassword"
      <4>1. req[q].pc # "softdelete"
        BY <3>4, RequestFacts DEF InFlow, Others
      <4> QED
        BY <2>4, <3>1, <3>2, <3>4, <4>1 DEF Ending, Revoking, Reissuing
    <3> QED
      BY <3>1, <3>3, <3>4 DEF Ending, Revoking
  <2> QED
    BY <2>2, <2>3, <2>5, <2>6
<1>6. LeavesCurrent(p)
  <2>1. SUFFICES ASSUME NEW t \in rows', token'[t].owner = u, u \notin raced
                 PROVE  Live(u) /\ token'[t].ver = user'[u].ver
    BY <1>4 DEF LeavesCurrent, Live
  <2>2. user'[u].ver = req[p].ver
    BY <1>2, <1>3, <2>1 DEF UserRow
  <2>3. req[p].tgt = {}
    BY <1>1 DEF RequestInv, Pending
  <2>4. t \notin rows \ req[p].del
    BY <1>1, <1>2, <2>1, <2>3, CommitEffect, SessionTypes DEF RequestInv, Listed
  <2> QED
    BY <1>2, <2>1, <2>2, <2>4, CommitEffect
<1> QED
  BY <1>5, <1>6, CommitAdds, AddSessions

\* Unless raced, every session was on the list and nobody is left to add one.
LEMMA CommitDeleteAccountSession ==
    ASSUME SessionInv, Shape', NEW p \in Procs, Commit(p), req[p].op = "deleteAccount"
    PROVE  SessionInv'
<1> DEFINE u == req[p].uid
<1>1. RequestInv(p) /\ u \in Ids /\ req[p].pc = "commit"
  BY RequestFacts, CommitEffect
<1>2. u \notin raced => Ending(p)
  BY <1>1 DEF Ending, Revoking
<1>3. New(p) = {} /\ req[p].tgt = {}
  BY <1>1 DEF RequestInv, Pending, New
<1>4. ~req[p].hit => user' = user
  BY CommitEffect
<1>5. ASSUME NEW q \in Others(p) PROVE Unconcerned(p, q, New(p))
  <2> SUFFICES ASSUME req[q].uid = u
               PROVE  /\ Writes(q)' /\ Checked(q)' /\ req[q].op # "register"
    BY <1>3 DEF Unconcerned
  <2>1. /\ PairInv(q, p) /\ PairInv(p, q) /\ req'[q] = req[q] /\ RequestInv(q)
        /\ raced' = raced
    BY RequestFacts, CommitEffect DEF Others
  <2>2. req[q].op # "register"
    BY <2>1 DEF PairInv, Apart
  <2>3. Writes(q)'
    <3>1. CASE req[p].hit
      <4>1. ~req[q].hit
        BY <2>1, <3>1 DEF PairInv, Apart
      <4> QED
        BY <2>1, <2>2, <4>1 DEF Writes
    <3>2. CASE ~req[p].hit
      BY <1>4, <2>1, <3>2, OthersKeep
    <3> QED
      BY <3>1, <3>2
  <2>4. Checked(q)'
    <3>1. u \notin raced => ~Issuing(q, u) /\ ~Reissuing(q, u)
      BY <1>2, <2>1 DEF PairInv, Quiet
    <3> QED
      BY <2>1, <3>1 DEF Checked, Issuing, Reissuing
  <2> QED
    BY <2>2, <2>3, <2>4
<1>6. LeavesCurrent(p)
  <2> SUFFICES ASSUME NEW t \in rows', token'[t].owner = u, u \notin raced
               PROVE  FALSE
    BY DEF LeavesCurrent
  <2>1. t \in rows /\ t \notin req[p].del /\ token[t].owner = u
    BY <1>3, CommitEffect, SessionTypes
  <2> QED
    BY <1>1, <1>2, <1>3, <2>1 DEF RequestInv, Listed
<1> QED
  BY <1>5, <1>6, CommitAdds, AddSessions

---------------------------------------------------------------------------
(* The theorems *)

\* It holds when the service boots.
LEMMA InitSession == Init => SessionInv
<1> SUFFICES ASSUME Init PROVE SessionInv
  OBVIOUS
<1>1. Shape
  BY InitShape
<1>2. req = [p \in Procs |-> Idle] /\ raced = {}
  BY DEF Init, InitWith
<1>3. \A p \in Procs : req[p] = Idle
  BY <1>2
<1>4. /\ \A p \in Procs : RequestInv(p)
      /\ \A p \in Procs : \A q \in Others(p) : PairInv(p, q)
  BY <1>3 DEF Others, RequestInv, KnownRequest, Writes, Pending, Checked, Listed,
     PairInv, Quiet, Apart, Ending, Revoking, Issuing, Reissuing, Idle
<1>5. RowsCurrent
  <2>1. CASE InitWith(0)
    BY <2>1 DEF InitWith, RowsCurrent
  <2>2. ASSUME NEW u \in Ids, NEW e \in Emails, InitWith(1),
               user = [[v \in Ids |-> NoUser] EXCEPT
                        ![u] = [status |-> "live", email |-> e, ver |-> 0]],
               token = [[t \in Tokens |-> NoToken] EXCEPT
                        ![1] = [NoToken EXCEPT !.owner = u, !.via = "login"]]
        PROVE  RowsCurrent
    <3>1. rows = {1} /\ delivered = {1}
      BY <2>2 DEF InitWith
    <3>2. 1 \in Tokens
      BY ConstantsAssumption DEF Tokens
    <3>3. token[1].owner = u /\ token[1].ver = 0
      BY <2>2, <3>2 DEF NoToken
    <3>4. user[u].status = "live" /\ user[u].ver = 0
      BY <2>2
    <3> QED
      BY <3>1, <3>3, <3>4 DEF RowsCurrent, Known, Live
  <2> QED
    BY <2>1, <2>2 DEF Init
<1> QED
  BY <1>1, <1>4, <1>5 DEF SessionInv

\* Every statement of a request keeps it.
LEMMA StepSession ==
    ASSUME SessionInv, Shape', NEW p \in Procs, Step(p)
    PROVE  SessionInv'
<1>1. CASE RegisterFind(p) \/ CreateUser(p) \/ LoginFind(p) \/ RefreshFind(p)
  BY <1>1, RegisterFindSession, CreateUserSession, LoginFindSession, RefreshFindSession
<1>2. CASE DropExpired(p) \/ DeleteByTokenHash(p) \/ ChangePasswordFind(p) \/ UpdatePassword(p)
  BY <1>2, DropExpiredSession, DeleteByTokenHashSession, ChangePasswordFindSession,
     UpdatePasswordSession
<1>3. CASE DeleteAccountFind(p) \/ SoftDelete(p)
  BY <1>3, DeleteAccountFindSession, SoftDeleteSession
<1>4. CASE RevokeRefreshTokens(p) \/ RevokeRow(p) \/ Revoked(p)
  BY <1>4, RevokeSession, RevokeRowSession, RevokedSession
<1>5. CASE IssueTokens(p)
  BY <1>5, LoginIssueSession, IssueInTxSession
<1>6. CASE Commit(p)
  BY <1>6, CommitEffect, CommitRegisterSession, CommitRefreshSession,
     CommitChangePasswordSession, CommitDeleteAccountSession
<1> QED
  BY <1>1, <1>2, <1>3, <1>4, <1>5, <1>6 DEF Step

\* SessionInv is inductive.
LEMMA NextSession == SessionInv /\ [Next]_vars => SessionInv'
<1> SUFFICES ASSUME SessionInv, [Next]_vars PROVE SessionInv'
  OBVIOUS
<1>0. Shape'
  BY NextShape DEF SessionInv
<1>1. ASSUME NEW p \in Procs, Start(p) \/ Abort(p) PROVE SessionInv'
  BY <1>1, StartSession, AnswerSession DEF Abort
<1>2. ASSUME NEW p \in Procs, Step(p) PROVE SessionInv'
  BY <1>0, <1>2, StepSession
<1>3. CASE PurgeExpiredRefreshTokens \/ JwtExpires \/ RowExpires
  BY <1>3, SweepSession
<1>4. CASE UNCHANGED vars
  <2>1. user' = user /\ rows' = rows /\ token' = token /\ minted' = minted
        /\ delivered' = delivered /\ req' = req /\ raced' = raced
    BY <1>4 DEF vars
  <2> QED
    BY <1>0, <2>1 DEF SessionInv, RowsCurrent, RequestInv, PairInv, KnownRequest,
       Writes, Pending, Checked, Listed, Quiet, Apart, Ending, Known, Live,
       Issuing, Reissuing, Revoking, Others
<1> QED
  BY <1>1, <1>2, <1>3, <1>4 DEF Next

\* SessionInv holds in every reachable state.
LEMMA SessionInvariant == Spec => []SessionInv
  BY InitSession, NextSession, PTL DEF Spec

\* For any number of requests in flight, under either isolation level: a
\* session outlives its deleted account only if a request that issues tokens
\* for that account was past its own check while DeleteAccount, or a password
\* change, was revoking (delete_account.service.go 41-53).
THEOREM SessionsEndWithAccount == Spec => []OrphanOnlyIfRaced
<1>1. SessionInv => OrphanOnlyIfRaced
  BY DEF SessionInv, RowsCurrent, OrphanOnlyIfRaced
<1> QED
  BY <1>1, SessionInvariant, PTL

\* Likewise a session of an earlier password outlives ChangePassword only
\* through such a race: no order of logins, rotations, password changes,
\* roll-backs and sweeps alone can keep one (change_password.service.go 69-91).
THEOREM SessionsFollowPassword == Spec => []OldSessionOnlyIfRaced
<1>1. SessionInv => OldSessionOnlyIfRaced
  BY DEF SessionInv, RowsCurrent, OldSessionOnlyIfRaced
<1> QED
  BY <1>1, SessionInvariant, PTL

---------------------------------------------------------------------------
(* Addresses *)

\* q holds the index entry of an address nobody may insert until q ends.
Holds(q) == req[q].op = "register" /\ req[q].hit

\* No registration holds an address that is taken, and no two the same one.
EmailInv ==
    /\ EmailUnique
    /\ \A p \in Procs :
        Holds(p) => ~EmailTaken(req[p].email) /\ EmailIndexFree(p, req[p].email)

\* Nobody comes to hold an address.
NoNewHolder ==
    \A q \in Procs : Holds(q)' => Holds(q) /\ req'[q].email = req[q].email

\* No address is taken or given up.
SameAddresses ==
    \A u \in Ids : /\ user'[u].status = "absent" <=> user[u].status = "absent"
                   /\ user'[u].email = user[u].email

\* Steps of that kind keep EmailInv.
LEMMA EmailFrame ==
    ASSUME EmailInv, NoNewHolder, SameAddresses
    PROVE  EmailInv'
<1>1. EmailUnique'
  BY DEF EmailInv, EmailUnique, SameAddresses
<1>2. ASSUME NEW p \in Procs, Holds(p)'
      PROVE  ~EmailTaken(req[p].email)' /\ EmailIndexFree(p, req[p].email)'
  <2>1. /\ Holds(p) /\ req'[p].email = req[p].email
        /\ ~EmailTaken(req[p].email) /\ EmailIndexFree(p, req[p].email)
    BY <1>2 DEF NoNewHolder, EmailInv
  <2>2. ~EmailTaken(req[p].email)'
    BY <2>1 DEF EmailTaken, SameAddresses
  <2>3. EmailIndexFree(p, req[p].email)'
    BY <2>1 DEF EmailIndexFree, NoNewHolder, Holds, Others
  <2> QED
    BY <2>2, <2>3
<1> QED
  BY <1>1, <1>2 DEF EmailInv

\* A step of p that leaves its request with the address it had, or without a
\* held one.
LEMMA OwnRequest ==
    ASSUME NEW p \in Procs, \A q \in Others(p) : req'[q] = req[q],
           Holds(p)' => Holds(p) /\ req'[p].email = req[p].email
    PROVE  NoNewHolder
  BY DEF NoNewHolder, Holds, Others

\* Every request that is not inserting its account.
LEMMA StepHolder ==
    ASSUME SessionInv, NEW p \in Procs, Start(p) \/ Step(p) \/ Abort(p),
           ~CreateUser(p)
    PROVE  NoNewHolder
<1> USE SessionTypes DEF Holds, Others
<1>0. req[p] \in Request
  OBVIOUS
<1>1. \A q \in Others(p) : req'[q] = req[q]
  <2>1. CASE Start(p)
    BY <2>1 DEF Start, StartRegister, StartLogin, StartRefresh, StartChangePassword,
       StartDeleteAccount, StartLogout, Begin
  <2>2. CASE Step(p)
    BY <2>2 DEF Step, RegisterFind, CreateUser, LoginFind, RefreshFind, DropExpired,
       DeleteByTokenHash, ChangePasswordFind, UpdatePassword, DeleteAccountFind,
       SoftDelete, RevokeRefreshTokens, RevokeRow, Revoked, IssueTokens, Commit,
       Answer, Goto
  <2>3. CASE Abort(p)
    BY <2>3 DEF Abort, Answer
  <2> QED
    BY <2>1, <2>2, <2>3
<1>2. Holds(p)' => Holds(p) /\ req'[p].email = req[p].email
  <2>1. CASE Start(p)
    <3>1. ASSUME NEW e \in Emails, StartRegister(p, e) \/ StartLogin(p, e)
          PROVE  ~req'[p].hit
      <4>1. CASE StartRegister(p, e)
        BY <4>1 DEF StartRegister, Begin, Idle
      <4>2. CASE StartLogin(p, e)
        BY <4>2 DEF StartLogin, Begin, Idle
      <4> QED
        BY <3>1, <4>1, <4>2
    <3>2. ASSUME NEW t \in Tokens,
                 \/ StartRefresh(p, t) \/ StartChangePassword(p, t)
                 \/ StartDeleteAccount(p, t) \/ StartLogout(p, t)
          PROVE  ~req'[p].hit
      <4>1. ASSUME NEW o, NEW s, NEW k PROVE ~Cookies(t, o, s, k).hit
        BY DEF Cookies, Idle
      <4>2. ASSUME NEW r, Begin(p, r) PROVE req'[p] = r
        BY <4>2 DEF Begin
      <4> QED
        BY <3>2, <4>1, <4>2 DEF StartRefresh, StartChangePassword, StartDeleteAccount,
           StartLogout
    <3> QED
      BY <2>1, <3>1, <3>2 DEF Start
  <2>2. CASE req' = [req EXCEPT ![p] = Idle]
    BY <2>2 DEF Idle
  <2>3. ASSUME NEW s \in Stages, req' = [req EXCEPT ![p].pc = s]
        PROVE  Holds(p)' => Holds(p) /\ req'[p].email = req[p].email
    BY <1>0, <2>3 DEF Request
  <2>4. CASE RegisterFind(p) \/ DropExpired(p) \/ ChangePasswordFind(p)
             \/ DeleteAccountFind(p) \/ Revoked(p) \/ Commit(p) \/ Abort(p)
    BY <2>2, <2>3, <2>4 DEF RegisterFind, DropExpired, ChangePasswordFind,
       DeleteAccountFind, Revoked, Commit, Abort, Answer, Goto, Stages
  <2>5. CASE LoginFind(p)
    <3>1. CASE Answer(p)
      BY <2>2, <3>1 DEF Answer
    <3>2. CASE ~Answer(p)
      <4>1. req[p].op = "login" /\ \E u \in FindByEmail(req[p].email) :
                req' = [req EXCEPT ![p].uid = u, ![p].ver = user[u].ver, ![p].pc = "issue"]
        BY <2>5, <3>2 DEF LoginFind, At
      <4>2. req'[p].op = "login"
        BY <1>0, <4>1 DEF Request
      <4> QED
        BY <4>2
    <3> QED
      BY <3>1, <3>2
  <2>6. CASE RefreshFind(p)
    BY <1>0, <2>6 DEF RefreshFind, At, Request, Goto
  <2>7. CASE DeleteByTokenHash(p)
    BY <1>0, <2>7 DEF DeleteByTokenHash, Request
  <2>8. CASE UpdatePassword(p) \/ SoftDelete(p)
    BY <1>0, <2>8 DEF Request, UpdatePassword, SoftDelete, At
  <2>9. CASE RevokeRefreshTokens(p)
    BY <1>0, <2>9 DEF Request, RevokeRefreshTokens
  <2>10. CASE RevokeRow(p)
    BY <1>0, <2>10 DEF Request, RevokeRow
  <2>11. CASE IssueTokens(p)
    <3>1. \/ req' = [req EXCEPT ![p] = Idle]
          \/ req' = [req EXCEPT ![p].new = NextToken, ![p].pc = "commit"]
      BY <2>11 DEF IssueTokens
    <3> QED
      BY <1>0, <2>2, <3>1 DEF Request
  <2> QED
    BY <2>1, <2>4, <2>5, <2>6, <2>7, <2>8, <2>9, <2>10, <2>11 DEF Step
<1> QED
  BY <1>1, <1>2, OwnRequest

\* Only a commit writes user rows.
LEMMA StepAddresses ==
    ASSUME NEW p \in Procs, Start(p) \/ Step(p) \/ Abort(p), ~Commit(p)
    PROVE  user' = user
  BY DEF Start, StartRegister, StartLogin, StartRefresh, StartChangePassword,
     StartDeleteAccount, StartLogout, Begin, Step, RegisterFind, CreateUser,
     LoginFind, RefreshFind, DropExpired, DeleteByTokenHash, ChangePasswordFind,
     UpdatePassword, DeleteAccountFind, SoftDelete, RevokeRefreshTokens, RevokeRow,
     Revoked, IssueTokens, Abort, Answer, Goto, db

\* An insertion waits for whoever holds the address, and fails if it is taken.
LEMMA CreateUserEmail ==
    ASSUME SessionInv, EmailInv, NEW p \in Procs, CreateUser(p)
    PROVE  EmailInv'
<1>1. CASE Answer(p)
  BY <1>1, EmailFrame, SessionTypes DEF Answer, db, NoNewHolder, SameAddresses,
     Holds, Idle
<1>2. CASE ~Answer(p)
  <2>1. /\ req[p].op = "register" /\ EmailIndexFree(p, req[p].email)
        /\ ~EmailTaken(req[p].email) /\ user' = user
        /\ req' = [req EXCEPT ![p].hit = TRUE, ![p].pc = "issue"]
    BY <1>2 DEF CreateUser, At, db
  <2>2. \A q \in Procs : /\ req'[q].op = req[q].op /\ req'[q].email = req[q].email
                         /\ q # p => req'[q].hit = req[q].hit
    BY <2>1, SessionTypes DEF Request
  <2>3. EmailUnique'
    BY <2>1 DEF EmailInv, EmailUnique
  <2>4. ASSUME NEW q \in Procs, Holds(q)'
        PROVE  ~EmailTaken(req[q].email)' /\ EmailIndexFree(q, req[q].email)'
    <3>1. ~EmailTaken(req[q].email)
      BY <2>1, <2>2, <2>4 DEF EmailInv, Holds
    <3>2. CASE q = p
      <4>1. ~EmailTaken(req[q].email)'
        BY <2>1, <2>2, <3>1 DEF EmailTaken
      <4>2. EmailIndexFree(p, req[p].email)'
        <5>1. EmailIndexFree(p, req[p].email)
          BY <2>1
        <5> QED
          BY <2>2, <5>1 DEF EmailIndexFree, Others
      <4> QED
        BY <3>2, <4>1, <4>2
    <3>3. CASE q # p
      <4>1. Holds(q) /\ req[q].email # req[p].email
        BY <2>1, <2>2, <2>4, <3>3 DEF Holds, EmailIndexFree, Others
      <4>2. EmailIndexFree(q, req[q].email)
        BY <4>1 DEF EmailInv
      <4>3. ~EmailTaken(req[q].email)'
        BY <2>1, <2>2, <3>1 DEF EmailTaken
      <4>4. EmailIndexFree(q, req[q].email)'
        BY <2>2, <4>1, <4>2 DEF EmailIndexFree, Others
      <4> QED
        BY <4>3, <4>4
    <3> QED
      BY <3>2, <3>3
  <2> QED
    BY <2>3, <2>4 DEF EmailInv
<1> QED
  BY <1>1, <1>2

\* A registration commits an address only it holds.
LEMMA CommitEmail ==
    ASSUME SessionInv, Shape', EmailInv, NEW p \in Procs, Commit(p)
    PROVE  EmailInv'
<1>0. NoNewHolder
  <2>1. Commit(p) => ~CreateUser(p)
    BY DEF Commit, CreateUser, At
  <2> QED
    BY <2>1, StepHolder DEF Step
<1>1. CASE req[p].op # "register"
  <2>1. user \in [Ids -> UserRow] /\ req[p].uid \in Ids
    BY SessionTypes, CommitEffect
  <2>2. user'[req[p].uid].email = user[req[p].uid].email
    <3>1. Written(p).email = user[req[p].uid].email
      BY <1>1, <2>1 DEF Written, UserRow
    <3> QED
      BY <3>1, CommitEffect
  <2>3. user'[req[p].uid].status # "absent" /\ user[req[p].uid].status # "absent"
    <3>1. user[req[p].uid].status # "absent"
      BY <1>1, CommitEffect, RequestFacts DEF RequestInv, KnownRequest, Known
    <3> QED
      BY <2>1, <3>1, CommitAdds DEF Adds
  <2>4. SameAddresses
    BY <2>1, <2>2, <2>3, CommitEffect DEF SameAddresses
  <2> QED
    BY <1>0, <2>4, EmailFrame
<1>2. CASE req[p].op = "register"
  <2> DEFINE e == req[p].email
  <2>1. /\ Holds(p) /\ req[p].uid \in Ids /\ user'[req[p].uid].email = e
        /\ \A u \in Ids : u # req[p].uid => user'[u] = user[u]
    <3>1. user'[req[p].uid] = [status |-> "live", email |-> e, ver |-> 0] /\ req[p].hit
      BY <1>2, CommitRegister
    <3> QED
      BY <1>2, <3>1, CommitEffect DEF Holds
  <2>2. ~EmailTaken(e) /\ EmailIndexFree(p, e)
    BY <2>1 DEF EmailInv
  <2>3. EmailUnique'
    BY <2>1, <2>2 DEF EmailInv, EmailUnique, EmailTaken
  <2>4. ASSUME NEW q \in Procs, Holds(q)'
        PROVE  ~EmailTaken(req[q].email)' /\ EmailIndexFree(q, req[q].email)'
    <3>1. Holds(q) /\ req'[q].email = req[q].email
      BY <1>0, <2>4 DEF NoNewHolder
    <3>2. q # p /\ req'[q] = req[q]
      <4>1. req'[p] = Idle /\ \A a \in Others(p) : req'[a] = req[a]
        BY CommitEffect, SessionTypes
      <4> QED
        BY <2>4, <4>1 DEF Holds, Idle, Others
    <3>3. req[q].email # e
      BY <2>2, <3>1, <3>2 DEF EmailIndexFree, Holds, Others
    <3>4. ~EmailTaken(req[q].email) /\ EmailIndexFree(q, req[q].email)
      BY <3>1 DEF EmailInv
    <3>5. ~EmailTaken(req[q].email)'
      BY <2>1, <3>1, <3>3, <3>4 DEF EmailTaken
    <3>6. EmailIndexFree(q, req[q].email)'
      BY <1>0, <3>1, <3>4 DEF EmailIndexFree, NoNewHolder, Holds, Others
    <3> QED
      BY <3>5, <3>6
  <2> QED
    BY <2>3, <2>4 DEF EmailInv
<1> QED
  BY <1>1, <1>2

\* EmailInv is inductive, relative to SessionInv.
LEMMA NextEmail == SessionInv /\ EmailInv /\ [Next]_vars => EmailInv'
<1> SUFFICES ASSUME SessionInv, EmailInv, [Next]_vars PROVE EmailInv'
  OBVIOUS
<1>0. Shape'
  BY NextShape DEF SessionInv
<1>1. ASSUME NEW p \in Procs, Start(p) \/ Step(p) \/ Abort(p) PROVE EmailInv'
  <2>1. CASE CreateUser(p)
    BY <2>1, CreateUserEmail
  <2>2. CASE Commit(p)
    BY <1>0, <2>2, CommitEmail
  <2>3. CASE ~CreateUser(p) /\ ~Commit(p)
    <3>1. NoNewHolder /\ user' = user
      BY <1>1, <2>3, StepHolder, StepAddresses
    <3> QED
      BY <3>1, EmailFrame DEF SameAddresses
  <2> QED
    BY <2>1, <2>2, <2>3
<1>2. CASE UNCHANGED <<user, req>>
  BY <1>2, EmailFrame DEF NoNewHolder, SameAddresses, Holds
<1> QED
  BY <1>1, <1>2 DEF Next, PurgeExpiredRefreshTokens, JwtExpires, RowExpires, vars, db

\* Two registrations never leave two accounts with one address, however many
\* race past FindByEmail, and a deleted account keeps its address
\* (register.service.go 26-71).
THEOREM OneAccountPerAddress == Spec => []EmailUnique
<1>1. Init => EmailInv
  <2> SUFFICES ASSUME Init PROVE EmailInv
    OBVIOUS
  <2>1. \A p \in Procs : ~Holds(p)
    <3>1. req = [p \in Procs |-> Idle]
      BY DEF Init, InitWith
    <3> QED
      BY <3>1 DEF Idle, Holds
  <2>2. EmailUnique
    <3>1. CASE user = [u \in Ids |-> NoUser]
      BY <3>1 DEF NoUser, EmailUnique
    <3>2. ASSUME NEW u \in Ids, NEW e \in Emails,
                 user = [[v \in Ids |-> NoUser] EXCEPT
                            ![u] = [status |-> "live", email |-> e, ver |-> 0]]
          PROVE  EmailUnique
      BY <3>2 DEF NoUser, EmailUnique
    <3> QED
      BY <3>1, <3>2 DEF Init
  <2> QED
    BY <2>1, <2>2 DEF EmailInv
<1>2. Spec => []EmailInv
  BY <1>1, NextEmail, SessionInvariant, PTL DEF Spec
<1> QED
  BY <1>2, PTL DEF EmailInv

---------------------------------------------------------------------------
(* The inductive invariant of the rotation theorems, on top of SessionInv: *)
(* what holds of one request, of two, and of the stored tokens.            *)

Revokers == {"changePassword", "deleteAccount", "logout", "reuse"}

\* A request presents a token some client has, issues one nobody has, and a
\* rotation that got past its DELETE removes the presented token if it is there.
Chain(p) ==
    LET r == req[p]
    IN  /\ r.tok \in {0} \cup delivered
        /\ r.del \cup r.tgt \subseteq 1 .. minted
        /\ r.new # 0 => /\ r.new \notin rows \cup delivered
                        /\ token[r.new].from = r.tok /\ token[r.new].via = r.op
                        /\ token[r.new].ended = "stored"
        /\ r.pc = "commit" /\ r.op # "deleteAccount" => r.new # 0
        /\ r.op = "refresh" /\ r.pc \in {"issue", "commit"}
                => {r.tok} \cap rows \subseteq r.del

\* A refresh that looks a row up or waits for it holds none; whoever revokes, revokes and
\* locks sessions of its own account only.
Locks(p) ==
    LET r == req[p]
    IN  /\ r.pc \in {"find", "drop", "delete"} => r.del = {}
        /\ r.op \in Revokers => \A t \in r.del \cup r.tgt : token[t].owner = r.uid

\* With one writer, whoever ends the sessions of an account has all of them.
Complete(p) ==
    Isolation = "serial" =>
        \A o \in {"changePassword", "deleteAccount"} :
            Revoking(p, o, req[p].uid)
                => RowsOf(req[p].uid) \subseteq req[p].del \cup req[p].tgt

\* Nobody deletes a token that is not committed yet.
Unlisted(p, q) ==
    req[q].new # 0 => req[q].new \notin req[p].del \cup req[p].tgt

\* Two requests issue two tokens, rotate two tokens unless one is marked, and
\* with one writer are not both in a transaction.
Disjoint(p, q) ==
    /\ req[p].new # 0 => req[p].new # req[q].new
    /\ Rotating(p, req[p].tok) /\ Rotating(q, req[p].tok) => req[p].tok \in forked
    /\ Isolation = "serial" => ~(InTx(p) /\ InTx(q))

\* A token that is still being rotated has a stored successor only if marked.
Succeeded(p) ==
    \A s \in rows : Rotating(p, Parent(s)) => Parent(s) \in forked

\* Tokens come from tokens a client had; those of the future never ended.
Lineage ==
    /\ \A t \in 1 .. minted : token[t].from \in {0} \cup delivered
    /\ \A t \in Tokens : t > minted => token[t].ended = "stored"

Unborn == \A u \in Ids : user[u].status = "absent" => user[u].ver = 0

RotationInv ==
    /\ \A p \in Procs : Chain(p) /\ Locks(p) /\ Complete(p) /\ Succeeded(p)
    /\ \A p, q \in Procs : Unlisted(p, q)
    /\ \A p \in Procs : \A q \in Others(p) : Disjoint(p, q)
    /\ Lineage /\ Unborn /\ RotatedAway /\ SiblingsOnlyIfForked

---------------------------------------------------------------------------
(* Steps that change one request and nothing that is stored *)

\* What such a step of p may do: p issues nothing, takes rows on its lists
\* that are stored, enters a transaction only as the one writer, and starts to
\* rotate a stored token only, marked if somebody else rotates it as well.
Moves(p) ==
    /\ user' = user /\ rows' = rows /\ token' = token /\ minted' = minted
    /\ delivered' = delivered /\ forked \subseteq forked'
    /\ \A q \in Others(p) : req'[q] = req[q]
    /\ LET r == req'[p]
       IN  /\ r.new = 0 /\ r.tok \in {0} \cup delivered
           /\ r.del \cup r.tgt \subseteq req[p].del \cup req[p].tgt \cup rows
           /\ r.pc = "commit" => r.op = "deleteAccount"
           /\ r.op = "refresh" /\ r.pc \in {"issue", "commit"}
                    => {r.tok} \cap rows \subseteq r.del
    /\ Locks(p)' /\ Complete(p)'
    /\ InTx(p)' => InTx(p) \/ WriterFree(p)
    /\ \A x : Rotating(p, x)' =>
            \/ Rotating(p, x)
            \/ x \in rows /\ \A q \in Others(p) : Rotating(q, x) => x \in forked'

\* It keeps the invariant.
LEMMA MovesKeep ==
    ASSUME SessionInv, RotationInv, NEW p \in Procs, Moves(p)
    PROVE  RotationInv'
<1>1. /\ user' = user /\ rows' = rows /\ token' = token /\ minted' = minted
      /\ delivered' = delivered /\ forked \subseteq forked'
      /\ \A q \in Others(p) : q \in Procs /\ req'[q] = req[q]
      /\ req'[p].new = 0
  BY DEF Moves, Others
<1>2. Chain(p)' /\ Locks(p)' /\ Complete(p)'
  <2>1. Chain(p) /\ rows \subseteq 1 .. minted
    BY SessionTypes DEF RotationInv
  <2> QED
    BY <1>1, <2>1 DEF Moves, Chain
<1>3. Succeeded(p)'
  BY <1>1 DEF Moves, RotationInv, Succeeded, Parent, RotatedAway
<1>4. ASSUME NEW q \in Others(p)
      PROVE  Chain(q)' /\ Locks(q)' /\ Complete(q)' /\ Succeeded(q)'
  <2>0. q \in Procs /\ req'[q] = req[q]
    BY <1>1
  <2>1. Chain(q)' /\ Locks(q)'
    BY <1>1, <2>0 DEF RotationInv, Chain, Locks
  <2>2. Complete(q)'
    BY <1>1, <2>0 DEF RotationInv, Complete, Revoking, RowsOf
  <2>3. Succeeded(q)'
    BY <1>1, <2>0 DEF RotationInv, Succeeded, Parent, Rotating
  <2> QED
    BY <2>1, <2>2, <2>3
<1>5. ASSUME NEW a \in Procs, NEW b \in Procs PROVE Unlisted(a, b)'
  <2>0. Unlisted(a, b) /\ Chain(b)
    BY DEF RotationInv
  <2>1. CASE b = p
    BY <1>1, <2>1 DEF Unlisted
  <2>2. CASE b # p /\ a = p
    BY <1>1, <2>0, <2>2 DEF Unlisted, Chain, Moves, Others
  <2>3. CASE b # p /\ a # p
    BY <1>1, <2>0, <2>3 DEF Unlisted, Others
  <2> QED
    BY <2>1, <2>2, <2>3
<1>6. ASSUME NEW q \in Others(p) PROVE Disjoint(p, q)' /\ Disjoint(q, p)'
  <2>0. /\ q \in Procs /\ req'[q] = req[q] /\ p \in Others(q) /\ Others(p)' = Others(p)
        /\ Disjoint(p, q) /\ Disjoint(q, p)
    BY <1>1 DEF RotationInv, Others
  <2>1. /\ req'[p].new # 0 => req'[p].new # req'[q].new
        /\ req'[q].new # 0 => req'[q].new # req'[p].new
    BY <1>1
  <2>2. ASSUME NEW x, Rotating(p, x)', Rotating(q, x)' PROVE x \in forked'
    <3>1. Rotating(q, x)
      BY <2>0, <2>2 DEF Rotating
    <3>2. CASE Rotating(p, x)
      BY <1>1, <2>0, <3>1, <3>2 DEF Disjoint, Rotating
    <3>3. CASE ~Rotating(p, x)
      BY <2>2, <3>1, <3>3 DEF Moves
    <3> QED
      BY <3>2, <3>3
  <2>3. Isolation = "serial" => ~(InTx(p)' /\ InTx(q)')
    BY <2>0 DEF Moves, Disjoint, InTx, WriterFree
  <2> QED
    BY <2>1, <2>2, <2>3 DEF Disjoint
<1>7. ASSUME NEW a \in Procs, NEW b \in Others(a) PROVE Disjoint(a, b)'
  <2>1. CASE a # p /\ b # p
    BY <1>1, <2>1 DEF RotationInv, Disjoint, Others, Rotating, InTx
  <2> QED
    BY <1>6, <2>1 DEF Others
<1>8. Lineage' /\ Unborn' /\ RotatedAway' /\ SiblingsOnlyIfForked'
  BY <1>1 DEF RotationInv, Lineage, Unborn, RotatedAway, SiblingsOnlyIfForked, Parent
<1> QED
  <2>1. \A q \in Procs : Chain(q)' /\ Locks(q)' /\ Complete(q)' /\ Succeeded(q)'
    BY <1>2, <1>3, <1>4 DEF Others
  <2> QED
    BY <1>5, <1>7, <1>8, <2>1 DEF RotationInv, Others

\* The invariants, as the steps use them.
LEMMA RotationFacts ==
    ASSUME SessionInv, RotationInv, NEW p \in Procs
    PROVE  /\ Chain(p) /\ Locks(p) /\ Complete(p) /\ Writes(p) /\ Pending(p)
           /\ req[p] \in Request /\ InFlow(req[p]) /\ HasUser(req[p]) /\ KnownRequest(p)
           /\ rows \subseteq 1 .. minted /\ delivered \subseteq 1 .. minted
           /\ req \in [Procs -> Request] /\ minted \in Nat
  BY RequestFacts, SessionTypes DEF RotationInv, RequestInv

\* The request of p becomes r.
LEMMA Advance ==
    ASSUME SessionInv, RotationInv, NEW p \in Procs, NEW r,
           req' = [req EXCEPT ![p] = r], UNCHANGED <<db, minted, delivered>>,
           forked \subseteq forked',
           r.new = 0, r.tok \in {0} \cup delivered,
           r.del \cup r.tgt \subseteq req[p].del \cup req[p].tgt \cup rows,
           r.pc = "commit" => r.op = "deleteAccount",
           r.pc \in {"find", "drop", "delete"} => r.del = {},
           r.op \in Revokers => \A t \in r.del \cup r.tgt : token[t].owner = r.uid,
           r.op = "refresh" /\ r.pc = "issue" =>
                /\ Rotating(p, r.tok) /\ {r.tok} \cap rows \subseteq r.del,
           r.op = "refresh" /\ r.pc = "delete" =>
                /\ r.tok \in rows
                /\ \A q \in Others(p) : Rotating(q, r.tok) => r.tok \in forked',
           Isolation = "serial" /\ r.op \in {"changePassword", "deleteAccount"}
                /\ r.pc \in {"revoking", "issue", "softdelete", "commit"}
                => RowsOf(r.uid) \subseteq r.del \cup r.tgt,
           InTx(p)' => InTx(p) \/ WriterFree(p)
    PROVE  RotationInv'
<1>1. /\ user' = user /\ rows' = rows /\ token' = token /\ minted' = minted
      /\ delivered' = delivered /\ req'[p] = r /\ \A q \in Others(p) : req'[q] = req[q]
  BY RotationFacts DEF db, Others
<1>2. Locks(p)'
  BY <1>1 DEF Locks
<1>3. Complete(p)'
  BY <1>1 DEF Complete, Revoking, RowsOf
<1>4. ASSUME NEW x, Rotating(p, x)'
      PROVE  \/ Rotating(p, x)
             \/ x \in rows /\ \A q \in Others(p) : Rotating(q, x) => x \in forked'
  BY <1>1, <1>4 DEF Rotating
<1>5. r.op = "refresh" /\ r.pc \in {"issue", "commit"} => {r.tok} \cap rows \subseteq r.del
  OBVIOUS
<1>6. Moves(p)
  BY <1>1, <1>2, <1>3, <1>4, <1>5 DEF Moves
<1> QED
  BY <1>6, MovesKeep

\* A request that ends without a trace.
LEMMA AnswerRotation ==
    ASSUME SessionInv, RotationInv, NEW p \in Procs, Answer(p)
    PROVE  RotationInv'
<1>1. /\ req' = [req EXCEPT ![p] = Idle] /\ UNCHANGED <<db, minted, delivered>>
      /\ forked' = forked
  BY DEF Answer, history
<1>2. ~InTx(p)'
  BY <1>1, RotationFacts DEF InTx, Idle
<1>3. /\ Idle.new = 0 /\ Idle.tok = 0 /\ Idle.del = {} /\ Idle.tgt = {}
      /\ Idle.op = "none" /\ Idle.pc = "idle"
  BY DEF Idle
<1> QED
  BY <1>1, <1>2, <1>3, Advance DEF Revokers

\* A request that enters presents a token its client has, or none.
LEMMA BeginRotation ==
    ASSUME SessionInv, RotationInv, NEW p \in Procs, NEW r, Begin(p, r),
           r.new = 0, r.tok \in {0} \cup delivered, r.del = {}, r.tgt = {},
           r.pc = IF r.op = "logout" THEN "revoke" ELSE "find"
    PROVE  RotationInv'
<1>1. /\ req' = [req EXCEPT ![p] = r] /\ UNCHANGED <<db, minted, delivered>>
      /\ forked' = forked
  BY DEF Begin, history
<1>2. ~InTx(p)'
  BY <1>1, RotationFacts DEF InTx
<1> QED
  BY <1>1, <1>2, Advance

\* Every way to enter.
LEMMA StartRotation ==
    ASSUME SessionInv, RotationInv, NEW p \in Procs, Start(p)
    PROVE  RotationInv'
<1>1. ASSUME NEW e \in Emails, StartRegister(p, e)
      PROVE  RotationInv'
  <2> PICK u \in Ids : Begin(p, [Idle EXCEPT !.op = "register", !.pc = "find",
                                             !.uid = u, !.email = e])
    BY <1>1 DEF StartRegister
  <2> QED
    BY BeginRotation DEF Idle
<1>2. ASSUME NEW e \in Emails, StartLogin(p, e)
      PROVE  RotationInv'
  BY <1>2, BeginRotation DEF StartLogin, Idle
<1>3. ASSUME NEW t \in Tokens,
             \/ StartRefresh(p, t) \/ StartChangePassword(p, t)
             \/ StartDeleteAccount(p, t) \/ StartLogout(p, t)
      PROVE  RotationInv'
  <2>1. t \in delivered
    BY <1>3 DEF StartRefresh, StartChangePassword, StartDeleteAccount,
       StartLogout, Authenticated
  <2>2. PICK o \in {"refresh", "changePassword", "deleteAccount", "logout"},
             k \in {0, t}, s \in {"find", "revoke"} :
          /\ s = IF o = "logout" THEN "revoke" ELSE "find"
          /\ Begin(p, Cookies(t, o, s, k))
    BY <1>3 DEF StartRefresh, StartChangePassword, StartDeleteAccount, StartLogout
  <2> DEFINE r == Cookies(t, o, s, k)
  <2>3. /\ r.pc = s /\ r.op = o /\ r.tok = k /\ r.new = 0 /\ r.del = {} /\ r.tgt = {}
    BY DEF Idle, Cookies
  <2> QED
    BY <2>1, <2>2, <2>3, BeginRotation
<1> QED
  BY <1>1, <1>2, <1>3 DEF Start

\* Before its commit a request has issued nothing.
LEMMA NothingIssued ==
    ASSUME SessionInv, NEW p \in Procs, req[p].pc # "commit"
    PROVE  req[p].new = 0
  BY RequestFacts DEF RequestInv, Pending

\* A registration locks no session.
LEMMA RegisterRotation ==
    ASSUME SessionInv, RotationInv, NEW p \in Procs, RegisterFind(p) \/ CreateUser(p)
    PROVE  RotationInv'
<1>1. CASE Answer(p)
  BY <1>1, AnswerRotation
<1>2. CASE ~Answer(p)
  <2>0. req[p].op = "register" /\ req[p].new = 0
    BY NothingIssued DEF RegisterFind, CreateUser, At
  <2>1. PICK s \in {"insert", "issue"}, h \in BOOLEAN :
          /\ req' = [req EXCEPT ![p] = [req[p] EXCEPT !.hit = h, !.pc = s]]
          /\ UNCHANGED <<db, minted, delivered>> /\ forked' = forked
          /\ s = "issue" => WriterFree(p)
    <3>1. CASE RegisterFind(p)
      <4>1. /\ req' = [req EXCEPT ![p].pc = "insert"] /\ UNCHANGED <<db, minted, delivered>>
            /\ forked' = forked
        BY <1>2, <3>1 DEF RegisterFind, Goto
      <4>2. /\ req[p].hit \in BOOLEAN
            /\ req' = [req EXCEPT ![p] = [req[p] EXCEPT !.hit = req[p].hit, !.pc = "insert"]]
        BY <4>1, RotationFacts DEF Request
      <4> QED
        BY <4>1, <4>2
    <3>2. CASE CreateUser(p)
      BY <1>2, <3>2, RotationFacts DEF CreateUser, history, Request
    <3> QED
      BY <3>1, <3>2
  <2> DEFINE r == [req[p] EXCEPT !.hit = h, !.pc = s]
  <2>2. /\ r.op = "register" /\ r.pc = s /\ r.new = 0 /\ r.tok = req[p].tok
        /\ r.del = req[p].del /\ r.tgt = req[p].tgt
    BY <2>0, RotationFacts DEF Request
  <2>3. InTx(p)' => WriterFree(p)
    BY <2>1, <2>2, RotationFacts DEF InTx
  <2>4. r.tok \in {0} \cup delivered
    BY <2>2, RotationFacts DEF Chain
  <2> QED
    BY <2>1, <2>2, <2>3, <2>4, Advance DEF Revokers
<1> QED
  BY <1>1, <1>2

\* Nor does a login.
LEMMA LoginRotation ==
    ASSUME SessionInv, RotationInv, NEW p \in Procs, LoginFind(p)
    PROVE  RotationInv'
<1>1. CASE Answer(p)
  BY <1>1, AnswerRotation
<1>2. CASE ~Answer(p)
  <2>0. req[p].op = "login" /\ req[p].new = 0
    BY NothingIssued DEF LoginFind, At
  <2>1. PICK u \in Ids :
          /\ req' = [req EXCEPT ![p].uid = u, ![p].ver = user[u].ver, ![p].pc = "issue"]
          /\ UNCHANGED <<db, minted, delivered>> /\ forked' = forked
    BY <1>2 DEF LoginFind, FindByEmail
  <2> DEFINE r == [req[p] EXCEPT !.uid = u, !.ver = user[u].ver, !.pc = "issue"]
  <2>2. /\ r.op = "login" /\ r.pc = "issue" /\ r.new = 0 /\ r.tok = req[p].tok
        /\ r.del = req[p].del /\ r.tgt = req[p].tgt
        /\ req' = [req EXCEPT ![p] = r]
    BY <2>0, <2>1, RotationFacts DEF Request
  <2>3. ~InTx(p)'
    BY <2>2, RotationFacts DEF InTx
  <2>4. r.tok \in {0} \cup delivered
    BY <2>2, RotationFacts DEF Chain
  <2> QED
    BY <2>1, <2>2, <2>3, <2>4, Advance DEF Revokers
<1> QED
  BY <1>1, <1>2

\* A refresh that found its row: it joins those that rotate it, and is marked
\* if there are any.
LEMMA RefreshFindRotation ==
    ASSUME SessionInv, RotationInv, NEW p \in Procs, RefreshFind(p)
    PROVE  RotationInv'
<1>0. /\ req[p].op = "refresh" /\ req[p].pc = "find" /\ req[p].new = 0
      /\ req[p].del = {} /\ req[p].tgt = {} /\ req[p].tok \in delivered
      /\ req[p] \in Request
  <2>1. req[p].op = "refresh" /\ req[p].pc = "find"
    BY DEF RefreshFind, At
  <2> QED
    BY <2>1, NothingIssued, RotationFacts DEF Locks, Pending, Chain, KnownRequest
<1>1. UNCHANGED <<db, minted, delivered>> /\ forked \subseteq forked'
  BY DEF RefreshFind, Goto, history
<1>2. CASE req[p].tok \notin rows
  <2> DEFINE r == [req[p] EXCEPT !.op = "reuse", !.pc = "revoke"]
  <2>1. /\ req' = [req EXCEPT ![p] = r] /\ r.op = "reuse" /\ r.pc = "revoke"
        /\ r.new = 0 /\ r.del = {} /\ r.tgt = {} /\ r.tok = req[p].tok
    BY <1>0, <1>2, RotationFacts DEF RefreshFind, Request
  <2>2. ~InTx(p)'
    BY <2>1, RotationFacts DEF InTx
  <2> QED
    BY <1>0, <1>1, <2>1, <2>2, Advance
<1>3. CASE req[p].tok \in rows /\ req[p].tok <= rowDead
  <2> DEFINE r == [req[p] EXCEPT !.pc = "drop"]
  <2>1. /\ req' = [req EXCEPT ![p] = r] /\ r.op = "refresh" /\ r.pc = "drop"
        /\ r.new = 0 /\ r.del = {} /\ r.tgt = {} /\ r.tok = req[p].tok
    <3>1. ~(req[p].tok > rowDead)
      BY <1>3, SessionTypes, RotationFacts DEF SessionInv, Shape, TypeOK
    <3> QED
      BY <1>0, <1>3, <3>1, RotationFacts DEF RefreshFind, Goto, Request
  <2>2. ~InTx(p)'
    BY <2>1, RotationFacts DEF InTx
  <2> QED
    BY <1>0, <1>1, <2>1, <2>2, Advance
<1>4. CASE req[p].tok \in rows /\ ~(req[p].tok <= rowDead)
  <2> DEFINE r == [req[p] EXCEPT !.ver = token[req[p].tok].ver, !.pc = "delete"]
  <2>1. /\ req' = [req EXCEPT ![p] = r] /\ r.op = "refresh" /\ r.pc = "delete"
        /\ r.new = 0 /\ r.del = {} /\ r.tgt = {} /\ r.tok = req[p].tok
    BY <1>0, <1>4, RotationFacts DEF RefreshFind, Request
  <2>2. ~InTx(p)'
    BY <2>1, RotationFacts DEF InTx
  <2>3. \A q \in Others(p) : Rotating(q, r.tok) => r.tok \in forked'
    BY <1>4, <2>1 DEF RefreshFind
  <2> HIDE DEF r
  <2> QED
    BY <1>0, <1>1, <1>4, <2>1, <2>2, <2>3, Advance
<1> QED
  BY <1>2, <1>3, <1>4

\* The DELETE of the rotation puts the presented token on the list if it is there.
LEMMA DeleteByTokenHashRotation ==
    ASSUME SessionInv, RotationInv, NEW p \in Procs, DeleteByTokenHash(p)
    PROVE  RotationInv'
<1>0. /\ req[p].op = "refresh" /\ req[p].pc = "delete" /\ req[p].new = 0
      /\ req[p].del = {} /\ req[p].tgt = {} /\ req[p].tok \in delivered
      /\ req[p] \in Request /\ WriterFree(p)
  <2>1. req[p].op = "refresh" /\ req[p].pc = "delete" /\ WriterFree(p)
    BY DEF DeleteByTokenHash, At
  <2> QED
    BY <2>1, NothingIssued, RotationFacts DEF Locks, Pending, Chain, KnownRequest
<1> DEFINE r == [req[p] EXCEPT !.del = {req[p].tok} \cap rows, !.pc = "issue"]
<1>1. UNCHANGED <<db, minted, delivered>> /\ forked' = forked
  BY DEF DeleteByTokenHash, history
<1>2. /\ req' = [req EXCEPT ![p] = r] /\ r.op = "refresh" /\ r.pc = "issue"
      /\ r.new = 0 /\ r.del = {req[p].tok} \cap rows /\ r.tgt = {} /\ r.tok = req[p].tok
  BY <1>0, RotationFacts DEF DeleteByTokenHash, Request
<1>3. Rotating(p, r.tok)
  BY <1>0, <1>2 DEF Rotating
<1> HIDE DEF r
<1> QED
  BY <1>0, <1>1, <1>2, <1>3, Advance DEF Revokers

\* What a revoker has on its lists stays what its account owns.
LEMMA RevokerRotation ==
    ASSUME SessionInv, RotationInv, NEW p \in Procs, NEW r,
           req' = [req EXCEPT ![p] = r], UNCHANGED <<db, minted, delivered>>,
           forked' = forked,
           r.op = req[p].op, req[p].op \in Revokers, r.uid = req[p].uid,
           r.tok = req[p].tok, r.new = req[p].new,
           r.del = req[p].del, r.tgt = req[p].tgt,
           req[p].pc # "commit", r.pc \notin {"find", "drop", "delete"},
           r.pc = "commit" => r.op = "deleteAccount",
           r.pc \in {"issue", "softdelete", "commit"} =>
                req[p].pc \in {"revoking", "softdelete"},
           r.pc # "revoking",
           InTx(p)' => InTx(p) \/ WriterFree(p)
    PROVE  RotationInv'
<1>1. r.new = 0 /\ r.tok \in {0} \cup delivered
  BY NothingIssued, RotationFacts DEF Chain
<1>2. \A t \in r.del \cup r.tgt : token[t].owner = r.uid
  BY RotationFacts DEF Locks
<1>3. Isolation = "serial" /\ r.op \in {"changePassword", "deleteAccount"}
         /\ r.pc \in {"revoking", "issue", "softdelete", "commit"}
         => RowsOf(r.uid) \subseteq r.del \cup r.tgt
  BY RotationFacts DEF Complete, Revoking
<1>4. r.op # "refresh"
  BY DEF Revokers
<1> QED
  BY <1>1, <1>2, <1>3, <1>4, Advance

\* The checks of ChangePassword and DeleteAccount, their writes of the user row.
LEMMA UserRowRotation ==
    ASSUME SessionInv, RotationInv, NEW p \in Procs,
           \/ ChangePasswordFind(p) \/ UpdatePassword(p)
           \/ DeleteAccountFind(p) \/ SoftDelete(p)
    PROVE  RotationInv'
<1>0. req[p] \in Request /\ req \in [Procs -> Request]
  BY RotationFacts
<1>1. CASE Answer(p)
  BY <1>1, AnswerRotation
<1>2. CASE ~Answer(p)
  <2>1. /\ UNCHANGED <<db, minted, delivered>> /\ forked' = forked
    BY <1>2 DEF ChangePasswordFind, UpdatePassword, DeleteAccountFind, SoftDelete,
       Goto, history
  <2>2. CASE ChangePasswordFind(p) \/ DeleteAccountFind(p)
    <3>1. PICK s \in {"update", "revoke"} :
            /\ req' = [req EXCEPT ![p].pc = s] /\ req[p].pc = "find"
            /\ \/ req[p].op = "changePassword" /\ s = "update"
               \/ req[p].op = "deleteAccount" /\ s = "revoke"
      BY <1>2, <2>2 DEF ChangePasswordFind, DeleteAccountFind, Goto, At
    <3> DEFINE r == [req[p] EXCEPT !.pc = s]
    <3>2. /\ req' = [req EXCEPT ![p] = r] /\ r.op = req[p].op /\ r.uid = req[p].uid
          /\ r.tok = req[p].tok /\ r.new = req[p].new /\ r.del = req[p].del
          /\ r.tgt = req[p].tgt /\ r.pc = s
      BY <1>0, <3>1 DEF Request
    <3>3. ~InTx(p)'
      BY <1>0, <3>1, <3>2 DEF InTx
    <3> HIDE DEF r
    <3> QED
      BY <2>1, <3>1, <3>2, <3>3, RevokerRotation DEF Revokers
  <2>3. CASE UpdatePassword(p) \/ SoftDelete(p)
    <3> DEFINE Wrote(s, v, h) ==
            /\ req' = [req EXCEPT ![p].hit = h, ![p].ver = v, ![p].pc = s]
            /\ \/ /\ req[p].op = "changePassword" /\ s = "revoke"
                  /\ req[p].pc = "update" /\ WriterFree(p)
               \/ /\ req[p].op = "deleteAccount" /\ s = "commit"
                  /\ req[p].pc = "softdelete"
    <3>1. PICK s, v, h : Wrote(s, v, h)
      <4>1. CASE UpdatePassword(p)
        <5>1. Wrote("revoke", user[req[p].uid].ver + 1, Live(req[p].uid))
          BY <4>1 DEF UpdatePassword, At
        <5> HIDE DEF Wrote
        <5> QED
          BY <5>1
      <4>2. CASE SoftDelete(p)
        <5>1. req' = [req EXCEPT ![p].hit = Live(req[p].uid), ![p].ver = req[p].ver,
                                 ![p].pc = "commit"]
          BY <1>0, <4>2 DEF SoftDelete, Request
        <5>2. Wrote("commit", req[p].ver, Live(req[p].uid))
          BY <4>2, <5>1 DEF SoftDelete, At
        <5> HIDE DEF Wrote
        <5> QED
          BY <5>2
      <4> QED
        BY <2>3, <4>1, <4>2
    <3> DEFINE r == [req[p] EXCEPT !.hit = h, !.ver = v, !.pc = s]
    <3>2. /\ req' = [req EXCEPT ![p] = r] /\ r.op = req[p].op /\ r.uid = req[p].uid
          /\ r.tok = req[p].tok /\ r.new = req[p].new /\ r.del = req[p].del
          /\ r.tgt = req[p].tgt /\ r.pc = s
      BY <1>0, <3>1 DEF Request
    <3>3. InTx(p)' => InTx(p) \/ WriterFree(p)
      BY <1>0, <3>1, <3>2 DEF InTx
    <3> HIDE DEF r
    <3> QED
      BY <2>1, <3>1, <3>2, <3>3, RevokerRotation DEF Revokers
  <2> QED
    BY <2>2, <2>3
<1> QED
  BY <1>1, <1>2

\* Who may be at the stages of a revocation.
LEMMA RevokersOnly ==
    ASSUME SessionInv, NEW p \in Procs, req[p].pc \in {"revoke", "revoking"}
    PROVE  req[p].op \in Revokers
<1>1. InFlow(req[p]) /\ req[p] \in Request
  BY RequestFacts
<1> QED
  BY <1>1 DEF InFlow, Request, Ops, Idle, Revokers

\* The revocation lists every session of the account ...
LEMMA RevokeRotation ==
    ASSUME SessionInv, RotationInv, NEW p \in Procs, RevokeRefreshTokens(p)
    PROVE  RotationInv'
<1>0. /\ req[p].pc = "revoke" /\ req[p].new = 0 /\ req[p] \in Request
      /\ req[p].op \in Revokers /\ WriterFree(p)
  BY NothingIssued, RevokersOnly, RotationFacts DEF RevokeRefreshTokens
<1> DEFINE r == [req[p] EXCEPT !.tgt = RowsOf(req[p].uid), !.pc = "revoking"]
<1>1. UNCHANGED <<db, minted, delivered>> /\ forked' = forked
  BY DEF RevokeRefreshTokens
<1>2. /\ req' = [req EXCEPT ![p] = r] /\ r.op = req[p].op /\ r.pc = "revoking"
      /\ r.new = 0 /\ r.del = req[p].del /\ r.tgt = RowsOf(r.uid) /\ r.tok = req[p].tok
      /\ r.uid = req[p].uid
  BY <1>0, RotationFacts DEF RevokeRefreshTokens, Request
<1> HIDE DEF r
<1>3. /\ \A t \in r.del \cup r.tgt : token[t].owner = r.uid
      /\ RowsOf(r.uid) \subseteq rows /\ r.tok \in {0} \cup delivered
  BY <1>0, <1>2, RotationFacts DEF Locks, RowsOf, Chain
<1>4. r.op # "refresh"
  BY <1>0, <1>2 DEF Revokers
<1> QED
  BY <1>0, <1>1, <1>2, <1>3, <1>4, Advance

\* ... and moves them one by one to those it has deleted.
LEMMA RevokeRowRotation ==
    ASSUME SessionInv, RotationInv, NEW p \in Procs, RevokeRow(p)
    PROVE  RotationInv'
<1>0. /\ req[p].pc = "revoking" /\ req[p].new = 0 /\ req[p] \in Request
      /\ req[p].op \in Revokers
  BY NothingIssued, RevokersOnly, RotationFacts DEF RevokeRow
<1>1. PICK t \in req[p].tgt :
        req' = [req EXCEPT ![p].tgt = req[p].tgt \ {t},
                           ![p].del = req[p].del \cup ({t} \cap rows)]
  BY RotationFacts DEF RevokeRow
<1> DEFINE r == [req[p] EXCEPT !.tgt = req[p].tgt \ {t},
                               !.del = req[p].del \cup ({t} \cap rows)]
<1>2. UNCHANGED <<db, minted, delivered>> /\ forked' = forked
  BY DEF RevokeRow, history
<1>3. /\ req' = [req EXCEPT ![p] = r] /\ r.op = req[p].op /\ r.pc = "revoking"
      /\ r.new = 0 /\ r.del = req[p].del \cup ({t} \cap rows)
      /\ r.tgt = req[p].tgt \ {t} /\ r.tok = req[p].tok /\ r.uid = req[p].uid
  BY <1>0, <1>1, RotationFacts DEF Request
<1> HIDE DEF r
<1>4. /\ \A x \in r.del \cup r.tgt : token[x].owner = r.uid
      /\ r.tok \in {0} \cup delivered
  BY <1>0, <1>1, <1>3, RotationFacts DEF Locks, Chain
<1>5. r.op # "refresh"
  BY <1>0, <1>3 DEF Revokers
<1>6. Isolation = "serial" /\ r.op \in {"changePassword", "deleteAccount"}
        => RowsOf(r.uid) \subseteq r.del \cup r.tgt
  BY <1>0, <1>1, <1>3, RotationFacts DEF Complete, Revoking, RowsOf
<1>7. InTx(p)
  BY <1>0 DEF InTx
<1> QED
  BY <1>0, <1>1, <1>2, <1>3, <1>4, <1>5, <1>6, <1>7, Advance

---------------------------------------------------------------------------
(* Steps that change what is stored *)

\* The request of p, if any, ends; at most the tokens of N get a row, each a
\* token no client had yet, and N has one member at most.
Stores(p, N) ==
    /\ rows' \subseteq rows \cup N
    /\ delivered \subseteq delivered' /\ delivered' \subseteq delivered \cup N
    /\ minted <= minted' /\ forked' = forked
    /\ \A t \in 1 .. minted : /\ token'[t].owner = token[t].owner
                              /\ token'[t].from = token[t].from
                              /\ token'[t].via = token[t].via
    /\ \A q \in Procs :
            \/ q = p /\ req'[q] = Idle
            \/ /\ req'[q] = req[q] /\ req[q].new \notin N
               /\ req[q].new # 0 => token'[req[q].new].ended = "stored"
    /\ 0 \notin N /\ N \cap delivered = {}
    /\ \A s, t \in N : s = t
    /\ \A s \in N : /\ p \in Procs /\ req'[p] = Idle
                    /\ Isolation = "serial" => \A q \in Others(p) : ~InTx(q)
                    /\ \/ Parent(s)' = 0
                       \/ Rotating(p, Parent(s)') /\ Parent(s)' \notin rows'
    /\ Lineage' /\ Unborn'

\* A refresh rotates a token, not the absence of one.
LEMMA RotatingToken ==
    ASSUME SessionInv, NEW p \in Procs, NEW x, Rotating(p, x)
    PROVE  x # 0
  BY RequestFacts, SessionTypes DEF Rotating, RequestInv, KnownRequest

\* It keeps the invariant.
LEMMA StoresKeep ==
    ASSUME SessionInv, RotationInv, Shape', NEW p, NEW N, Stores(p, N)
    PROVE  RotationInv'
<1>0. /\ minted \in Nat /\ minted' \in Nat /\ minted <= minted'
      /\ 1 .. minted \subseteq 1 .. minted'
      /\ rows \subseteq 1 .. minted /\ delivered \subseteq 1 .. minted
      /\ rows' \subseteq 1 .. minted' /\ forked' = forked
  BY SessionTypes DEF Stores, Shape, TypeOK, MintedOK
<1>1. \A t \in rows : Parent(t)' = Parent(t) /\ Parent(t) \in {0} \cup delivered
  BY <1>0 DEF Stores, Parent, RotationInv, Lineage
<1>2. ASSUME NEW q \in Procs
      PROVE  Chain(q)' /\ Locks(q)' /\ Complete(q)' /\ Succeeded(q)'
  <2>1. CASE req'[q] = Idle
    <3>1. /\ Idle.new = 0 /\ Idle.tok = 0 /\ Idle.del = {} /\ Idle.tgt = {}
          /\ Idle.op = "none" /\ Idle.pc = "idle"
      BY DEF Idle
    <3> QED
      BY <2>1, <3>1 DEF Chain, Locks, Complete, Succeeded, Revoking, Rotating, Revokers
  <2>2. CASE req'[q] # Idle
    <3>0. /\ req'[q] = req[q] /\ req[q].new \notin N
          /\ req[q].new # 0 => token'[req[q].new].ended = "stored"
          /\ Chain(q) /\ Locks(q) /\ Complete(q) /\ Succeeded(q)
          /\ req[q].new \in 0 .. minted /\ KnownRequest(q) /\ req[q] \in Request
      BY <2>2, RotationFacts, RequestFacts DEF Stores, RotationInv
    <3>1. Chain(q)'
      <4>1. req[q].tok \in {0} \cup delivered' /\ req[q].del \cup req[q].tgt \subseteq 1 .. minted'
        BY <1>0, <3>0 DEF Chain, Stores
      <4>2. req[q].new # 0 => /\ req[q].new \notin rows' \cup delivered'
                              /\ token'[req[q].new].from = req[q].tok
                              /\ token'[req[q].new].via = req[q].op
        BY <1>0, <3>0 DEF Chain, Stores
      <4>3. req[q].op = "refresh" /\ req[q].pc \in {"issue", "commit"}
                => {req[q].tok} \cap rows' \subseteq req[q].del
        BY <3>0 DEF Chain, Stores
      <4> QED
        BY <3>0, <4>1, <4>2, <4>3 DEF Chain
    <3>2. Locks(q)'
      BY <3>0 DEF Locks, Chain, Stores
    <3>3. Complete(q)'
      <4>1. CASE N = {}
        BY <1>0, <3>0, <4>1 DEF Complete, Revoking, RowsOf, Stores
      <4>2. CASE N # {}
        <5>1. Isolation = "serial" => ~InTx(q)
          BY <2>2, <4>2 DEF Stores, Others
        <5>2. InFlow(req[q])
          BY RotationFacts
        <5>3. \A o \in {"changePassword", "deleteAccount"} :
                 Revoking(q, o, req[q].uid) => InTx(q)
          BY <5>2 DEF Revoking, InTx, InFlow
        <5> QED
          BY <3>0, <5>1, <5>3 DEF Complete, Revoking
      <4> QED
        BY <4>1, <4>2
    <3>4. Succeeded(q)'
      <4> SUFFICES ASSUME NEW s \in rows', Rotating(q, Parent(s)')
                   PROVE  Parent(s)' \in forked
        BY <1>0, <3>0 DEF Succeeded, Rotating
      <4>1. CASE s \in rows
        BY <1>1, <3>0, <4>1 DEF Succeeded
      <4>2. CASE s \notin rows
        <5>1. s \in N /\ Parent(s)' # 0
          BY <4>2, RotatingToken DEF Stores
        <5>2. p \in Procs /\ req'[p] = Idle /\ Rotating(p, Parent(s)')
          BY <5>1 DEF Stores
        <5>3. p \in Others(q)
          BY <2>2, <5>2 DEF Others
        <5>4. Disjoint(q, p)
          BY <5>3 DEF RotationInv
        <5> QED
          BY <5>2, <5>4 DEF Disjoint, Rotating
      <4> QED
        BY <4>1, <4>2
    <3> QED
      BY <3>1, <3>2, <3>3, <3>4
  <2> QED
    BY <2>1, <2>2
<1>3. ASSUME NEW a \in Procs, NEW b \in Procs
      PROVE  Unlisted(a, b)' /\ (a # b => Disjoint(a, b)')
  <2>1. CASE req'[a] = Idle \/ req'[b] = Idle
    <3>1. /\ Idle.new = 0 /\ Idle.del = {} /\ Idle.tgt = {}
          /\ Idle.op = "none" /\ Idle.pc = "idle"
      BY DEF Idle
    <3> QED
      BY <2>1, <3>1 DEF Unlisted, Disjoint, Rotating, InTx
  <2>2. CASE req'[a] # Idle /\ req'[b] # Idle
    <3>1. req'[a] = req[a] /\ req'[b] = req[b] /\ Unlisted(a, b)
          /\ (a # b => Disjoint(a, b))
      BY <2>2 DEF Stores, RotationInv, Others
    <3> QED
      BY <1>0, <3>1 DEF Unlisted, Disjoint, Rotating, InTx
  <2> QED
    BY <2>1, <2>2
<1>4. RotatedAway'
  <2> SUFFICES ASSUME NEW s \in rows' PROVE Parent(s)' \notin rows'
    BY DEF RotatedAway
  <2>1. CASE s \in rows
    <3>1. Parent(s) \notin rows /\ Parent(s) \in {0} \cup delivered
      BY <1>1, <2>1 DEF RotationInv, RotatedAway
    <3> QED
      BY <1>1, <2>1, <3>1 DEF Stores
  <2>2. CASE s \notin rows
    <3>1. 0 \notin rows'
      BY <1>0
    <3> QED
      BY <2>2, <3>1 DEF Stores
  <2> QED
    BY <2>1, <2>2
<1>5. SiblingsOnlyIfForked'
  <2> SUFFICES ASSUME NEW s \in rows', NEW t \in rows', Parent(s)' # 0,
                      Parent(s)' = Parent(t)', s # t
               PROVE  Parent(s)' \in forked
    BY <1>0 DEF SiblingsOnlyIfForked
  <2>1. CASE s \in rows /\ t \in rows
    BY <1>1, <2>1 DEF RotationInv, SiblingsOnlyIfForked
  <2>2. ASSUME NEW x \in rows', NEW y \in rows', x \notin rows, y \in rows,
               Parent(x)' # 0, Parent(x)' = Parent(y)'
        PROVE  Parent(x)' \in forked
    <3>1. p \in Procs /\ Rotating(p, Parent(x)')
      BY <2>2 DEF Stores
    <3>2. Succeeded(p) /\ Parent(y) = Parent(x)'
      BY <1>1, <2>2, <3>1 DEF RotationInv
    <3> QED
      BY <2>2, <3>1, <3>2 DEF Succeeded
  <2>3. CASE s \notin rows /\ t \notin rows
    BY <2>3 DEF Stores
  <2> QED
    BY <2>1, <2>2, <2>3
<1> QED
  BY <1>2, <1>3, <1>4, <1>5 DEF RotationInv, Others, Stores

\* Rows that are deleted for good; no uncommitted token is among them.
LEMMA RemoveRotation ==
    ASSUME SessionInv, RotationInv, Shape', NEW p, NEW S \in SUBSET (1 .. minted),
           NEW how \in Ends, Remove(S, how),
           \A q \in Procs : req[q].new # 0 => req[q].new \notin S,
           \A q \in Procs : req'[q] = req[q] \/ (q = p /\ req'[q] = Idle),
           UNCHANGED <<user, minted, delivered, history>>
    PROVE  RotationInv'
<1>0. /\ token \in [Tokens -> TokenRow] /\ 1 .. minted \subseteq Tokens
      /\ minted \in Nat /\ Lineage /\ Unborn
      /\ \A q \in Procs : Chain(q) /\ req[q].new \in 0 .. minted
  BY SessionTypes, RequestFacts DEF RotationInv
<1>1. /\ rows' \subseteq rows /\ forked' = forked
      /\ \A t \in Tokens : /\ token'[t].owner = token[t].owner
                           /\ token'[t].from = token[t].from
                           /\ token'[t].via = token[t].via
                           /\ t \notin S => token'[t] = token[t]
  BY <1>0 DEF Remove, history, TokenRow
<1>2. Lineage' /\ Unborn'
  <2>1. \A t \in Tokens : t > minted => token'[t] = token[t]
    BY <1>0, <1>1, TokensAreNumbers
  <2> QED
    BY <1>0, <1>1, <2>1 DEF Lineage, Unborn
<1>3. ASSUME NEW q \in Procs
      PROVE  \/ q = p /\ req'[q] = Idle
             \/ /\ req'[q] = req[q]
                /\ req[q].new # 0 => token'[req[q].new].ended = "stored"
  <2>1. req[q].new # 0 => req[q].new \in Tokens /\ req[q].new \notin S
                          /\ token[req[q].new].ended = "stored"
    BY <1>0 DEF Chain
  <2> QED
    BY <1>1, <2>1
<1>4. Stores(p, {})
  BY <1>0, <1>1, <1>2, <1>3 DEF Stores
<1> QED
  BY <1>4, StoresKeep

\* The refresh of an expired token, and the sweep of the janitor.
LEMMA ExpiryRotation ==
    ASSUME SessionInv, RotationInv, Shape',
           PurgeExpiredRefreshTokens \/ \E p \in Procs : DropExpired(p)
    PROVE  RotationInv'
<1>0. rows \subseteq 1 .. minted /\ \A q \in Procs : Chain(q)
  BY SessionTypes DEF RotationInv
<1>1. CASE PurgeExpiredRefreshTokens
  <2>1. /\ Remove(Expired, "expired") /\ req' = req /\ Expired \subseteq rows
        /\ UNCHANGED <<user, minted, delivered, history>>
    BY <1>1 DEF PurgeExpiredRefreshTokens, Expired
  <2>2. Expired \in SUBSET (1 .. minted)
        /\ \A q \in Procs : req[q].new # 0 => req[q].new \notin Expired
    BY <1>0, <2>1 DEF Chain
  <2>3. \A q \in Procs : req'[q] = req[q] \/ (q = None /\ req'[q] = Idle)
    BY <2>1
  <2> QED
    BY <2>1, <2>2, <2>3, RemoveRotation DEF Ends
<1>2. ASSUME NEW p \in Procs, DropExpired(p) PROVE RotationInv'
  <2>1. PICK S \in SUBSET (1 .. minted) : S = {req[p].tok} \cap rows
    BY <1>0
  <2>2. /\ Remove(S, "expired") /\ UNCHANGED <<user, minted, delivered, history>>
        /\ \A q \in Procs : req'[q] = req[q] \/ (q = p /\ req'[q] = Idle)
    BY <1>2, <2>1, SessionTypes DEF DropExpired
  <2>3. \A q \in Procs : req[q].new # 0 => req[q].new \notin S
    BY <1>0, <2>1 DEF Chain
  <2>4. "expired" \in Ends
    BY DEF Ends
  <2> QED
    BY <2>1, <2>2, <2>3, <2>4, RemoveRotation
<1> QED
  BY <1>1, <1>2

\* The end of a revocation: committed by itself, or one stage of a transaction.
LEMMA RevokedRotation ==
    ASSUME SessionInv, RotationInv, Shape', NEW p \in Procs, Revoked(p)
    PROVE  RotationInv'
<1>0. /\ req[p].pc = "revoking" /\ req[p] \in Request /\ Chain(p)
      /\ req \in [Procs -> Request] /\ \A q \in Procs : Unlisted(p, q)
  BY RotationFacts DEF Revoked, RotationInv
<1>1. CASE req[p].op \in {"logout", "reuse"}
  <2>1. /\ Remove(req[p].del, req[p].op)
        /\ UNCHANGED <<user, minted, delivered, history>>
        /\ \A q \in Procs : req'[q] = req[q] \/ (q = p /\ req'[q] = Idle)
    BY <1>0, <1>1 DEF Revoked
  <2>2. req[p].del \in SUBSET (1 .. minted)
        /\ \A q \in Procs : req[q].new # 0 => req[q].new \notin req[p].del
    BY <1>0 DEF Chain, Unlisted
  <2>3. req[p].op \in Ends
    BY <1>1 DEF Ends
  <2> QED
    BY <2>1, <2>2, <2>3, RemoveRotation
<1>2. CASE req[p].op \in {"changePassword", "deleteAccount"}
  <2>1. PICK s \in {"issue", "softdelete"} :
          /\ req' = [req EXCEPT ![p].pc = s] /\ UNCHANGED <<db, minted, delivered>>
          /\ forked' = forked
    BY <1>2 DEF Revoked, Goto
  <2> DEFINE r == [req[p] EXCEPT !.pc = s]
  <2>2. /\ req' = [req EXCEPT ![p] = r] /\ r.op = req[p].op /\ r.uid = req[p].uid
        /\ r.tok = req[p].tok /\ r.new = req[p].new /\ r.del = req[p].del
        /\ r.tgt = req[p].tgt /\ r.pc = s
    BY <1>0, <2>1 DEF Request
  <2>3. InTx(p)
    BY <1>0 DEF InTx
  <2> HIDE DEF r
  <2> QED
    BY <1>0, <1>2, <2>1, <2>2, <2>3, RevokerRotation DEF Revokers
<1> QED
  BY <1>1, <1>2 DEF Revoked

\* What minting does to the tokens.
LEMMA MintLineage ==
    ASSUME SessionInv, RotationInv, Shape', NEW p \in Procs, IssueTokens(p)
    PROVE  /\ minted' = minted + 1 /\ minted \in Nat /\ minted + 1 \in Tokens
           /\ req[p].pc = "issue" /\ WriterFree(p) /\ user' = user /\ forked' = forked
           /\ token'[minted + 1] = Minted(p)
           /\ \A t \in 1 .. minted : token'[t] = token[t]
           /\ delivered \subseteq delivered'
           /\ Lineage' /\ Unborn'
<1>1. /\ minted' = minted + 1 /\ minted \in Nat /\ minted + 1 \in Tokens
      /\ req[p].pc = "issue" /\ WriterFree(p) /\ user' = user /\ forked' = forked
      /\ token' = [token EXCEPT ![minted + 1] = Minted(p)]
      /\ delivered \subseteq delivered'
  BY SessionTypes DEF IssueTokens, NextToken, history
<1>2. /\ token'[minted + 1] = Minted(p) /\ Tokens \subseteq Nat
      /\ \A t \in Tokens : t # minted + 1 => token'[t] = token[t]
      /\ 1 .. minted \subseteq Tokens
  BY <1>1, SessionTypes, TokensAreNumbers
<1>3. Minted(p).from \in {0} \cup delivered
  BY RotationFacts DEF Minted, Chain
<1>4. Lineage'
  <2>1. ASSUME NEW t \in 1 .. minted' PROVE token'[t].from \in {0} \cup delivered'
    <3>1. CASE t = minted + 1
      BY <1>1, <1>2, <1>3, <3>1
    <3>2. CASE t # minted + 1
      <4>1. t \in 1 .. minted
        BY <1>1, <3>2
      <4> QED
        BY <1>1, <1>2, <3>2, <4>1 DEF RotationInv, Lineage
    <3> QED
      BY <3>1, <3>2
  <2>2. ASSUME NEW t \in Tokens, t > minted' PROVE token'[t].ended = "stored"
    <3>1. t # minted + 1 /\ t > minted
      BY <1>1, <1>2, <2>2
    <3> QED
      BY <1>2, <3>1 DEF RotationInv, Lineage
  <2> QED
    BY <2>1, <2>2 DEF Lineage
<1>5. Unborn'
  BY <1>1 DEF RotationInv, Unborn
<1>6. \A t \in 1 .. minted : token'[t] = token[t]
  BY <1>1, <1>2
<1> QED
  BY <1>1, <1>2, <1>4, <1>5, <1>6

\* A login stores its token at once.
LEMMA LoginIssueRotation ==
    ASSUME SessionInv, RotationInv, Shape', NEW p \in Procs, IssueTokens(p),
           req[p].op = "login"
    PROVE  RotationInv'
<1> DEFINE N == {minted + 1}
<1>0. /\ minted \in Nat /\ rows \subseteq 1 .. minted /\ delivered \subseteq 1 .. minted
      /\ req \in [Procs -> Request]
  BY SessionTypes
<1>1. /\ rows' = rows \cup N /\ delivered' \subseteq delivered \cup N
      /\ req' = [req EXCEPT ![p] = Idle]
  BY DEF IssueTokens, NextToken
<1>2. ASSUME NEW q \in Procs
      PROVE  \/ q = p /\ req'[q] = Idle
             \/ /\ req'[q] = req[q] /\ req[q].new \notin N
                /\ req[q].new # 0 => token'[req[q].new].ended = "stored"
  <2>1. Chain(q) /\ req[q].new \in 0 .. minted
    BY RequestFacts DEF RotationInv
  <2>2. req[q].new # 0 => token'[req[q].new] = token[req[q].new]
    BY <2>1, MintLineage
  <2> QED
    BY <1>0, <1>1, <2>1, <2>2 DEF Chain
<1>3. \A s \in N : Parent(s)' = 0
  <2>1. token'[minted + 1] = Minted(p)
    BY MintLineage
  <2>2. Minted(p).via = "login"
    BY DEF Minted
  <2> QED
    BY <2>1, <2>2 DEF Parent
<1>4. Isolation = "serial" => \A q \in Others(p) : ~InTx(q)
  BY MintLineage DEF WriterFree
<1>5. Stores(p, N)
  <2>1. 0 \notin N /\ N \cap delivered = {} /\ minted <= minted'
    BY <1>0, MintLineage
  <2>2. \A t \in 1 .. minted : token'[t] = token[t]
    BY MintLineage
  <2>3. req'[p] = Idle
    BY <1>0, <1>1
  <2> QED
    BY <1>1, <1>2, <1>3, <1>4, <2>1, <2>2, <2>3, MintLineage DEF Stores
<1> QED
  BY <1>5, StoresKeep

\* Inside a transaction the token is inserted and waits for the commit.
LEMMA IssueInTxRotation ==
    ASSUME SessionInv, RotationInv, Shape', NEW p \in Procs, IssueTokens(p),
           req[p].op # "login"
    PROVE  RotationInv'
<1>0. /\ minted \in Nat /\ rows \subseteq 1 .. minted /\ delivered \subseteq 1 .. minted
      /\ req \in [Procs -> Request] /\ req[p] \in Request /\ InTx(p)
      /\ minted' = minted + 1 /\ forked' = forked /\ user' = user
      /\ \A q \in Procs : req[q].new \in 0 .. minted /\ Chain(q) /\ Locks(q)
                         /\ Complete(q) /\ Succeeded(q)
  BY SessionTypes, MintLineage, RequestFacts DEF InTx, RotationInv
<1>1. /\ rows' = rows /\ delivered' = delivered
      /\ req' = [req EXCEPT ![p].new = minted + 1, ![p].pc = "commit"]
  BY DEF IssueTokens, NextToken
<1>2. /\ req'[p].new = minted + 1 /\ req'[p].pc = "commit" /\ req'[p].op = req[p].op
      /\ req'[p].tok = req[p].tok /\ req'[p].del = req[p].del
      /\ req'[p].tgt = req[p].tgt /\ req'[p].uid = req[p].uid
      /\ \A q \in Others(p) : q \in Procs /\ req'[q] = req[q]
  BY <1>0, <1>1 DEF Request, Others
<1>3. /\ token'[minted + 1] = Minted(p) /\ req[p].pc = "issue"
      /\ \A t \in 1 .. minted : token'[t] = token[t]
  BY MintLineage
<1>4. \A t \in rows : token'[t] = token[t] /\ Parent(t)' = Parent(t)
  BY <1>0, <1>3 DEF Parent
<1>5. Chain(p)'
  <2>1. /\ token'[minted + 1].from = req[p].tok /\ token'[minted + 1].via = req[p].op
        /\ token'[minted + 1].ended = "stored"
    BY <1>3 DEF Minted
  <2>2. minted + 1 \notin rows \cup delivered
    BY <1>0
  <2>3. req[p].del \cup req[p].tgt \subseteq 1 .. (minted + 1) /\ minted + 1 # 0
    BY <1>0 DEF Chain
  <2> QED
    BY <1>0, <1>1, <1>2, <1>3, <2>1, <2>2, <2>3 DEF Chain
<1>6. ASSUME NEW q \in Others(p) PROVE Chain(q)'
  <2>0. q \in Procs /\ req'[q] = req[q] /\ Chain(q) /\ req[q].new \in 0 .. minted
    BY <1>0, <1>2
  <2>1. req[q].new # 0 => token'[req[q].new] = token[req[q].new]
    BY <1>0, <1>2, <1>3
  <2>2. req[q].del \cup req[q].tgt \subseteq 1 .. (minted + 1)
    BY <1>0, <1>2 DEF Chain
  <2> QED
    BY <1>0, <1>1, <2>0, <2>1, <2>2 DEF Chain
<1>7. ASSUME NEW q \in Procs PROVE Locks(q)' /\ Complete(q)' /\ Succeeded(q)'
  <2>1. /\ req'[q].op = req[q].op /\ req'[q].uid = req[q].uid /\ req'[q].tok = req[q].tok
        /\ req'[q].del = req[q].del /\ req'[q].tgt = req[q].tgt
        /\ \/ req'[q].pc = req[q].pc
           \/ req'[q].pc = "commit" /\ req[q].pc = "issue"
    BY <1>2, <1>3 DEF Others
  <2>2. \A t \in req[q].del \cup req[q].tgt : token'[t].owner = token[t].owner
    BY <1>0, <1>3 DEF Chain
  <2>3. Locks(q)'
    BY <1>0, <2>1, <2>2 DEF Locks
  <2>4. Complete(q)'
    BY <1>0, <1>1, <1>4, <2>1 DEF Complete, Revoking, RowsOf
  <2>5. Succeeded(q)'
    BY <1>0, <1>1, <1>4, <2>1 DEF Succeeded, Rotating
  <2> QED
    BY <2>3, <2>4, <2>5
<1>8. ASSUME NEW a \in Procs, NEW b \in Procs PROVE Unlisted(a, b)'
  <2>1. req'[a].del = req[a].del /\ req'[a].tgt = req[a].tgt
    BY <1>2 DEF Others
  <2>2. CASE b = p
    <3>1. minted + 1 \notin req[a].del \cup req[a].tgt
      BY <1>0 DEF Chain
    <3> QED
      BY <1>2, <2>1, <2>2, <3>1 DEF Unlisted
  <2>3. CASE b # p
    <3>1. req'[b] = req[b] /\ Unlisted(a, b)
      BY <1>2, <2>3 DEF RotationInv, Others
    <3> QED
      BY <2>1, <3>1 DEF Unlisted
  <2> QED
    BY <2>2, <2>3
<1>9. ASSUME NEW a \in Procs, NEW b \in Others(a) PROVE Disjoint(a, b)'
  <2>0. /\ b \in Procs /\ a # b /\ Disjoint(a, b)
        /\ req[a].new \in 0 .. minted /\ req[b].new \in 0 .. minted
    BY <1>0 DEF RotationInv, Others
  <2>1. req'[a].new # 0 => req'[a].new # req'[b].new
    BY <1>0, <1>2, <2>0 DEF Disjoint, Others
  <2>2. ASSUME NEW c \in Procs, NEW x
        PROVE  (Rotating(c, x)' <=> Rotating(c, x)) /\ (InTx(c)' <=> InTx(c))
    <3>1. CASE c = p
      BY <1>0, <1>2, <1>3, <3>1 DEF Rotating, InTx
    <3>2. CASE c # p
      BY <1>2, <3>2 DEF Rotating, InTx, Others
    <3> QED
      BY <3>1, <3>2
  <2>3. req'[a].tok = req[a].tok
    BY <1>2 DEF Others
  <2> QED
    BY <1>0, <2>0, <2>1, <2>2, <2>3 DEF Disjoint
<1>10. RotatedAway' /\ SiblingsOnlyIfForked'
  BY <1>0, <1>1, <1>4 DEF RotationInv, RotatedAway, SiblingsOnlyIfForked
<1> QED
  <2>1. \A q \in Procs : Chain(q)'
    BY <1>5, <1>6 DEF Others
  <2> QED
    BY <1>7, <1>8, <1>9, <1>10, <2>1, MintLineage DEF RotationInv, Others

\* The commit stores the token, of which only its own request knew.
LEMMA CommitRotation ==
    ASSUME SessionInv, RotationInv, Shape', NEW p \in Procs, Commit(p)
    PROVE  RotationInv'
<1> DEFINE N == New(p)
<1>0. /\ minted \in Nat /\ rows \subseteq 1 .. minted /\ delivered \subseteq 1 .. minted
      /\ token \in [Tokens -> TokenRow] /\ 1 .. minted \subseteq Tokens
      /\ Chain(p) /\ req[p].new \in 0 .. minted /\ req[p].pc = "commit" /\ InTx(p)
      /\ minted' = minted /\ forked' = forked /\ Writes(p) /\ KnownRequest(p)
      /\ user \in [Ids -> UserRow]
  BY SessionTypes, RotationFacts, RequestFacts DEF Commit, InTx, history
<1>1. /\ rows' = (rows \ req[p].del) \cup N
      /\ delivered \subseteq delivered' /\ delivered' \subseteq delivered \cup N
      /\ req'[p] = Idle /\ \A q \in Others(p) : q \in Procs /\ req'[q] = req[q]
  BY SessionTypes DEF Commit, Others
<1>2. \A t \in Tokens : /\ token'[t].owner = token[t].owner
                        /\ token'[t].from = token[t].from
                        /\ token'[t].via = token[t].via
                        /\ t \notin req[p].del => token'[t] = token[t]
  BY <1>0 DEF Commit, TokenRow
<1>3. 0 \notin N /\ N \cap delivered = {} /\ (\A s, t \in N : s = t)
  BY <1>0 DEF New, Chain
<1>4. ASSUME NEW q \in Others(p)
      PROVE  /\ req[q].new \notin N
             /\ req[q].new # 0 => token'[req[q].new].ended = "stored"
  <2>1. q \in Procs /\ Disjoint(p, q) /\ Unlisted(p, q) /\ Chain(q)
        /\ req[q].new \in 0 .. minted
    BY <1>1, RequestFacts DEF RotationInv
  <2>2. req[q].new \notin N
    BY <2>1 DEF New, Disjoint
  <2>3. req[q].new # 0 => token'[req[q].new] = token[req[q].new]
    BY <1>0, <1>2, <2>1 DEF Unlisted
  <2> QED
    BY <2>1, <2>2, <2>3 DEF Chain
<1>5. Isolation = "serial" => \A q \in Others(p) : ~InTx(q)
  BY <1>0 DEF RotationInv, Disjoint
<1>6. ASSUME NEW s \in N
      PROVE  \/ Parent(s)' = 0
             \/ Rotating(p, Parent(s)') /\ Parent(s)' \notin rows'
  <2>1. /\ s = req[p].new /\ s # 0 /\ s \in Tokens
        /\ token'[s].from = req[p].tok /\ token'[s].via = req[p].op
    <3>1. s = req[p].new /\ s # 0
      BY DEF New
    <3> QED
      BY <1>0, <1>2, <3>1 DEF Chain
  <2>2. CASE req[p].op # "refresh"
    BY <2>1, <2>2 DEF Parent
  <2>3. CASE req[p].op = "refresh"
    <3>1. Parent(s)' = req[p].tok /\ Rotating(p, req[p].tok)
      BY <1>0, <2>1, <2>3 DEF Parent, Rotating
    <3>2. req[p].tok \in delivered /\ {req[p].tok} \cap rows \subseteq req[p].del
      BY <1>0, <2>3 DEF Chain, KnownRequest
    <3> QED
      BY <1>1, <1>3, <3>1, <3>2
  <2> QED
    BY <2>2, <2>3
<1>7. Lineage'
  <2>1. \A t \in Tokens : t > minted => t \notin req[p].del
    BY <1>0, TokensAreNumbers DEF Chain
  <2>2. \A t \in Tokens : t > minted => token'[t].ended = "stored"
    BY <1>2, <2>1 DEF RotationInv, Lineage
  <2>3. \A t \in 1 .. minted : token'[t].from \in {0} \cup delivered'
    BY <1>0, <1>1, <1>2 DEF RotationInv, Lineage
  <2> QED
    BY <1>0, <2>2, <2>3 DEF Lineage
<1>8. Unborn'
  <2> SUFFICES ASSUME NEW u \in Ids, user'[u].status = "absent" PROVE user'[u].ver = 0
    BY DEF Unborn
  <2>1. CASE user'[u] = user[u]
    BY <2>1 DEF RotationInv, Unborn
  <2>2. CASE user'[u] # user[u]
    <3>1. u = req[p].uid /\ req[p].hit /\ user'[u] = Written(p)
      BY <2>2, CommitEffect
    <3>2. Written(p).status # "absent"
      <4>1. CASE req[p].op = "register"
        BY <4>1 DEF Written
      <4>2. CASE req[p].op = "changePassword"
        <5>1. Written(p) = [user[req[p].uid] EXCEPT !.ver = req[p].ver]
          BY <4>2 DEF Written
        <5>2. user[u] \in UserRow /\ user[u].status = "live"
          BY <1>0, <3>1, <4>2 DEF Writes, Live
        <5> QED
          BY <3>1, <5>1, <5>2 DEF UserRow
      <4>3. CASE req[p].op = "deleteAccount"
        <5>1. Written(p) = [user[req[p].uid] EXCEPT !.status = "deleted"]
          BY <4>3 DEF Written
        <5>2. user[u] \in UserRow
          BY <1>0
        <5> QED
          BY <3>1, <5>1, <5>2 DEF UserRow
      <4> QED
        BY <1>0, <3>1, <4>1, <4>2, <4>3 DEF Writes
    <3> QED
      BY <3>1, <3>2
  <2> QED
    BY <2>1, <2>2
<1>9. Stores(p, N)
  <2>1. \A t \in 1 .. minted : /\ token'[t].owner = token[t].owner
                               /\ token'[t].from = token[t].from
                               /\ token'[t].via = token[t].via
    BY <1>0, <1>2
  <2>2. \A q \in Procs :
            \/ q = p /\ req'[q] = Idle
            \/ /\ req'[q] = req[q] /\ req[q].new \notin N
               /\ req[q].new # 0 => token'[req[q].new].ended = "stored"
    BY <1>1, <1>4 DEF Others
  <2>3. rows' \subseteq rows \cup N /\ minted <= minted'
    BY <1>0, <1>1
  <2> HIDE DEF N
  <2> QED
    BY <1>0, <1>1, <1>3, <1>5, <1>6, <1>7, <1>8, <2>1, <2>2, <2>3 DEF Stores
<1> QED
  BY <1>9, StoresKeep

---------------------------------------------------------------------------
(* The invariant holds *)

\* The service boots without requests, on tokens that began a session.
LEMMA InitRotation == Init => RotationInv
<1> SUFFICES ASSUME Init PROVE RotationInv
  OBVIOUS
<1>1. /\ req = [p \in Procs |-> Idle] /\ minted \in {0, 1} /\ delivered = 1 .. minted
      /\ rows = 1 .. minted
  BY DEF Init, InitWith
<1>2. /\ Idle.new = 0 /\ Idle.tok = 0 /\ Idle.del = {} /\ Idle.tgt = {}
      /\ Idle.op = "none" /\ Idle.pc = "idle"
  BY DEF Idle
<1>3. ASSUME NEW p \in Procs
      PROVE  Chain(p) /\ Locks(p) /\ Complete(p) /\ Succeeded(p)
  BY <1>1, <1>2 DEF Chain, Locks, Complete, Succeeded, Revoking, Rotating, Revokers
<1>4. ASSUME NEW p \in Procs, NEW q \in Procs PROVE Unlisted(p, q) /\ Disjoint(p, q)
  BY <1>1, <1>2 DEF Unlisted, Disjoint, Rotating, InTx
<1>5. \A t \in Tokens : /\ token[t].from = 0 /\ token[t].ended = "stored"
                        /\ token[t].via # "refresh"
  <2>1. CASE token = [t \in Tokens |-> NoToken]
    BY <2>1 DEF NoToken
  <2>2. ASSUME NEW u \in Ids,
               token = [[t \in Tokens |-> NoToken] EXCEPT
                            ![1] = [NoToken EXCEPT !.owner = u, !.via = "login"]]
        PROVE  \A t \in Tokens : /\ token[t].from = 0 /\ token[t].ended = "stored"
                                 /\ token[t].via # "refresh"
    BY <2>2 DEF NoToken
  <2> QED
    BY <2>1, <2>2 DEF Init
<1>6. 1 .. minted \subseteq Tokens
  BY <1>1, TokensAreNumbers
<1>7. Lineage
  BY <1>5, <1>6 DEF Lineage
<1>8. \A t \in rows : Parent(t) = 0
  BY <1>1, <1>5, <1>6 DEF Parent
<1>9. RotatedAway /\ SiblingsOnlyIfForked
  BY <1>1, <1>8 DEF RotatedAway, SiblingsOnlyIfForked
<1>10. Unborn
  <2>1. CASE user = [u \in Ids |-> NoUser]
    BY <2>1 DEF NoUser, Unborn
  <2>2. ASSUME NEW u \in Ids, NEW e \in Emails,
               user = [[v \in Ids |-> NoUser] EXCEPT
                            ![u] = [status |-> "live", email |-> e, ver |-> 0]]
        PROVE  Unborn
    BY <2>2 DEF NoUser, Unborn
  <2> QED
    BY <2>1, <2>2 DEF Init
<1> QED
  BY <1>3, <1>4, <1>7, <1>9, <1>10 DEF RotationInv, Others

\* Every step keeps it.
LEMMA NextRotation == SessionInv /\ RotationInv /\ [Next]_vars => RotationInv'
<1> SUFFICES ASSUME SessionInv, RotationInv, [Next]_vars PROVE RotationInv'
  OBVIOUS
<1>0. Shape'
  BY NextShape DEF SessionInv
<1>1. ASSUME NEW p \in Procs, Start(p) \/ Abort(p) PROVE RotationInv'
  BY <1>1, StartRotation, AnswerRotation DEF Abort
<1>2. ASSUME NEW p \in Procs, Step(p) PROVE RotationInv'
  <2>1. CASE RegisterFind(p) \/ CreateUser(p) \/ LoginFind(p) \/ RefreshFind(p)
    BY <2>1, RegisterRotation, LoginRotation, RefreshFindRotation
  <2>2. CASE DropExpired(p) \/ DeleteByTokenHash(p)
    BY <1>0, <2>2, ExpiryRotation, DeleteByTokenHashRotation
  <2>3. CASE \/ ChangePasswordFind(p) \/ UpdatePassword(p)
             \/ DeleteAccountFind(p) \/ SoftDelete(p)
    BY <2>3, UserRowRotation
  <2>4. CASE RevokeRefreshTokens(p) \/ RevokeRow(p) \/ Revoked(p)
    BY <1>0, <2>4, RevokeRotation, RevokeRowRotation, RevokedRotation
  <2>5. CASE IssueTokens(p) \/ Commit(p)
    BY <1>0, <2>5, LoginIssueRotation, IssueInTxRotation, CommitRotation
  <2> QED
    BY <1>2, <2>1, <2>2, <2>3, <2>4, <2>5 DEF Step
<1>3. CASE PurgeExpiredRefreshTokens
  BY <1>0, <1>3, ExpiryRotation
<1>4. CASE UNCHANGED <<user, rows, token, minted, delivered, req, forked>>
  <2>1. /\ user' = user /\ rows' = rows /\ token' = token /\ minted' = minted
        /\ delivered' = delivered /\ req' = req /\ forked' = forked
    BY <1>4
  <2>2. \A p \in Procs : Chain(p)' /\ Locks(p)' /\ Complete(p)' /\ Succeeded(p)'
    BY <2>1 DEF RotationInv, Chain, Locks, Complete, Succeeded, Revoking, Rotating,
       RowsOf, Parent
  <2>3. \A p, q \in Procs : Unlisted(p, q)' /\ (q \in Others(p) => Disjoint(p, q)')
    BY <2>1 DEF RotationInv, Unlisted, Disjoint, Rotating, InTx
  <2>4. Lineage' /\ Unborn' /\ RotatedAway' /\ SiblingsOnlyIfForked'
    BY <2>1 DEF RotationInv, Lineage, Unborn, RotatedAway, SiblingsOnlyIfForked, Parent
  <2> QED
    BY <2>2, <2>3, <2>4 DEF RotationInv, Others
<1> QED
  BY <1>1, <1>2, <1>3, <1>4 DEF Next, JwtExpires, RowExpires, vars, db, history

\* RotationInv holds in every reachable state.
LEMMA RotationInvariant == Spec => []RotationInv
  BY InitRotation, NextRotation, SessionInvariant, PTL DEF Spec

---------------------------------------------------------------------------
(* The theorems *)

\* However many requests are in flight and whatever rolls back in between:
\* once the successor of a token is stored, the token itself has no row
\* (refresh.service.go 57-76).
THEOREM RotatedIsGone == Spec => []RotatedAway
  BY RotationInvariant, PTL DEF RotationInv

\* A token gets two stored successors only through two refreshes that had both
\* found its row before either committed, the window refresh.service.go 38-61
\* leaves between its look-up and its transaction.
THEOREM ForksAreSimultaneous == Spec => []SiblingsOnlyIfForked
  BY RotationInvariant, PTL DEF RotationInv

\* A step that stores a token is a login's insert or a commit.
LEMMA RowsAppear ==
    ASSUME SessionInv, [Next]_vars, NEW t \in rows' \ rows
    PROVE  \/ \E p \in Procs : IssueTokens(p) /\ req[p].op = "login" /\ t = minted + 1
           \/ \E p \in Procs : Commit(p) /\ t \in New(p)
<1>1. ASSUME NEW p \in Procs, Start(p) \/ Abort(p) PROVE rows' = rows
  BY <1>1 DEF Start, StartRegister, StartLogin, StartRefresh, StartChangePassword,
     StartDeleteAccount, StartLogout, Begin, Abort, Answer, db
<1>2. ASSUME NEW p \in Procs, Step(p), ~IssueTokens(p), ~Commit(p)
      PROVE  rows' \subseteq rows
  BY <1>2 DEF Step, RegisterFind, CreateUser, LoginFind, RefreshFind, DropExpired,
     DeleteByTokenHash, ChangePasswordFind, UpdatePassword, DeleteAccountFind,
     SoftDelete, RevokeRefreshTokens, RevokeRow, Revoked, Answer, Goto, Remove, db
<1>3. ASSUME NEW p \in Procs, IssueTokens(p)
      PROVE  req[p].op = "login" /\ t = minted + 1
  BY <1>3 DEF IssueTokens, NextToken
<1>4. ASSUME NEW p \in Procs, Commit(p) PROVE t \in New(p)
  BY <1>4 DEF Commit
<1>5. CASE PurgeExpiredRefreshTokens \/ JwtExpires \/ RowExpires \/ UNCHANGED vars
  BY <1>5 DEF PurgeExpiredRefreshTokens, JwtExpires, RowExpires, Remove, vars, db
<1> QED
  BY <1>1, <1>2, <1>3, <1>4, <1>5 DEF Next

\* No sequence of commits, roll-backs and sweeps ever stores a token again that
\* was rotated, revoked or swept: rows appear for tokens that never had one
\* (generate_refresh_token.service.go 17-32, store_refresh_token.service.go 22-40).
THEOREM NothingComesBack == Spec => NoResurrection
<1>1. SessionInv /\ RotationInv /\ [Next]_vars
        => \A t \in rows' \ rows : token[t].ended = "stored"
  <2> SUFFICES ASSUME SessionInv, RotationInv, [Next]_vars, NEW t \in rows' \ rows
               PROVE  token[t].ended = "stored"
    OBVIOUS
  <2>0. Shape'
    BY NextShape DEF SessionInv
  <2>1. ASSUME NEW p \in Procs, IssueTokens(p), t = minted + 1
        PROVE  token[t].ended = "stored"
    <3>1. minted \in Nat /\ minted + 1 \in Tokens
      BY <2>0, <2>1, MintLineage
    <3>2. t \in Tokens /\ t > minted
      BY <2>1, <3>1
    <3> QED
      BY <3>2 DEF RotationInv, Lineage
  <2>2. ASSUME NEW p \in Procs, t \in New(p) PROVE token[t].ended = "stored"
    BY <2>2, RotationFacts DEF New, Chain
  <2> QED
    BY <2>1, <2>2, RowsAppear
<1> QED
  BY <1>1, SessionInvariant, RotationInvariant, PTL DEF Spec, NoResurrection

\* Only a commit changes an account.
LEMMA AccountsChange ==
    ASSUME [Next]_vars, user' # user
    PROVE  \E p \in Procs : Commit(p)
<1>1. ASSUME NEW p \in Procs, Start(p) \/ Step(p) \/ Abort(p) PROVE Commit(p)
  BY <1>1, StepAddresses
<1>2. ~(PurgeExpiredRefreshTokens \/ JwtExpires \/ RowExpires \/ UNCHANGED vars)
  BY DEF PurgeExpiredRefreshTokens, JwtExpires, RowExpires, vars, db
<1> QED
  BY <1>1, <1>2 DEF Next

\* An account appears together with its first session: no roll-back, crash or
\* concurrent registration leaves an address that is taken and cannot sign in
\* (register.service.go 55-75).
THEOREM BornWithSession == Spec => AccountBornWithSession
<1> DEFINE Born == \A u \in Ids :
                       user[u].status = "absent" /\ user'[u].status = "live"
                           => \E t \in rows' : token'[t].owner = u
<1>1. SessionInv /\ RotationInv /\ [Next]_vars => Born
  <2> SUFFICES ASSUME SessionInv, RotationInv, [Next]_vars, NEW u \in Ids,
                      user[u].status = "absent", user'[u].status = "live"
               PROVE  \E t \in rows' : token'[t].owner = u
    OBVIOUS
  <2>0. Shape'
    BY NextShape DEF SessionInv
  <2>1. PICK p \in Procs : Commit(p)
    BY AccountsChange
  <2>2. u = req[p].uid /\ req[p].hit /\ req[p].pc = "commit"
        /\ \A t \in New(p) : t \in rows' /\ token'[t].owner = u
    BY <2>0, <2>1, CommitEffect
  <2>3. req[p].op = "register"
    BY <2>2, RotationFacts DEF Writes, Live
  <2>4. req[p].new \in New(p)
    BY <2>2, <2>3, RotationFacts DEF Chain, New
  <2> QED
    BY <2>2, <2>4
<1> QED
  BY <1>1, SessionInvariant, RotationInvariant, PTL DEF Spec, AccountBornWithSession

\* Whoever waits is at a statement that writes a row; a rotation or a
\* registration that waits holds nothing yet.
LEMMA Waiting ==
    ASSUME SessionInv, RotationInv, NEW p \in Procs, NEW q \in WaitsFor(p)
    PROVE  /\ q \in Others(p)
           /\ \/ /\ req[p].op \in Revokers /\ req[q].hit
                 /\ req[q].uid = req[p].uid
              \/ /\ req[p].op \in Revokers
                 /\ \E t \in req[p].tgt : t \in req[q].del
              \/ /\ req[p].op = "refresh" /\ req[p].del = {} /\ ~req[p].hit
              \/ /\ req[p].op = "register" /\ req[p].del = {} /\ ~req[p].hit
                 /\ req[q].hit
<1>0. /\ InFlow(req[p]) /\ req[p] \in Request /\ Locks(p) /\ Writes(p)
  BY RotationFacts
<1>1. CASE req[p].pc \in {"update", "softdelete"}
  <2>1. q \in {a \in Others(p) : req[a].hit /\ req[a].uid = req[p].uid}
    BY <1>1 DEF WaitsFor
  <2>2. req[p].op \in Revokers
    BY <1>0, <1>1 DEF InFlow, Request, Ops, Idle, Revokers
  <2> QED
    BY <2>1, <2>2
<1>2. CASE req[p].pc \in {"drop", "delete"}
  <2>1. q \in Others(p)
    BY <1>2 DEF WaitsFor
  <2>2. req[p].op = "refresh"
    BY <1>0, <1>2 DEF InFlow, Request, Ops, Idle
  <2>3. req[p].del = {} /\ ~req[p].hit
    BY <1>0, <1>2, <2>2 DEF Locks, Writes
  <2> QED
    BY <2>1, <2>2, <2>3
<1>3. CASE req[p].pc = "revoking"
  <2> DEFINE holds(t) == {a \in Others(p) : t \in req[a].del}
  <2>1. q \in UNION {holds(t) : t \in req[p].tgt}
    BY <1>3 DEF WaitsFor
  <2>2. PICK t \in req[p].tgt : q \in Others(p) /\ t \in req[q].del
    BY <2>1
  <2> QED
    BY <1>3, <2>2, RevokersOnly
<1>4. CASE req[p].pc = "insert"
  <2>1. q \in Others(p) /\ req[q].hit
    BY <1>4 DEF WaitsFor
  <2>2. req[p].op = "register"
    BY <1>0, <1>4 DEF InFlow, Request, Ops, Idle
  <2>3. req[p].del = {} /\ ~req[p].hit
    BY <1>0, <1>4, <2>2 DEF InFlow, Writes
  <2> QED
    BY <2>1, <2>2, <2>3
<1>5. CASE req[p].pc \notin {"insert", "update", "softdelete", "drop", "delete",
                            "revoking"}
  BY <1>5 DEF WaitsFor
<1> QED
  BY <1>1, <1>2, <1>3, <1>4, <1>5

\* However many requests wait for each other, they all end sessions, and each
\* waits for one of its own account: no deadlock involves a rotation, a login
\* or a registration, or reaches from one account to another
\* (change_password.service.go 69-91, delete_account.service.go 41-53).
THEOREM DeadlocksAreRevocations == Spec => []DeadlockOnlyAmongRevokers
<1>1. SessionInv /\ RotationInv => DeadlockOnlyAmongRevokers
  <2> SUFFICES ASSUME SessionInv, RotationInv, NEW D \in SUBSET Procs,
                      \A p \in D : /\ WaitsFor(p) \cap D # {}
                                   /\ \E q \in D : p \in WaitsFor(q),
                      NEW p \in D
               PROVE  /\ req[p].op \in Revokers
                      /\ \A q \in D \cap WaitsFor(p) : req[p].uid = req[q].uid
    BY DEF DeadlockOnlyAmongRevokers, Revokers
  <2>1. ASSUME NEW a \in D PROVE req[a].op \in Revokers
    <3>1. PICK b \in D : a \in WaitsFor(b)
      BY <2>1
    <3>2. a \in Procs /\ b \in Procs
      OBVIOUS
    <3>3. PICK c \in WaitsFor(a) : c \in D
      BY <2>1
    <3>4. req[a].hit \/ req[a].del # {} \/ req[b].op = "refresh"
      BY <3>1, <3>2, Waiting
    <3>5. CASE req[b].op = "refresh"
      <4>1. req[b].pc \in {"drop", "delete"} /\ req[b].tgt = {}
        <5>1. InFlow(req[b]) /\ Pending(b)
          BY <3>2, RotationFacts
        <5>2. req[b].pc \in {"find", "drop", "delete", "issue", "commit"}
          BY <3>5, <5>1 DEF InFlow
        <5> QED
          BY <3>1, <5>1, <5>2 DEF WaitsFor, Pending
      <4>2. req[b].tok \in req[a].del
        BY <3>1, <4>1 DEF WaitsFor
      <4> QED
        BY <3>2, <3>3, <4>2, Waiting
    <3> QED
      BY <3>2, <3>3, <3>4, <3>5, Waiting
  <2>2. ASSUME NEW q \in D \cap WaitsFor(p) PROVE req[p].uid = req[q].uid
    <3>0. p \in Procs /\ q \in Procs /\ req[p].op \in Revokers /\ req[q].op \in Revokers
      BY <2>1
    <3>1. CASE req[q].uid = req[p].uid
      BY <3>1
    <3>2. CASE \E t \in req[p].tgt : t \in req[q].del
      BY <3>0, <3>2, RotationFacts DEF Locks
    <3> QED
      BY <3>0, <3>1, <3>2, Waiting DEF Revokers
  <2> QED
    BY <2>1, <2>2
<1> QED
  BY <1>1, SessionInvariant, RotationInvariant, PTL

\* The commit of a password change, or of a deletion, when the list of its
\* sessions is complete.
LEMMA CommitRevokes ==
    ASSUME SessionInv, RotationInv, Shape', NEW p \in Procs, Commit(p),
           Isolation = "serial", req[p].op \in {"changePassword", "deleteAccount"}
    PROVE  {t \in rows' : token'[t].owner = req[p].uid} = New(p)
<1>1. /\ req[p].pc = "commit" /\ rows' = (rows \ req[p].del) \cup New(p)
      /\ \A t \in Tokens : token'[t].owner = token[t].owner
      /\ \A t \in New(p) : token'[t].owner = req[p].uid
  BY CommitEffect
<1>2. RowsOf(req[p].uid) \subseteq req[p].del
  <2>1. Complete(p) /\ Pending(p)
    BY RotationFacts
  <2>2. Revoking(p, req[p].op, req[p].uid)
    BY <1>1 DEF Revoking
  <2> QED
    BY <1>1, <2>1, <2>2 DEF Complete, Pending
<1>3. rows \subseteq Tokens
  BY SessionTypes
<1> QED
  BY <1>1, <1>2, <1>3 DEF RowsOf

\* Where one transaction writes at a time (sqlite), the commit of a password
\* change leaves exactly the session it issued, and that of DeleteAccount none,
\* for any number of requests (change_password.service.go 22-27,
\* delete_account.service.go 42-44).
THEOREM OneWriterRevokesAll == (Isolation = "serial") => (Spec => RevocationIsComplete)
<1> SUFFICES ASSUME Isolation = "serial" PROVE Spec => RevocationIsComplete
  OBVIOUS
<1> DEFINE Sessions(u) == {t \in rows' : token'[t].owner = u}
           Ended == \A u \in Ids :
                /\ user'[u].ver # user[u].ver => Cardinality(Sessions(u)) = 1
                /\ user[u].status = "live" /\ user'[u].status = "deleted"
                        => Sessions(u) = {}
<1>1. SessionInv /\ RotationInv /\ [Next]_vars => Ended
  <2> SUFFICES ASSUME SessionInv, RotationInv, [Next]_vars, NEW u \in Ids,
                      \/ user'[u].ver # user[u].ver
                      \/ user[u].status = "live" /\ user'[u].status = "deleted"
               PROVE  /\ user'[u].ver # user[u].ver => Cardinality(Sessions(u)) = 1
                      /\ user[u].status = "live" /\ user'[u].status = "deleted"
                            => Sessions(u) = {}
    OBVIOUS
  <2>0. Shape' /\ user \in [Ids -> UserRow]
    BY NextShape, SessionTypes DEF SessionInv
  <2>1. PICK p \in Procs : Commit(p)
    BY AccountsChange
  <2>2. u = req[p].uid /\ req[p].hit /\ req[p].pc = "commit" /\ user'[u] = Written(p)
        /\ user[u] \in UserRow
    BY <2>0, <2>1, CommitEffect
  <2>3. CASE req[p].op = "register"
    <3>1. user[u].ver = 0
      BY <2>2, <2>3, RotationFacts DEF KnownRequest, RotationInv, Unborn
    <3>2. user'[u].ver = 0 /\ user'[u].status = "live"
      BY <2>2, <2>3 DEF Written
    <3> QED
      BY <3>1, <3>2
  <2>4. CASE req[p].op = "changePassword"
    <3>1. user'[u].status = user[u].status
      <4>1. Written(p) = [user[u] EXCEPT !.ver = req[p].ver]
        BY <2>2, <2>4 DEF Written
      <4> QED
        BY <2>2, <4>1 DEF UserRow
    <3>2. Sessions(u) = {req[p].new}
      <4>1. Sessions(u) = New(p)
        BY <2>0, <2>1, <2>2, <2>4, CommitRevokes
      <4>2. req[p].new # 0
        BY <2>2, <2>4, RotationFacts DEF Chain
      <4> QED
        BY <4>1, <4>2 DEF New
    <3>3. Cardinality({req[p].new}) = 1
      BY FS_Singleton
    <3> QED
      BY <3>1, <3>2, <3>3
  <2>5. CASE req[p].op = "deleteAccount"
    <3>1. user'[u].ver = user[u].ver
      <4>1. Written(p) = [user[u] EXCEPT !.status = "deleted"]
        BY <2>2, <2>5 DEF Written
      <4> QED
        BY <2>2, <4>1 DEF UserRow
    <3>2. Sessions(u) = {}
      <4>1. Sessions(u) = New(p)
        BY <2>0, <2>1, <2>2, <2>5, CommitRevokes
      <4>2. New(p) = {}
        BY <2>5, RotationFacts DEF New, Pending
      <4> QED
        BY <4>1, <4>2
    <3> QED
      BY <3>1, <3>2
  <2> QED
    BY <2>2, <2>3, <2>4, <2>5, RotationFacts DEF Writes
<1> QED
  BY <1>1, SessionInvariant, RotationInvariant, PTL DEF Spec, RevocationIsComplete
============================================================================
