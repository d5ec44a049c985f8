---------------------------- MODULE Accounts_proofs ----------------------------
(***************************************************************************)
(* Machine-checked proofs about Accounts, for any number of requests,      *)
(* tokens and passwords.                                                   *)
(***************************************************************************)
EXTENDS Accounts, FiniteSetTheorems, TLAPS

USE AccountsAssumption

-----------------------------------------------------------------------------
(* What a request is doing tells what it knows.                            *)

LEMMA IdleIsARequest == Idle \in Request /\ Idle.op = "idle"
  BY DEF Idle, Request

LEMMA RequestKinds ==
  ASSUME NEW c \in Request
  PROVE  /\ c.op \in {"idle", "register", "login", "refresh", "logout",
                      "revoke", "profile", "password", "role"}
         /\ c.op = "register" => c \in Joining
         /\ c.op = "login" => c \in Entering
         /\ c.op = "refresh" => c \in Exchanging
         /\ c.op = "logout" => c \in Leaving
         /\ c.op = "revoke" => c \in Ending
         /\ c.op \in {"profile", "password"} => c \in Editing
         /\ c.op = "role" => c \in Promoting
  BY DEF Request, Idle, Joining, Entering, Exchanging, Leaving, Ending,
         Editing, Promoting

LEMMA StagesTell ==
  ASSUME TypeOK, NEW s \in Sessions
  PROVE  /\ At(s, "create") => call[s] \in Joining
         /\ At(s, "issue") => call[s] \in Entering \union Exchanging
         /\ At(s, "revoke") => call[s] \in Exchanging \union Leaving
         /\ At(s, "del") => call[s] \in Exchanging \union Leaving
         /\ At(s, "revoke_all") => call[s] \in Ending
         /\ At(s, "delete") => call[s] \in Ending
         /\ At(s, "save") <=> call[s].op \in {"profile", "password"}
         /\ At(s, "update") => call[s] \in Promoting
  <1>1. call[s] \in Request
    BY DEF TypeOK
  <1> QED
    BY <1>1, RequestKinds DEF At, Joining, Entering, Exchanging, Leaving,
       Ending, Editing, Promoting

\* A request keeps what it knows while tokens are issued.
LEMMA RequestGrows ==
  ASSUME NEW c \in Request, issued \in Nat, issued' \in Nat, issued <= issued'
  PROVE  c \in Request'
  <1>1. 1..issued \subseteq 1..issued'
    OBVIOUS
  <1> QED
    BY <1>1 DEF Request, Idle, Joining, Entering, Exchanging, Leaving, Ending,
       Editing, Promoting, Account, Roles

-----------------------------------------------------------------------------
(* The tokens' half of the invariant, and the account's.                   *)

TokenIInv == /\ RevokedIsOver /\ TokensDescend /\ NoneIsMissed /\ EndedIsLate
             /\ OneIsPast
AccountIInv == AccountStands /\ CopiesAgree

\* A request that begins, fails, or has only to do with the account.
LEMMA TokensAside ==
  ASSUME IInv, NEW s \in Sessions, NEW c \in Request,
         call' = [call EXCEPT ![s] = c], UNCHANGED tokenVars,
         c.op = "refresh" => c.stage = "revoke" /\ c.token \in good,
         c.op = "logout" => c.stage = "revoke",
         c.op = "revoke" => c.stage = "revoke_all"
  PROVE  TokenIInv'
  <1> USE RequestKinds DEF IInv, TypeOK, tokenVars
  <1>1. \A o \in Sessions : call'[o] = IF o = s THEN c ELSE call[o]
    OBVIOUS
  <1>2. RevokedIsOver' /\ TokensDescend'
    BY DEF RevokedIsOver, TokensDescend
  <1>3. ~At(s, "delete")' /\ \A o \in Sessions \ {s} : At(o, "delete")' <=> At(o, "delete")
    BY <1>1 DEF At, Joining, Entering, Exchanging, Leaving, Ending, Editing,
       Promoting
  <1>4. NoneIsMissed'
    BY <1>1, <1>3 DEF NoneIsMissed
  <1>5. EndedIsLate'
    BY <1>1 DEF EndedIsLate, RevokedIsOver
  <1>6. /\ \A t : ~Past(s, t)'
        /\ \A o \in Sessions \ {s} : \A t : Past(o, t)' <=> Past(o, t)
        /\ ~(At(s, "issue")' /\ call'[s].op = "refresh")
    BY <1>1 DEF Past, At
  <1>7. \A t \in Tokens \ shared :
          /\ \A p, o \in Sessions : Past(p, t)' /\ Past(o, t)' => p = o
          /\ heirs[t] # {} => \A p \in Sessions : ~Past(p, t)'
    BY <1>6 DEF OneIsPast
  <1>8. OneIsPast'
    BY <1>1, <1>6, <1>7 DEF OneIsPast, At
  <1> QED
    BY <1>2, <1>4, <1>5, <1>8 DEF TokenIInv

\* A request that leaves the row alone and begins no edit of it.
LEMMA AccountAside ==
  ASSUME IInv, UNCHANGED <<user, standing>>,
         \A o \in Sessions : call'[o].op \in {"profile", "password"} =>
                                call'[o] = call[o]
  PROVE  AccountIInv'
  BY DEF IInv, AccountIInv, AccountStands, CopiesAgree

LEMMA HalvesMake == TypeOK /\ TokenIInv /\ AccountIInv => IInv
  BY DEF TokenIInv, AccountIInv, IInv

LEMMA InitIInv == Init => IInv
  <1> SUFFICES ASSUME Init
               PROVE  IInv
    OBVIOUS
  <1> USE IdleIsARequest DEF Init
  <1>1. user \in Account
    <2>1. (CHOOSE p \in Passwords : TRUE) \in Passwords
      OBVIOUS
    <2> QED
      BY <2>1 DEF Account, Roles
  <1>2. 1..issued = {} /\ issued \in 0..NumTokens /\ calls \in 0..MaxCalls
    OBVIOUS
  <1>3. /\ root \in [Tokens -> Tokens] /\ heirs \in [Tokens -> SUBSET Tokens]
        /\ call \in [Sessions -> Request]
    OBVIOUS
  <1>4. TypeOK
    BY <1>1, <1>2, <1>3 DEF TypeOK
  <1>5. TokensDescend
    BY DEF TokensDescend, Tokens
  <1>6. RevokedIsOver /\ AccountStands /\ NoneIsMissed /\ EndedIsLate
    BY DEF RevokedIsOver, AccountStands, NoneIsMissed, EndedIsLate, At
  <1>7. OneIsPast /\ CopiesAgree
    BY DEF OneIsPast, CopiesAgree, Past, At
  <1> QED
    BY <1>4, <1>5, <1>6, <1>7 DEF IInv

-----------------------------------------------------------------------------
(* One lemma for each way a step can go.                                   *)

LEMMA BeginKeeps ==
  ASSUME IInv, NEW s \in Sessions, NEW c \in Request,
         call' = [call EXCEPT ![s] = c], calls' \in 0..MaxCalls,
         UNCHANGED <<user, tokenVars, standing>>,
         c.op = "refresh" => c.stage = "revoke" /\ c.token \in good,
         c.op = "logout" => c.stage = "revoke",
         c.op = "revoke" => c.stage = "revoke_all",
         c.op \in {"profile", "password"} =>
            /\ c.copy.life = "live" /\ user.life = "live"
            /\ c.copy.role = user.role
            /\ c.op = "profile" => c.copy = user
  PROVE  IInv'
  <1>1. TokenIInv'
    BY TokensAside
  <1>2. AccountIInv'
    BY DEF IInv, TypeOK, AccountIInv, AccountStands, CopiesAgree
  <1>3. TypeOK'
    BY DEF IInv, TypeOK, tokenVars, Request, Exchanging, Leaving, Ending
  <1> QED
    BY <1>1, <1>2, <1>3, HalvesMake, PTL

LEMMA CountedIsBounded ==
  ASSUME IInv, NEW s, NEW c, Start(s, c) \/ Step(s, c)
  PROVE  calls' \in 0..MaxCalls /\ call' = [call EXCEPT ![s] = c]
  BY DEF IInv, TypeOK, Start, Step

LEMMA IdleKeeps ==
  ASSUME IInv, NEW s \in Sessions, Finish(s), UNCHANGED <<user, tokenVars, standing>>
  PROVE  IInv'
  BY IdleIsARequest, CountedIsBounded, BeginKeeps DEF Finish

LEMMA RegisterKeeps ==
  ASSUME IInv, NEW s \in Sessions, Register(s)
  PROVE  IInv'
  <1>1. PICK p \in Passwords :
          Step(s, [op |-> "register", stage |-> "create", password |-> p])
    BY DEF Register
  <1>2. [op |-> "register", stage |-> "create", password |-> p] \in Request
    BY DEF Request, Joining
  <1> QED
    BY <1>1, <1>2, CountedIsBounded, BeginKeeps DEF Register

LEMMA LoginKeeps ==
  ASSUME IInv, NEW s \in Sessions, Login(s)
  PROVE  IInv'
  <1>1. [op |-> "login", stage |-> "issue", late |-> FALSE] \in Request
    BY DEF Request, Entering
  <1> QED
    BY <1>1, CountedIsBounded, BeginKeeps DEF Login

LEMMA RefreshKeeps ==
  ASSUME IInv, NEW s \in Sessions, Refresh(s)
  PROVE  IInv'
  <1>1. PICK t \in good : Start(s, [op |-> "refresh", stage |-> "revoke",
                                    token |-> t, late |-> FALSE])
    BY DEF Refresh
  <1>2. [op |-> "refresh", stage |-> "revoke", token |-> t, late |-> FALSE]
           \in Request
    BY DEF Request, Exchanging, IInv, TypeOK
  <1> QED
    BY <1>1, <1>2, CountedIsBounded, BeginKeeps DEF Refresh

LEMMA LogoutKeeps ==
  ASSUME IInv, NEW s \in Sessions, Logout(s)
  PROVE  IInv'
  <1>1. PICK t \in 1..issued : Start(s, [op |-> "logout", stage |-> "revoke",
                                         token |-> t, late |-> FALSE])
    BY DEF Logout
  <1>2. [op |-> "logout", stage |-> "revoke", token |-> t, late |-> FALSE]
           \in Request
    BY DEF Request, Leaving
  <1> QED
    BY <1>1, <1>2, CountedIsBounded, BeginKeeps DEF Logout

LEMMA UpdateProfileKeeps ==
  ASSUME IInv, NEW s \in Sessions, UpdateProfile(s)
  PROVE  IInv'
  <1>1. [op |-> "profile", stage |-> "save", copy |-> user] \in Request
    BY DEF Request, Editing, IInv, TypeOK
  <1> QED
    BY <1>1, CountedIsBounded, BeginKeeps DEF UpdateProfile

LEMMA ChangePasswordKeeps ==
  ASSUME IInv, NEW s \in Sessions, ChangePassword(s)
  PROVE  IInv'
  <1>1. PICK p \in Passwords :
          Start(s, [op |-> "password", stage |-> "save",
                    copy |-> [user EXCEPT !.password = p]])
    BY DEF ChangePassword
  <1> DEFINE r == [user EXCEPT !.password = p]
             c == [op |-> "password", stage |-> "save", copy |-> r]
  <1>2. r \in Account /\ r.life = user.life /\ r.role = user.role
    BY DEF IInv, TypeOK, Account
  <1> HIDE DEF r
  <1>3. c \in Request /\ c.op = "password" /\ c.copy = r
    BY <1>2 DEF Request, Editing
  <1>4. Start(s, c)
    BY <1>1 DEF r
  <1> HIDE DEF c
  <1> QED
    BY <1>2, <1>3, <1>4, CountedIsBounded, BeginKeeps DEF ChangePassword

LEMMA UpdateUserRoleKeeps ==
  ASSUME IInv, NEW s \in Sessions, UpdateUserRole(s)
  PROVE  IInv'
  <1> DEFINE other == CHOOSE r \in Roles : r # user.role
  <1>1. other \in Roles
    <2>1. \E r \in Roles : r # user.role
      BY DEF Roles
    <2> QED
      BY <2>1
  <1> HIDE DEF other
  <1>2. [op |-> "role", stage |-> "update", role |-> other] \in Request
    BY <1>1 DEF Request, Promoting
  <1>3. Start(s, [op |-> "role", stage |-> "update", role |-> other])
    BY DEF UpdateUserRole, other
  <1> QED
    BY <1>2, <1>3, CountedIsBounded, BeginKeeps DEF UpdateUserRole

LEMMA RevokeAllIsARequest ==
  ASSUME IInv
  PROVE  /\ ThenRevokeAll \in Request
         /\ ThenRevokeAll.op = "revoke" /\ ThenRevokeAll.stage = "revoke_all"
  <1>1. \A t \in good : t \in Tokens /\ t <= issued
    BY DEF IInv, TypeOK, Tokens
  <1>2. {root[t] : t \in good} \subseteq 1..issued
    BY <1>1 DEF IInv, TokensDescend
  <1> QED
    BY <1>2 DEF ThenRevokeAll, Request, Ending

\* A request that changes the row, and then ends or revokes all tokens.
LEMMA ChangeKeeps ==
  ASSUME IInv, NEW s \in Sessions, NEW c \in {Idle, ThenRevokeAll},
         call' = [call EXCEPT ![s] = c], calls' \in 0..MaxCalls,
         UNCHANGED tokenVars,
         user' \in Account, standing' \in [row : Account, firm : BOOLEAN],
         AccountIInv'
  PROVE  IInv'
  <1>1. /\ c \in Request
        /\ c.op = "idle" \/ (c.op = "revoke" /\ c.stage = "revoke_all")
    BY IdleIsARequest, RevokeAllIsARequest
  <1>2. TokenIInv'
    BY <1>1, TokensAside
  <1>3. TypeOK'
    BY <1>1 DEF IInv, TypeOK, tokenVars, Request, Exchanging, Leaving, Ending
  <1> QED
    BY <1>2, <1>3, HalvesMake, PTL

\* Whoever changes the row deliberately while others hold a copy leaves a
\* change that is not firm.
LEMMA ChangedAgrees ==
  ASSUME IInv, NEW s \in Sessions, NEW c \in {Idle, ThenRevokeAll},
         NEW r \in Account,
         call' = [call EXCEPT ![s] = c], Changed(s, r)
  PROVE  /\ AccountIInv' /\ user' \in Account
         /\ standing' \in [row : Account, firm : BOOLEAN]
  <1>1. c.op \notin {"profile", "password"}
    BY IdleIsARequest, RevokeAllIsARequest
  <1>2. /\ user' = r /\ standing' = [row |-> r, firm |-> NoCopies(s)]
    BY DEF Changed
  <1>3. NoCopies(s) => \A o \in Sessions \ {s} :
                          call[o].op \notin {"profile", "password"}
    BY StagesTell DEF NoCopies, IInv
  <1>4. NoCopies(s) \in BOOLEAN
    BY DEF NoCopies
  <1>5. CopiesAgree'
    BY <1>1, <1>2, <1>3 DEF CopiesAgree, IInv, TypeOK
  <1>6. AccountStands'
    BY <1>2 DEF AccountStands
  <1> QED
    BY <1>2, <1>4, <1>5, <1>6 DEF AccountIInv

LEMMA CreateUserKeeps ==
  ASSUME IInv, NEW s \in Sessions, CreateUser(s)
  PROVE  IInv'
  <1>1. Finish(s) /\ UNCHANGED tokenVars
    BY DEF CreateUser
  <1>2. CASE UNCHANGED <<user, standing>>
    BY <1>1, <1>2, IdleKeeps
  <1>3. CASE Changed(s, [life |-> "live", password |-> call[s].password,
                         role |-> "user"])
    <2> DEFINE r == [life |-> "live", password |-> call[s].password,
                     role |-> "user"]
    <2>1. call[s].password \in Passwords
      BY StagesTell DEF CreateUser, IInv, Joining
    <2>2. r \in Account
      BY <2>1 DEF Account, Roles
    <2>3. Changed(s, r)
      BY <1>3
    <2> HIDE DEF r
    <2> QED
      BY <1>1, <2>2, <2>3, CountedIsBounded, ChangedAgrees, ChangeKeeps DEF Finish
  <1> QED
    BY <1>2, <1>3 DEF CreateUser

LEMMA DeleteKeeps ==
  ASSUME IInv, NEW s \in Sessions, Delete(s)
  PROVE  IInv'
  <1> DEFINE r == IF user.life = "live" THEN [user EXCEPT !.life = "deleted"]
                                        ELSE user
  <1>1. r \in Account
    BY DEF IInv, TypeOK, Account
  <1>2. Start(s, ThenRevokeAll) /\ Changed(s, r) /\ UNCHANGED tokenVars
    BY DEF Delete
  <1> HIDE DEF r
  <1> QED
    BY <1>1, <1>2, CountedIsBounded, ChangedAgrees, ChangeKeeps

LEMMA UpdateRoleKeeps ==
  ASSUME IInv, NEW s \in Sessions, UpdateRole(s)
  PROVE  IInv'
  <1>1. Finish(s) /\ UNCHANGED tokenVars
    BY DEF UpdateRole
  <1>2. CASE UNCHANGED <<user, standing>>
    BY <1>1, <1>2, IdleKeeps
  <1>3. CASE Changed(s, [user EXCEPT !.role = call[s].role])
    <2> DEFINE r == [user EXCEPT !.role = call[s].role]
    <2>1. call[s].role \in Roles
      BY StagesTell DEF UpdateRole, IInv, Promoting
    <2>2. r \in Account
      BY <2>1 DEF IInv, TypeOK, Account
    <2>3. Changed(s, r)
      BY <1>3
    <2> HIDE DEF r
    <2> QED
      BY <1>1, <2>2, <2>3, CountedIsBounded, ChangedAgrees, ChangeKeeps DEF Finish
  <1> QED
    BY <1>2, <1>3 DEF UpdateRole

\* What a Save leaves of a copy: the copy.
LEMMA SavedIsTheCopy ==
  ASSUME IInv, NEW s \in Sessions, call[s].op \in {"profile", "password"}
  PROVE  /\ call[s].copy \in Account
         /\ Saved(call[s].copy) = call[s].copy
  <1>1. call[s].copy \in Account
    BY RequestKinds DEF IInv, TypeOK, Editing
  <1>2. call[s].copy.life = "live"
    BY DEF IInv, CopiesAgree
  <1> QED
    BY <1>1, <1>2 DEF Saved, Account

LEMMA SaveProfileKeeps ==
  ASSUME IInv, NEW s \in Sessions, SaveProfile(s)
  PROVE  IInv'
  <1>1. /\ call[s].op = "profile" /\ user' = call[s].copy
        /\ Finish(s) /\ UNCHANGED <<tokenVars, standing>>
        /\ call[s].copy \in Account
    BY SavedIsTheCopy DEF SaveProfile
  <1>2. call' = [call EXCEPT ![s] = Idle] /\ calls' \in 0..MaxCalls
    BY <1>1, CountedIsBounded DEF Finish
  <1>3. AccountIInv'
    BY <1>1, <1>2, IdleIsARequest DEF IInv, TypeOK, AccountIInv, AccountStands,
       CopiesAgree
  <1> QED
    BY <1>1, <1>2, <1>3, ChangeKeeps DEF IInv, TypeOK

LEMMA SavePasswordKeeps ==
  ASSUME IInv, NEW s \in Sessions, SavePassword(s)
  PROVE  IInv'
  <1> DEFINE c == call[s].copy
             r == [standing.row EXCEPT !.password = c.password]
  <1>1. /\ call[s].op = "password" /\ user' = c
        /\ standing' = [row |-> r, firm |-> standing.firm /\ NoCopies(s)]
        /\ Step(s, ThenRevokeAll) /\ UNCHANGED tokenVars
        /\ c \in Account
    BY SavedIsTheCopy DEF SavePassword
  <1>2. call' = [call EXCEPT ![s] = ThenRevokeAll] /\ calls' \in 0..MaxCalls
    BY <1>1, CountedIsBounded
  <1>3. r \in Account
    BY <1>1 DEF IInv, TypeOK, Account
  <1>4. standing' \in [row : Account, firm : BOOLEAN]
    BY <1>1, <1>3 DEF NoCopies, IInv, TypeOK
  <1>5. standing.firm => r = c
    <2>1. standing.firm => standing.row.life = c.life /\ standing.row.role = c.role
      BY <1>1 DEF IInv, CopiesAgree
    <2> QED
      BY <1>1, <2>1 DEF IInv, TypeOK, Account
  <1> HIDE DEF r
  <1>6. AccountStands'
    BY <1>1, <1>5 DEF AccountStands
  <1>7. NoCopies(s) => \A o \in Sessions \ {s} :
                          call[o].op \notin {"profile", "password"}
    BY StagesTell DEF NoCopies, IInv
  <1>8. CopiesAgree'
    BY <1>1, <1>2, <1>7, RevokeAllIsARequest DEF CopiesAgree, IInv, TypeOK
  <1> QED
    BY <1>1, <1>2, <1>4, <1>6, <1>8, ChangeKeeps DEF AccountIInv

\* A request moves on with its token; calls of others may become late.
LEMMA ExchangingMoves ==
  ASSUME NEW c \in Exchanging, NEW stage \in {"revoke", "del", "issue"}
  PROVE  /\ [c EXCEPT !.stage = stage] \in Exchanging
         /\ [c EXCEPT !.stage = stage].op = c.op
         /\ [c EXCEPT !.stage = stage].stage = stage
         /\ [c EXCEPT !.stage = stage].token = c.token
         /\ [c EXCEPT !.stage = stage].late = c.late
  BY DEF Exchanging

LEMMA LeavingMoves ==
  ASSUME NEW c \in Leaving
  PROVE  /\ [c EXCEPT !.stage = "del"] \in Leaving
         /\ [c EXCEPT !.stage = "del"].op = c.op
         /\ [c EXCEPT !.stage = "del"].stage = "del"
         /\ [c EXCEPT !.stage = "del"].token = c.token
         /\ [c EXCEPT !.stage = "del"].late = c.late
  BY DEF Leaving

LEMMA RevokeKeeps ==
  ASSUME IInv, NEW s \in Sessions, Revoke(s)
  PROVE  IInv'
  <1> USE RequestKinds, IdleIsARequest
  <1> DEFINE t == call[s].token
             c == IF t \in good THEN [call[s] EXCEPT !.stage = "del"] ELSE Idle
  <1>1. /\ At(s, "revoke") /\ Step(s, c)
        /\ shared' = shared \union
              {x \in {t} : \E o \in Sessions \ {s} : /\ At(o, "del")
                                                    /\ call[o].token = t}
        /\ UNCHANGED <<user, standing, good, index, issued, root, ended,
                       strays, heirs>>
    BY DEF Revoke, Finish
  <1>2. /\ call[s] \in Exchanging \union Leaving /\ t \in 1..issued
        /\ call[s].op \in {"refresh", "logout"}
    BY <1>1, StagesTell DEF IInv, Exchanging, Leaving
  <1>3. /\ c \in Request
        /\ t \in good => /\ c.op = call[s].op /\ c.stage = "del"
                         /\ c.token = t /\ c.late = call[s].late
        /\ t \notin good => c.op = "idle"
    <2>1. [call[s] EXCEPT !.stage = "del"] \in Exchanging \union Leaving
      BY <1>2, ExchangingMoves, LeavingMoves
    <2> QED
      BY <1>2, <2>1, ExchangingMoves, LeavingMoves DEF Request
  <1>4. call' = [call EXCEPT ![s] = c] /\ calls' \in 0..MaxCalls
    BY <1>1, CountedIsBounded
  <1> HIDE DEF c
  <1> USE DEF IInv, TypeOK
  <1>5. /\ \A o \in Sessions : call'[o] = IF o = s THEN c ELSE call[o]
        /\ c.op \in {"idle", "refresh", "logout"}
    BY <1>2, <1>3, <1>4
  <1>6. TypeOK'
    <2>1. Request' = Request
      BY <1>1 DEF Request, Exchanging, Leaving, Ending
    <2>2. shared' \subseteq 1..issued
      BY <1>1, <1>2
    <2> QED
      BY <1>1, <1>3, <1>4, <2>1, <2>2
  <1>7. RevokedIsOver' /\ TokensDescend'
    BY <1>1 DEF RevokedIsOver, TokensDescend
  <1>8. NoneIsMissed'
    BY <1>1, <1>3, <1>5 DEF NoneIsMissed, At
  <1>9. EndedIsLate'
    BY <1>1, <1>3, <1>5 DEF EndedIsLate
  <1>10. OneIsPast'
    <2>1. /\ \A o \in Sessions \ {s} : \A x : Past(o, x)' <=> Past(o, x)
          /\ \A x : Past(s, x)' => x = t /\ t \in good
      BY <1>3, <1>5 DEF Past
    <2>2. \A x \in Tokens \ shared' : x \in Tokens \ shared
      BY <1>1
    <2>3. ASSUME NEW o \in Sessions \ {s}, Past(o, t), t \in good
          PROVE  t \in shared'
      <3>1. call[o].op = "logout" => call[o].stage # "issue"
        BY DEF Leaving
      <3>2. call[o].op = "refresh" /\ call[o].stage = "issue" =>
               call[o].token \notin good
        BY DEF OneIsPast, At
      <3>3. At(o, "del")
        BY <2>3, <3>1, <3>2 DEF Past, At
      <3> QED
        BY <1>1, <2>3, <3>3 DEF Past
    <2>4. \A x \in Tokens \ shared' :
            \A p, o \in Sessions : Past(p, x)' /\ Past(o, x)' => p = o
      BY <2>1, <2>2, <2>3 DEF OneIsPast
    <2>5. \A x \in Tokens \ shared' :
            heirs[x] # {} => \A p \in Sessions : ~Past(p, x)'
      BY <2>1, <2>2 DEF OneIsPast
    <2>6. \A p \in Sessions : At(p, "issue")' /\ call'[p].op = "refresh" =>
                                 call'[p].token \notin good
      BY <1>3, <1>5 DEF At, OneIsPast
    <2> QED
      BY <1>1, <2>2, <2>4, <2>5, <2>6 DEF OneIsPast
  <1>11. AccountIInv'
    BY <1>1, <1>5, AccountAside
  <1> QED
    BY <1>6, <1>7, <1>8, <1>9, <1>10, <1>11 DEF AccountIInv

LEMMA DeleteTokenKeeps ==
  ASSUME IInv, NEW s \in Sessions, DeleteToken(s)
  PROVE  IInv'
  <1> USE RequestKinds, IdleIsARequest
  <1> DEFINE t == call[s].token
             c == IF call[s].op = "refresh"
                  THEN [call[s] EXCEPT !.stage = "issue"] ELSE Idle
  <1>1. /\ At(s, "del") /\ Step(s, c)
        /\ good' = good \ {t} /\ index' = index \ {t}
        /\ UNCHANGED <<user, standing, issued, root, ended, strays, heirs,
                       shared>>
    BY DEF DeleteToken, Finish
  <1>2. /\ call[s] \in Exchanging \union Leaving /\ t \in 1..issued
        /\ call[s].op \in {"refresh", "logout"}
        /\ call[s].op = "refresh" => call[s] \in Exchanging
        /\ Past(s, t)
    BY <1>1, StagesTell DEF IInv, Exchanging, Leaving, Past, At
  <1>3. /\ c \in Request
        /\ c.op = "idle" \/ /\ c.op = "refresh" /\ c.stage = "issue"
                            /\ c.token = t /\ c.late = call[s].late
                            /\ call[s].op = "refresh"
    BY <1>2, ExchangingMoves DEF Request
  <1>4. call' = [call EXCEPT ![s] = c] /\ calls' \in 0..MaxCalls
    BY <1>1, CountedIsBounded
  <1> HIDE DEF c
  <1> USE DEF IInv, TypeOK
  <1>5. \A o \in Sessions : call'[o] = IF o = s THEN c ELSE call[o]
    BY <1>4
  <1>6. TypeOK'
    <2>1. Request' = Request
      BY <1>1 DEF Request, Exchanging, Leaving, Ending
    <2> QED
      BY <1>1, <1>3, <1>4, <2>1
  <1>7. RevokedIsOver' /\ TokensDescend'
    BY <1>1 DEF RevokedIsOver, TokensDescend
  <1>8. NoneIsMissed'
    BY <1>1, <1>3, <1>5 DEF NoneIsMissed, At
  <1>9. EndedIsLate'
    BY <1>1, <1>3, <1>5 DEF EndedIsLate
  <1>10. OneIsPast'
    <2>1. /\ \A o \in Sessions : \A x : Past(o, x)' => Past(o, x)
      BY <1>2, <1>3, <1>5 DEF Past
    <2>2. \A p \in Sessions : At(p, "issue")' /\ call'[p].op = "refresh" =>
                                 call'[p].token \notin good'
      BY <1>1, <1>3, <1>5 DEF At, OneIsPast
    <2> QED
      BY <1>1, <2>1, <2>2 DEF OneIsPast
  <1>11. AccountIInv'
    BY <1>1, <1>3, <1>5, AccountAside
  <1> QED
    BY <1>6, <1>7, <1>8, <1>9, <1>10, <1>11 DEF AccountIInv

LEMMA TokenExpiresKeeps ==
  ASSUME IInv, TokenExpires
  PROVE  IInv'
  <1> USE DEF IInv, TypeOK
  <1>1. /\ good' \subseteq good /\ index' \subseteq index
        /\ good' \intersect index \subseteq index'
        /\ UNCHANGED <<user, standing, issued, root, ended, strays, heirs,
                       shared, call, calls>>
    BY DEF TokenExpires
  <1>2. TypeOK'
    BY <1>1 DEF Request, Exchanging, Leaving, Ending
  <1>3. RevokedIsOver' /\ TokensDescend' /\ NoneIsMissed' /\ EndedIsLate'
    BY <1>1 DEF RevokedIsOver, TokensDescend, NoneIsMissed, EndedIsLate, At
  <1>4. OneIsPast'
    <2>1. /\ \A s \in Sessions, t \in Tokens : Past(s, t)' <=> Past(s, t)
          /\ \A s \in Sessions : At(s, "issue")' <=> At(s, "issue")
      BY <1>1 DEF Past, At
    <2> QED
      BY <1>1, <2>1 DEF OneIsPast
  <1>5. AccountIInv'
    BY <1>1, AccountAside
  <1> QED
    BY <1>2, <1>3, <1>4, <1>5 DEF AccountIInv

LEMMA IssueTokensKeeps ==
  ASSUME IInv, NEW s \in Sessions, IssueTokens(s)
  PROVE  IInv'
  <1> USE RequestKinds, IdleIsARequest
  <1> DEFINE t == issued + 1
             f == call[s].token
             exchange == call[s].op = "refresh"
             from == IF exchange THEN {f} ELSE {}
  <1>1. /\ At(s, "issue") /\ Finish(s) /\ Descend(s, t, from)
        /\ t \in Tokens /\ issued' = t
        /\ good' = good \union {t} /\ index' = index \union {t}
        /\ UNCHANGED <<user, standing, ended, shared>>
    BY DEF IssueTokens, Issue
  <1> HIDE DEF t
  <1>2. /\ call[s].op \in {"login", "refresh"}
        /\ exchange => /\ f \in 1..issued /\ Past(s, f)
                       /\ f \notin good
    BY <1>1, StagesTell DEF IInv, Entering, Exchanging, Past, At, OneIsPast
  <1>3. /\ issued \in Nat /\ t = issued + 1 /\ t \in 1..t /\ t \notin 1..issued
        /\ 1..issued \subseteq Tokens /\ 1..issued \subseteq 1..t
        /\ t \in 0..NumTokens /\ \A x \in Tokens : x <= t <=> x <= issued \/ x = t
        /\ \A x \in Tokens : x \in 1..issued <=> x <= issued
    BY <1>1 DEF IInv, TypeOK, Tokens, t
  <1>4. call' = [call EXCEPT ![s] = Idle] /\ calls' \in 0..MaxCalls
    BY <1>1, CountedIsBounded DEF Finish
  <1> USE DEF IInv, TypeOK
  <1>5. \A o \in Sessions : call'[o] = IF o = s THEN Idle ELSE call[o]
    BY <1>4
  <1>6. /\ root' \in [Tokens -> Tokens]
        /\ \A x \in Tokens \ {t} : root'[x] = root[x]
        /\ root'[t] = IF exchange THEN root[f] ELSE t
    <2>1. CASE exchange
      <3>1. root' = [root EXCEPT ![t] = root[CHOOSE x \in {f} : TRUE]]
        BY <1>1, <2>1 DEF Descend
      <3>2. (CHOOSE x \in {f} : TRUE) = f
        OBVIOUS
      <3> QED
        BY <1>1, <1>2, <1>3, <2>1, <3>1, <3>2
    <2>2. CASE ~exchange
      <3>1. root' = root
        BY <1>1, <2>2 DEF Descend
      <3>2. root[t] = t
        BY <1>1, <1>3 DEF TokensDescend
      <3> QED
        BY <2>2, <3>1, <3>2
    <2> QED
      BY <2>1, <2>2
  <1>7. /\ heirs' \in [Tokens -> SUBSET Tokens]
        /\ \A x \in Tokens : heirs'[x] = IF exchange /\ x = f
                                         THEN heirs[x] \union {t} ELSE heirs[x]
    BY <1>1 DEF Descend
  <1>8. /\ strays \subseteq strays' /\ strays' \subseteq strays \union {t}
        /\ Revoking \/ (exchange /\ (call[s].late \/ f \in strays)) => t \in strays'
    BY <1>1 DEF Descend
  <1> HIDE DEF exchange, f, from
  <1>9. TypeOK'
    <2>1. \A o \in Sessions : call'[o] \in Request'
      BY <1>1, <1>3, <1>5, RequestGrows
    <2>2. call' \in [Sessions -> Request']
      BY <1>4, <2>1
    <2> QED
      BY <1>1, <1>3, <1>4, <1>6, <1>7, <1>8, <2>2
  <1>10. RevokedIsOver'
    <2> SUFFICES ASSUME NEW g \in good \union {t}, root'[g] \in ended
                 PROVE  g \in strays'
      BY <1>1 DEF RevokedIsOver
    <2>1. CASE g # t
      BY <1>3, <1>6, <1>8, <2>1 DEF RevokedIsOver
    <2>2. CASE g = t
      <3>1. exchange /\ root[f] \in ended
        BY <1>3, <1>6, <2>2
      <3>2. call[s].late \/ f \in strays
        BY <3>1 DEF EndedIsLate, exchange, f
      <3> QED
        BY <1>8, <2>2, <3>1, <3>2
    <2> QED
      BY <2>1, <2>2
  <1>11. TokensDescend'
    <2> SUFFICES ASSUME NEW x \in Tokens
                 PROVE  IF x <= t THEN root'[x] \in 1..t
                                  ELSE root'[x] = x /\ heirs'[x] = {}
      BY <1>1 DEF TokensDescend
    <2>1. CASE x = t
      BY <1>2, <1>3, <1>6, <2>1 DEF TokensDescend
    <2>2. CASE x # t
      BY <1>1, <1>2, <1>3, <1>6, <1>7, <2>2 DEF TokensDescend
    <2> QED
      BY <2>1, <2>2
  <1>12. NoneIsMissed'
    <2>1. \A o \in Sessions : At(o, "delete")' =>
             At(o, "delete") /\ Revoking /\ call'[o].set = call[o].set
      BY <1>5 DEF At, Revoking
    <2> QED
      BY <1>1, <1>8, <2>1 DEF NoneIsMissed
  <1>13. EndedIsLate'
    <2>1. \A o \in Sessions \ {s} : call[o].op = "refresh" =>
             call[o].token \in Tokens /\ root'[call[o].token] = root[call[o].token]
      BY <1>3, <1>6 DEF Exchanging
    <2> QED
      BY <1>1, <1>5, <1>8, <2>1 DEF EndedIsLate
  <1>14. OneIsPast'
    <2>1. /\ \A x : ~Past(s, x)'
          /\ \A o \in Sessions \ {s} : \A x : Past(o, x)' <=> Past(o, x)
      BY <1>5 DEF Past
    <2>2. \A x \in Tokens \ shared : exchange /\ x = f => heirs[x] = {}
      BY <1>2 DEF OneIsPast
    <2>3. \A x \in Tokens \ shared :
            /\ \A p, o \in Sessions : Past(p, x)' /\ Past(o, x)' => p = o
            /\ heirs'[x] # {} => \A p \in Sessions : ~Past(p, x)'
            /\ \A y, z \in heirs'[x] : y = z
      <3> SUFFICES ASSUME NEW x \in Tokens \ shared
                   PROVE  /\ \A p, o \in Sessions :
                                Past(p, x)' /\ Past(o, x)' => p = o
                          /\ heirs'[x] # {} => \A p \in Sessions : ~Past(p, x)'
                          /\ \A y, z \in heirs'[x] : y = z
        OBVIOUS
      <3>1. \A p, o \in Sessions : Past(p, x)' /\ Past(o, x)' => p = o
        BY <2>1 DEF OneIsPast
      <3>2. CASE exchange /\ x = f
        BY <1>2, <1>7, <2>1, <2>2, <3>1, <3>2 DEF OneIsPast
      <3>3. CASE ~(exchange /\ x = f)
        BY <1>7, <2>1, <3>1, <3>3 DEF OneIsPast
      <3> QED
        BY <3>2, <3>3
    <2>4. \A x \in Tokens : heirs'[x] # {} => x \notin good'
      BY <1>1, <1>2, <1>3, <1>7 DEF OneIsPast, TokensDescend
    <2>5. \A o \in Sessions : At(o, "issue")' /\ call'[o].op = "refresh" =>
                                 call'[o].token \notin good'
      BY <1>1, <1>3, <1>5 DEF OneIsPast, At, Exchanging
    <2> QED
      BY <1>1, <2>3, <2>4, <2>5 DEF OneIsPast
  <1>15. AccountIInv'
    BY <1>1, <1>5, AccountAside
  <1> QED
    BY <1>9, <1>10, <1>11, <1>12, <1>13, <1>14, <1>15 DEF AccountIInv

\* A request may become late, and nothing else of it changes.
LEMMA LateIsARequest ==
  ASSUME NEW c \in Request, c.op \in {"login", "refresh"}
  PROVE  /\ [c EXCEPT !.late = TRUE] \in Request
         /\ [c EXCEPT !.late = TRUE].op = c.op
         /\ [c EXCEPT !.late = TRUE].stage = c.stage
         /\ [c EXCEPT !.late = TRUE].late
         /\ c.op = "refresh" => [c EXCEPT !.late = TRUE].token = c.token
  BY RequestKinds DEF Request, Entering, Exchanging

\* What both halves of a revocation of all tokens do to the requests.
Overtaken(s, c) ==
  call' = [o \in Sessions |->
      IF o = s THEN c
      ELSE IF call[o].op \in {"login", "refresh"}
           THEN [call[o] EXCEPT !.late = TRUE] ELSE call[o]]

LEMMA OvertakenKeeps ==
  ASSUME IInv, NEW s \in Sessions, NEW c \in Request, c.op \in {"idle", "revoke"},
         Overtaken(s, c)
  PROVE  /\ call' \in [Sessions -> Request]
         /\ \A o \in Sessions : call'[o].op = "refresh" => call'[o].late
         /\ \A o \in Sessions \ {s} :
               /\ call'[o].op = call[o].op
               /\ At(o, "delete")' <=> At(o, "delete")
               /\ At(o, "issue")' <=> At(o, "issue")
               /\ call[o].op \notin {"login", "refresh"} => call'[o] = call[o]
               /\ call[o].op = "refresh" => call'[o].token = call[o].token
         /\ \A o \in Sessions \ {s} : \A t : Past(o, t)' <=> Past(o, t)
         /\ \A t : ~Past(s, t)'
         /\ call'[s] = c
  <1>1. \A o \in Sessions : call[o] \in Request
    BY DEF IInv, TypeOK
  <1>2. ASSUME NEW o \in Sessions \ {s}
        PROVE  /\ call'[o] \in Request
               /\ call'[o].op = call[o].op
               /\ call'[o].op # "idle" => call'[o].stage = call[o].stage
               /\ call'[o].op = "refresh" => call'[o].late
               /\ call[o].op \notin {"login", "refresh"} => call'[o] = call[o]
               /\ call[o].op = "refresh" => call'[o].token = call[o].token
    <2>1. CASE call[o].op \in {"login", "refresh"}
      BY <1>1, <2>1, LateIsARequest DEF Overtaken
    <2>2. CASE call[o].op \notin {"login", "refresh"}
      BY <1>1, <2>2 DEF Overtaken
    <2> QED
      BY <2>1, <2>2
  <1>3. call'[s] = c
    BY DEF Overtaken
  <1>4. call' \in [Sessions -> Request]
    <2>1. \A o \in Sessions : call'[o] \in Request
      BY <1>2, <1>3
    <2> QED
      BY <2>1 DEF Overtaken
  <1>5. \A o \in Sessions \ {s} : /\ At(o, "delete")' <=> At(o, "delete")
                                  /\ At(o, "issue")' <=> At(o, "issue")
    BY <1>2 DEF At
  <1>6. \A o \in Sessions \ {s} : \A t : Past(o, t)' <=> Past(o, t)
    BY <1>2 DEF Past
  <1> QED
    BY <1>2, <1>3, <1>4, <1>5, <1>6 DEF Past

LEMMA RevokeAllForUserKeeps ==
  ASSUME IInv, NEW s \in Sessions, RevokeAllForUser(s)
  PROVE  IInv'
  <1> DEFINE c == [call[s] EXCEPT !.stage = "delete", !.set = index]
  <1>1. /\ At(s, "revoke_all") /\ Overtaken(s, c) /\ calls' = calls
        /\ UNCHANGED <<user, tokenVars, standing>>
    BY DEF RevokeAllForUser, Overtaken
  <1>2. /\ c \in Request /\ c.op = "revoke" /\ c.set = index
    <2>1. call[s] \in Ending /\ index \subseteq 1..issued
      BY <1>1, StagesTell DEF IInv, TypeOK
    <2>2. c \in Ending /\ c.op = "revoke" /\ c.set = index
      BY <2>1 DEF Ending
    <2> QED
      BY <2>2 DEF Request
  <1> HIDE DEF c
  <1>3. /\ call' \in [Sessions -> Request]
        /\ \A o \in Sessions : call'[o].op = "refresh" => call'[o].late
        /\ \A o \in Sessions \ {s} :
              /\ call'[o].op = call[o].op
              /\ At(o, "delete")' <=> At(o, "delete")
              /\ At(o, "issue")' <=> At(o, "issue")
              /\ call[o].op \notin {"login", "refresh"} => call'[o] = call[o]
              /\ call[o].op = "refresh" => call'[o].token = call[o].token
        /\ \A o \in Sessions \ {s} : \A t : Past(o, t)' <=> Past(o, t)
        /\ \A t : ~Past(s, t)'
        /\ call'[s] = c
    BY <1>1, <1>2, OvertakenKeeps
  <1> USE DEF IInv, TypeOK, tokenVars
  <1>4. TypeOK'
    <2>1. Request' = Request
      BY <1>1 DEF Request, Exchanging, Leaving, Ending
    <2> QED
      BY <1>1, <1>3, <2>1
  <1>5. RevokedIsOver' /\ TokensDescend'
    BY <1>1 DEF RevokedIsOver, TokensDescend
  <1>6. NoneIsMissed'
    <2>1. \A o \in Sessions \ {s} : At(o, "delete") => call'[o].set = call[o].set
      BY <1>3, StagesTell DEF Ending
    <2> QED
      BY <1>1, <1>2, <1>3, <2>1 DEF NoneIsMissed
  <1>7. EndedIsLate'
    BY <1>3 DEF EndedIsLate
  <1>8. OneIsPast'
    <2>1. \A o \in Sessions : At(o, "issue")' /\ call'[o].op = "refresh" =>
                                 call'[o].token \notin good
      BY <1>2, <1>3 DEF OneIsPast
    <2> QED
      BY <1>1, <1>3, <2>1 DEF OneIsPast
  <1>9. AccountIInv'
    BY <1>1, <1>2, <1>3, AccountAside
  <1> QED
    BY <1>4, <1>5, <1>6, <1>7, <1>8, <1>9 DEF AccountIInv

LEMMA DeleteAllKeeps ==
  ASSUME IInv, NEW s \in Sessions, DeleteAll(s)
  PROVE  IInv'
  <1>1. /\ At(s, "delete") /\ Overtaken(s, Idle) /\ calls' = calls
        /\ good' = good \ call[s].set /\ index' = {}
        /\ ended' = ended \union call[s].doomed
        /\ UNCHANGED <<user, standing, issued, root, strays, heirs, shared>>
    BY DEF DeleteAll, Overtaken
  <1>2. /\ call[s].doomed \subseteq 1..issued
        /\ good' \subseteq strays
    BY <1>1, StagesTell DEF IInv, Ending, NoneIsMissed
  <1>3. /\ call' \in [Sessions -> Request]
        /\ \A o \in Sessions : call'[o].op = "refresh" => call'[o].late
        /\ \A o \in Sessions \ {s} :
              /\ call'[o].op = call[o].op
              /\ At(o, "delete")' <=> At(o, "delete")
              /\ At(o, "issue")' <=> At(o, "issue")
              /\ call[o].op \notin {"login", "refresh"} => call'[o] = call[o]
              /\ call[o].op = "refresh" => call'[o].token = call[o].token
        /\ \A o \in Sessions \ {s} : \A t : Past(o, t)' <=> Past(o, t)
        /\ \A t : ~Past(s, t)'
        /\ call'[s] = Idle /\ Idle.op = "idle"
    BY <1>1, IdleIsARequest, OvertakenKeeps
  <1> USE DEF IInv, TypeOK
  <1>4. TypeOK'
    <2>1. Request' = Request
      BY <1>1 DEF Request, Exchanging, Leaving, Ending
    <2> QED
      BY <1>1, <1>2, <1>3, <2>1
  <1>5. RevokedIsOver' /\ TokensDescend'
    BY <1>1, <1>2 DEF RevokedIsOver, TokensDescend
  <1>6. NoneIsMissed'
    BY <1>1, <1>2 DEF NoneIsMissed
  <1>7. EndedIsLate'
    BY <1>3 DEF EndedIsLate
  <1>8. OneIsPast'
    <2>1. \A o \in Sessions : At(o, "issue")' /\ call'[o].op = "refresh" =>
                                 call'[o].token \notin good'
      BY <1>1, <1>3 DEF OneIsPast
    <2> QED
      BY <1>1, <1>3, <2>1 DEF OneIsPast
  <1>9. AccountIInv'
    BY <1>1, <1>3, AccountAside
  <1> QED
    BY <1>4, <1>5, <1>6, <1>7, <1>8, <1>9 DEF AccountIInv

-----------------------------------------------------------------------------
(* Every step, and what the run checks.                                    *)

LEMMA NextKeeps ==
  ASSUME IInv, [Next]_vars
  PROVE  IInv'
  <1>1. ASSUME NEW s \in Sessions, Auth(s)
        PROVE  IInv'
    BY <1>1, RegisterKeeps, CreateUserKeeps, LoginKeeps, IssueTokensKeeps,
       RefreshKeeps, LogoutKeeps, RevokeKeeps, DeleteTokenKeeps DEF Auth
  <1>2. ASSUME NEW s \in Sessions, Manage(s)
        PROVE  IInv'
    BY <1>2, UpdateProfileKeeps, SaveProfileKeeps, ChangePasswordKeeps,
       SavePasswordKeeps, DeleteKeeps, RevokeAllForUserKeeps, DeleteAllKeeps,
       UpdateUserRoleKeeps, UpdateRoleKeeps DEF Manage
  <1>3. ASSUME NEW s \in Sessions, Fail(s)
        PROVE  IInv'
    BY <1>3, IdleKeeps DEF Fail
  <1>4. CASE TokenExpires
    BY <1>4, TokenExpiresKeeps
  <1>5. CASE UNCHANGED vars
    <2>1. TypeOK'
      BY <1>5 DEF vars, tokenVars, IInv, TypeOK, Request, Exchanging, Leaving,
         Ending
    <2>2. /\ \A s \in Sessions, t \in Tokens : Past(s, t)' <=> Past(s, t)
          /\ \A s \in Sessions : At(s, "issue")' <=> At(s, "issue")
          /\ \A s \in Sessions : At(s, "delete")' <=> At(s, "delete")
      BY <1>5 DEF vars, Past, At
    <2>3. OneIsPast'
      BY <1>5, <2>2 DEF IInv, vars, tokenVars, OneIsPast
    <2>4. RevokedIsOver' /\ TokensDescend' /\ NoneIsMissed' /\ EndedIsLate'
      BY <1>5, <2>2 DEF IInv, vars, tokenVars, RevokedIsOver, TokensDescend,
         NoneIsMissed, EndedIsLate
    <2>5. AccountStands' /\ CopiesAgree'
      BY <1>5 DEF IInv, vars, AccountStands, CopiesAgree
    <2> QED
      BY <2>1, <2>3, <2>4, <2>5 DEF IInv
  <1> QED
    BY <1>1, <1>2, <1>3, <1>4, <1>5 DEF Next

\* Whatever requests overlap, each knows what is still true of its token and
\* of its copy of the row.
THEOREM AccountsInvariant == Spec => []IInv
  BY InitIInv, NextKeeps, PTL DEF Spec

\* Nothing descended from a revoked session is good, but for the strays that
\* were issued between the two halves of RevokeAllForUser.
THEOREM RevocationsReachAll == Spec => []RevokedIsOver
  <1>1. IInv => RevokedIsOver
    BY DEF IInv
  <1> QED
    BY <1>1, AccountsInvariant, PTL

\* A refresh token is exchanged once, unless two requests were together past
\* the check of TokenRepo.Revoke.
THEOREM TokensAreExchangedOnce == Spec => []ExchangedOnce
  <1>1. IInv => ExchangedOnce
    <2> SUFFICES ASSUME IInv, NEW t \in Tokens, Cardinality(heirs[t]) > 1,
                        t \notin shared
                 PROVE  FALSE
      BY DEF ExchangedOnce
    <2>1. \A x, y \in heirs[t] : x = y
      BY DEF IInv, OneIsPast
    <2>2. CASE heirs[t] = {}
      BY <2>2, FS_EmptySet
    <2>3. CASE heirs[t] # {}
      <3>1. PICK x : x \in heirs[t]
        BY <2>3
      <3>2. heirs[t] = {x}
        BY <2>1, <3>1
      <3> QED
        BY <3>2, FS_Singleton
    <2> QED
      BY <2>2, <2>3
  <1> QED
    BY <1>1, AccountsInvariant, PTL

\* The last deliberate change of an account stands, unless a request held a
\* copy of the row meanwhile: no Save of the whole row undoes it.
THEOREM ChangesAreKept == Spec => []AccountStands
  <1>1. IInv => AccountStands
    BY DEF IInv
  <1> QED
    BY <1>1, AccountsInvariant, PTL
=============================================================================
