------------------------------ MODULE Accounts ------------------------------
(***************************************************************************)
(* One member's account and refresh tokens: internal/service/{auth,user}.go*)
(* and UpdateUserRole of admin.go, over internal/repo/{user,token}.go.     *)
(*                                                                         *)
(* The account is a MySQL row; profile and password are changed by reading *)
(* it and saving every column, the role by updating one column, and        *)
(* deletion is soft.  A refresh token is a Redis key, and also a member of *)
(* the user's set of sessions, which is how all of them are revoked: the   *)
(* set is read, and then its tokens and the set are deleted together.      *)
(*                                                                         *)
(* Access tokens are signed and not stored: none of these operations       *)
(* changes one.                                                            *)
(***************************************************************************)
EXTENDS Integers, FiniteSets

CONSTANTS
    Sessions,   \* requests in progress
    Passwords,  \* passwords the member may choose
    NumTokens,  \* bound on the tokens issued
    MaxCalls    \* bound on the requests after the registration

ASSUME AccountsAssumption ==
    Passwords # {} /\ NumTokens \in Nat /\ MaxCalls \in Nat

Tokens == 1..NumTokens
Roles == {"user", "admin"}
Account == [life : {"unborn", "live", "deleted"}, password : Passwords,
            role : Roles]

VARIABLES
    user,       \* the row
    good,       \* tokens whose key exists
    index,      \* the user's set of sessions
    issued,     \* tokens issued so far: 1..issued
    call,       \* call[s]: the request session s is serving
    calls,      \* requests after the registration
    root,       \* history: root[t]: the token of the login t comes from
    ended,      \* history: those whose sessions a revocation has ended
    strays,     \* history: tokens issued while all were being revoked, by a
                \*          request begun before that, or from a stray
    heirs,      \* history: heirs[t]: tokens it was exchanged for
    shared,     \* history: tokens two requests were about to revoke
    standing    \* history: the row after its last deliberate change; firm:
                \*          no request held a copy of it at that moment

tokenVars == <<good, index, issued, root, ended, strays, heirs, shared>>
vars == <<user, tokenVars, call, calls, standing>>

Idle == [op |-> "idle"]

\* What a request knows at each of its stages.
Joining == [op : {"register"}, stage : {"create"}, password : Passwords]
Entering == [op : {"login"}, stage : {"issue"}, late : BOOLEAN]
Exchanging == [op : {"refresh"}, stage : {"revoke", "del", "issue"},
               token : 1..issued, late : BOOLEAN]
Leaving == [op : {"logout"}, stage : {"revoke", "del"}, token : 1..issued,
            late : BOOLEAN]
Ending == [op : {"revoke"}, stage : {"revoke_all", "delete"},
           set : SUBSET (1..issued), doomed : SUBSET (1..issued)]
Editing == [op : {"profile", "password"}, stage : {"save"}, copy : Account]
Promoting == [op : {"role"}, stage : {"update"}, role : Roles]
Request == {Idle} \union Joining \union Entering \union Exchanging
           \union Leaving \union Ending \union Editing \union Promoting

TypeOK ==
    /\ user \in Account
    /\ good \subseteq 1..issued
    /\ index \subseteq 1..issued
    /\ issued \in 0..NumTokens
    /\ call \in [Sessions -> Request]
    /\ calls \in 0..MaxCalls
    /\ root \in [Tokens -> Tokens]
    /\ ended \subseteq 1..issued
    /\ strays \subseteq 1..issued
    /\ heirs \in [Tokens -> SUBSET Tokens]
    /\ shared \subseteq 1..issued
    /\ standing \in [row : Account, firm : BOOLEAN]

Init ==
    /\ user = [life |-> "unborn", password |-> CHOOSE p \in Passwords : TRUE,
               role |-> "user"]
    /\ good = {}
    /\ index = {}
    /\ issued = 0
    /\ call = [s \in Sessions |-> Idle]
    /\ calls = 0
    /\ root = [t \in Tokens |-> t]
    /\ ended = {}
    /\ strays = {}
    /\ heirs = [t \in Tokens |-> {}]
    /\ shared = {}
    /\ standing = [row |-> user, firm |-> TRUE]

Start(s, c) ==
    /\ call[s].op = "idle"
    /\ calls < MaxCalls
    /\ calls' = calls + 1
    /\ call' = [call EXCEPT ![s] = c]

Step(s, c) == call' = [call EXCEPT ![s] = c] /\ calls' = calls
Finish(s) == Step(s, Idle)
At(s, stage) == call[s].op # "idle" /\ call[s].stage = stage

\* No other request will write back a copy of the row it has read.
NoCopies(s) == \A o \in Sessions \ {s} : ~At(o, "save")

\* A deliberate change of the row; what is saved by the way does not count.
Changed(s, row) ==
    /\ user' = row
    /\ standing' = [row |-> row, firm |-> NoCopies(s)]

-----------------------------------------------------------------------------
(* Registration.                                                           *)

\* The email is looked for among the accounts that are not deleted ...
Register(s) ==
    /\ user.life # "live"
    /\ call[s].op = "idle"
    /\ \E p \in Passwords :
          Step(s, [op |-> "register", stage |-> "create", password |-> p])
    /\ UNCHANGED <<user, tokenVars, standing>>

\* ... and is unique among them all: a second row is refused.
CreateUser(s) ==
    /\ At(s, "create")
    /\ IF user.life = "unborn"
       THEN Changed(s, [life |-> "live", password |-> call[s].password,
                        role |-> "user"])
       ELSE UNCHANGED <<user, standing>>
    /\ Finish(s)
    /\ UNCHANGED tokenVars

-----------------------------------------------------------------------------
(* Tokens.                                                                 *)

\* The account must be there and the password its own.
Login(s) ==
    /\ user.life = "live"
    /\ Start(s, [op |-> "login", stage |-> "issue", late |-> FALSE])
    /\ UNCHANGED <<user, tokenVars, standing>>

\* A revocation of all tokens has read the set and not yet deleted it.
Revoking == \E s \in Sessions : At(s, "delete")

\* What issuing token t leaves in the histories.
Descend(s, t, from) ==
    /\ root' = IF from = {} THEN root
               ELSE [root EXCEPT ![t] = root[CHOOSE f \in from : TRUE]]
    /\ heirs' = [f \in Tokens |->
                    IF f \in from THEN heirs[f] \union {t} ELSE heirs[f]]
    /\ strays' = IF Revoking \/ call[s].late \/ from \intersect strays # {}
                 THEN strays \union {t} ELSE strays

\* Mutant: the token is not added to the user's set.
IssueUnlisted(s, from) ==
    LET t == issued + 1
    IN /\ t \in Tokens
       /\ issued' = t
       /\ good' = good \union {t}
       /\ index' = index
       /\ Descend(s, t, from)
       /\ Finish(s)
       /\ UNCHANGED <<user, standing, ended, shared>>

\* TokenRepo.Issue: the key and its place in the set, in one MULTI.
Issue(s, from) ==
    LET t == issued + 1
    IN /\ t \in Tokens
       /\ issued' = t
       /\ good' = good \union {t}
       /\ index' = index \union {t}
       /\ Descend(s, t, from)
       /\ Finish(s)
       /\ UNCHANGED <<user, standing, ended, shared>>

IssueTokens(s) ==
    /\ At(s, "issue")
    /\ Issue(s, IF call[s].op = "refresh" THEN {call[s].token} ELSE {})

\* Refresh validates its token ...
Refresh(s) ==
    /\ \E t \in good :
          Start(s, [op |-> "refresh", stage |-> "revoke", token |-> t,
                    late |-> FALSE])
    /\ UNCHANGED <<user, tokenVars, standing>>

\* ... and revokes it, as Logout does whether there is one or not.
Logout(s) ==
    /\ \E t \in 1..issued :
          Start(s, [op |-> "logout", stage |-> "revoke", token |-> t,
                    late |-> FALSE])
    /\ UNCHANGED <<user, tokenVars, standing>>

\* Mutant: a token that is gone is no error.
RevokeAnyway(s) ==
    /\ At(s, "revoke")
    /\ Step(s, [call[s] EXCEPT !.stage = "del"])
    /\ UNCHANGED <<user, standing, tokenVars>>

\* TokenRepo.Revoke validates the token itself: one that is gone by now ends
\* the request ...
Revoke(s) ==
    LET t == call[s].token
    IN /\ At(s, "revoke")
       /\ IF t \in good THEN Step(s, [call[s] EXCEPT !.stage = "del"])
                        ELSE Finish(s)
       /\ shared' = shared \union
             {x \in {t} : \E o \in Sessions \ {s} : /\ At(o, "del")
                                                   /\ call[o].token = t}
       /\ UNCHANGED <<user, standing, good, index, issued, root, ended,
                      strays, heirs>>

\* ... and then deletes the key and its place, in one MULTI.
DeleteToken(s) ==
    LET t == call[s].token
    IN /\ At(s, "del")
       /\ good' = good \ {t}
       /\ index' = index \ {t}
       /\ IF call[s].op = "refresh"
          THEN Step(s, [call[s] EXCEPT !.stage = "issue"])
          ELSE Finish(s)
       /\ UNCHANGED <<user, standing, issued, root, ended, strays, heirs,
                      shared>>

\* Thirty days: a token, and a set none of whose tokens is left.
TokenExpires ==
    /\ \E t \in good : good' = good \ {t}
    /\ index' = IF good' \intersect index = {} THEN {} ELSE index
    /\ UNCHANGED <<user, standing, issued, root, ended, strays, heirs, shared,
                   call, calls>>

\* RevokeAllForUser reads the set ...
RevokeAllForUser(s) ==
    /\ At(s, "revoke_all")
    /\ call' = [o \in Sessions |->
          IF o = s THEN [call[s] EXCEPT !.stage = "delete", !.set = index]
          ELSE IF call[o].op \in {"login", "refresh"}
               THEN [call[o] EXCEPT !.late = TRUE] ELSE call[o]]
    /\ calls' = calls
    /\ UNCHANGED <<user, tokenVars, standing>>

\* ... and deletes its tokens and the set, in one MULTI.
DeleteAll(s) ==
    /\ At(s, "delete")
    /\ good' = good \ call[s].set
    /\ index' = {}
    /\ ended' = ended \union call[s].doomed
    /\ call' = [o \in Sessions |->
          IF o = s THEN Idle
          ELSE IF call[o].op \in {"login", "refresh"}
               THEN [call[o] EXCEPT !.late = TRUE] ELSE call[o]]
    /\ calls' = calls
    /\ UNCHANGED <<user, standing, issued, root, strays, heirs, shared>>

-----------------------------------------------------------------------------
(* The account.                                                            *)

\* What the handler has still to do once the row is written.
ThenRevokeAll == [op |-> "revoke", stage |-> "revoke_all", set |-> {},
                  doomed |-> {root[t] : t \in good}]

\* UpdateProfile and ChangePassword read the row ...
UpdateProfile(s) ==
    /\ user.life = "live"
    /\ Start(s, [op |-> "profile", stage |-> "save", copy |-> user])
    /\ UNCHANGED <<user, tokenVars, standing>>
ChangePassword(s) ==
    /\ user.life = "live"
    /\ \E p \in Passwords \ {user.password} :
          Start(s, [op |-> "password", stage |-> "save",
                    copy |-> [user EXCEPT !.password = p]])
    /\ UNCHANGED <<user, tokenVars, standing>>

\* Mutant: the saved row is built anew, so it has the default role.
SavedAnew(row) == [row EXCEPT !.life = "live", !.role = "user"]

\* Save: every column of the copy, and of a deleted row too.
Saved(row) == [row EXCEPT !.life = "live"]

SaveProfile(s) ==
    /\ call[s].op = "profile"
    /\ user' = Saved(call[s].copy)
    /\ Finish(s)
    /\ UNCHANGED <<tokenVars, standing>>

SavePassword(s) ==
    /\ call[s].op = "password"
    /\ user' = Saved(call[s].copy)
    /\ standing' = [row |-> [standing.row EXCEPT !.password =
                                call[s].copy.password],
                    firm |-> standing.firm /\ NoCopies(s)]
    /\ Step(s, ThenRevokeAll)
    /\ UNCHANGED tokenVars

Delete(s) ==
    /\ user.life # "unborn"
    /\ Start(s, ThenRevokeAll)
    /\ Changed(s, IF user.life = "live" THEN [user EXCEPT !.life = "deleted"]
                                        ELSE user)
    /\ UNCHANGED tokenVars

\* The target is read first, and one column of it written.
UpdateUserRole(s) ==
    /\ user.life = "live"
    /\ Start(s, [op |-> "role", stage |-> "update",
                 role |-> CHOOSE r \in Roles : r # user.role])
    /\ UNCHANGED <<user, tokenVars, standing>>
UpdateRole(s) ==
    /\ At(s, "update")
    /\ IF user.life = "live"
       THEN Changed(s, [user EXCEPT !.role = call[s].role])
       ELSE UNCHANGED <<user, standing>>
    /\ Finish(s)
    /\ UNCHANGED tokenVars

\* MySQL or Redis fails: the request ends where it is.
Fail(s) ==
    /\ call[s].op # "idle"
    /\ Finish(s)
    /\ UNCHANGED <<user, tokenVars, standing>>

-----------------------------------------------------------------------------
Auth(s) == \/ Register(s) \/ CreateUser(s) \/ Login(s) \/ IssueTokens(s)
           \/ Refresh(s) \/ Logout(s) \/ Revoke(s) \/ DeleteToken(s)
Manage(s) == \/ UpdateProfile(s) \/ SaveProfile(s)
             \/ ChangePassword(s) \/ SavePassword(s) \/ Delete(s)
             \/ RevokeAllForUser(s) \/ DeleteAll(s)
             \/ UpdateUserRole(s) \/ UpdateRole(s)
Next == \/ \E s \in Sessions : Auth(s) \/ Manage(s) \/ Fail(s)
        \/ TokenExpires

Spec == Init /\ [][Next]_vars

-----------------------------------------------------------------------------
(* What an account is owed.                                                *)

\* Once ChangePassword or Delete has revoked the sessions there were, no
\* token of theirs is good, nor any later one they were exchanged for: only
\* one issued between the reading of the set and its deletion, by a request
\* begun before that, or in exchange for such a one.
RevokedIsOver == \A t \in good : root[t] \in ended => t \in strays

\* A refresh token is exchanged once: two requests with one token both get a
\* new one only if both were past Revoke's own check at the same time.
ExchangedOnce ==
    \A t \in Tokens : Cardinality(heirs[t]) > 1 => t \in shared

\* The password, the role and the deletion of an account are the last ones
\* anybody asked for, unless a request held a copy of the row meanwhile and
\* saved it afterwards.
AccountStands == standing.firm => user = standing.row

-----------------------------------------------------------------------------
(* Why it holds: what every request in progress knows.                     *)

\* A token descends from one issued; one that is not issued yet from nobody.
TokensDescend ==
    \A t \in Tokens : IF t <= issued THEN root[t] \in 1..issued
                      ELSE root[t] = t /\ heirs[t] = {}

\* Who revokes all tokens knows the good ones, but for the strays.
NoneIsMissed ==
    /\ good \subseteq index \union strays
    /\ \A s \in Sessions :
          At(s, "delete") => good \subseteq call[s].set \union strays

\* A refresh of an ended session began before its end, or with a stray.
EndedIsLate ==
    \A s \in Sessions : call[s].op = "refresh" =>
        (root[call[s].token] \in ended => call[s].late \/ call[s].token \in strays)

\* Past the check that its token is good, on the way to delete or exchange it.
Past(s, t) == /\ call[s].op \in {"refresh", "logout"}
              /\ call[s].stage \in {"del", "issue"}
              /\ call[s].token = t

\* One request at a time is past the check, unless two were together; after
\* an exchange none is, and the token is gone for good.
OneIsPast ==
    /\ \A t \in Tokens \ shared :
          /\ \A s, o \in Sessions : Past(s, t) /\ Past(o, t) => s = o
          /\ heirs[t] # {} => \A s \in Sessions : ~Past(s, t)
          /\ \A x, y \in heirs[t] : x = y
    /\ \A t \in Tokens : heirs[t] # {} => t \notin good
    /\ \A s \in Sessions :
          At(s, "issue") /\ call[s].op = "refresh" => call[s].token \notin good

\* While the last change is firm, every copy is what it left, but for the
\* password about to be saved.
CopiesAgree ==
    \A s \in Sessions : call[s].op \in {"profile", "password"} =>
        /\ call[s].copy.life = "live"
        /\ standing.firm => /\ standing.row.life = "live"
                            /\ standing.row.role = call[s].copy.role
                            /\ call[s].op = "profile" =>
                                  standing.row = call[s].copy

\* The inductive invariant.
IInv == /\ TypeOK
        /\ RevokedIsOver /\ AccountStands
        /\ TokensDescend /\ NoneIsMissed /\ EndedIsLate
        /\ OneIsPast /\ CopiesAgree
=============================================================================
