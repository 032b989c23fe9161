------------------------------ MODULE Accounts ------------------------------
(***************************************************************************)
(* Accounts, sessions, one-time tokens and the memberships of one tenant:   *)
(* registration, password and OAuth sign-in, e-mail verification, password  *)
(* reset, invitations, role changes and removals.                           *)
(*                                                                         *)
(* One action is one statement. A handler decides on what it read and       *)
(* writes later, so a role, a password, a session or a membership may have  *)
(* changed in between. An account is named by its e-mail address, which is  *)
(* unique; passwords of an account are numbered in the order they were set. *)
(* Rate limits, CSRF checks and wrong credentials only refuse requests: a   *)
(* refused request has done nothing (Refuse). The tenants that later        *)
(* registrations create for themselves are not looked at.                   *)
(***************************************************************************)
EXTENDS Integers, FiniteSets

CONSTANTS
    Users,        \* e-mail addresses
    StartRole,    \* the tenant's members when the model starts: [Users -> Ranked]
    Asked,        \* roles that requests ask for
    Requests,     \* requests in flight at a time
    MaxRequests,  \* bound: requests in all
    MaxFaults     \* bound: failed statements and requests that die

Roles  == {"owner", "admin", "member", "viewer"}
Ranked == Roles \union {"none"}    \* "none": no row in memberships

ASSUME AccountsAssumption ==
    /\ StartRole \in [Users -> Ranked] /\ \E u \in Users : StartRole[u] = "owner"
    /\ Asked \subseteq Roles
    /\ MaxRequests \in Nat /\ MaxFaults \in Nat

VARIABLES
    user,      \* users: registered, number of the current password (0: none), verified
    sessions,  \* live rows of sessions, each with the password number its login read
    tokens,    \* live rows of auth_tokens
    member,    \* memberships of the tenant: role and membership_id
    req,       \* handlers in flight
    minted,    \* ids drawn so far, for sessions, tokens and memberships
    issued, faults   \* counters behind the bounds

\* History variables: they guard nothing and are only read by properties.
VARIABLES
    spared,      \* sessions a reset did not get: begun late, or the revocation failed
    origin,      \* the role of whoever granted each member's present role
    overlapped,  \* an owner lost that role to a request that had not seen the latest
                 \* change of the memberships
    redeemed,    \* users an invite was used up for, and who have not left since
    wasted       \* users whose invite was used up by a request that then failed

tables  == <<user, sessions, tokens, member, minted>>
bounds  == <<issued, faults>>
history == <<spared, origin, overlapped, redeemed, wasted>>
vars    == <<tables, req, bounds, history>>

-----------------------------------------------------------------------------
Idle == [pc |-> "idle"]
None == [role |-> "none", id |-> 0]

Owners == {u \in Users : member[u].role = "owner"}

\* roleRank[...] >= roleRank["admin"].
Admins == {"owner", "admin"}

Session(i, u, p)        == [id |-> i, user |-> u, pw |-> p]
Token(i, p, u, ro, by)  == [id |-> i, purpose |-> p, email |-> u, role |-> ro, by |-> by]

\* The members of the start have registered with a password and are logged in; of the
\* others, some have registered.
Init ==
    /\ \E R \in SUBSET Users :
         /\ {u \in Users : StartRole[u] # "none"} \subseteq R
         /\ user = [u \in Users |-> [reg |-> u \in R, pw |-> IF u \in R THEN 1 ELSE 0,
                                     verified |-> FALSE]]
         /\ sessions = {Session(0, u, 1) : u \in R}
    /\ tokens = {}
    /\ member = [u \in Users |-> [role |-> StartRole[u], id |-> 0]]
    /\ req = [r \in Requests |-> Idle]
    /\ minted = 0 /\ issued = 0 /\ faults = 0
    /\ spared = {} /\ origin = [u \in Users |-> "owner"]
    /\ overlapped = FALSE /\ redeemed = {} /\ wasted = {}

Start(r, rec) ==
    /\ req[r] = Idle /\ issued < MaxRequests
    /\ req' = [req EXCEPT ![r] = rec]
    /\ issued' = issued + 1

Goto(r, pc) == req' = [req EXCEPT ![r].pc = pc]
Return(r)   == req' = [req EXCEPT ![r] = Idle]
Continue(r) == IF req[r].then = "idle" THEN Return(r) ELSE Goto(r, req[r].then)

\* A handler working on account u, which it read with password p; then is where the
\* helper it calls returns to.
Auth(pc, u, p, then) == [pc |-> pc, user |-> u, pw |-> p, then |-> then]

-----------------------------------------------------------------------------
(***************************************************************************)
(* Registration and sign-in.                                                *)
(***************************************************************************)

\* handleRegister: UserByEmail finds nobody.
RegisterCheck(r, u) ==
    /\ ~user[u].reg
    /\ Start(r, Auth("register", u, 1, "session"))
    /\ UNCHANGED <<tables, faults, history>>

\* handleOAuthCallback and loginOrProvision: the provider vouches for the address; an
\* account that exists is signed in, any other is provisioned without a password.
OAuthCallback(r, u) ==
    /\ Start(r, IF user[u].reg THEN Auth("session", u, user[u].pw, "idle")
                               ELSE Auth("register", u, 0, "session"))
    /\ UNCHANGED <<tables, faults, history>>

\* RegisterAccount: one transaction; the address is unique, so the second of two
\* registrations fails.
RegisterAccount(r) ==
    /\ req[r].pc = "register"
    /\ LET u == req[r].user IN
       IF user[u].reg
       THEN Return(r) /\ UNCHANGED user
       ELSE /\ user' = [user EXCEPT ![u] = [reg |-> TRUE, pw |-> req[r].pw, verified |-> FALSE]]
            /\ Goto(r, IF req[r].pw = 0 THEN "mark" ELSE "mail")
    /\ UNCHANGED <<sessions, tokens, member, minted, bounds, history>>

\* handleLogin: UserByEmail, then the password is compared with the hash just read.
LoginCheck(r, u) ==
    /\ user[u].reg /\ user[u].pw > 0
    /\ Start(r, Auth("session", u, user[u].pw, "idle"))
    /\ UNCHANGED <<tables, faults, history>>

\* startSession. The session is late when a reset has changed the password since.
StartSession(r) ==
    /\ req[r].pc = "session"
    /\ LET s == Session(minted + 1, req[r].user, req[r].pw) IN
       /\ sessions' = sessions \union {s}
       /\ spared' = IF user[s.user].pw # s.pw THEN spared \union {s} ELSE spared
    /\ minted' = minted + 1
    /\ Return(r)
    /\ UNCHANGED <<user, tokens, member, bounds, origin, overlapped, redeemed, wasted>>

\* handleLogout: DeleteSession of the cookie's session.
Logout(s) ==
    /\ s \in sessions /\ issued < MaxRequests
    /\ sessions' = sessions \ {s}
    /\ issued' = issued + 1
    /\ UNCHANGED <<user, tokens, member, minted, req, faults, history>>

-----------------------------------------------------------------------------
(***************************************************************************)
(* Verification and reset.                                                  *)
(***************************************************************************)

\* handleResendVerification: the account is registered and unverified.
ResendCheck(r, u) ==
    /\ user[u].reg /\ ~user[u].verified
    /\ Start(r, Auth("mail", u, user[u].pw, "idle"))
    /\ UNCHANGED <<tables, faults, history>>

\* handleForgotPassword: UserByEmail.
ForgotCheck(r, u) ==
    /\ user[u].reg
    /\ Start(r, Auth("forgot", u, user[u].pw, "idle"))
    /\ UNCHANGED <<tables, faults, history>>

\* CreateAuthToken of sendVerification and of handleForgotPassword.
CreateAuthToken(r) ==
    /\ req[r].pc \in {"mail", "forgot"}
    /\ tokens' = tokens \union
         {Token(minted + 1, IF req[r].pc = "mail" THEN "verify_email" ELSE "reset_password",
                req[r].user, "none", "none")}
    /\ minted' = minted + 1
    /\ Continue(r)
    /\ UNCHANGED <<user, sessions, member, bounds, history>>

\* ConsumeAuthToken: DELETE ... RETURNING, so that of two uses one finds the row.
\* handleVerifyEmail and handleResetPassword begin with it.
ConsumeAuthToken(r, t) ==
    /\ t \in tokens /\ t.purpose \in {"verify_email", "reset_password"}
    /\ Start(r, Auth(IF t.purpose = "verify_email" THEN "mark" ELSE "setpw",
                     t.email, user[t.email].pw, "idle"))
    /\ tokens' = tokens \ {t}
    /\ UNCHANGED <<user, sessions, member, minted, faults, history>>

\* MarkEmailVerified.
MarkEmailVerified(r) ==
    /\ req[r].pc = "mark"
    /\ user' = [user EXCEPT ![req[r].user].verified = TRUE]
    /\ Continue(r)
    /\ UNCHANGED <<sessions, tokens, member, minted, bounds, history>>

\* SetPassword of handleResetPassword.
SetPassword(r) ==
    /\ req[r].pc = "setpw"
    /\ user' = [user EXCEPT ![req[r].user].pw = @ + 1]
    /\ Goto(r, "revoke")
    /\ UNCHANGED <<sessions, tokens, member, minted, bounds, history>>

\* Mutant of DeleteSessionsForUser: only the sessions begun before the old password.
DeleteOlderSessions(r) ==
    /\ req[r].pc = "revoke"
    /\ sessions' = {s \in sessions : s.user # req[r].user \/ s.pw >= req[r].pw}
    /\ Return(r)
    /\ UNCHANGED <<user, tokens, member, minted, bounds, history>>

\* DeleteSessionsForUser of handleResetPassword.
DeleteSessionsForUser(r) ==
    /\ req[r].pc = "revoke"
    /\ sessions' = {s \in sessions : s.user # req[r].user}
    /\ Return(r)
    /\ UNCHANGED <<user, tokens, member, minted, bounds, history>>

-----------------------------------------------------------------------------
(***************************************************************************)
(* The console: requireSession, then the membership handlers.               *)
(***************************************************************************)

\* requireSession: SessionUser.
SessionUser(r, s) ==
    /\ s \in sessions
    /\ Start(r, [pc |-> "role", user |-> s.user])
    /\ UNCHANGED <<tables, faults, history>>

\* requireSession's MembershipFor, then requireRole("admin"). The role is not read again.
MembershipFor(r) ==
    /\ req[r].pc = "role"
    /\ member[req[r].user].role \in Admins
    /\ req' = [req EXCEPT ![r] = [pc |-> "console", user |-> @.user,
                                  role |-> member[@.user].role]]
    /\ UNCHANGED <<tables, bounds, history>>

\* Mutant of InviteMember: an admin may invite owners.
InviteAnyRole(r, u, ro) ==
    /\ req[r].pc = "console"
    /\ tokens' = tokens \union {Token(minted + 1, "invite", u, ro, req[r].role)}
    /\ minted' = minted + 1
    /\ Return(r)
    /\ UNCHANGED <<user, sessions, member, bounds, history>>

\* handleInviteMember.
InviteMember(r, u, ro) ==
    /\ req[r].pc = "console"
    /\ ro = "owner" => req[r].role = "owner"
    /\ tokens' = tokens \union {Token(minted + 1, "invite", u, ro, req[r].role)}
    /\ minted' = minted + 1
    /\ Return(r)
    /\ UNCHANGED <<user, sessions, member, bounds, history>>

\* handleAcceptInvite: SessionUser and UserByID (an account's address never changes).
AcceptCheck(r, s) ==
    /\ s \in sessions
    /\ Start(r, [pc |-> "accept", user |-> s.user])
    /\ UNCHANGED <<tables, faults, history>>

\* ConsumeInviteToken: only for the address it was sent to.
ConsumeInviteToken(r, t) ==
    /\ req[r].pc = "accept"
    /\ t \in tokens /\ t.purpose = "invite" /\ t.email = req[r].user
    /\ tokens' = tokens \ {t}
    /\ req' = [req EXCEPT ![r] = [pc |-> "join", user |-> t.email, role |-> t.role, by |-> t.by]]
    /\ redeemed' = redeemed \union {t.email}
    /\ UNCHANGED <<user, sessions, member, minted, bounds, spared, origin, overlapped, wasted>>

\* The other requests in flight have not seen this change of the memberships.
Unseen(r, rec) ==
    [q \in Requests |-> IF q = r THEN rec
                        ELSE IF "fresh" \in DOMAIN req[q] THEN [req[q] EXCEPT !.fresh = FALSE]
                        ELSE req[q]]

\* Mutant of CreateMembership: silently skips accounts that are not verified.
CreateMembershipVerified(r) ==
    /\ req[r].pc = "join"
    /\ LET u == req[r].user IN
       IF member[u].role = "none" /\ user[u].verified
       THEN /\ member' = [member EXCEPT ![u] = [role |-> req[r].role, id |-> minted + 1]]
            /\ minted' = minted + 1
            /\ origin' = [origin EXCEPT ![u] = req[r].by]
            /\ req' = Unseen(r, Idle)
       ELSE Return(r) /\ UNCHANGED <<member, minted, origin>>
    /\ UNCHANGED <<user, sessions, tokens, bounds, spared, overlapped, redeemed, wasted>>

\* CreateMembership: ON CONFLICT DO NOTHING, so a member keeps the role it has.
CreateMembership(r) ==
    /\ req[r].pc = "join"
    /\ LET u == req[r].user IN
       IF member[u].role = "none"
       THEN /\ member' = [member EXCEPT ![u] = [role |-> req[r].role, id |-> minted + 1]]
            /\ minted' = minted + 1
            /\ origin' = [origin EXCEPT ![u] = req[r].by]
            /\ req' = Unseen(r, Idle)
       ELSE Return(r) /\ UNCHANGED <<member, minted, origin>>
    /\ UNCHANGED <<user, sessions, tokens, bounds, spared, overlapped, redeemed, wasted>>

\* Mutant of MembershipByID: an admin may change an owner.
MembershipByIDAny(r, u, ro) ==
    /\ req[r].pc = "console"
    /\ member[u].role # "none"
    /\ ro = "owner" => req[r].role = "owner"
    /\ req' = [req EXCEPT ![r] =
                 [pc |-> IF member[u].role = "owner" /\ ro # "owner" THEN "count" ELSE "write",
                  user |-> u, id |-> member[u].id, new |-> ro, role |-> @.role, fresh |-> TRUE]]
    /\ UNCHANGED <<tables, bounds, history>>

\* handleUpdateMember and handleRemoveMember (ro = "none"): MembershipByID, and the checks
\* on the role it returned.
MembershipByID(r, u, ro) ==
    /\ req[r].pc = "console"
    /\ member[u].role # "none"
    /\ member[u].role = "owner" => req[r].role = "owner"
    /\ ro = "owner" => req[r].role = "owner"
    /\ req' = [req EXCEPT ![r] =
                 [pc |-> IF member[u].role = "owner" /\ ro # "owner" THEN "count" ELSE "write",
                  user |-> u, id |-> member[u].id, new |-> ro, role |-> @.role, fresh |-> TRUE]]
    /\ UNCHANGED <<tables, bounds, history>>

\* Mutant of CountOwners: compares with zero.
CountOwnersZero(r) ==
    /\ req[r].pc = "count"
    /\ Cardinality(Owners) > 0
    /\ req' = [req EXCEPT ![r].pc = "write", ![r].fresh = TRUE]
    /\ UNCHANGED <<tables, bounds, history>>

\* CountOwners: the last owner is kept.
CountOwners(r) ==
    /\ req[r].pc = "count"
    /\ Cardinality(Owners) > 1
    /\ req' = [req EXCEPT ![r].pc = "write", ![r].fresh = TRUE]
    /\ UNCHANGED <<tables, bounds, history>>

\* Mutant of WriteMember: a removal blanks the role instead of deleting the row.
WriteMemberBlank(r) ==
    /\ req[r].pc = "write"
    /\ member' = [member EXCEPT ![req[r].user].role = IF req[r].new = "none" THEN ""
                                                      ELSE req[r].new]
    /\ Return(r)
    /\ UNCHANGED <<user, sessions, tokens, minted, bounds, history>>

\* UpdateMemberRole and DeleteMembership: by membership_id, whatever the role is now; a row
\* that is gone is an error (update) or nothing (delete).
WriteMember(r) ==
    /\ req[r].pc = "write"
    /\ LET u == req[r].user
           ro == req[r].new IN
       IF member[u].role # "none" /\ member[u].id = req[r].id
       THEN /\ member' = [member EXCEPT ![u] = IF ro = "none" THEN None ELSE [@ EXCEPT !.role = ro]]
            /\ origin' = [origin EXCEPT ![u] = req[r].role]
            /\ overlapped' = (overlapped \/ (member[u].role = "owner" /\ ~req[r].fresh))
            /\ redeemed' = IF ro = "none" THEN redeemed \ {u} ELSE redeemed
            /\ req' = Unseen(r, Idle)
       ELSE Return(r) /\ UNCHANGED <<member, origin, overlapped, redeemed>>
    /\ UNCHANGED <<user, sessions, tokens, minted, bounds, spared, wasted>>

-----------------------------------------------------------------------------
(***************************************************************************)
(* Refusals, failures and time.                                             *)
(***************************************************************************)

\* A check or a read of the console handlers ends the request before it has written.
Refuse(r) ==
    /\ req[r].pc \in {"role", "console", "accept", "count"}
    /\ Return(r)
    /\ UNCHANGED <<tables, bounds, history>>

Fault == faults < MaxFaults /\ faults' = faults + 1

\* What a request that fails or skips a step leaves behind.
Abandon(r) ==
    /\ spared' = IF req[r].pc = "revoke"
                 THEN spared \union {s \in sessions : s.user = req[r].user} ELSE spared
    /\ wasted' = IF req[r].pc = "join" THEN wasted \union {req[r].user} ELSE wasted
    /\ UNCHANGED <<origin, overlapped, redeemed>>

\* An error the handler ignores: MarkEmailVerified, CreateAuthToken, CreateSession,
\* SetPassword and DeleteSessionsForUser.
CallLost(r) ==
    /\ Fault
    /\ req[r].pc \in {"mark", "mail", "forgot", "session", "setpw", "revoke"}
    /\ IF req[r].pc = "setpw" THEN Goto(r, "revoke") ELSE Continue(r)
    /\ Abandon(r)
    /\ UNCHANGED <<tables, issued>>

\* An error it returns, a cancelled request or a restart of the server.
RequestDies(r) ==
    /\ Fault
    /\ req[r] # Idle
    /\ Return(r)
    /\ Abandon(r)
    /\ UNCHANGED <<tables, issued>>

\* expires_at passes.
Expire ==
    /\ \/ \E s \in sessions : sessions' = sessions \ {s} /\ UNCHANGED tokens
       \/ \E t \in tokens : tokens' = tokens \ {t} /\ UNCHANGED sessions
    /\ UNCHANGED <<user, member, minted, req, bounds, history>>

Next ==
    \/ \E r \in Requests :
         \/ \E u \in Users : \/ RegisterCheck(r, u) \/ OAuthCallback(r, u) \/ LoginCheck(r, u)
                             \/ ResendCheck(r, u) \/ ForgotCheck(r, u)
         \/ RegisterAccount(r) \/ StartSession(r) \/ CreateAuthToken(r)
         \/ MarkEmailVerified(r) \/ SetPassword(r) \/ DeleteSessionsForUser(r)
         \/ \E t \in tokens : ConsumeAuthToken(r, t) \/ ConsumeInviteToken(r, t)
         \/ \E s \in sessions : SessionUser(r, s) \/ AcceptCheck(r, s)
         \/ MembershipFor(r) \/ CreateMembership(r) \/ CountOwners(r) \/ WriteMember(r)
         \/ \E u \in Users, ro \in Asked : InviteMember(r, u, ro)
         \/ \E u \in Users, ro \in Asked \union {"none"} : MembershipByID(r, u, ro)
         \/ Refuse(r) \/ CallLost(r) \/ RequestDies(r)
    \/ \E s \in sessions : Logout(s)
    \/ Expire

Spec == Init /\ [][Next]_vars

-----------------------------------------------------------------------------
(***************************************************************************)
(* Properties.                                                              *)
(***************************************************************************)
SessionRows == [id : Nat, user : Users, pw : Nat]
TokenRows   == [id : Nat, purpose : {"verify_email", "reset_password", "invite"},
                email : Users, role : Ranked, by : Ranked]

InFlight ==
    {Idle}
    \union [pc : {"register", "session", "mail", "forgot", "mark", "setpw", "revoke"},
            user : Users, pw : Nat, then : {"idle", "session"}]
    \union [pc : {"role", "accept"}, user : Users]
    \union [pc : {"console"}, user : Users, role : Admins]
    \union [pc : {"join"}, user : Users, role : Asked, by : Admins]
    \union [pc : {"count", "write"}, user : Users, id : Nat, new : Asked \union {"none"},
            role : Admins, fresh : BOOLEAN]

\* Every table and every handler keeps its shape; a session belongs to a registered user.
TypeOK ==
    /\ user \in [Users -> [reg : BOOLEAN, pw : Nat, verified : BOOLEAN]]
    /\ sessions \subseteq SessionRows /\ tokens \subseteq TokenRows
    /\ \A s \in sessions : user[s.user].reg
    /\ member \in [Users -> [role : Ranked, id : Nat]]
    /\ req \in [Requests -> InFlight]
    /\ minted \in Nat /\ issued \in 0..MaxRequests /\ faults \in 0..MaxFaults
    /\ spared \subseteq SessionRows /\ origin \in [Users -> Ranked]
    /\ overlapped \in BOOLEAN /\ redeemed \subseteq Users /\ wasted \subseteq Users

\* handleUpdateMember and handleRemoveMember preserve at least one owner, except when an
\* owner was demoted or removed on a count, or on a role, that another request had already
\* overtaken.
OwnerKept == Owners = {} => overlapped

\* Only owners make owners: an invite's role was checked when it was written, is kept until
\* it is accepted, and no path of an admin ends in an owner.
OwnersMadeByOwners == \A u \in Owners : origin[u] = "owner"

\* Only an owner acts on an owner's membership, unless another request changed the
\* memberships after the handler had read the target's role (and made the target an owner).
OwnerTouchedByOwners ==
    [][\A u \in Owners : member'[u] # member[u] =>
          \E r \in Requests : /\ req[r].pc = "write" /\ req[r].user = u /\ req'[r] = Idle
                              /\ req[r].role = "owner" \/ ~req[r].fresh]_vars

\* A password reset ends the sessions begun before it: a live session begun with an older
\* password is about to be revoked, or its login overlapped the reset, or the revocation
\* failed.
ResetEndsSessions ==
    \A s \in sessions :
        s.pw < user[s.user].pw =>
            \/ s \in spared
            \/ \E r \in Requests : req[r].pc = "revoke" /\ req[r].user = s.user

\* An invite that was used up made its user a member, or is about to, unless the request
\* failed between the two statements.
InviteNotWasted ==
    \A u \in redeemed :
        \/ member[u].role # "none"
        \/ \E r \in Requests : req[r].pc = "join" /\ req[r].user = u
        \/ u \in wasted
=============================================================================
