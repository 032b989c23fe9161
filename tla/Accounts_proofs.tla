--------------------------- MODULE Accounts_proofs ---------------------------
(***************************************************************************)
(* Ownership, sessions and invites are safe, for any accounts, any members  *)
(* at the start and any requests in flight.  Each property strengthens to   *)
(* what the requests in flight may still do: Registered, Ownership and      *)
(* Counted say of every handler what it has checked and what is still true  *)
(* of it when it writes.                                                    *)
(***************************************************************************)
EXTENDS Accounts, FiniteSetTheorems, TLAPS

-----------------------------------------------------------------------------
(***************************************************************************)
(* The requests in flight, by the shape of their records.                   *)
(***************************************************************************)
AuthReqs    == [pc : {"register", "session", "mail", "forgot", "mark", "setpw", "revoke"},
                user : Users, pw : Nat, then : {"idle", "session"}]
SeekReqs    == [pc : {"role", "accept"}, user : Users]
ConsoleReqs == [pc : {"console"}, user : Users, role : Admins]
JoinReqs    == [pc : {"join"}, user : Users, role : Asked, by : Admins]
WriteReqs   == [pc : {"count", "write"}, user : Users, id : Nat, new : Asked \union {"none"},
                role : Admins, fresh : BOOLEAN]

\* The shape of a request follows from its pc.
LEMMA Shape ==
  ASSUME NEW q \in InFlight
  PROVE  /\ q.pc \in {"idle", "register", "session", "mail", "forgot", "mark", "setpw", "revoke",
                      "role", "accept", "console", "join", "count", "write"}
         /\ q.pc = "idle" => q = Idle
         /\ q.pc \in {"register", "session", "mail", "forgot", "mark", "setpw", "revoke"}
              => q \in AuthReqs
         /\ q.pc \in {"role", "accept"} => q \in SeekReqs
         /\ q.pc = "console" => q \in ConsoleReqs
         /\ q.pc = "join" => q \in JoinReqs
         /\ q.pc \in {"count", "write"} <=> q \in WriteReqs
<1>1. CASE q = Idle
  BY <1>1 DEF Idle, WriteReqs
<1>2. CASE q \in AuthReqs
  BY <1>2 DEF AuthReqs, WriteReqs
<1>3. CASE q \in SeekReqs
  BY <1>3 DEF SeekReqs, WriteReqs
<1>4. CASE q \in ConsoleReqs
  BY <1>4 DEF ConsoleReqs, WriteReqs
<1>5. CASE q \in JoinReqs
  BY <1>5 DEF JoinReqs, WriteReqs
<1>6. CASE q \in WriteReqs
  BY <1>6 DEF WriteReqs
<1> QED
  BY <1>1, <1>2, <1>3, <1>4, <1>5, <1>6
     DEF InFlight, AuthReqs, SeekReqs, ConsoleReqs, JoinReqs, WriteReqs

LEMMA Shapes == InFlight = {Idle} \union AuthReqs \union SeekReqs \union ConsoleReqs
                           \union JoinReqs \union WriteReqs
  BY DEF InFlight, AuthReqs, SeekReqs, ConsoleReqs, JoinReqs, WriteReqs

\* Only a membership request has a field to clear.
LEMMA HasFresh ==
  ASSUME NEW q \in InFlight
  PROVE  "fresh" \in DOMAIN q <=> q \in WriteReqs
<1>1. CASE q = Idle
  BY <1>1, Shape DEF Idle
<1>2. CASE q \in AuthReqs
  BY <1>2, Shape DEF AuthReqs
<1>3. CASE q \in SeekReqs
  BY <1>3, Shape DEF SeekReqs
<1>4. CASE q \in ConsoleReqs
  BY <1>4, Shape DEF ConsoleReqs
<1>5. CASE q \in JoinReqs
  BY <1>5, Shape DEF JoinReqs
<1>6. CASE q \in WriteReqs
  BY <1>6 DEF WriteReqs
<1> QED
  BY <1>1, <1>2, <1>3, <1>4, <1>5, <1>6, Shapes

\* After a change of the memberships, every other request is as it was, except that a
\* membership request is not fresh.
LEMMA UnseenEffect ==
  ASSUME req \in [Requests -> InFlight], NEW r \in Requests, NEW rec \in InFlight
  PROVE  /\ Unseen(r, rec) \in [Requests -> InFlight]
         /\ Unseen(r, rec)[r] = rec
         /\ \A q \in Requests \ {r} :
              /\ req[q].pc \in {"count", "write"} =>
                   Unseen(r, rec)[q] = [req[q] EXCEPT !.fresh = FALSE]
              /\ req[q].pc \notin {"count", "write"} => Unseen(r, rec)[q] = req[q]
<1>1. \A q \in Requests : req[q] \in WriteReqs => [req[q] EXCEPT !.fresh = FALSE] \in WriteReqs
  BY DEF WriteReqs
<1>2. \A q \in Requests : "fresh" \in DOMAIN req[q] <=> req[q] \in WriteReqs
  BY HasFresh
<1>3. \A q \in Requests : req[q] \in WriteReqs <=> req[q].pc \in {"count", "write"}
  BY Shape
<1> QED
  BY <1>1, <1>2, <1>3, Shapes DEF Unseen

LEMMA UnseenFields ==
  ASSUME req \in [Requests -> InFlight], NEW r \in Requests, NEW rec \in InFlight,
         NEW q \in Requests, q # r
  PROVE  /\ Unseen(r, rec)[q].pc = req[q].pc
         /\ req[q].pc \notin {"count", "write"} => Unseen(r, rec)[q] = req[q]
         /\ req[q].pc \in {"count", "write"} =>
              /\ Unseen(r, rec)[q].user = req[q].user
              /\ Unseen(r, rec)[q].new = req[q].new
              /\ Unseen(r, rec)[q].role = req[q].role
              /\ ~Unseen(r, rec)[q].fresh
<1>1. CASE req[q].pc \in {"count", "write"}
  <2>1. req[q] \in WriteReqs
    BY <1>1, Shape
  <2>2. Unseen(r, rec)[q] = [req[q] EXCEPT !.fresh = FALSE]
    BY <1>1, UnseenEffect
  <2> QED
    BY <1>1, <2>1, <2>2 DEF WriteReqs
<1>2. CASE req[q].pc \notin {"count", "write"}
  <2>1. "fresh" \notin DOMAIN req[q]
    BY <1>2, Shape, HasFresh
  <2>2. Unseen(r, rec)[q] = req[q]
    BY <2>1 DEF Unseen
  <2> QED
    BY <1>2, <2>2
<1> QED
  BY <1>1, <1>2

\* The moves of a request keep its shape.
LEMMA MoveType ==
  ASSUME req \in [Requests -> InFlight], NEW r \in Requests
  PROVE  /\ Return(r) => req' \in [Requests -> InFlight]
         /\ \A rec \in InFlight : Start(r, rec) => req' \in [Requests -> InFlight]
         /\ req[r] \in AuthReqs =>
              /\ \A pc \in {"session", "mail", "mark", "revoke"} :
                   Goto(r, pc) => req' \in [Requests -> InFlight]
              /\ Continue(r) => req' \in [Requests -> InFlight]
<1>1. Idle \in InFlight
  BY Shapes
<1>2. ASSUME req[r] \in AuthReqs, NEW pc \in {"session", "mail", "mark", "revoke"}, Goto(r, pc)
      PROVE  req' \in [Requests -> InFlight]
  <2>1. [req[r] EXCEPT !.pc = pc] \in AuthReqs
    BY <1>2 DEF AuthReqs
  <2> QED
    BY <1>2, <2>1, Shapes DEF Goto
<1>3. req[r] \in AuthReqs => req[r].then \in {"idle", "session"}
  BY DEF AuthReqs
<1> QED
  BY <1>1, <1>2, <1>3 DEF Return, Start, Continue

-----------------------------------------------------------------------------
(***************************************************************************)
(* Types.                                                                   *)
(***************************************************************************)

\* Handlers past their first read, and tokens sent by mail, are of registered accounts.
Registered ==
    /\ \A r \in Requests :
         req[r].pc \in {"session", "mail", "forgot", "mark", "setpw", "revoke"}
           => user[req[r].user].reg
    /\ \A t \in tokens : t.purpose # "invite" => user[t.email].reg

\* An invite names a role that was asked for and the role of who asked.
InvitesKnown == \A t \in tokens : t.purpose = "invite" => t.role \in Asked /\ t.by \in Admins

Typed == TypeOK /\ Registered /\ InvitesKnown

\* Requests keep their shapes.
LEMMA StepReqType == Typed /\ [Next]_vars => req' \in [Requests -> InFlight]
<1> SUFFICES ASSUME Typed, [Next]_vars PROVE req' \in [Requests -> InFlight]
  OBVIOUS
<1>0. /\ req \in [Requests -> InFlight]
      /\ user \in [Users -> [reg : BOOLEAN, pw : Nat, verified : BOOLEAN]]
      /\ member \in [Users -> [role : Ranked, id : Nat]]
      /\ sessions \subseteq SessionRows /\ tokens \subseteq TokenRows
  BY DEF Typed, TypeOK
<1>a. \A u \in Users, pc \in {"register", "session", "mail", "forgot", "mark", "setpw"},
         p \in Nat, then \in {"idle", "session"} : Auth(pc, u, p, then) \in InFlight
  BY Shapes DEF Auth, AuthReqs
<1>1. ASSUME NEW r \in Requests, NEW u \in Users,
             RegisterCheck(r, u) \/ OAuthCallback(r, u) \/ LoginCheck(r, u)
               \/ ResendCheck(r, u) \/ ForgotCheck(r, u)
      PROVE  req' \in [Requests -> InFlight]
  BY <1>0, <1>1, <1>a, MoveType
     DEF RegisterCheck, OAuthCallback, LoginCheck, ResendCheck, ForgotCheck
<1>2. ASSUME NEW r \in Requests,
             RegisterAccount(r) \/ CreateAuthToken(r) \/ MarkEmailVerified(r)
               \/ SetPassword(r) \/ CallLost(r)
      PROVE  req' \in [Requests -> InFlight]
  <2>1. req[r] \in AuthReqs
    BY <1>0, <1>2, Shape
       DEF RegisterAccount, CreateAuthToken, MarkEmailVerified, SetPassword, CallLost
  <2> QED
    BY <1>0, <1>2, <2>1, MoveType
       DEF RegisterAccount, CreateAuthToken, MarkEmailVerified, SetPassword, CallLost
<1>3. ASSUME NEW r \in Requests,
             StartSession(r) \/ DeleteSessionsForUser(r) \/ Refuse(r) \/ RequestDies(r)
               \/ (\E u \in Users, ro \in Asked : InviteMember(r, u, ro))
      PROVE  req' \in [Requests -> InFlight]
  BY <1>0, <1>3, MoveType
     DEF StartSession, DeleteSessionsForUser, Refuse, RequestDies, InviteMember
<1>4. ASSUME NEW r \in Requests, NEW t \in tokens, ConsumeAuthToken(r, t)
      PROVE  req' \in [Requests -> InFlight]
  <2>1. t.email \in Users /\ user[t.email].pw \in Nat
    BY <1>0 DEF TokenRows
  <2> QED
    BY <1>0, <1>4, <1>a, <2>1, MoveType DEF ConsumeAuthToken
<1>5. ASSUME NEW r \in Requests, NEW t \in tokens, ConsumeInviteToken(r, t)
      PROVE  req' \in [Requests -> InFlight]
  <2>1. [pc |-> "join", user |-> t.email, role |-> t.role, by |-> t.by] \in JoinReqs
    BY <1>0, <1>5 DEF ConsumeInviteToken, JoinReqs, Typed, InvitesKnown, TokenRows
  <2> QED
    BY <1>0, <1>5, <2>1, Shapes DEF ConsumeInviteToken
<1>6. ASSUME NEW r \in Requests, NEW s \in sessions, SessionUser(r, s) \/ AcceptCheck(r, s)
      PROVE  req' \in [Requests -> InFlight]
  <2>1. \A pc \in {"role", "accept"} : [pc |-> pc, user |-> s.user] \in InFlight
    BY <1>0, Shapes DEF SessionRows, SeekReqs
  <2> QED
    BY <1>0, <1>6, <2>1, MoveType DEF SessionUser, AcceptCheck
<1>7. ASSUME NEW r \in Requests, MembershipFor(r) PROVE req' \in [Requests -> InFlight]
  <2>1. req[r] \in SeekReqs
    BY <1>0, <1>7, Shape DEF MembershipFor
  <2>2. [pc |-> "console", user |-> req[r].user, role |-> member[req[r].user].role] \in ConsoleReqs
    BY <1>0, <1>7, <2>1 DEF MembershipFor, ConsoleReqs, SeekReqs
  <2> QED
    BY <1>0, <1>7, <2>2, Shapes DEF MembershipFor
<1>8. ASSUME NEW r \in Requests, CreateMembership(r) \/ WriteMember(r)
      PROVE  req' \in [Requests -> InFlight]
  <2>1. Idle \in InFlight
    BY Shapes
  <2> QED
    BY <1>0, <1>8, <2>1, UnseenEffect, MoveType DEF CreateMembership, WriteMember
<1>9. ASSUME NEW r \in Requests, CountOwners(r) PROVE req' \in [Requests -> InFlight]
  <2>1. req[r] \in WriteReqs
    BY <1>0, <1>9, Shape DEF CountOwners
  <2>2. [req[r] EXCEPT !.pc = "write", !.fresh = TRUE] \in WriteReqs
    BY <2>1 DEF WriteReqs
  <2> QED
    BY <1>0, <1>9, <2>2, Shapes DEF CountOwners
<1>10. ASSUME NEW r \in Requests, NEW u \in Users, NEW ro \in Asked \union {"none"},
              MembershipByID(r, u, ro)
       PROVE  req' \in [Requests -> InFlight]
  <2>1. req[r] \in ConsoleReqs
    BY <1>0, <1>10, Shape DEF MembershipByID
  <2>2. \A pc \in {"count", "write"} :
          [pc |-> pc, user |-> u, id |-> member[u].id, new |-> ro, role |-> req[r].role,
           fresh |-> TRUE] \in WriteReqs
    BY <1>0, <2>1 DEF WriteReqs, ConsoleReqs
  <2> QED
    BY <1>0, <1>10, <2>2, Shapes DEF MembershipByID
<1>11. CASE UNCHANGED req
  BY <1>0, <1>11
<1> QED
  BY <1>1, <1>2, <1>3, <1>4, <1>5, <1>6, <1>7, <1>8, <1>9, <1>10, <1>11
     DEF Next, Logout, Expire, vars

\* Which actions write which table.
LEMMA Frame ==
  ASSUME [Next]_vars
  PROVE  /\ user' = user \/ \E r \in Requests : RegisterAccount(r) \/ MarkEmailVerified(r)
                                                \/ SetPassword(r)
         /\ sessions' \subseteq sessions \/ \E r \in Requests : StartSession(r)
         /\ \/ tokens' \subseteq tokens
            \/ \E r \in Requests : \/ CreateAuthToken(r)
                                   \/ \E u \in Users, ro \in Asked : InviteMember(r, u, ro)
         /\ \/ UNCHANGED <<member, origin, overlapped>>
            \/ \E r \in Requests : CreateMembership(r) \/ WriteMember(r)
<1> USE DEF tables, bounds, history
<1>1. ASSUME NEW r \in Requests, NEW u \in Users,
             RegisterCheck(r, u) \/ OAuthCallback(r, u) \/ LoginCheck(r, u)
               \/ ResendCheck(r, u) \/ ForgotCheck(r, u)
      PROVE  UNCHANGED <<user, sessions, tokens, member, origin, overlapped>>
  BY <1>1 DEF RegisterCheck, OAuthCallback, LoginCheck, ResendCheck, ForgotCheck
<1>2. ASSUME NEW r \in Requests,
             RegisterAccount(r) \/ MarkEmailVerified(r) \/ SetPassword(r)
      PROVE  UNCHANGED <<sessions, tokens, member, origin, overlapped>>
  BY <1>2 DEF RegisterAccount, MarkEmailVerified, SetPassword
<1>3. ASSUME NEW r \in Requests, StartSession(r)
      PROVE  UNCHANGED <<user, tokens, member, origin, overlapped>>
  BY <1>3 DEF StartSession
<1>4. ASSUME NEW r \in Requests,
             CreateAuthToken(r) \/ (\E u \in Users, ro \in Asked : InviteMember(r, u, ro))
      PROVE  UNCHANGED <<user, sessions, member, origin, overlapped>>
  BY <1>4 DEF CreateAuthToken, InviteMember
<1>5. ASSUME NEW r \in Requests, CreateMembership(r) \/ WriteMember(r)
      PROVE  UNCHANGED <<user, sessions, tokens>>
  BY <1>5 DEF CreateMembership, WriteMember
<1>6. ASSUME NEW r \in Requests,
             \/ DeleteSessionsForUser(r)
             \/ \E t \in tokens : ConsumeAuthToken(r, t) \/ ConsumeInviteToken(r, t)
             \/ \E s \in sessions : SessionUser(r, s) \/ AcceptCheck(r, s)
      PROVE  /\ UNCHANGED <<user, member, origin, overlapped>>
             /\ sessions' \subseteq sessions /\ tokens' \subseteq tokens
  BY <1>6 DEF DeleteSessionsForUser, ConsumeAuthToken, ConsumeInviteToken, SessionUser, AcceptCheck
<1>7. ASSUME NEW r \in Requests,
             \/ MembershipFor(r) \/ CountOwners(r) \/ Refuse(r) \/ CallLost(r) \/ RequestDies(r)
             \/ \E u \in Users, ro \in Asked \union {"none"} : MembershipByID(r, u, ro)
      PROVE  UNCHANGED <<user, sessions, tokens, member, origin, overlapped>>
  BY <1>7 DEF MembershipFor, CountOwners, Refuse, CallLost, RequestDies, MembershipByID, Abandon
<1>8. ASSUME Expire \/ (\E s \in sessions : Logout(s)) \/ UNCHANGED vars
      PROVE  /\ UNCHANGED <<user, member, origin, overlapped>>
             /\ sessions' \subseteq sessions /\ tokens' \subseteq tokens
  BY <1>8 DEF Expire, Logout, vars
<1> QED
  BY <1>1, <1>2, <1>3, <1>4, <1>5, <1>6, <1>7, <1>8 DEF Next

\* What the writers of user do: accounts stay registered and keep their type.
LEMMA UserStep ==
  ASSUME Typed, [Next]_vars
  PROVE  /\ user' \in [Users -> [reg : BOOLEAN, pw : Nat, verified : BOOLEAN]]
         /\ \A u \in Users : user[u].reg => user'[u].reg
<1>0. /\ req \in [Requests -> InFlight]
      /\ user \in [Users -> [reg : BOOLEAN, pw : Nat, verified : BOOLEAN]]
  BY DEF Typed, TypeOK
<1>1. ASSUME NEW r \in Requests, RegisterAccount(r) \/ MarkEmailVerified(r) \/ SetPassword(r)
      PROVE  /\ user' \in [Users -> [reg : BOOLEAN, pw : Nat, verified : BOOLEAN]]
             /\ \A u \in Users : user[u].reg => user'[u].reg
  <2>1. req[r].user \in Users /\ req[r].pw \in Nat
    <3>1. req[r] \in AuthReqs
      BY <1>0, <1>1, Shape DEF RegisterAccount, MarkEmailVerified, SetPassword
    <3> QED
      BY <3>1 DEF AuthReqs
  <2>2. CASE RegisterAccount(r)
    <3>1. \/ user' = user
          \/ user' = [user EXCEPT ![req[r].user] =
                         [reg |-> TRUE, pw |-> req[r].pw, verified |-> FALSE]]
      BY <2>2 DEF RegisterAccount
    <3>2. [reg |-> TRUE, pw |-> req[r].pw, verified |-> FALSE]
            \in [reg : BOOLEAN, pw : Nat, verified : BOOLEAN]
      BY <2>1
    <3>3. user' \in [Users -> [reg : BOOLEAN, pw : Nat, verified : BOOLEAN]]
      BY <1>0, <3>1, <3>2
    <3>4. ASSUME NEW u \in Users, user[u].reg PROVE user'[u].reg
      BY <1>0, <2>1, <3>1, <3>4
    <3> QED
      BY <3>3, <3>4
  <2>3. CASE MarkEmailVerified(r)
    BY <1>0, <2>1, <2>3 DEF MarkEmailVerified
  <2>4. CASE SetPassword(r)
    BY <1>0, <2>1, <2>4 DEF SetPassword
  <2> QED
    BY <1>1, <2>2, <2>3, <2>4
<1> QED
  BY <1>0, <1>1, Frame

\* Ids are drawn one at a time.
LEMMA Minting == [Next]_vars => minted' = minted \/ minted' = minted + 1
<1> SUFFICES ASSUME [Next]_vars PROVE minted' = minted \/ minted' = minted + 1
  OBVIOUS
<1> USE DEF tables, bounds, history
<1>1. ASSUME NEW r \in Requests, NEW u \in Users,
             RegisterCheck(r, u) \/ OAuthCallback(r, u) \/ LoginCheck(r, u)
               \/ ResendCheck(r, u) \/ ForgotCheck(r, u)
      PROVE  minted' = minted
  BY <1>1 DEF RegisterCheck, OAuthCallback, LoginCheck, ResendCheck, ForgotCheck
<1>2. ASSUME NEW r \in Requests,
             RegisterAccount(r) \/ MarkEmailVerified(r) \/ SetPassword(r) \/ WriteMember(r)
               \/ DeleteSessionsForUser(r)
      PROVE  minted' = minted
  BY <1>2 DEF RegisterAccount, MarkEmailVerified, SetPassword, WriteMember, DeleteSessionsForUser
<1>3. ASSUME NEW r \in Requests,
             StartSession(r) \/ CreateAuthToken(r) \/ CreateMembership(r)
               \/ (\E u \in Users, ro \in Asked : InviteMember(r, u, ro))
      PROVE  minted' = minted \/ minted' = minted + 1
  BY <1>3 DEF StartSession, CreateAuthToken, CreateMembership, InviteMember
<1>4. ASSUME NEW r \in Requests,
             \/ \E t \in tokens : ConsumeAuthToken(r, t) \/ ConsumeInviteToken(r, t)
             \/ \E s \in sessions : SessionUser(r, s) \/ AcceptCheck(r, s)
      PROVE  minted' = minted
  BY <1>4 DEF ConsumeAuthToken, ConsumeInviteToken, SessionUser, AcceptCheck
<1>5. ASSUME NEW r \in Requests,
             \/ MembershipFor(r) \/ CountOwners(r) \/ Refuse(r) \/ CallLost(r) \/ RequestDies(r)
             \/ \E u \in Users, ro \in Asked \union {"none"} : MembershipByID(r, u, ro)
      PROVE  minted' = minted
  BY <1>5 DEF MembershipFor, CountOwners, Refuse, CallLost, RequestDies, MembershipByID
<1>6. ASSUME Expire \/ (\E s \in sessions : Logout(s)) \/ UNCHANGED vars PROVE minted' = minted
  BY <1>6 DEF Expire, Logout, vars
<1> QED
  BY <1>1, <1>2, <1>3, <1>4, <1>5, <1>6 DEF Next

\* Every action keeps the types of the tables, and their rows belong to registered users.
LEMMA StepTables ==
  ASSUME Typed, [Next]_vars
  PROVE  /\ sessions' \subseteq SessionRows /\ tokens' \subseteq TokenRows
         /\ \A s \in sessions' : user'[s.user].reg
         /\ \A t \in tokens' : t.purpose # "invite" => user'[t.email].reg
         /\ member' \in [Users -> [role : Ranked, id : Nat]]
         /\ minted' \in Nat
<1>0. /\ req \in [Requests -> InFlight] /\ minted \in Nat
      /\ sessions \subseteq SessionRows /\ tokens \subseteq TokenRows
      /\ member \in [Users -> [role : Ranked, id : Nat]]
      /\ \A u \in Users : user[u].reg => user'[u].reg
      /\ \A s \in sessions : user[s.user].reg
      /\ \A t \in tokens : t.purpose # "invite" => user[t.email].reg
  BY UserStep DEF Typed, TypeOK, Registered
<1>1. sessions' \subseteq SessionRows /\ \A s \in sessions' : user'[s.user].reg
  <2>1. CASE sessions' \subseteq sessions
    BY <1>0, <2>1 DEF SessionRows
  <2>2. ASSUME NEW r \in Requests, StartSession(r)
        PROVE  sessions' \subseteq SessionRows /\ \A s \in sessions' : user'[s.user].reg
    <3>1. req[r] \in AuthReqs /\ user[req[r].user].reg
      BY <1>0, <2>2, Shape DEF StartSession, Typed, Registered
    <3>2. req[r].user \in Users /\ req[r].pw \in Nat
      BY <3>1 DEF AuthReqs
    <3>3. sessions' = sessions \union {Session(minted + 1, req[r].user, req[r].pw)}
      BY <2>2 DEF StartSession
    <3> QED
      BY <1>0, <3>1, <3>2, <3>3 DEF Session, SessionRows
  <2> QED
    BY <2>1, <2>2, Frame
<1>2. tokens' \subseteq TokenRows /\ \A t \in tokens' : t.purpose # "invite" => user'[t.email].reg
  <2>1. CASE tokens' \subseteq tokens
    BY <1>0, <2>1 DEF TokenRows
  <2>2. ASSUME NEW r \in Requests, CreateAuthToken(r)
        PROVE  /\ tokens' \subseteq TokenRows
               /\ \A t \in tokens' : t.purpose # "invite" => user'[t.email].reg
    <3>1. req[r] \in AuthReqs /\ user[req[r].user].reg
      BY <1>0, <2>2, Shape DEF CreateAuthToken, Typed, Registered
    <3>2. req[r].user \in Users
      BY <3>1 DEF AuthReqs
    <3>3. PICK p \in {"verify_email", "reset_password"} :
            tokens' = tokens \union {Token(minted + 1, p, req[r].user, "none", "none")}
      BY <2>2 DEF CreateAuthToken
    <3> QED
      BY <1>0, <3>1, <3>2, <3>3 DEF Token, TokenRows, Ranked
  <2>3. ASSUME NEW r \in Requests, NEW u \in Users, NEW ro \in Asked, InviteMember(r, u, ro)
        PROVE  /\ tokens' \subseteq TokenRows
               /\ \A t \in tokens' : t.purpose # "invite" => user'[t.email].reg
    <3>1. req[r] \in ConsoleReqs
      BY <1>0, <2>3, Shape DEF InviteMember
    <3>2. req[r].role \in Ranked /\ ro \in Ranked
      BY <3>1, AccountsAssumption DEF ConsoleReqs, Ranked, Roles, Admins
    <3>3. tokens' = tokens \union {Token(minted + 1, "invite", u, ro, req[r].role)}
      BY <2>3 DEF InviteMember
    <3> QED
      BY <1>0, <3>2, <3>3 DEF Token, TokenRows
  <2> QED
    BY <2>1, <2>2, <2>3, Frame
<1>3. member' \in [Users -> [role : Ranked, id : Nat]]
  <2>1. ASSUME NEW r \in Requests, CreateMembership(r) PROVE member' \in [Users -> [role : Ranked, id : Nat]]
    <3>1. req[r] \in JoinReqs
      BY <1>0, <2>1, Shape DEF CreateMembership
    <3>2. req[r].user \in Users /\ req[r].role \in Ranked
      BY <3>1, AccountsAssumption DEF JoinReqs, Ranked
    <3> QED
      BY <1>0, <2>1, <3>2 DEF CreateMembership
  <2>2. ASSUME NEW r \in Requests, WriteMember(r) PROVE member' \in [Users -> [role : Ranked, id : Nat]]
    <3>1. req[r] \in WriteReqs
      BY <1>0, <2>2, Shape DEF WriteMember
    <3>2. req[r].user \in Users /\ req[r].new \in Ranked
      BY <3>1, AccountsAssumption DEF WriteReqs, Ranked
    <3> QED
      BY <1>0, <2>2, <3>2 DEF WriteMember, None, Ranked
  <2> QED
    BY <1>0, <2>1, <2>2, Frame
<1>4. minted' \in Nat
  BY <1>0, Minting
<1> QED
  BY <1>1, <1>2, <1>3, <1>4

\* The counters stay within their bounds, the histories keep their types.
LEMMA StepHistory ==
  ASSUME Typed, [Next]_vars
  PROVE  /\ issued' \in 0..MaxRequests /\ faults' \in 0..MaxFaults
         /\ spared' \subseteq SessionRows /\ origin' \in [Users -> Ranked]
         /\ overlapped' \in BOOLEAN /\ redeemed' \subseteq Users /\ wasted' \subseteq Users
<1> USE AccountsAssumption DEF tables, bounds, history
<1>0. /\ req \in [Requests -> InFlight] /\ minted \in Nat
      /\ issued \in 0..MaxRequests /\ faults \in 0..MaxFaults
      /\ sessions \subseteq SessionRows /\ tokens \subseteq TokenRows
      /\ spared \subseteq SessionRows /\ origin \in [Users -> Ranked]
      /\ overlapped \in BOOLEAN /\ redeemed \subseteq Users /\ wasted \subseteq Users
      /\ \A r \in Requests : req[r].pc = "join" => req[r].user \in Users /\ req[r].by \in Ranked
      /\ \A r \in Requests : req[r].pc = "write" => /\ req[r].role \in Ranked
                                                    /\ req[r].user \in Users
                                                    /\ req[r].fresh \in BOOLEAN
  <2>1. req \in [Requests -> InFlight]
    BY DEF Typed, TypeOK
  <2>2. \A r \in Requests : req[r].pc = "join" => req[r].user \in Users /\ req[r].by \in Ranked
    BY <2>1, Shape DEF JoinReqs, Admins, Ranked, Roles
  <2>3. \A r \in Requests : req[r].pc = "write" => /\ req[r].role \in Ranked
                                                   /\ req[r].user \in Users
                                                   /\ req[r].fresh \in BOOLEAN
    BY <2>1, Shape DEF WriteReqs, Admins, Ranked, Roles
  <2> QED
    BY <2>1, <2>2, <2>3 DEF Typed, TypeOK
<1> DEFINE G == /\ issued' \in 0..MaxRequests /\ faults' \in 0..MaxFaults
                /\ spared' \subseteq SessionRows /\ origin' \in [Users -> Ranked]
                /\ overlapped' \in BOOLEAN /\ redeemed' \subseteq Users /\ wasted' \subseteq Users
<1>1. ASSUME NEW r \in Requests, NEW u \in Users,
             RegisterCheck(r, u) \/ OAuthCallback(r, u) \/ LoginCheck(r, u)
               \/ ResendCheck(r, u) \/ ForgotCheck(r, u)
      PROVE  G
  BY <1>0, <1>1 DEF RegisterCheck, OAuthCallback, LoginCheck, ResendCheck, ForgotCheck, Start
<1>2. ASSUME NEW r \in Requests,
             RegisterAccount(r) \/ MarkEmailVerified(r) \/ SetPassword(r) \/ CreateAuthToken(r)
               \/ DeleteSessionsForUser(r)
      PROVE  G
  BY <1>0, <1>2 DEF RegisterAccount, MarkEmailVerified, SetPassword, CreateAuthToken,
     DeleteSessionsForUser
<1>3. ASSUME NEW r \in Requests, StartSession(r) PROVE G
  <2>1. req[r] \in AuthReqs
    BY <1>0, <1>3, Shape DEF StartSession
  <2>2. Session(minted + 1, req[r].user, req[r].pw) \in SessionRows
    BY <1>0, <2>1 DEF AuthReqs, Session, SessionRows
  <2>3. spared' \subseteq spared \union {Session(minted + 1, req[r].user, req[r].pw)}
    BY <1>3 DEF StartSession
  <2> QED
    BY <1>0, <1>3, <2>2, <2>3 DEF StartSession
<1>4. ASSUME NEW r \in Requests, NEW u \in Users, NEW ro \in Asked \union {"none"},
             InviteMember(r, u, ro) \/ MembershipByID(r, u, ro)
      PROVE  G
  BY <1>0, <1>4 DEF InviteMember, MembershipByID
<1>5. ASSUME NEW r \in Requests, NEW t \in tokens, ConsumeAuthToken(r, t) \/ ConsumeInviteToken(r, t)
      PROVE  G
  BY <1>0, <1>5 DEF ConsumeAuthToken, ConsumeInviteToken, Start, TokenRows
<1>6. ASSUME NEW r \in Requests, NEW s \in sessions, SessionUser(r, s) \/ AcceptCheck(r, s) PROVE G
  BY <1>0, <1>6 DEF SessionUser, AcceptCheck, Start
<1>7. ASSUME NEW r \in Requests, MembershipFor(r) \/ CountOwners(r) \/ Refuse(r) PROVE G
  BY <1>0, <1>7 DEF MembershipFor, CountOwners, Refuse
<1>8. ASSUME NEW r \in Requests, CallLost(r) \/ RequestDies(r) PROVE G
  BY <1>0, <1>8 DEF CallLost, RequestDies, Fault, Abandon
<1>9. ASSUME NEW r \in Requests, CreateMembership(r) PROVE G
  BY <1>0, <1>9 DEF CreateMembership
<1>10. ASSUME NEW r \in Requests, WriteMember(r) PROVE G
  BY <1>0, <1>10 DEF WriteMember
<1>11. ASSUME Expire \/ (\E s \in sessions : Logout(s)) \/ UNCHANGED vars PROVE G
  BY <1>0, <1>11 DEF Expire, Logout, vars
<1> QED
  BY <1>1, <1>2, <1>3, <1>4, <1>5, <1>6, <1>7, <1>8, <1>9, <1>10, <1>11 DEF Next

\* Every handler goes on working for a registered account.
LEMMA StepHandlers ==
  ASSUME Typed, [Next]_vars
  PROVE  \A r \in Requests :
           req'[r].pc \in {"session", "mail", "forgot", "mark", "setpw", "revoke"}
             => user'[req'[r].user].reg
<1> DEFINE Late == {"session", "mail", "forgot", "mark", "setpw", "revoke"}
<1>0. /\ req \in [Requests -> InFlight]
      /\ user \in [Users -> [reg : BOOLEAN, pw : Nat, verified : BOOLEAN]]
      /\ \A u \in Users : user[u].reg => user'[u].reg
      /\ \A r \in Requests : req[r].pc \in Late => req[r].user \in Users /\ user[req[r].user].reg
      /\ tokens \subseteq TokenRows
      /\ \A t \in tokens : t.purpose # "invite" => user[t.email].reg
  BY UserStep, Shape DEF Typed, TypeOK, Registered, AuthReqs
<1> SUFFICES ASSUME NEW q \in Requests, req'[q].pc \in Late
             PROVE  user'[req'[q].user].reg
  OBVIOUS
<1>1. CASE req'[q] = req[q]
  BY <1>0, <1>1
<1>2. ASSUME NEW r \in Requests, NEW u \in Users,
             RegisterCheck(r, u) \/ OAuthCallback(r, u) \/ LoginCheck(r, u)
               \/ ResendCheck(r, u) \/ ForgotCheck(r, u)
      PROVE  user'[req'[q].user].reg
  BY <1>0, <1>1, <1>2
     DEF RegisterCheck, OAuthCallback, LoginCheck, ResendCheck, ForgotCheck, Start, Auth
<1>3. ASSUME NEW r \in Requests, RegisterAccount(r) PROVE user'[req'[q].user].reg
  <2>1. req[r] \in AuthReqs
    BY <1>0, <1>3, Shape DEF RegisterAccount
  <2> QED
    BY <1>0, <1>1, <1>3, <2>1 DEF RegisterAccount, Return, Goto, Idle, AuthReqs
<1>4. ASSUME NEW r \in Requests,
             CreateAuthToken(r) \/ MarkEmailVerified(r) \/ SetPassword(r) \/ CallLost(r)
      PROVE  user'[req'[q].user].reg
  <2>1. req[r] \in AuthReqs
    BY <1>0, <1>4, Shape DEF CreateAuthToken, MarkEmailVerified, SetPassword, CallLost
  <2>2. req[r].pc \in Late
    BY <1>4 DEF CreateAuthToken, MarkEmailVerified, SetPassword, CallLost
  <2>3. Return(r) \/ \E pc \in {"session", "revoke"} : Goto(r, pc)
    BY <1>4, <2>1 DEF CreateAuthToken, MarkEmailVerified, SetPassword, CallLost, Continue, AuthReqs
  <2>4. q = r /\ ~Return(r) => req'[q].user = req[q].user
    BY <1>0, <2>1, <2>3 DEF Goto, AuthReqs
  <2>5. Return(r) => req'[q] = req[q]
    BY <1>0 DEF Return, Idle
  <2>6. q # r => req'[q] = req[q]
    BY <1>0, <2>3 DEF Return, Goto
  <2> QED
    BY <1>0, <1>1, <2>2, <2>4, <2>5, <2>6
<1>5. ASSUME NEW r \in Requests,
             StartSession(r) \/ DeleteSessionsForUser(r) \/ Refuse(r) \/ RequestDies(r)
               \/ (\E u \in Users, ro \in Asked : InviteMember(r, u, ro))
      PROVE  user'[req'[q].user].reg
  BY <1>0, <1>1, <1>5
     DEF StartSession, DeleteSessionsForUser, Refuse, RequestDies, InviteMember, Return, Idle
<1>6. ASSUME NEW r \in Requests, NEW t \in tokens, ConsumeAuthToken(r, t)
      PROVE  user'[req'[q].user].reg
  <2>1. user[t.email].reg /\ t.email \in Users
    BY <1>0, <1>6 DEF ConsumeAuthToken, TokenRows
  <2> QED
    BY <1>0, <1>1, <1>6, <2>1 DEF ConsumeAuthToken, Start, Auth
<1>7. ASSUME NEW r \in Requests,
             \/ \E t \in tokens : ConsumeInviteToken(r, t)
             \/ \E s \in sessions : SessionUser(r, s) \/ AcceptCheck(r, s)
             \/ MembershipFor(r) \/ CountOwners(r)
             \/ \E u \in Users, ro \in Asked \union {"none"} : MembershipByID(r, u, ro)
      PROVE  req'[q] = req[q]
  <2>1. q # r => req'[q] = req[q]
    BY <1>0, <1>7 DEF ConsumeInviteToken, SessionUser, AcceptCheck, Start, MembershipFor,
       CountOwners, MembershipByID
  <2>2. q # r
    <3>1. CASE CountOwners(r)
      <4>1. req[r] \in WriteReqs
        BY <1>0, <3>1, Shape DEF CountOwners
      <4> QED
        BY <1>0, <3>1, <4>1 DEF CountOwners, WriteReqs
    <3> QED
      BY <1>0, <1>7, <3>1 DEF ConsumeInviteToken, SessionUser, AcceptCheck, Start, MembershipFor,
         MembershipByID
  <2> QED
    BY <2>1, <2>2
<1>8. ASSUME NEW r \in Requests, CreateMembership(r) \/ WriteMember(r)
      PROVE  user'[req'[q].user].reg
  <2>1. Return(r) \/ req' = Unseen(r, Idle)
    BY <1>8 DEF CreateMembership, WriteMember
  <2>2. Idle \in InFlight /\ Idle.pc = "idle"
    BY Shapes DEF Idle
  <2>3. q # r
    <3>1. req'[r] = Idle
      BY <1>0, <2>1, <2>2, UnseenEffect DEF Return
    <3> QED
      BY <2>2, <3>1
  <2>4. req'[q].pc = req[q].pc /\ (req[q].pc \notin {"count", "write"} => req'[q] = req[q])
    BY <1>0, <2>1, <2>2, <2>3, UnseenFields DEF Return
  <2> QED
    BY <1>1, <2>4
<1>9. ASSUME Expire \/ (\E s \in sessions : Logout(s)) \/ UNCHANGED vars PROVE req'[q] = req[q]
  BY <1>9 DEF Expire, Logout, vars, bounds
<1> QED
  BY <1>1, <1>2, <1>3, <1>4, <1>5, <1>6, <1>7, <1>8, <1>9 DEF Next

\* Invites are written with a role that was asked for and the role of the asker.
LEMMA StepInvites ==
  ASSUME Typed, [Next]_vars
  PROVE  InvitesKnown'
<1>0. req \in [Requests -> InFlight] /\ InvitesKnown
  BY DEF Typed, TypeOK
<1>1. CASE tokens' \subseteq tokens
  BY <1>0, <1>1 DEF InvitesKnown
<1>2. ASSUME NEW r \in Requests, CreateAuthToken(r) PROVE InvitesKnown'
  BY <1>0, <1>2 DEF CreateAuthToken, InvitesKnown, Token
<1>3. ASSUME NEW r \in Requests, NEW u \in Users, NEW ro \in Asked, InviteMember(r, u, ro)
      PROVE  InvitesKnown'
  <2>1. req[r].role \in Admins
    BY <1>0, <1>3, Shape DEF InviteMember, ConsoleReqs
  <2> QED
    BY <1>0, <1>3, <2>1 DEF InviteMember, InvitesKnown, Token
<1> QED
  BY <1>1, <1>2, <1>3, Frame

LEMMA StepTyped == Typed /\ [Next]_vars => Typed'
  BY StepReqType, UserStep, StepTables, StepHistory, StepHandlers, StepInvites
     DEF Typed, TypeOK, Registered

LEMMA InitTyped == Init => Typed
<1> SUFFICES ASSUME Init PROVE Typed
  OBVIOUS
<1>1. PICK R \in SUBSET Users :
        /\ user = [u \in Users |-> [reg |-> u \in R, pw |-> IF u \in R THEN 1 ELSE 0,
                                    verified |-> FALSE]]
        /\ sessions = {Session(0, u, 1) : u \in R}
  BY DEF Init
<1>2. user \in [Users -> [reg : BOOLEAN, pw : Nat, verified : BOOLEAN]]
  BY <1>1
<1>3. sessions \subseteq SessionRows /\ \A s \in sessions : user[s.user].reg
  <2>1. \A u \in R : Session(0, u, 1) \in SessionRows /\ Session(0, u, 1).user = u
    BY DEF Session, SessionRows
  <2>2. \A u \in R : user[u].reg
    BY <1>1
  <2>3. \A s \in sessions : \E u \in R : s = Session(0, u, 1)
    BY <1>1, Zenon
  <2> QED
    BY <2>1, <2>2, <2>3
<1>4. req \in [Requests -> InFlight] /\ member \in [Users -> [role : Ranked, id : Nat]]
  BY Shapes, AccountsAssumption DEF Init
<1>5. tokens = {} /\ \A r \in Requests : req[r].pc = "idle"
  BY DEF Init, Idle
<1> QED
  <2>1. TypeOK
    <3>1. minted \in Nat /\ issued \in 0..MaxRequests /\ faults \in 0..MaxFaults
      BY AccountsAssumption DEF Init
    <3>2. origin \in [Users -> Ranked]
      BY DEF Init, Ranked, Roles
    <3>3. /\ tokens = {} /\ spared = {} /\ overlapped = FALSE /\ redeemed = {} /\ wasted = {}
      BY DEF Init
    <3> QED
      BY <1>2, <1>3, <1>4, <3>1, <3>2, <3>3 DEF TypeOK
  <2>2. Registered /\ InvitesKnown
    BY <1>5 DEF Registered, InvitesKnown
  <2> QED
    BY <2>1, <2>2 DEF Typed

-----------------------------------------------------------------------------
(***************************************************************************)
(* What a step does to the requests: its own moves on, a change of the      *)
(* memberships overtakes the others.                                        *)
(***************************************************************************)

\* A step of request r.
Handler(r) ==
    \/ \E u \in Users : \/ RegisterCheck(r, u) \/ OAuthCallback(r, u) \/ LoginCheck(r, u)
                        \/ ResendCheck(r, u) \/ ForgotCheck(r, u)
    \/ RegisterAccount(r) \/ StartSession(r) \/ CreateAuthToken(r)
    \/ MarkEmailVerified(r) \/ SetPassword(r) \/ DeleteSessionsForUser(r)
    \/ \E t \in tokens : ConsumeAuthToken(r, t) \/ ConsumeInviteToken(r, t)
    \/ \E s \in sessions : SessionUser(r, s) \/ AcceptCheck(r, s)
    \/ MembershipFor(r) \/ CreateMembership(r) \/ CountOwners(r) \/ WriteMember(r)
    \/ \E u \in Users, ro \in Asked : InviteMember(r, u, ro)
    \/ \E u \in Users, ro \in Asked \union {"none"} : MembershipByID(r, u, ro)
    \/ Refuse(r) \/ CallLost(r) \/ RequestDies(r)

\* Request q is as it was, except that it has not seen a change of the memberships.
Overtaken(q) ==
    /\ req[q].pc \in {"count", "write"} /\ req'[q].pc = req[q].pc
    /\ req'[q].user = req[q].user /\ req'[q].new = req[q].new /\ req'[q].role = req[q].role
    /\ ~req'[q].fresh

LEMMA Steps ==
  ASSUME [Next]_vars
  PROVE  (\E r \in Requests : Handler(r)) \/ req' = req
  BY DEF Next, Handler, Logout, Expire, bounds, vars

LEMMA OthersWait ==
  ASSUME Typed, NEW r \in Requests, Handler(r), NEW q \in Requests, q # r
  PROVE  req'[q] = req[q] \/ Overtaken(q)
<1>0. req \in [Requests -> InFlight]
  BY DEF Typed, TypeOK
<1>1. \/ \E rec : req' = [req EXCEPT ![r] = rec]
      \/ req' = Unseen(r, Idle)
  <2>1. CASE \E u \in Users : \/ RegisterCheck(r, u) \/ OAuthCallback(r, u) \/ LoginCheck(r, u)
                              \/ ResendCheck(r, u) \/ ForgotCheck(r, u)
    BY <2>1 DEF RegisterCheck, OAuthCallback, LoginCheck, ResendCheck, ForgotCheck, Start
  <2>2. CASE RegisterAccount(r) \/ StartSession(r) \/ CreateAuthToken(r) \/ MarkEmailVerified(r)
             \/ SetPassword(r) \/ DeleteSessionsForUser(r) \/ Refuse(r) \/ CallLost(r)
             \/ RequestDies(r)
    BY <2>2 DEF RegisterAccount, StartSession, CreateAuthToken, MarkEmailVerified, SetPassword,
       DeleteSessionsForUser, Refuse, CallLost, RequestDies, Return, Continue, Goto
  <2>3. CASE \/ \E t \in tokens : ConsumeAuthToken(r, t) \/ ConsumeInviteToken(r, t)
             \/ \E s \in sessions : SessionUser(r, s) \/ AcceptCheck(r, s)
    BY <2>3 DEF ConsumeAuthToken, ConsumeInviteToken, SessionUser, AcceptCheck, Start
  <2>4. CASE \/ MembershipFor(r) \/ CountOwners(r)
             \/ \E u \in Users, ro \in Asked : InviteMember(r, u, ro)
             \/ \E u \in Users, ro \in Asked \union {"none"} : MembershipByID(r, u, ro)
    BY <2>4 DEF MembershipFor, CountOwners, InviteMember, MembershipByID, Return
  <2>5. CASE CreateMembership(r) \/ WriteMember(r)
    BY <2>5 DEF CreateMembership, WriteMember, Return
  <2> QED
    BY <2>1, <2>2, <2>3, <2>4, <2>5 DEF Handler
<1>2. CASE req' = Unseen(r, Idle)
  <2>1. Idle \in InFlight
    BY Shapes
  <2> QED
    BY <1>0, <1>2, <2>1, UnseenFields DEF Overtaken
<1>3. CASE \E rec : req' = [req EXCEPT ![r] = rec]
  BY <1>0, <1>3
<1> QED
  BY <1>1, <1>2, <1>3

\* How a request comes to hold an invite, a checked role or a changed password.
LEMMA Arrivals ==
  ASSUME Typed, [Next]_vars, NEW q \in Requests,
         req'[q].pc \in {"join", "count", "write"}
  PROVE  \/ req'[q] = req[q] \/ Overtaken(q)
         \/ \E t \in tokens : ConsumeInviteToken(q, t)
         \/ CountOwners(q)
         \/ \E u \in Users, ro \in Asked \union {"none"} : MembershipByID(q, u, ro)
<1>0. req \in [Requests -> InFlight]
  BY DEF Typed, TypeOK
<1>1. ASSUME Handler(q)
      PROVE  \/ \E t \in tokens : ConsumeInviteToken(q, t)
             \/ CountOwners(q)
             \/ \E u \in Users, ro \in Asked \union {"none"} : MembershipByID(q, u, ro)
  <2>1. ~\E u \in Users : \/ RegisterCheck(q, u) \/ OAuthCallback(q, u) \/ LoginCheck(q, u)
                          \/ ResendCheck(q, u) \/ ForgotCheck(q, u)
    BY <1>0 DEF RegisterCheck, OAuthCallback, LoginCheck, ResendCheck, ForgotCheck, Start, Auth
  <2>2. ~Return(q) /\ \A pc \in {"session", "mail", "mark", "revoke"} : ~Goto(q, pc)
    <3>1. ~Return(q)
      BY <1>0 DEF Return, Idle
    <3>2. ASSUME NEW pc \in {"session", "mail", "mark", "revoke"}, Goto(q, pc) PROVE FALSE
      <4>1. CASE "pc" \in DOMAIN req[q]
        BY <1>0, <3>2, <4>1 DEF Goto
      <4>2. "pc" \in DOMAIN req[q]
        <5>1. req[q] \in InFlight
          BY <1>0
        <5> QED
          BY <5>1 DEF InFlight, Idle
      <4> QED
        BY <4>1, <4>2
    <3> QED
      BY <3>1, <3>2
  <2>3. Continue(q) => req[q].pc \notin {"mail", "forgot", "mark", "session", "revoke"}
    <3>1. req[q].pc \in {"mail", "forgot", "mark", "session", "revoke"}
             => req[q].then \in {"idle", "session"}
      BY <1>0, Shape DEF AuthReqs
    <3> QED
      BY <2>2, <3>1 DEF Continue
  <2>4. ~(RegisterAccount(q) \/ StartSession(q) \/ CreateAuthToken(q) \/ MarkEmailVerified(q)
          \/ SetPassword(q) \/ DeleteSessionsForUser(q) \/ Refuse(q) \/ CallLost(q)
          \/ RequestDies(q) \/ \E u \in Users, ro \in Asked : InviteMember(q, u, ro))
    BY <2>2, <2>3 DEF RegisterAccount, StartSession, CreateAuthToken, MarkEmailVerified, SetPassword,
       DeleteSessionsForUser, Refuse, CallLost, RequestDies, InviteMember
  <2>5. ~\E t \in tokens : ConsumeAuthToken(q, t)
    BY <1>0 DEF ConsumeAuthToken, Start, Auth
  <2>6. ~(MembershipFor(q) \/ \E s \in sessions : SessionUser(q, s) \/ AcceptCheck(q, s))
    BY <1>0 DEF MembershipFor, SessionUser, AcceptCheck, Start
  <2>7. ~(CreateMembership(q) \/ WriteMember(q))
    <3>1. Idle \in InFlight /\ Idle.pc = "idle"
      BY Shapes DEF Idle
    <3>2. req' # Unseen(q, Idle)
      BY <1>0, <3>1, UnseenEffect
    <3> QED
      BY <2>2, <3>2 DEF CreateMembership, WriteMember
  <2> QED
    BY <1>1, <2>1, <2>4, <2>5, <2>6, <2>7 DEF Handler
<1> QED
  BY <1>1, Steps, OthersWait

\* A change of the memberships leaves no fresh request, and only two actions make one.
LEMMA MembershipStep ==
  ASSUME Typed, [Next]_vars, member' # member
  PROVE  \E r \in Requests :
           /\ CreateMembership(r) \/ WriteMember(r)
           /\ req'[r] = Idle
           /\ \A q \in Requests : req'[q].pc \in {"count", "write"} => ~req'[q].fresh
<1>1. PICK r \in Requests : CreateMembership(r) \/ WriteMember(r)
  BY Frame
<1>2. req' = Unseen(r, Idle)
  BY <1>1 DEF CreateMembership, WriteMember
<1>3. Idle \in InFlight /\ Idle.pc = "idle" /\ req \in [Requests -> InFlight]
  BY Shapes DEF Idle, Typed, TypeOK
<1>4. req'[r] = Idle
  BY <1>2, <1>3, UnseenEffect
<1>5. \A q \in Requests \ {r} : req'[q].pc \in {"count", "write"} => ~req'[q].fresh
  BY <1>2, <1>3, UnseenFields
<1> QED
  BY <1>1, <1>3, <1>4, <1>5

-----------------------------------------------------------------------------
(***************************************************************************)
(* Owners.                                                                  *)
(***************************************************************************)

\* Whatever may still make an owner was asked for by an owner.
Granted ==
    /\ \A t \in tokens : t.role = "owner" => t.by = "owner"
    /\ \A r \in Requests :
         /\ req[r].pc = "join" /\ req[r].role = "owner" => req[r].by = "owner"
         /\ req[r].pc \in {"count", "write"} /\ req[r].new = "owner" => req[r].role = "owner"

\* A request that has not been overtaken since its last read leaves an owner behind, and
\* acts on an owner for an owner.
Counted ==
    \A r \in Requests :
        /\ req[r].pc = "count" => req[r].role = "owner"
        /\ req[r].pc = "write" /\ req[r].fresh /\ member[req[r].user].role = "owner" =>
             /\ req[r].role = "owner"
             /\ req[r].new # "owner" => \E v \in Owners : v # req[r].user

Ownership == Granted /\ OwnersMadeByOwners /\ Counted /\ OwnerKept

\* A set with more than one element has one that is not u.
LEMMA AnotherOne ==
  ASSUME NEW S, NEW u, Cardinality(S) > 1
  PROVE  \E v \in S : v # u
<1>1. SUFFICES ASSUME \A v \in S : v = u PROVE FALSE
  OBVIOUS
<1>2. S = {} \/ S = {u}
  BY <1>1
<1>3. Cardinality({}) = 0 /\ Cardinality({u}) = 1
  BY FS_EmptySet, FS_Singleton
<1> QED
  BY <1>2, <1>3

LEMMA StepGranted ==
  ASSUME Typed, Granted, [Next]_vars
  PROVE  Granted'
<1>0. req \in [Requests -> InFlight]
  BY DEF Typed, TypeOK
<1>1. \A t \in tokens' : t.role = "owner" => t.by = "owner"
  <2>1. CASE tokens' \subseteq tokens
    BY <2>1 DEF Granted
  <2>2. ASSUME NEW r \in Requests, CreateAuthToken(r)
        PROVE  \A t \in tokens' : t.role = "owner" => t.by = "owner"
    BY <2>2 DEF CreateAuthToken, Token, Granted
  <2>3. ASSUME NEW r \in Requests, NEW u \in Users, NEW ro \in Asked, InviteMember(r, u, ro)
        PROVE  \A t \in tokens' : t.role = "owner" => t.by = "owner"
    BY <2>3 DEF InviteMember, Token, Granted
  <2> QED
    BY <2>1, <2>2, <2>3, Frame
<1>2. ASSUME NEW q \in Requests
      PROVE  /\ req'[q].pc = "join" /\ req'[q].role = "owner" => req'[q].by = "owner"
             /\ req'[q].pc \in {"count", "write"} /\ req'[q].new = "owner"
                  => req'[q].role = "owner"
  <2> SUFFICES ASSUME req'[q].pc \in {"join", "count", "write"}
               PROVE  /\ req'[q].pc = "join" /\ req'[q].role = "owner" => req'[q].by = "owner"
                      /\ req'[q].pc \in {"count", "write"} /\ req'[q].new = "owner"
                           => req'[q].role = "owner"
    OBVIOUS
  <2>1. CASE req'[q] = req[q]
    BY <2>1 DEF Granted
  <2>2. CASE Overtaken(q)
    BY <2>2 DEF Granted, Overtaken
  <2>3. CASE \E t \in tokens : ConsumeInviteToken(q, t)
    BY <1>0, <2>3 DEF Granted, ConsumeInviteToken
  <2>4. CASE CountOwners(q)
    <3>1. req[q] \in WriteReqs
      BY <1>0, <2>4, Shape DEF CountOwners
    <3>2. req'[q].pc = "write" /\ req'[q].new = req[q].new /\ req'[q].role = req[q].role
      BY <1>0, <2>4, <3>1 DEF CountOwners, WriteReqs
    <3> QED
      BY <2>4, <3>2 DEF Granted, CountOwners
  <2>5. ASSUME NEW u \in Users, NEW ro \in Asked \union {"none"}, MembershipByID(q, u, ro)
        PROVE  req'[q].new = ro /\ req'[q].role = req[q].role /\ (ro = "owner" => req[q].role = "owner")
               /\ req'[q].pc # "join"
    BY <1>0, <2>5 DEF MembershipByID
  <2> QED
    BY <2>1, <2>2, <2>3, <2>4, <2>5, Arrivals
<1> QED
  BY <1>1, <1>2 DEF Granted

LEMMA StepOwnersMade ==
  ASSUME Typed, Granted, OwnersMadeByOwners, [Next]_vars
  PROVE  OwnersMadeByOwners'
<1>0. /\ req \in [Requests -> InFlight] /\ origin \in [Users -> Ranked]
      /\ member \in [Users -> [role : Ranked, id : Nat]]
  BY DEF Typed, TypeOK
<1>1. CASE UNCHANGED <<member, origin>>
  BY <1>1 DEF OwnersMadeByOwners, Owners
<1>2. ASSUME NEW r \in Requests, CreateMembership(r) PROVE OwnersMadeByOwners'
  <2>1. req[r].user \in Users /\ (req[r].role = "owner" => req[r].by = "owner")
    BY <1>0, <1>2, Shape DEF CreateMembership, Granted, JoinReqs
  <2> QED
    BY <1>0, <1>2, <2>1 DEF CreateMembership, OwnersMadeByOwners, Owners
<1>3. ASSUME NEW r \in Requests, WriteMember(r) PROVE OwnersMadeByOwners'
  <2>1. req[r].user \in Users /\ (req[r].new = "owner" => req[r].role = "owner")
    BY <1>0, <1>3, Shape DEF WriteMember, Granted, WriteReqs
  <2> QED
    BY <1>0, <1>3, <2>1 DEF WriteMember, OwnersMadeByOwners, Owners, None
<1> QED
  BY <1>1, <1>2, <1>3, Frame

LEMMA StepCounted ==
  ASSUME Typed, Counted, [Next]_vars
  PROVE  Counted'
<1>0. /\ req \in [Requests -> InFlight]
      /\ member \in [Users -> [role : Ranked, id : Nat]]
  BY DEF Typed, TypeOK
<1> SUFFICES ASSUME NEW q \in Requests, req'[q].pc \in {"count", "write"}
             PROVE  /\ req'[q].pc = "count" => req'[q].role = "owner"
                    /\ req'[q].pc = "write" /\ req'[q].fresh /\ member'[req'[q].user].role = "owner"
                         => /\ req'[q].role = "owner"
                            /\ req'[q].new # "owner" => \E v \in Owners' : v # req'[q].user
  BY DEF Counted
<1>1. CASE member' # member
  <2>1. ~req'[q].fresh
    BY <1>1, MembershipStep
  <2>2. req'[q] = req[q] \/ Overtaken(q)
    <3>1. PICK r \in Requests : (CreateMembership(r) \/ WriteMember(r)) /\ req'[r] = Idle
      BY <1>1, MembershipStep
    <3>2. q # r /\ Handler(r)
      BY <3>1 DEF Idle, Handler
    <3> QED
      BY <3>2, OthersWait
  <2> QED
    BY <2>1, <2>2 DEF Counted, Overtaken
<1>2. CASE member' = member
  <2>0. Owners' = Owners
    BY <1>2 DEF Owners
  <2>1. CASE req'[q] = req[q]
    BY <1>2, <2>0, <2>1 DEF Counted
  <2>2. CASE Overtaken(q)
    BY <2>2 DEF Counted, Overtaken
  <2>3. CASE \E t \in tokens : ConsumeInviteToken(q, t)
    BY <1>0, <2>3 DEF ConsumeInviteToken
  <2>4. CASE CountOwners(q)
    <3>1. req[q] \in WriteReqs /\ req[q].pc = "count"
      BY <1>0, <2>4, Shape DEF CountOwners
    <3>2. req'[q].pc = "write" /\ req'[q].role = req[q].role /\ req'[q].user = req[q].user
      BY <1>0, <2>4, <3>1 DEF CountOwners, WriteReqs
    <3>3. \E v \in Owners : v # req[q].user
      <4>1. Cardinality(Owners) > 1
        BY <2>4 DEF CountOwners
      <4> QED
        BY ONLY <4>1, AnotherOne
    <3> QED
      BY <2>0, <3>1, <3>2, <3>3 DEF Counted
  <2>5. ASSUME NEW u \in Users, NEW ro \in Asked \union {"none"}, MembershipByID(q, u, ro)
        PROVE  /\ req'[q].user = u /\ req'[q].new = ro
               /\ member[u].role = "owner" => req'[q].role = "owner"
               /\ IF member[u].role = "owner" /\ ro # "owner" THEN req'[q].pc = "count"
                                                              ELSE req'[q].pc = "write"
    BY <1>0, <2>5 DEF MembershipByID
  <2> QED
    BY <1>2, <2>1, <2>2, <2>3, <2>4, <2>5, Arrivals
<1> QED
  BY <1>1, <1>2

LEMMA StepOwnerKept ==
  ASSUME Typed, Counted, OwnerKept, [Next]_vars
  PROVE  OwnerKept'
<1>0. /\ req \in [Requests -> InFlight]
      /\ member \in [Users -> [role : Ranked, id : Nat]]
  BY DEF Typed, TypeOK
<1>1. CASE UNCHANGED <<member, origin, overlapped>>
  BY <1>1 DEF OwnerKept, Owners
<1>2. ASSUME NEW r \in Requests, CreateMembership(r) PROVE OwnerKept'
  <2>1. req[r].user \in Users
    BY <1>0, <1>2, Shape DEF CreateMembership, JoinReqs
  <2>2. Owners \subseteq Owners' /\ overlapped' = overlapped
    BY <1>0, <1>2, <2>1 DEF CreateMembership, Owners
  <2> QED
    BY <2>2 DEF OwnerKept
<1>3. ASSUME NEW r \in Requests, WriteMember(r) PROVE OwnerKept'
  <2>1. req[r].user \in Users /\ req[r].fresh \in BOOLEAN
    BY <1>0, <1>3, Shape DEF WriteMember, WriteReqs
  <2>2. \A v \in Owners : v # req[r].user => v \in Owners'
    BY <1>0, <1>3, <2>1 DEF WriteMember, Owners
  <2>3. CASE member' = member
    BY <1>3, <2>3 DEF WriteMember, OwnerKept, Owners
  <2>4. CASE member' # member /\ req[r].user \notin Owners
    <3>1. overlapped => overlapped'
      BY <1>3 DEF WriteMember
    <3> QED
      BY <2>2, <2>4, <3>1 DEF OwnerKept
  <2>5. CASE member' # member /\ req[r].user \in Owners
    <3>1. CASE ~req[r].fresh
      BY <1>3, <2>5, <3>1 DEF WriteMember, OwnerKept, Owners
    <3>2. CASE req[r].fresh /\ req[r].new # "owner"
      <4>1. \E v \in Owners : v # req[r].user
        BY <1>3, <2>5, <3>2 DEF WriteMember, Counted, Owners
      <4> QED
        BY <2>2, <4>1 DEF OwnerKept
    <3>3. CASE req[r].new = "owner"
      <4>1. req[r].user \in Owners'
        BY <1>0, <1>3, <2>1, <2>5, <3>3 DEF WriteMember, Owners
      <4> QED
        BY <4>1 DEF OwnerKept
    <3> QED
      BY <2>1, <3>1, <3>2, <3>3
  <2> QED
    BY <2>3, <2>4, <2>5
<1> QED
  BY <1>1, <1>2, <1>3, Frame

LEMMA InitOwnership == Init => Ownership
<1> SUFFICES ASSUME Init PROVE Ownership
  OBVIOUS
<1>1. tokens = {} /\ \A r \in Requests : req[r].pc = "idle"
  BY DEF Init, Idle
<1>2. Owners # {} /\ \A u \in Users : origin[u] = "owner"
  BY AccountsAssumption DEF Init, Owners
<1> QED
  BY <1>1, <1>2 DEF Ownership, Granted, OwnersMadeByOwners, Counted, OwnerKept, Owners

-----------------------------------------------------------------------------
(***************************************************************************)
(* Sessions and invites.                                                    *)
(***************************************************************************)

\* A request that owes a revocation or a membership goes on owing it until it has done it
\* or died, and then whom it failed is noted.
LEMMA Departures ==
  ASSUME Typed, [Next]_vars, NEW q \in Requests, req[q].pc \in {"join", "revoke"}
  PROVE  \/ req'[q] = req[q]
         \/ req[q].pc = "join" /\ (CreateMembership(q) \/ RequestDies(q))
         \/ req[q].pc = "revoke" /\ (DeleteSessionsForUser(q) \/ CallLost(q) \/ RequestDies(q))
<1>0. req \in [Requests -> InFlight] /\ req[q] # Idle
  BY DEF Typed, TypeOK, Idle
<1>1. CASE Handler(q)
  <2>1. ~\E u \in Users : \/ RegisterCheck(q, u) \/ OAuthCallback(q, u) \/ LoginCheck(q, u)
                          \/ ResendCheck(q, u) \/ ForgotCheck(q, u)
    BY <1>0 DEF RegisterCheck, OAuthCallback, LoginCheck, ResendCheck, ForgotCheck, Start
  <2>2. ~(RegisterAccount(q) \/ StartSession(q) \/ CreateAuthToken(q) \/ MarkEmailVerified(q)
          \/ SetPassword(q) \/ Refuse(q) \/ MembershipFor(q) \/ CountOwners(q) \/ WriteMember(q))
    BY DEF RegisterAccount, StartSession, CreateAuthToken, MarkEmailVerified, SetPassword, Refuse,
       MembershipFor, CountOwners, WriteMember
  <2>3. ~\E t \in tokens : ConsumeAuthToken(q, t) \/ ConsumeInviteToken(q, t)
    BY <1>0 DEF ConsumeAuthToken, ConsumeInviteToken, Start
  <2>4. ~\E s \in sessions : SessionUser(q, s) \/ AcceptCheck(q, s)
    BY <1>0 DEF SessionUser, AcceptCheck, Start
  <2>5. /\ ~\E u \in Users, ro \in Asked : InviteMember(q, u, ro)
        /\ ~\E u \in Users, ro \in Asked \union {"none"} : MembershipByID(q, u, ro)
    BY DEF InviteMember, MembershipByID
  <2>6. /\ CreateMembership(q) \/ (CallLost(q) /\ req[q].pc = "join") => req[q].pc = "join"
        /\ CallLost(q) \/ DeleteSessionsForUser(q) => req[q].pc = "revoke"
    BY DEF CreateMembership, CallLost, DeleteSessionsForUser
  <2> QED
    BY <1>1, <2>1, <2>2, <2>3, <2>4, <2>5, <2>6 DEF Handler
<1>2. ASSUME NEW r \in Requests, Handler(r), r # q PROVE req'[q] = req[q]
  BY <1>2, OthersWait DEF Overtaken
<1> QED
  BY <1>1, <1>2, Steps

\* A session the reset of its account has yet to end.
Owed(s) == s \in spared \/ \E r \in Requests : req[r].pc = "revoke" /\ req[r].user = s.user

\* The accounts whose password changes, and to what.
LEMMA PasswordStep ==
  ASSUME Typed, [Next]_vars, NEW u \in Users, user[u].reg
  PROVE  \/ user'[u].pw = user[u].pw
         \/ \E r \in Requests : /\ SetPassword(r) /\ req[r].user = u
                                /\ req'[r].pc = "revoke" /\ req'[r].user = u
<1>0. /\ req \in [Requests -> InFlight]
      /\ user \in [Users -> [reg : BOOLEAN, pw : Nat, verified : BOOLEAN]]
  BY DEF Typed, TypeOK
<1>1. ASSUME NEW r \in Requests, RegisterAccount(r) PROVE user'[u].pw = user[u].pw
  <2>1. CASE user[req[r].user].reg
    BY <1>1, <2>1 DEF RegisterAccount
  <2>2. CASE req[r].user # u
    BY <1>0, <1>1, <2>2 DEF RegisterAccount
  <2> QED
    BY <2>1, <2>2
<1>2. ASSUME NEW r \in Requests, MarkEmailVerified(r) PROVE user'[u].pw = user[u].pw
  BY <1>0, <1>2 DEF MarkEmailVerified
<1>3. ASSUME NEW r \in Requests, SetPassword(r), req[r].user # u PROVE user'[u].pw = user[u].pw
  BY <1>0, <1>3 DEF SetPassword
<1>4. ASSUME NEW r \in Requests, SetPassword(r), req[r].user = u
      PROVE  req'[r].pc = "revoke" /\ req'[r].user = u
  <2>1. req[r] \in AuthReqs
    BY <1>0, <1>4, Shape DEF SetPassword
  <2> QED
    BY <1>0, <1>4, <2>1 DEF SetPassword, Goto, AuthReqs
<1> QED
  BY <1>0, <1>1, <1>2, <1>3, <1>4, Frame

\* What was noted of a session stays noted.
LEMMA SparedGrows == [Next]_vars => spared \subseteq spared'
<1> SUFFICES ASSUME [Next]_vars PROVE spared \subseteq spared'
  OBVIOUS
<1>1. ASSUME NEW r \in Requests, Handler(r) PROVE spared \subseteq spared'
  <2>1. CASE StartSession(r) \/ CallLost(r) \/ RequestDies(r)
    BY <2>1 DEF StartSession, CallLost, RequestDies, Abandon
  <2>2. CASE CreateMembership(r) \/ WriteMember(r) \/ \E t \in tokens : ConsumeInviteToken(r, t)
    BY <2>2 DEF CreateMembership, WriteMember, ConsumeInviteToken
  <2>3. CASE UNCHANGED history
    BY <2>3 DEF history
  <2> QED
    BY <1>1, <2>1, <2>2, <2>3 DEF Handler, RegisterCheck, OAuthCallback, LoginCheck, ResendCheck,
       ForgotCheck, RegisterAccount, CreateAuthToken, MarkEmailVerified, SetPassword,
       DeleteSessionsForUser, ConsumeAuthToken, SessionUser, AcceptCheck, MembershipFor,
       CountOwners, InviteMember, MembershipByID, Refuse
<1>2. ASSUME Expire \/ (\E s \in sessions : Logout(s)) \/ UNCHANGED vars PROVE spared' = spared
  BY <1>2 DEF Expire, Logout, vars, history
<1> QED
  BY <1>1, <1>2 DEF Next, Handler

LEMMA StepReset ==
  ASSUME Typed, ResetEndsSessions, [Next]_vars
  PROVE  ResetEndsSessions'
<1>0. /\ req \in [Requests -> InFlight] /\ minted \in Nat
      /\ user \in [Users -> [reg : BOOLEAN, pw : Nat, verified : BOOLEAN]]
      /\ sessions \subseteq SessionRows /\ \A s \in sessions : user[s.user].reg
  BY DEF Typed, TypeOK
<1> SUFFICES ASSUME NEW s \in sessions', s.pw < user'[s.user].pw
             PROVE  Owed(s)'
  BY DEF ResetEndsSessions, Owed
<1>1. CASE s \in sessions
  <2>0. s.user \in Users /\ s.pw \in Nat /\ user[s.user].reg
    BY <1>0, <1>1 DEF SessionRows
  <2>1. ASSUME NEW r \in Requests, SetPassword(r), req'[r].pc = "revoke", req'[r].user = s.user
        PROVE  Owed(s)'
    BY <2>1 DEF Owed
  <2>2. CASE user'[s.user].pw = user[s.user].pw
    <3>1. Owed(s)
      BY <1>1, <2>2 DEF ResetEndsSessions, Owed
    <3>2. CASE s \in spared
      BY <3>2, SparedGrows DEF Owed
    <3>3. ASSUME NEW r \in Requests, req[r].pc = "revoke", req[r].user = s.user PROVE Owed(s)'
      <4>1. CASE req'[r] = req[r]
        BY <3>3, <4>1 DEF Owed
      <4>2. CASE DeleteSessionsForUser(r)
        BY <3>3, <4>2 DEF DeleteSessionsForUser
      <4>3. CASE CallLost(r) \/ RequestDies(r)
        BY <1>1, <3>3, <4>3 DEF CallLost, RequestDies, Abandon, Owed
      <4> QED
        BY <3>3, <4>1, <4>2, <4>3, Departures
    <3> QED
      BY <3>1, <3>2, <3>3 DEF Owed
  <2> QED
    BY <2>0, <2>1, <2>2, PasswordStep
<1>2. CASE s \notin sessions
  <2>1. PICK r \in Requests : StartSession(r)
    BY <1>2, Frame
  <2>2. s = Session(minted + 1, req[r].user, req[r].pw) /\ user' = user
    BY <1>2, <2>1 DEF StartSession
  <2>3. user[s.user].pw # s.pw
    <3>1. req[r] \in AuthReqs
      BY <1>0, <2>1, Shape DEF StartSession
    <3>2. s.user = req[r].user /\ s.pw = req[r].pw
      BY <2>2 DEF Session
    <3>3. s.pw \in Nat /\ user[s.user].pw \in Nat
      BY <1>0, <3>1, <3>2 DEF AuthReqs
    <3> QED
      BY <2>2, <3>3
  <2> QED
    BY <2>1, <2>2, <2>3 DEF StartSession, Owed
<1> QED
  BY <1>1, <1>2

LEMMA StepInvited ==
  ASSUME Typed, InviteNotWasted, [Next]_vars
  PROVE  InviteNotWasted'
<1>0. /\ req \in [Requests -> InFlight] /\ redeemed \subseteq Users
      /\ member \in [Users -> [role : Ranked, id : Nat]]
      /\ tokens \subseteq TokenRows
  BY DEF Typed, TypeOK
<1>1. wasted \subseteq wasted' /\ (redeemed' \subseteq redeemed
        \/ \E r \in Requests, t \in tokens : ConsumeInviteToken(r, t))
  <2>1. ASSUME NEW r \in Requests, Handler(r)
        PROVE  wasted \subseteq wasted' /\ (redeemed' \subseteq redeemed
                 \/ \E t \in tokens : ConsumeInviteToken(r, t))
    <3>1. CASE StartSession(r) \/ CallLost(r) \/ RequestDies(r)
      BY <3>1 DEF StartSession, CallLost, RequestDies, Abandon
    <3>2. CASE CreateMembership(r) \/ WriteMember(r) \/ \E t \in tokens : ConsumeInviteToken(r, t)
      BY <3>2 DEF CreateMembership, WriteMember, ConsumeInviteToken
    <3>3. CASE UNCHANGED history
      BY <3>3 DEF history
    <3> QED
      BY <2>1, <3>1, <3>2, <3>3 DEF Handler, RegisterCheck, OAuthCallback, LoginCheck, ResendCheck,
         ForgotCheck, RegisterAccount, CreateAuthToken, MarkEmailVerified, SetPassword,
         DeleteSessionsForUser, ConsumeAuthToken, SessionUser, AcceptCheck, MembershipFor,
         CountOwners, InviteMember, MembershipByID, Refuse
  <2>2. ASSUME Expire \/ (\E s \in sessions : Logout(s)) \/ UNCHANGED vars
        PROVE  UNCHANGED <<wasted, redeemed>>
    BY <2>2 DEF Expire, Logout, vars, history
  <2> QED
    BY <2>1, <2>2 DEF Next, Handler
<1> DEFINE Served(u) == \/ member[u].role # "none"
                        \/ \E r \in Requests : req[r].pc = "join" /\ req[r].user = u
                        \/ u \in wasted
<1> SUFFICES ASSUME NEW u \in redeemed' PROVE Served(u)'
  BY DEF InviteNotWasted
<1>2. ASSUME NEW r \in Requests, NEW t \in tokens, ConsumeInviteToken(r, t), u \notin redeemed
      PROVE  Served(u)'
  <2>1. u = t.email
    BY <1>2 DEF ConsumeInviteToken
  <2>2. req'[r].pc = "join" /\ req'[r].user = t.email
    BY <1>0, <1>2 DEF ConsumeInviteToken
  <2> QED
    BY <2>1, <2>2
<1>3. CASE u \in redeemed
  <2>1. Served(u) /\ u \in Users
    BY <1>0, <1>3 DEF InviteNotWasted
  <2>2. CASE u \in wasted
    BY <1>1, <2>2
  <2>3. ASSUME NEW r \in Requests, req[r].pc = "join", req[r].user = u PROVE Served(u)'
    <3>1. CASE req'[r] = req[r]
      BY <2>3, <3>1
    <3>2. CASE CreateMembership(r)
      <4>1. req[r].role # "none"
        BY <1>0, <2>3, Shape, AccountsAssumption DEF JoinReqs, Roles
      <4> QED
        BY <1>0, <2>1, <2>3, <3>2, <4>1 DEF CreateMembership
    <3>3. CASE RequestDies(r)
      BY <2>3, <3>3 DEF RequestDies, Abandon
    <3> QED
      BY <2>3, <3>1, <3>2, <3>3, Departures
  <2>4. CASE member[u].role # "none"
    <3>1. CASE member' = member
      BY <2>4, <3>1
    <3>2. ASSUME NEW r \in Requests, CreateMembership(r) PROVE member'[u].role # "none"
      <4>1. CASE req[r].user = u
        BY <2>4, <3>2, <4>1 DEF CreateMembership
      <4>2. CASE req[r].user # u
        BY <1>0, <2>1, <2>4, <3>2, <4>2 DEF CreateMembership
      <4> QED
        BY <4>1, <4>2
    <3>3. ASSUME NEW r \in Requests, WriteMember(r) PROVE member'[u].role # "none"
      <4>1. CASE req[r].user # u
        BY <1>0, <2>1, <2>4, <3>3, <4>1 DEF WriteMember
      <4>2. CASE req[r].user = u /\ req[r].new # "none"
        BY <1>0, <2>1, <2>4, <3>3, <4>2 DEF WriteMember
      <4>3. CASE req[r].user = u /\ req[r].new = "none"
        BY <2>4, <3>3, <4>3 DEF WriteMember
      <4> QED
        BY <4>1, <4>2, <4>3
    <3> QED
      BY <3>1, <3>2, <3>3, Frame
  <2> QED
    BY <2>1, <2>2, <2>3, <2>4
<1> QED
  BY <1>1, <1>2, <1>3

-----------------------------------------------------------------------------
(***************************************************************************)
(* The theorems.                                                            *)
(***************************************************************************)
Inv == Typed /\ Ownership /\ ResetEndsSessions /\ InviteNotWasted

\* The invariant holds in every reachable state.
LEMMA Invariance == Spec => []Inv
<1>1. Init => Inv
  <2>1. Init => ResetEndsSessions
    <3> SUFFICES ASSUME Init PROVE ResetEndsSessions
      OBVIOUS
    <3>1. PICK R \in SUBSET Users :
            /\ user = [u \in Users |-> [reg |-> u \in R, pw |-> IF u \in R THEN 1 ELSE 0,
                                        verified |-> FALSE]]
            /\ sessions = {Session(0, u, 1) : u \in R}
      BY DEF Init
    <3>2. ASSUME NEW u \in R PROVE user[u].pw = 1
      BY <3>1
    <3>3. \A s \in sessions : \E u \in R : s = Session(0, u, 1)
      BY <3>1, Zenon
    <3>4. \A s \in sessions : s.pw = user[s.user].pw /\ s.pw = 1
      BY <3>2, <3>3 DEF Session
    <3> QED
      BY <3>4 DEF ResetEndsSessions
  <2>2. Init => InviteNotWasted
    BY DEF Init, InviteNotWasted
  <2> QED
    BY <2>1, <2>2, InitTyped, InitOwnership DEF Inv
<1>2. Inv /\ [Next]_vars => Inv'
  BY StepTyped, StepGranted, StepOwnersMade, StepCounted, StepOwnerKept, StepReset, StepInvited
     DEF Inv, Ownership
<1> QED
  BY <1>1, <1>2, PTL DEF Spec

\* For any accounts, members at the start and requests in flight, every table and every
\* handler keeps its shape; a session belongs to a registered user.
THEOREM AccountsTypeCorrect == Spec => []TypeOK
<1>1. Inv => TypeOK
  BY DEF Inv, Typed
<1> QED
  BY Invariance, <1>1, PTL

\* Demotions and removals leave an owner behind, unless a request acted on a count or a role
\* that another request had overtaken.
THEOREM AnOwnerRemains == Spec => []OwnerKept
<1>1. Inv => OwnerKept
  BY DEF Inv, Ownership
<1> QED
  BY Invariance, <1>1, PTL

\* Every owner of the start was made one, and every later one was made by an owner, whatever
\* happened between an invite's check and its use.
THEOREM OnlyOwnersMakeOwners == Spec => []OwnersMadeByOwners
<1>1. Inv => OwnersMadeByOwners
  BY DEF Inv, Ownership
<1> QED
  BY Invariance, <1>1, PTL

\* A password reset ends the sessions begun before it, or is about to, but for the logins
\* that overlapped it and the revocations that failed.
THEOREM ResetsEndSessions == Spec => []ResetEndsSessions
<1>1. Inv => ResetEndsSessions
  BY DEF Inv
<1> QED
  BY Invariance, <1>1, PTL

\* An invite that was used up made its user a member, or is about to, unless the request failed.
THEOREM InvitesAreNotWasted == Spec => []InviteNotWasted
<1>1. Inv => InviteNotWasted
  BY DEF Inv
<1> QED
  BY Invariance, <1>1, PTL

\* Only an owner changes an owner's membership, unless the request that does had been
\* overtaken since it read the target's role.
THEOREM OwnersTouchOwners == Spec => OwnerTouchedByOwners
<1> DEFINE A == \A u \in Owners : member'[u] # member[u] =>
                  \E r \in Requests : /\ req[r].pc = "write" /\ req[r].user = u /\ req'[r] = Idle
                                      /\ req[r].role = "owner" \/ ~req[r].fresh
<1>1. ASSUME Inv, [Next]_vars, NEW u \in Owners, member'[u] # member[u]
      PROVE  \E r \in Requests : /\ req[r].pc = "write" /\ req[r].user = u /\ req'[r] = Idle
                                 /\ req[r].role = "owner" \/ ~req[r].fresh
  <2>1. /\ req \in [Requests -> InFlight] /\ member \in [Users -> [role : Ranked, id : Nat]]
        /\ Typed /\ Counted
    BY <1>1 DEF Inv, Typed, TypeOK, Ownership
  <2>2. PICK r \in Requests : (CreateMembership(r) \/ WriteMember(r)) /\ req'[r] = Idle
    BY <1>1, <2>1, MembershipStep
  <2>3. u \in Users /\ member[u].role = "owner"
    BY <1>1 DEF Owners
  <2>4. ~CreateMembership(r)
    BY <1>1, <2>1, <2>3 DEF CreateMembership
  <2>5. req[r].pc = "write" /\ req[r].user = u
    BY <1>1, <2>1, <2>2, <2>3, <2>4 DEF WriteMember
  <2>6. req[r].role = "owner" \/ ~req[r].fresh
    BY <2>1, <2>3, <2>5 DEF Counted
  <2> QED
    BY <2>2, <2>5, <2>6
<1>2. Inv /\ [Next]_vars => [A]_vars
  BY <1>1
<1> QED
  BY <1>2, Invariance, PTL DEF Spec, OwnerTouchedByOwners
=============================================================================
