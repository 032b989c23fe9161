---------------------------- MODULE LinkRuntime ----------------------------
(***************************************************************************)
(* The visitor runtime of one preview link: admission, three-layer expiry,  *)
(* the view counter in Redis, and the render grants that carry an admission *)
(* from the control plane to the isolated render origin.                    *)
(*                                                                         *)
(* A request reads the link, then its file, then passes the gates, then     *)
(* consumes a view, then streams: the link may be changed, revoked or       *)
(* frozen, its file may die and time may pass between any two of these.     *)
(*                                                                         *)
(* Time is counted in ticks, Second of them to a second, because Redis      *)
(* keeps expiry in whole seconds. The IP allowlist, the rate limiter and    *)
(* failed reads only end a request early: Refuse stands for them. The       *)
(* asynchronous statistics (view_count, audit, metering) are not here.      *)
(***************************************************************************)
EXTENDS Integers, FiniteSets

CONSTANTS
    Visitors,     \* browsers, each with one request in flight at most
    Files,        \* files that may back the link
    Active,       \* those with HTML or SVG content (isActiveContent)
    Policies,     \* the policies owners choose: a view cap and a lock; cap 0 is uncounted,
                  \* and the script takes a negative one for unlimited
    Lifetimes,    \* values of expiresInSeconds
    FileExpiries, \* expires_at of the files, in ticks
    Unset,        \* a field an update leaves alone
    Second,       \* ticks in a second
    Window,       \* ticks in a render-grant window (600 s)
    Hour,         \* ticks in the life of an unlock cookie (3600 s)
    MaxTime,      \* bound: the clock
    MaxRequests,  \* bound: visitor requests admitted
    MaxOps        \* bound: changes of the link, its file, a session or a membership

\* What a policy may ask for: the link's password, an account, and of the account that it
\* is one of some users or a member of a tenant.
LockType == [password : BOOLEAN, account : BOOLEAN, users : SUBSET Visitors, tenant : BOOLEAN]
Caps     == {p.cap : p \in Policies}
Locks    == {p.lock : p \in Policies}

ASSUME LinkAssumption ==
    /\ Active \subseteq Files /\ Unset \notin Files
    /\ Policies \subseteq [cap : Int, lock : LockType]
    /\ Lifetimes \subseteq Nat \ {0} /\ FileExpiries \subseteq Nat
    /\ Second \in Nat \ {0} /\ Window \in Nat \ {0} /\ Hour \in Nat \ {0}
    /\ MaxTime \in Nat /\ MaxRequests \in Nat /\ MaxOps \in Nat

VARIABLES
    now,       \* the clock
    isolated,  \* cfg.RenderDomain is set
    link,      \* the row of preview_links
    ready,     \* files whose status is ready
    fexp,      \* their expires_at
    counter,   \* the Redis key view:<linkId>; n = 0 when absent, exp = 0 without TTL
    cookie,    \* when each visitor's unlock cookie ends; 0 without one
    account,   \* who each visitor is signed in as: nobody ("out"), a user, or a member
               \* of the tenant that policies name
    grant,     \* each visitor's newest render grant: when it was issued, on which lock,
               \* and whether its request had brought an unlock cookie
    visit,     \* the visitors' requests in flight
    edit,      \* handleUpdateLink in flight
    issued, ops   \* counters behind the bounds

\* History variables: they guard nothing and are only read by properties.
VARIABLES
    lives,      \* how often the counter has expired
    admitted,   \* the views the counter admitted: life, number drawn, cap applied
    lost        \* visitors who signed out, or left the tenant, since their newest grant

bounds  == <<issued, ops>>
people  == <<cookie, account>>
history == <<lives, admitted, lost>>
owner   == <<link, edit>>
vars    == <<now, isolated, link, ready, fexp, counter, people, grant, visit, edit,
             bounds, history>>

-----------------------------------------------------------------------------
Never   == [at |-> -1]
NoKey   == [n |-> 0, exp |-> 0]

Standings == {"out", "user", "member"}

Snapshot == [file : Files, cap : Caps, lock : Locks, exp : Nat,
             revoked : BOOLEAN, frozen : BOOLEAN]

\* effectiveExpiry: the earliest of the link's and the file's expiry.
effectiveExpiry(l, f) == IF fexp[f] < l.exp THEN fexp[f] ELSE l.exp

\* Mutant of Expired: only the link's own expiry is looked at.
ExpiredLinkOnly(l) == l.exp < now

\* backingExpired.
Expired(l) == effectiveExpiry(l, l.file) < now

\* What the runtime promises to check: a live link to a ready file, both unexpired.
Admissible == /\ ~link.revoked /\ ~link.frozen
              /\ link.file \in ready
              /\ now <= link.exp /\ now <= fexp[link.file]

Init ==
    /\ now = 0 /\ isolated \in BOOLEAN
    /\ ready = Files /\ fexp \in [Files -> FileExpiries]
    /\ \E f \in Files, p \in Policies, s \in Lifetimes :
         LET l == [file |-> f, cap |-> p.cap, lock |-> p.lock, exp |-> s * Second,
                   revoked |-> FALSE, frozen |-> FALSE]
         IN  link = [l EXCEPT !.exp = effectiveExpiry(l, f)]
    /\ counter = NoKey
    /\ cookie = [v \in Visitors |-> 0] /\ account \in [Visitors -> Standings]
    /\ grant = [v \in Visitors |-> Never]
    /\ visit = [v \in Visitors |-> [pc |-> "idle"]]
    /\ edit = Unset
    /\ issued = 0 /\ ops = 0
    /\ lives = 0 /\ admitted = {} /\ lost = {}

-----------------------------------------------------------------------------
(***************************************************************************)
(* handlePreview and handlePreviewRaw.                                      *)
(***************************************************************************)
Return(v)   == visit' = [visit EXCEPT ![v] = [pc |-> "idle"]]
Goto(v, pc) == visit' = [visit EXCEPT ![v].pc = pc]

\* admitLink: one read of the row; /p when raw is false, /raw when it is true.  The request
\* brings the visitor's cookies, but none to the render origin.
Admit(v, raw) ==
    /\ visit[v].pc = "idle" /\ issued < MaxRequests
    /\ ~link.revoked /\ ~link.frozen /\ ~(link.exp < now)
    /\ visit' = [visit EXCEPT ![v] =
                   [pc |-> "resolve", raw |-> raw, link |-> link, ok |-> Admissible,
                    unlocked |-> ~(raw /\ isolated) /\ now < cookie[v],
                    session  |-> ~(raw /\ isolated) /\ account[v] # "out"]]
    /\ issued' = issued + 1
    /\ UNCHANGED <<now, isolated, owner, ready, fexp, counter, people, grant, ops,
                   history>>

\* resolveBacking: the file must be ready, and active when /raw was asked for.
ResolveBacking(v) ==
    /\ visit[v].pc = "resolve"
    /\ visit[v].link.file \in ready
    /\ visit[v].raw => visit[v].link.file \in Active
    /\ Goto(v, "gates")
    /\ UNCHANGED <<now, isolated, owner, ready, fexp, counter, people, grant, bounds, history>>

\* The user lists of accountAllowed: an empty list asks for no more than a session.
Listed(v, k) ==
    \/ k.users = {} /\ ~k.tenant
    \/ v \in k.users
    \/ k.tenant /\ account[v] = "member"

\* gateAccount and the password gate, on the policy the request read and the cookies it
\* brought; the session must still exist, and memberships are those of this moment.
Passes(v) ==
    LET k == visit[v].link.lock IN
    /\ k.password => visit[v].unlocked
    /\ k.account => visit[v].session /\ Listed(v, k)

Grant(v, t) == [at |-> t, lock |-> visit[v].link.lock, unlocked |-> visit[v].unlocked]

\* Mutant of ValidGrant: one window too many.
ValidGrantWide(v) ==
    grant[v] # Never /\ (now \div Window) - (grant[v].at \div Window) \in {0, 1, 2}

\* validRenderGrant: the current and the previous window.
ValidGrant(v) ==
    grant[v] # Never /\ (now \div Window) - (grant[v].at \div Window) \in {0, 1}

\* Mutant of IssueGrant: issued for the window before this one.
IssueGrantEarly(v) ==
    /\ visit[v].pc = "gates"
    /\ ~visit[v].raw /\ visit[v].link.file \in Active /\ isolated
    /\ Passes(v) /\ ~Expired(visit[v].link)
    /\ grant' = [grant EXCEPT ![v] = Grant(v, now - Window)] /\ lost' = lost \ {v}
    /\ Return(v)
    /\ UNCHANGED <<now, isolated, owner, ready, fexp, counter, people, bounds, lives, admitted>>

\* serveActive on the control plane: gates, expiry, then a redirect with a grant.
IssueGrant(v) ==
    /\ visit[v].pc = "gates"
    /\ ~visit[v].raw /\ visit[v].link.file \in Active /\ isolated
    /\ Passes(v) /\ ~Expired(visit[v].link)
    /\ grant' = [grant EXCEPT ![v] = Grant(v, now)] /\ lost' = lost \ {v}
    /\ Return(v)
    /\ UNCHANGED <<now, isolated, owner, ready, fexp, counter, people, bounds, lives, admitted>>

\* The gates in front of the bytes: cookies, or a grant on the render origin, which has no
\* cookies. A grant names the link and the window only, so anybody's will do. A page request
\* for active content only gets the wrapper.
PassGates(v) ==
    /\ visit[v].pc = "gates"
    /\ visit[v].raw \/ visit[v].link.file \notin Active
    /\ IF visit[v].raw /\ isolated THEN \E w \in Visitors : ValidGrant(w) ELSE Passes(v)
    /\ ~Expired(visit[v].link)
    /\ Goto(v, "consume")
    /\ UNCHANGED <<now, isolated, owner, ready, fexp, counter, people, grant, bounds, history>>

\* The request ends with an error, the password page or the wrapper; a gate that
\* nothing above models (IP, rate limit, failed read) may end it too.
Refuse(v) ==
    /\ visit[v].pc \in {"resolve", "gates"}
    /\ Return(v)
    /\ UNCHANGED <<now, isolated, owner, ready, fexp, counter, people, grant, bounds, history>>

\* ttl.Seconds() as an integer: whole seconds, and none once the link is over.
TTL(l) == IF l.exp > now THEN (l.exp - now) \div Second ELSE 0

\* Mutant of ConsumeView: compares the count before this view.
ConsumeViewLate(v) ==
    LET l == visit[v].link
        n == counter.n + 1
    IN  /\ visit[v].pc = "consume" /\ l.cap # 0
        /\ counter' = [n |-> n, exp |-> IF TTL(l) > 0 /\ n = 1 THEN now + TTL(l) * Second
                                        ELSE counter.exp]
        /\ Return(v)
        /\ \/ /\ l.cap > 0 /\ counter.n > l.cap
              /\ UNCHANGED admitted
           \/ /\ ~(l.cap > 0 /\ counter.n > l.cap)
              /\ admitted' = admitted \cup {[life |-> lives, n |-> n, cap |-> l.cap]}
        /\ UNCHANGED <<now, isolated, owner, ready, fexp, people, grant, bounds, lives, lost>>

\* consumeViewScript: count first, start the TTL with the first view, then compare.
\* A refused view has been counted as well. What follows an admitted one (serveCloud) reads
\* the object and changes nothing here.
ConsumeView(v) ==
    LET l == visit[v].link
        n == counter.n + 1
    IN  /\ visit[v].pc = "consume" /\ l.cap # 0
        /\ counter' = [n |-> n, exp |-> IF TTL(l) > 0 /\ n = 1 THEN now + TTL(l) * Second
                                        ELSE counter.exp]
        /\ Return(v)
        /\ \/ /\ l.cap > 0 /\ n > l.cap
              /\ UNCHANGED admitted
           \/ /\ ~(l.cap > 0 /\ n > l.cap)
              /\ admitted' = admitted \cup {[life |-> lives, n |-> n, cap |-> l.cap]}
        /\ UNCHANGED <<now, isolated, owner, ready, fexp, people, grant, bounds, lives, lost>>

\* consumeView of an uncapped link does not touch the counter.
Uncapped(v) ==
    /\ visit[v].pc = "consume" /\ visit[v].link.cap = 0
    /\ Return(v)
    /\ UNCHANGED <<now, isolated, owner, ready, fexp, counter, people, grant, bounds, history>>

\* Any other error of Redis lets the request through uncounted.
ConsumeFails(v) ==
    /\ visit[v].pc = "consume" /\ visit[v].link.cap # 0
    /\ Return(v)
    /\ UNCHANGED <<now, isolated, owner, ready, fexp, counter, people, grant, bounds, history>>

\* handleUnlock with the right password. The cookie lasts an hour, for this link, whatever
\* becomes of its password.
Unlock(v) ==
    /\ ~link.revoked /\ ~link.frozen /\ ~(link.exp < now)
    /\ link.lock.password
    /\ cookie' = [cookie EXCEPT ![v] = now + Hour]
    /\ UNCHANGED <<now, isolated, owner, ready, fexp, counter, account, grant, visit, bounds,
                   history>>

-----------------------------------------------------------------------------
(***************************************************************************)
(* The owner, the moderators and the environment.                           *)
(***************************************************************************)
Op == ops < MaxOps /\ ops' = ops + 1

\* A session begins.
SignIn(v) ==
    /\ Op
    /\ account[v] = "out"
    /\ \E a \in {"user", "member"} : account' = [account EXCEPT ![v] = a]
    /\ UNCHANGED <<now, isolated, owner, ready, fexp, counter, cookie, grant, visit, issued,
                   history>>

\* It is logged out, revoked or expires: for the request in flight as well.
SignOut(v) ==
    /\ Op
    /\ account[v] # "out"
    /\ account' = [account EXCEPT ![v] = "out"]
    /\ lost' = lost \cup {v}
    /\ visit' = IF visit[v].pc = "idle" THEN visit ELSE [visit EXCEPT ![v].session = FALSE]
    /\ UNCHANGED <<now, isolated, owner, ready, fexp, counter, cookie, grant, issued,
                   lives, admitted>>

\* The account becomes a member of the tenant, or is removed.
Join(v) ==
    /\ Op
    /\ account[v] = "user"
    /\ account' = [account EXCEPT ![v] = "member"]
    /\ UNCHANGED <<now, isolated, owner, ready, fexp, counter, cookie, grant, visit, issued,
                   history>>

Leave(v) ==
    /\ Op
    /\ account[v] = "member"
    /\ account' = [account EXCEPT ![v] = "user"]
    /\ lost' = lost \cup {v}
    /\ UNCHANGED <<now, isolated, owner, ready, fexp, counter, cookie, grant, visit, issued,
                   lives, admitted>>

\* handleUpdateLink up to the UPDATE: a new file must be ready; a new expiry counts
\* from now and is clamped to the new file only. An update of nothing is left out.
UpdateRead ==
    /\ edit = Unset /\ Op
    /\ \E f \in ready \cup {Unset}, s \in Lifetimes \cup {0},
          p \in Policies \cup {Unset} :
         LET e == now + s * Second IN
         /\ f # Unset \/ s # 0 \/ p # Unset
         /\ edit' = [file |-> f, policy |-> p,
                     exp |-> IF s = 0 THEN 0
                             ELSE IF f # Unset /\ fexp[f] < e THEN fexp[f] ELSE e]
    /\ UNCHANGED <<now, isolated, link, ready, fexp, counter, people, grant, visit, issued,
                   history>>

\* UpdateLink: the fields that are set, unless the link was revoked meanwhile.
UpdateLink ==
    /\ edit # Unset
    /\ edit' = Unset
    /\ link' = IF link.revoked THEN link
               ELSE [link EXCEPT !.file   = IF edit.file = Unset THEN @ ELSE edit.file,
                                 !.exp    = IF edit.exp = 0 THEN @ ELSE edit.exp,
                                 !.cap    = IF edit.policy = Unset THEN @ ELSE edit.policy.cap,
                                 !.lock   = IF edit.policy = Unset THEN @ ELSE edit.policy.lock]
    /\ UNCHANGED <<now, isolated, ready, fexp, counter, people, grant, visit, bounds, history>>

RevokeLink ==
    /\ Op
    /\ ~link.revoked
    /\ link' = [link EXCEPT !.revoked = TRUE]
    /\ UNCHANGED <<now, isolated, ready, fexp, counter, people, grant, visit, edit, issued,
                   history>>

FreezeLink ==
    /\ Op
    /\ ~link.frozen
    /\ link' = [link EXCEPT !.frozen = TRUE]
    /\ UNCHANGED <<now, isolated, ready, fexp, counter, people, grant, visit, edit, issued,
                   history>>

\* Each freeze is lifted at most once: no bound of its own.
UnfreezeLink ==
    /\ link.frozen
    /\ link' = [link EXCEPT !.frozen = FALSE]
    /\ UNCHANGED <<now, isolated, ready, fexp, counter, people, grant, visit, edit, bounds,
                   history>>

\* The file is deleted, rejected, expired or purged (FileLifecycle). No file comes back
\* to ready here: the races that can do so are that module's subject.
FileDies(f) ==
    /\ Op
    /\ f \in ready
    /\ ready' = ready \ {f}
    /\ UNCHANGED <<now, isolated, owner, fexp, counter, people, grant, visit, issued,
                   history>>

\* Time passes; Redis drops the counter when its TTL is over, a browser its cookie.
Tick ==
    /\ now < MaxTime
    /\ now' = now + 1
    /\ IF counter.exp # 0 /\ counter.exp <= now + 1
       THEN counter' = NoKey /\ lives' = lives + 1
       ELSE UNCHANGED <<counter, lives>>
    /\ cookie' = [v \in Visitors |-> IF cookie[v] <= now + 1 THEN 0 ELSE cookie[v]]
    /\ UNCHANGED <<isolated, owner, ready, fexp, account, grant, visit, bounds, admitted, lost>>

-----------------------------------------------------------------------------
Visit(v) ==
    \/ \E raw \in BOOLEAN : Admit(v, raw)
    \/ ResolveBacking(v) \/ IssueGrant(v) \/ PassGates(v) \/ Refuse(v)
    \/ ConsumeView(v) \/ Uncapped(v) \/ ConsumeFails(v)
    \/ Unlock(v) \/ SignIn(v) \/ SignOut(v) \/ Join(v) \/ Leave(v)

Next ==
    \/ \E v \in Visitors : Visit(v)
    \/ UpdateRead \/ UpdateLink \/ RevokeLink \/ FreezeLink \/ UnfreezeLink
    \/ \E f \in Files : FileDies(f)
    \/ Tick

Spec == Init /\ [][Next]_vars

-----------------------------------------------------------------------------
(***************************************************************************)
(* Properties.                                                              *)
(***************************************************************************)
Visits == [pc : {"idle"}]
          \cup [pc : {"resolve", "gates", "consume"}, raw : BOOLEAN, link : Snapshot,
                ok : BOOLEAN, unlocked : BOOLEAN, session : BOOLEAN]
Grants == [at : Nat, lock : Locks, unlocked : BOOLEAN]
Edits == [file : Files \cup {Unset}, policy : Policies \cup {Unset}, exp : Nat]

\* Every value has its type.
TypeOK ==
    /\ now \in Nat /\ isolated \in BOOLEAN
    /\ link \in Snapshot /\ ready \subseteq Files /\ fexp \in [Files -> FileExpiries]
    /\ counter \in [n : Nat, exp : Nat]
    /\ cookie \in [Visitors -> Nat] /\ account \in [Visitors -> Standings]
    /\ grant \in [Visitors -> {Never} \cup Grants]
    /\ visit \in [Visitors -> Visits]
    /\ edit \in Edits \cup {Unset}
    /\ issued \in Nat /\ ops \in Nat
    /\ lives \in Nat /\ admitted \subseteq [life : Nat, n : Nat, cap : Caps]
    /\ lost \subseteq Visitors

\* The checks of a request are spread over several reads (runtime.go handlePreview), yet
\* every request that gets past them was admissible at one instant: when it read the link,
\* the link was live, its file was ready and neither had expired.
AdmittedAtOneInstant ==
    \A v \in Visitors : visit[v].pc = "consume" => visit[v].ok

\* While its Redis key lives, the counter admits at most c views to requests that carry a
\* cap of c or less, whatever the policy changes between them (redisx.go ConsumeView).
CapHoldsPerLife ==
    \A c \in Caps, k \in 0..lives :
        c > 0 => Cardinality({p \in admitted : p.life = k /\ p.cap \in 1..c}) <= c

\* Visitor w had a right to its grant under the lock the link had then: its request brought
\* the unlock cookie, and it is signed in and listed, or no longer is but was when it got it.
Earned(w) ==
    LET k == grant[w].lock IN
    /\ k.password => grant[w].unlocked
    /\ k.account => w \in lost \/ (account[w] # "out" /\ Listed(w, k))

\* Cookies end, sessions are closed, members leave and the owner changes the policy, but a
\* grant names the link and its window only (render.go renderGrant). So a request that does
\* not satisfy the lock it read gets past the gates only on a grant, its own or one handed
\* on, issued less than two windows ago to a visitor with a right to it: a lock, and the
\* loss of a key, take hold by then.
LockTakesHold ==
    [][\A v \in Visitors :
        visit[v].pc = "gates" /\ visit'[v].pc = "consume" /\ ~Passes(v)
        => \E w \in Visitors : /\ grant[w] # Never /\ Earned(w)
                               /\ now - grant[w].at < 2 * Window]_vars
=============================================================================
