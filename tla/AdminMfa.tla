------------------------------- MODULE AdminMfa -------------------------------
(***************************************************************************)
(* The console login of a platform administrator: password, then a TOTP     *)
(* code, then a session, with enrolment of the TOTP secret at the first     *)
(* login and the seeding of the administrator when a replica starts.        *)
(*                                                                         *)
(* Pending logins, sessions, used codes and rate counters are Redis keys    *)
(* with a time to live; the administrator is a database row. A handler      *)
(* reads the row once and acts on that copy, statement by statement. Time   *)
(* is counted in TOTP steps of 30 seconds.                                  *)
(*                                                                         *)
(* One administrator, one client address. A code is the pair of the secret  *)
(* and the step it was computed from: two pairs never give the same digits. *)
(***************************************************************************)
EXTENDS Integers, FiniteSets

CONSTANTS
    Replicas,     \* API processes
    Requests,     \* handlers in flight at a time
    NonceSteps,   \* steps a used code is remembered: 2 minutes are 4
    MaxLag,       \* steps that may begin between the check of a code and SETNX
    Limit,        \* attempts per window, of each kind: 10 in the code
    MaxClock,     \* bound: the last step
    MaxFaults     \* bound: failed statements, lost keys and restarts

ASSUME AdminMfaAssumption ==
    /\ IsFiniteSet(Requests) /\ IsFiniteSet(Replicas)
    /\ NonceSteps \in Nat /\ MaxLag \in Nat /\ Limit \in Nat
    /\ MaxFaults \in Nat
    /\ MaxClock \in 1..29   \* the run lies within one window of 15 minutes

VARIABLES
    admin,     \* platform_admins: whether the row exists, its secret (0: NULL), mfa_enrolled
    boot,      \* BootstrapAdmin of each replica: count, create, up
    req,       \* handlers in flight
    pending,   \* adminpending:* tokens
    sessions,  \* adminsess:* tokens
    used,      \* adminmfastep:* keys: the step, and when the key was set
    hits,      \* rl:adminlogin and rl:adminmfa, 0 when the key is absent
    now,       \* the current step
    faults     \* counter behind MaxFaults

\* History variables: they guard nothing and are only read by properties.
VARIABLES
    granted,    \* sessions with the step of the code that earned them
    opened,     \* steps for which SETNX failed and the code was let through
    confirmed,  \* secrets of which a code was accepted
    raced       \* a login replaced the secret while a copy of the row was in use

kv      == <<pending, sessions, used, hits>>
history == <<granted, opened, confirmed, raced>>
vars    == <<admin, boot, req, kv, now, faults, history>>

-----------------------------------------------------------------------------
Idle  == [pc |-> "idle"]
Kinds == {"login", "mfa"}
Steps == 0..(MaxClock + 1)

Init ==
    /\ admin = [exists |-> FALSE, secret |-> 0, enrolled |-> FALSE]
    /\ boot = [p \in Replicas |-> "count"]
    /\ req = [r \in Requests |-> Idle]
    /\ pending = {} /\ sessions = {} /\ used = {}
    /\ hits = [k \in Kinds |-> 0]
    /\ now = 1 /\ faults = 0
    /\ granted = {} /\ opened = {} /\ confirmed = {} /\ raced = FALSE

Return(r)     == req' = [req EXCEPT ![r] = Idle]
GoTo(r, rec)  == req' = [req EXCEPT ![r] = rec]
Fault         == faults < MaxFaults /\ faults' = faults + 1

-----------------------------------------------------------------------------
(***************************************************************************)
(* BootstrapAdmin, run by every replica before it serves.                   *)
(***************************************************************************)

\* CountPlatformAdmins.
BootCount(p) ==
    /\ boot[p] = "count"
    /\ boot' = [boot EXCEPT ![p] = IF admin.exists THEN "up" ELSE "create"]
    /\ UNCHANGED <<admin, req, kv, now, faults, history>>

\* Mutant of BootCreate: ON CONFLICT (email) DO UPDATE, for an administrator to enrol anew.
BootCreateUpsert(p) ==
    /\ boot[p] = "create"
    /\ boot' = [boot EXCEPT ![p] = "up"]
    /\ admin' = [admin EXCEPT !.exists = TRUE, !.enrolled = FALSE]
    /\ UNCHANGED <<req, kv, now, faults, history>>

\* CreatePlatformAdmin: the email is UNIQUE, so the second of two inserts fails.
BootCreate(p) ==
    /\ boot[p] = "create"
    /\ boot' = [boot EXCEPT ![p] = "up"]
    /\ admin' = IF admin.exists THEN admin
                ELSE [exists |-> TRUE, secret |-> 0, enrolled |-> FALSE]
    /\ UNCHANGED <<req, kv, now, faults, history>>

\* A replica starts again.
Restart(p) ==
    /\ Fault
    /\ boot' = [boot EXCEPT ![p] = "count"]
    /\ UNCHANGED <<admin, req, kv, now, history>>

-----------------------------------------------------------------------------
(***************************************************************************)
(* limitStrict: a fixed window of attempts, refused when Redis fails.       *)
(***************************************************************************)

\* rateLimitScript: an attempt that passes is counted. The ones after the last that passes
\* are counted too, to no effect before the key expires, and change nothing here.
RateLimit(k) ==
    /\ hits[k] < Limit
    /\ hits' = [hits EXCEPT ![k] = @ + 1]

\* A request of kind k comes in and is within the limit (over it, or while the limiter cannot
\* be reached, it is refused and has done nothing). Its number stands for the token and for
\* the secret it may draw.
Arrive(r, k) ==
    /\ req[r] = Idle
    /\ \E p \in Replicas : boot[p] = "up"
    /\ RateLimit(k)
    /\ GoTo(r, [pc |-> k, n |-> hits'[k]])
    /\ UNCHANGED <<admin, boot, pending, sessions, used, now, faults, history>>

-----------------------------------------------------------------------------
(***************************************************************************)
(* handleAdminLogin.                                                        *)
(***************************************************************************)

\* Mutant of LoginRead: every login mints a secret.
LoginReadMints(r) ==
    /\ req[r].pc = "login" /\ admin.exists
    /\ pending' = pending \union {req[r].n}
    /\ GoTo(r, [pc |-> "totp", n |-> req[r].n, row |-> admin])
    /\ UNCHANGED <<admin, boot, sessions, used, hits, now, faults, history>>

\* PlatformAdminByEmail, the password and the pending token; an unenrolled admin goes on to
\* a new secret.
LoginRead(r) ==
    /\ req[r].pc = "login" /\ admin.exists
    /\ pending' = pending \union {req[r].n}
    /\ GoTo(r, IF admin.enrolled THEN Idle ELSE [pc |-> "totp", n |-> req[r].n, row |-> admin])
    /\ UNCHANGED <<admin, boot, sessions, used, hits, now, faults, history>>

\* Copies of the row that handlers other than r act on.
InUse(r) == {q \in Requests \ {r} : req[q].pc \in {"totp", "code", "nonce", "enroll"}}

\* SetAdminTOTP: whatever the row holds by now.
LoginSecret(r) ==
    /\ req[r].pc = "totp"
    /\ admin' = [admin EXCEPT !.secret = req[r].n]
    /\ raced' = (raced \/ InUse(r) # {} \/ req[r].row # admin)
    /\ Return(r)
    /\ UNCHANGED <<boot, kv, now, faults, granted, opened, confirmed>>

-----------------------------------------------------------------------------
(***************************************************************************)
(* handleAdminMFA.                                                          *)
(***************************************************************************)

\* The pending token, then the row.
MfaPending(r, t) ==
    /\ req[r].pc = "mfa" /\ t \in pending
    /\ GoTo(r, [pc |-> "row", n |-> req[r].n, token |-> t])
    /\ UNCHANGED <<admin, boot, kv, now, faults, history>>

MfaRow(r) ==
    /\ req[r].pc = "row"
    /\ GoTo(r, IF admin.secret = 0 THEN Idle
               ELSE [pc |-> "code", n |-> req[r].n, token |-> req[r].token, row |-> admin])
    /\ UNCHANGED <<admin, boot, kv, now, faults, history>>

\* Mutant of VerifyStep: two steps to either side.
VerifyStepWide(secret, code) ==
    IF code[1] = secret THEN {code[2]} \intersect (now - 2)..(now + 2) ELSE {}

\* VerifyStep: the step a code belongs to, if it is this one or a neighbour.
VerifyStep(secret, code) ==
    IF code[1] = secret THEN {code[2]} \intersect (now - 1)..(now + 1) ELSE {}

\* The code against the copy of the row.
MfaCode(r, code) ==
    /\ req[r].pc = "code"
    /\ \E k \in VerifyStep(req[r].row.secret, code) :
         GoTo(r, [pc |-> "nonce", n |-> req[r].n, token |-> req[r].token,
                  row |-> req[r].row, step |-> k, at |-> now])
    /\ UNCHANGED <<admin, boot, kv, now, faults, history>>

\* On to the enrolment if the copy is not enrolled.
Pass(r) == GoTo(r, [pc |-> IF req[r].row.enrolled THEN "finish" ELSE "enroll",
                    n |-> req[r].n, token |-> req[r].token, step |-> req[r].step])

\* SETNX on the step: the code is accepted if no key is there.
MfaNonce(r) ==
    /\ req[r].pc = "nonce"
    /\ IF \E u \in used : u.step = req[r].step
       THEN Return(r) /\ UNCHANGED <<used, confirmed>>
       ELSE /\ used' = used \union {[step |-> req[r].step, at |-> now]}
            /\ Pass(r) /\ confirmed' = confirmed \union {req[r].row.secret}
    /\ UNCHANGED <<admin, boot, pending, sessions, hits, now, faults,
                   granted, opened, raced>>

\* An error of SETNX lets the code through.
MfaNonceFails(r) ==
    /\ Fault
    /\ req[r].pc = "nonce"
    /\ Pass(r) /\ confirmed' = confirmed \union {req[r].row.secret}
    /\ opened' = opened \union {req[r].step}
    /\ UNCHANGED <<admin, boot, kv, now, granted, raced>>

\* EnrollAdminMFA, whose error is ignored.
MfaEnroll(r) ==
    /\ req[r].pc = "enroll"
    /\ \/ admin' = [admin EXCEPT !.enrolled = TRUE] /\ UNCHANGED faults
       \/ Fault /\ UNCHANGED admin
    /\ GoTo(r, [req[r] EXCEPT !.pc = "finish"])
    /\ UNCHANGED <<boot, kv, now, history>>

\* DelKV of the pending token and SetKV of the session; the error of either is ignored.
MfaFinish(r) ==
    /\ req[r].pc = "finish"
    /\ \E del, set \in BOOLEAN :
         /\ IF del /\ set THEN UNCHANGED faults ELSE Fault
         /\ pending' = IF del THEN pending \ {req[r].token} ELSE pending
         /\ IF set
            THEN /\ sessions' = sessions \union {req[r].n}
                 /\ granted' = granted \union {[session |-> req[r].n, step |-> req[r].step]}
            ELSE UNCHANGED <<sessions, granted>>
    /\ Return(r)
    /\ UNCHANGED <<admin, boot, used, hits, now, opened, confirmed, raced>>

-----------------------------------------------------------------------------
\* A request that is refused: wrong password, a token that was not stored or has expired, a
\* wrong code, or no administrator yet.
Refuse(r) ==
    /\ req[r].pc \in {"login", "mfa", "code"}
    /\ Return(r)
    /\ UNCHANGED <<admin, boot, kv, now, faults, history>>

\* A statement whose error is returned, a cancelled request, or a crash.
RequestDies(r) ==
    /\ Fault
    /\ req[r] # Idle
    /\ Return(r)
    /\ UNCHANGED <<admin, boot, kv, now, history>>

\* requireAdmin lets a session through while its key is there; handleAdminLogout deletes it,
\* and so does the end of its time to live.
Logout(t) ==
    /\ t \in sessions
    /\ sessions' = sessions \ {t}
    /\ UNCHANGED <<admin, boot, req, pending, used, hits, now, faults, history>>

\* Mutant of NonceExpires: the key is kept for one period only.
NonceExpiresEarly(u) ==
    /\ u \in used /\ now >= u.at + 1
    /\ used' = used \ {u}
    /\ UNCHANGED <<admin, boot, req, pending, sessions, hits, now, faults, history>>

\* The two minutes of a used code are over: they end within the step at + NonceSteps.
NonceExpires(u) ==
    /\ u \in used /\ now >= u.at + NonceSteps
    /\ used' = used \ {u}
    /\ UNCHANGED <<admin, boot, req, pending, sessions, hits, now, faults, history>>

\* The next step begins; a handler does not rest longer than MaxLag on a checked code. The
\* clock matters, and runs, from the first checked code on.
Tick ==
    /\ now < MaxClock
    /\ confirmed # {} \/ \E r \in Requests : req[r].pc = "nonce"
    /\ \A r \in Requests : req[r].pc = "nonce" => now < req[r].at + MaxLag
    /\ now' = now + 1
    /\ UNCHANGED <<admin, boot, req, kv, faults, history>>

Codes == (1..Limit) \X Steps

Next ==
    \/ \E p \in Replicas : BootCount(p) \/ BootCreate(p) \/ Restart(p)
    \/ \E r \in Requests :
         \/ \E k \in Kinds : Arrive(r, k)
         \/ LoginRead(r) \/ LoginSecret(r)
         \/ \E t \in pending : MfaPending(r, t)
         \/ \E code \in Codes : MfaCode(r, code)
         \/ MfaRow(r) \/ MfaNonce(r) \/ MfaNonceFails(r) \/ MfaEnroll(r) \/ MfaFinish(r)
         \/ Refuse(r) \/ RequestDies(r)
    \/ \E t \in sessions : Logout(t)
    \/ \E u \in used : NonceExpires(u)
    \/ Tick

Spec == Init /\ [][Next]_vars

-----------------------------------------------------------------------------
(***************************************************************************)
(* Properties.                                                              *)
(***************************************************************************)
Row  == [exists : BOOLEAN, secret : Nat, enrolled : BOOLEAN]
Copy == [exists : {TRUE}, secret : Nat, enrolled : BOOLEAN]

\* Every table, key and handler keeps its shape; a checked code is of a step whose code the
\* clock admits, and only an existing administrator has a secret.
TypeOK ==
    /\ admin \in Row /\ (admin.secret # 0 => admin.exists)
    /\ boot \in [Replicas -> {"count", "create", "up"}]
    /\ req \in [Requests ->
         {Idle} \union [pc : Kinds, n : Nat]
         \union [pc : {"totp"}, n : Nat, row : Copy]
         \union [pc : {"row"}, n : Nat, token : Nat]
         \union [pc : {"code"}, n : Nat, token : Nat, row : Copy]
         \union [pc : {"nonce"}, n : Nat, token : Nat, row : Copy, step : Steps, at : Steps]
         \union [pc : {"enroll", "finish"}, n : Nat, token : Nat, step : Steps]]
    /\ \A r \in Requests : req[r].pc = "nonce" =>
         req[r].step \in (req[r].at - 1)..(req[r].at + 1)
    /\ pending \subseteq 1..Limit /\ sessions \subseteq 1..Limit
    /\ used \subseteq [step : Steps, at : Steps]
    /\ hits \in [Kinds -> 0..Limit] /\ now \in 1..MaxClock /\ faults \in 0..MaxFaults

\* "Single-use per time-step": the code of a step earns one session, over all pending logins
\* and all requests at once, for as long as the step is accepted; every error of SETNX may
\* let one more through.
OneSessionPerCode ==
    \A k \in Steps :
        LET n == Cardinality({g \in granted : g.step = k}) IN
        IF k \in opened THEN n <= 1 + faults ELSE n <= 1

\* An enrolled administrator's secret is one whose code was accepted, unless some login
\* replaced it while another handler, or this login itself, acted on an older copy of the row.
EnrolledIsConfirmed == admin.enrolled => admin.secret \in confirmed \/ raced

\* Enrolment is for good: no login and no replica that starts, also not one that counted
\* before the first administrator was created, takes it back.
EnrolmentKept == [][admin.enrolled => admin'.enrolled]_vars
=============================================================================
