--------------------------- MODULE AdminMfa_proofs ---------------------------
(***************************************************************************)
(* The administrator's login, for any number of replicas and handlers, any  *)
(* limit of attempts and any time a used code is remembered that outlasts   *)
(* the steps in which it can still be presented and the lag of a handler.   *)
(***************************************************************************)
EXTENDS AdminMfa, FiniteSetTheorems, TLAPS

-----------------------------------------------------------------------------
(***************************************************************************)
(* The handlers in flight, by the shape of their records.                   *)
(***************************************************************************)
NewReqs   == [pc : Kinds, n : Nat]
TotpReqs  == [pc : {"totp"}, n : Nat, row : Copy]
RowReqs   == [pc : {"row"}, n : Nat, token : Nat]
CodeReqs  == [pc : {"code"}, n : Nat, token : Nat, row : Copy]
NonceReqs == [pc : {"nonce"}, n : Nat, token : Nat, row : Copy, step : Steps, at : Steps]
PassReqs  == [pc : {"enroll", "finish"}, n : Nat, token : Nat, step : Steps]
InFlight  == {Idle} \union NewReqs \union TotpReqs \union RowReqs \union CodeReqs
               \union NonceReqs \union PassReqs

\* The shape of a handler's record follows from its pc.
LEMMA Shape ==
  ASSUME NEW q \in InFlight
  PROVE  /\ q.pc = "idle" <=> q = Idle
         /\ q.pc \in Kinds => q \in NewReqs
         /\ q.pc = "totp" => q \in TotpReqs
         /\ q.pc = "row" => q \in RowReqs
         /\ q.pc = "code" => q \in CodeReqs
         /\ q.pc = "nonce" => q \in NonceReqs
         /\ q.pc \in {"enroll", "finish"} => q \in PassReqs
<1>1. CASE q = Idle
  BY <1>1 DEF Idle, Kinds
<1>2. CASE q \in NewReqs
  BY <1>2 DEF NewReqs, Idle, Kinds
<1>3. CASE q \in TotpReqs
  BY <1>3 DEF TotpReqs, Idle, Kinds
<1>4. CASE q \in RowReqs
  BY <1>4 DEF RowReqs, Idle, Kinds
<1>5. CASE q \in CodeReqs
  BY <1>5 DEF CodeReqs, Idle, Kinds
<1>6. CASE q \in NonceReqs
  BY <1>6 DEF NonceReqs, Idle, Kinds
<1>7. CASE q \in PassReqs
  BY <1>7 DEF PassReqs, Idle, Kinds
<1> QED
  BY <1>1, <1>2, <1>3, <1>4, <1>5, <1>6, <1>7 DEF InFlight

\* Tokens, secrets and sessions are numbers of attempts.
Numbered == \A r \in Requests : req[r].pc # "idle" => req[r].n \in 1..Limit

\* A code in hand was checked not long ago.
Fresh(q) ==
    q.pc = "nonce" =>
      /\ q.step \in (q.at - 1)..(q.at + 1)
      /\ q.at <= now /\ now <= q.at + MaxLag

Typed == TypeOK /\ Numbered /\ \A r \in Requests : Fresh(req[r])

LEMMA Types ==
  ASSUME Typed
  PROVE  /\ admin \in Row /\ (admin.secret # 0 => admin.exists)
         /\ boot \in [Replicas -> {"count", "create", "up"}]
         /\ req \in [Requests -> InFlight]
         /\ \A r \in Requests : req[r].pc # "idle" => req[r].n \in 1..Limit
         /\ \A r \in Requests : Fresh(req[r])
         /\ pending \subseteq 1..Limit /\ sessions \subseteq 1..Limit
         /\ used \subseteq [step : Steps, at : Steps]
         /\ hits \in [Kinds -> 0..Limit] /\ now \in 1..MaxClock /\ faults \in 0..MaxFaults
  BY DEF Typed, TypeOK, Numbered, InFlight, NewReqs, TotpReqs, RowReqs, CodeReqs, NonceReqs,
         PassReqs

LEMMA Numbers ==
  /\ Limit \in Nat /\ MaxLag \in Nat /\ NonceSteps \in Nat /\ MaxFaults \in Nat
  /\ MaxClock \in Nat /\ MaxClock >= 1
  /\ IsFiniteSet(Requests)
  /\ 1..MaxClock \subseteq Steps /\ Steps \subseteq Nat
  /\ Idle \in InFlight /\ Idle.pc = "idle"
BY AdminMfaAssumption DEF Steps, InFlight, Idle

-----------------------------------------------------------------------------
(***************************************************************************)
(* What a step of a handler leaves in its place.                            *)
(***************************************************************************)

\* The steps of one handler, and the others.
HandlerStep(r) ==
    \/ \E k \in Kinds : Arrive(r, k)
    \/ LoginRead(r) \/ LoginSecret(r)
    \/ \E t \in pending : MfaPending(r, t)
    \/ \E code \in Codes : MfaCode(r, code)
    \/ MfaRow(r) \/ MfaNonce(r) \/ MfaNonceFails(r) \/ MfaEnroll(r) \/ MfaFinish(r)
    \/ Refuse(r) \/ RequestDies(r)

OtherStep ==
    \/ \E p \in Replicas : BootCount(p) \/ BootCreate(p) \/ Restart(p)
    \/ \E t \in sessions : Logout(t)
    \/ \E u \in used : NonceExpires(u)
    \/ Tick
    \/ UNCHANGED vars

LEMMA Steppers == [Next]_vars <=> OtherStep \/ \E r \in Requests : HandlerStep(r)
  BY DEF Next, OtherStep, HandlerStep

LEMMA OthersRest == OtherStep => req' = req
  BY DEF OtherStep, BootCount, BootCreate, Restart, Logout, NonceExpires, Tick, vars

\* What a handler holds after its step, by the action that it took.
LEMMA HandlerMoves ==
  ASSUME Typed, NEW r \in Requests, HandlerStep(r)
  PROVE  \E w \in InFlight :
           /\ req' = [req EXCEPT ![r] = w]
           /\ w.pc # "idle" => w.n \in 1..Limit
           /\ w.pc = "nonce" =>
                w.step \in (w.at - 1)..(w.at + 1) /\ w.at = now /\ now' = now
           /\ w.pc = "nonce" => req[r].pc = "code" /\ w.row = req[r].row
           /\ w.pc = "code" => admin.secret # 0 /\ w.row = admin
           /\ w.pc = "totp" => admin.exists /\ ~admin.enrolled /\ w.row = admin
           /\ w.pc = "enroll" => /\ req[r].pc = "nonce" /\ ~req[r].row.enrolled
                                 /\ w.step = req[r].step /\ req[r].row.secret \in confirmed'
                                 /\ MfaNonce(r) \/ MfaNonceFails(r)
           /\ w.pc = "finish" => \/ /\ w.step = req[r].step
                                    /\ MfaNonce(r) \/ MfaNonceFails(r)
                                 \/ req[r].pc = "enroll" /\ w.step = req[r].step
<1> USE Types, Numbers
<1> DEFINE G(w) ==
           /\ req' = [req EXCEPT ![r] = w]
           /\ w.pc # "idle" => w.n \in 1..Limit
           /\ w.pc = "nonce" =>
                w.step \in (w.at - 1)..(w.at + 1) /\ w.at = now /\ now' = now
           /\ w.pc = "nonce" => req[r].pc = "code" /\ w.row = req[r].row
           /\ w.pc = "code" => admin.secret # 0 /\ w.row = admin
           /\ w.pc = "totp" => admin.exists /\ ~admin.enrolled /\ w.row = admin
           /\ w.pc = "enroll" => /\ req[r].pc = "nonce" /\ ~req[r].row.enrolled
                                 /\ w.step = req[r].step /\ req[r].row.secret \in confirmed'
                                 /\ MfaNonce(r) \/ MfaNonceFails(r)
           /\ w.pc = "finish" => \/ /\ w.step = req[r].step
                                    /\ MfaNonce(r) \/ MfaNonceFails(r)
                                 \/ req[r].pc = "enroll" /\ w.step = req[r].step
<1> SUFFICES \E w \in InFlight : G(w)
  OBVIOUS
<1>0. ASSUME Return(r) PROVE G(Idle)
  BY <1>0 DEF Return
<1>1. ASSUME NEW k \in Kinds, Arrive(r, k) PROVE \E w \in InFlight : G(w)
  <2> DEFINE w == [pc |-> k, n |-> hits'[k]]
  <2>1. req' = [req EXCEPT ![r] = w] /\ hits'[k] \in 1..Limit
    BY <1>1 DEF Arrive, GoTo, RateLimit
  <2>2. w \in NewReqs /\ w.n \in 1..Limit /\ w.pc \in {"login", "mfa"}
    BY <2>1 DEF NewReqs, Kinds
  <2>3. w \in InFlight
    BY <2>2 DEF InFlight
  <2> HIDE DEF w
  <2> QED
    BY <2>1, <2>2, <2>3
<1>2. ASSUME LoginRead(r) PROVE \E w \in InFlight : G(w)
  <2> DEFINE w == [pc |-> "totp", n |-> req[r].n, row |-> admin]
  <2>1. CASE admin.enrolled
    BY <1>0, <1>2, <2>1 DEF LoginRead, GoTo, Return
  <2>2. CASE ~admin.enrolled
    <3>1. req' = [req EXCEPT ![r] = w] /\ admin.exists /\ req[r].n \in 1..Limit
      BY <1>2, <2>2 DEF LoginRead, GoTo
    <3>2. admin \in Copy
      BY <3>1 DEF Row, Copy
    <3>3. w \in TotpReqs /\ w.n = req[r].n /\ w.row = admin /\ w.pc = "totp"
      BY <3>1, <3>2 DEF TotpReqs
    <3>4. w \in InFlight
      BY <3>3 DEF InFlight
    <3> HIDE DEF w
    <3> QED
      BY <2>2, <3>1, <3>3, <3>4
  <2> QED
    BY <2>1, <2>2
<1>3. ASSUME NEW t \in pending, MfaPending(r, t) PROVE \E w \in InFlight : G(w)
  <2> DEFINE w == [pc |-> "row", n |-> req[r].n, token |-> t]
  <2>1. req' = [req EXCEPT ![r] = w] /\ req[r].n \in 1..Limit
    BY <1>3 DEF MfaPending, GoTo
  <2>2. w \in RowReqs /\ w.n = req[r].n /\ w.pc = "row"
    BY <2>1 DEF RowReqs
  <2>3. w \in InFlight
    BY <2>2 DEF InFlight
  <2> HIDE DEF w
  <2> QED
    BY <2>1, <2>2, <2>3
<1>4. ASSUME MfaRow(r) PROVE \E w \in InFlight : G(w)
  <2> DEFINE w == [pc |-> "code", n |-> req[r].n, token |-> req[r].token, row |-> admin]
  <2>1. CASE admin.secret = 0
    BY <1>0, <1>4, <2>1 DEF MfaRow, GoTo, Return
  <2>2. CASE admin.secret # 0
    <3>1. req' = [req EXCEPT ![r] = w] /\ req[r].n \in 1..Limit
      BY <1>4, <2>2 DEF MfaRow, GoTo
    <3>2. admin \in Copy
      BY <2>2 DEF Row, Copy
    <3>3. req[r] \in RowReqs
      BY <1>4, Shape DEF MfaRow
    <3>4. w \in CodeReqs /\ w.n = req[r].n /\ w.row = admin /\ w.pc = "code"
      BY <3>1, <3>2, <3>3 DEF CodeReqs, RowReqs
    <3>5. w \in InFlight
      BY <3>4 DEF InFlight
    <3> HIDE DEF w
    <3> QED
      BY <2>2, <3>1, <3>4, <3>5
  <2> QED
    BY <2>1, <2>2
<1>5. ASSUME NEW code \in Codes, MfaCode(r, code) PROVE \E w \in InFlight : G(w)
  <2>1. PICK k \in VerifyStep(req[r].row.secret, code) :
          req' = [req EXCEPT ![r] = [pc |-> "nonce", n |-> req[r].n, token |-> req[r].token,
                                     row |-> req[r].row, step |-> k, at |-> now]]
    BY <1>5 DEF MfaCode, GoTo
  <2> DEFINE w == [pc |-> "nonce", n |-> req[r].n, token |-> req[r].token,
                   row |-> req[r].row, step |-> k, at |-> now]
  <2>2. k \in Steps /\ k \in (now - 1)..(now + 1)
    BY <2>1 DEF VerifyStep, Codes
  <2>3. req[r] \in CodeReqs /\ req[r].pc = "code" /\ req[r].n \in 1..Limit /\ now' = now
    BY <1>5, Shape DEF MfaCode
  <2>4. now \in Steps
    OBVIOUS
  <2>5. /\ w \in NonceReqs /\ w.n = req[r].n /\ w.row = req[r].row /\ w.pc = "nonce"
        /\ w.step = k /\ w.at = now
    BY <2>2, <2>3, <2>4 DEF NonceReqs, CodeReqs
  <2>6. w \in InFlight
    BY <2>5 DEF InFlight
  <2>7. req' = [req EXCEPT ![r] = w]
    BY <2>1
  <2> HIDE DEF w
  <2> QED
    BY <2>2, <2>3, <2>5, <2>6, <2>7
<1>6. ASSUME Pass(r), MfaNonce(r) \/ MfaNonceFails(r), req[r].row.secret \in confirmed'
      PROVE  \E w \in InFlight : G(w)
  <2> DEFINE w == [pc |-> IF req[r].row.enrolled THEN "finish" ELSE "enroll",
                   n |-> req[r].n, token |-> req[r].token, step |-> req[r].step]
  <2>1. req' = [req EXCEPT ![r] = w]
    BY <1>6 DEF Pass, GoTo
  <2>2. req[r].pc = "nonce" /\ req[r] \in NonceReqs /\ req[r].n \in 1..Limit
    BY <1>6, Shape DEF MfaNonce, MfaNonceFails
  <2>3. /\ w \in PassReqs /\ w.n = req[r].n /\ w.step = req[r].step
        /\ w.pc = IF req[r].row.enrolled THEN "finish" ELSE "enroll"
    BY <2>2 DEF PassReqs, NonceReqs
  <2>4. w \in InFlight
    BY <2>3 DEF InFlight
  <2> HIDE DEF w
  <2> QED
    BY <1>6, <2>1, <2>2, <2>3, <2>4
<1>7. ASSUME MfaNonce(r) PROVE \E w \in InFlight : G(w)
  <2>1. Return(r) \/ (Pass(r) /\ req[r].row.secret \in confirmed')
    BY <1>7 DEF MfaNonce
  <2> QED
    BY <1>0, <1>6, <1>7, <2>1
<1>8. ASSUME MfaNonceFails(r) PROVE \E w \in InFlight : G(w)
  BY <1>6, <1>8 DEF MfaNonceFails
<1>9. ASSUME MfaEnroll(r) PROVE \E w \in InFlight : G(w)
  <2>1. req' = [req EXCEPT ![r] = [req[r] EXCEPT !.pc = "finish"]]
        /\ req[r] \in PassReqs /\ req[r].pc = "enroll" /\ req[r].n \in 1..Limit
    BY <1>9, Shape DEF MfaEnroll, GoTo
  <2>2. ASSUME NEW d \in PassReqs
        PROVE  LET w == [d EXCEPT !.pc = "finish"] IN
               w \in PassReqs /\ w.n = d.n /\ w.step = d.step /\ w.pc = "finish"
    BY DEF PassReqs
  <2> DEFINE w == [req[r] EXCEPT !.pc = "finish"]
  <2>3. w \in PassReqs /\ w.n = req[r].n /\ w.step = req[r].step /\ w.pc = "finish"
    BY <2>1, <2>2
  <2>4. w \in InFlight
    BY <2>3 DEF InFlight
  <2>5. req' = [req EXCEPT ![r] = w]
    BY <2>1
  <2> HIDE DEF w
  <2> QED
    BY <2>1, <2>3, <2>4, <2>5
<1>10. ASSUME LoginSecret(r) \/ MfaFinish(r) \/ Refuse(r) \/ RequestDies(r) PROVE Return(r)
  BY <1>10 DEF LoginSecret, MfaFinish, Refuse, RequestDies
<1> HIDE DEF G
<1> QED
  BY <1>0, <1>1, <1>2, <1>3, <1>4, <1>5, <1>7, <1>8, <1>9, <1>10 DEF HandlerStep

\* Which actions write what.
LEMMA Frame ==
  ASSUME [Next]_vars
  PROVE  /\ \/ admin' = admin
            \/ \E p \in Replicas : BootCreate(p)
            \/ \E r \in Requests : LoginSecret(r) \/ MfaEnroll(r)
         /\ pending' = pending \/ \E r \in Requests : LoginRead(r) \/ MfaFinish(r)
         /\ \/ granted' = granted /\ sessions' \subseteq sessions
            \/ \E r \in Requests : MfaFinish(r)
         /\ \/ used' = used
            \/ \E r \in Requests : MfaNonce(r)
            \/ \E u \in used : NonceExpires(u)
         /\ hits' = hits \/ \E r \in Requests : \E k \in Kinds : Arrive(r, k)
         /\ now' = now \/ Tick
         /\ opened' = opened \/ \E r \in Requests : MfaNonceFails(r)
         /\ confirmed \subseteq confirmed'
         /\ raced' = raced \/ \E r \in Requests : LoginSecret(r)
         /\ faults' = faults \/ Fault
<1> USE DEF kv, history
<1>1. ASSUME OtherStep
      PROVE  /\ UNCHANGED <<pending, hits, history>> /\ sessions' \subseteq sessions
             /\ admin' = admin \/ \E p \in Replicas : BootCreate(p)
             /\ used' = used \/ \E u \in used : NonceExpires(u)
             /\ now' = now \/ Tick
             /\ faults' = faults \/ Fault
  <2>1. ASSUME NEW p \in Replicas, BootCount(p) \/ BootCreate(p) \/ Restart(p)
        PROVE  /\ UNCHANGED <<pending, sessions, used, hits, history, now>>
               /\ admin' = admin \/ BootCreate(p)
               /\ faults' = faults \/ Fault
    BY <2>1 DEF BootCount, BootCreate, Restart
  <2>2. ASSUME NEW t \in sessions, Logout(t)
        PROVE  /\ UNCHANGED <<admin, pending, used, hits, history, now, faults>>
               /\ sessions' \subseteq sessions
    BY <2>2 DEF Logout
  <2>3. ASSUME NEW u \in used, NonceExpires(u)
        PROVE  UNCHANGED <<admin, pending, sessions, hits, history, now, faults>>
    BY <2>3 DEF NonceExpires
  <2>4. Tick => UNCHANGED <<admin, pending, sessions, used, hits, history, faults>>
    BY DEF Tick
  <2>5. UNCHANGED vars => UNCHANGED <<admin, pending, sessions, used, hits, history, now, faults>>
    BY DEF vars
  <2> QED
    BY <1>1, <2>1, <2>2, <2>3, <2>4, <2>5 DEF OtherStep
<1>2. ASSUME NEW r \in Requests,
             \/ \E k \in Kinds : Arrive(r, k)
             \/ \E t \in pending : MfaPending(r, t)
             \/ \E code \in Codes : MfaCode(r, code)
             \/ MfaRow(r) \/ Refuse(r) \/ RequestDies(r)
      PROVE  /\ UNCHANGED <<admin, pending, sessions, used, now, history>>
             /\ hits' = hits \/ \E k \in Kinds : Arrive(r, k)
             /\ faults' = faults \/ Fault
  BY <1>2 DEF Arrive, MfaPending, MfaCode, MfaRow, Refuse, RequestDies
<1>3. ASSUME NEW r \in Requests, LoginRead(r)
      PROVE  UNCHANGED <<admin, sessions, used, hits, now, faults, history>>
  BY <1>3 DEF LoginRead
<1>4. ASSUME NEW r \in Requests, LoginSecret(r)
      PROVE  UNCHANGED <<pending, sessions, used, hits, now, faults, granted, opened, confirmed>>
  BY <1>4 DEF LoginSecret
<1>5. ASSUME NEW r \in Requests, MfaNonce(r)
      PROVE  /\ UNCHANGED <<admin, pending, sessions, hits, now, faults, granted, opened, raced>>
             /\ confirmed \subseteq confirmed'
  BY <1>5 DEF MfaNonce
<1>6. ASSUME NEW r \in Requests, MfaNonceFails(r)
      PROVE  /\ UNCHANGED <<admin, pending, sessions, used, hits, now, granted, raced>>
             /\ confirmed \subseteq confirmed' /\ Fault
  BY <1>6 DEF MfaNonceFails
<1>7. ASSUME NEW r \in Requests, MfaEnroll(r)
      PROVE  /\ UNCHANGED <<pending, sessions, used, hits, now, history>>
             /\ faults' = faults \/ Fault
  BY <1>7 DEF MfaEnroll
<1>8. ASSUME NEW r \in Requests, MfaFinish(r)
      PROVE  /\ UNCHANGED <<admin, used, hits, now, opened, confirmed, raced>>
             /\ faults' = faults \/ Fault
  BY <1>8 DEF MfaFinish
<1> QED
  BY <1>1, <1>2, <1>3, <1>4, <1>5, <1>6, <1>7, <1>8, Steppers DEF HandlerStep

-----------------------------------------------------------------------------
(***************************************************************************)
(* Types.                                                                   *)
(***************************************************************************)
LEMMA StepReqType ==
  ASSUME Typed, [Next]_vars
  PROVE  /\ req' \in [Requests -> InFlight]
         /\ \A r \in Requests : req'[r].pc # "idle" => req'[r].n \in 1..Limit
         /\ \A r \in Requests : Fresh(req[r])'
<1> USE Types, Numbers
<1>1. CASE OtherStep
  <2>1. req' = req
    BY <1>1, OthersRest
  <2>2. CASE now' = now
    BY <2>1, <2>2 DEF Fresh
  <2>3. CASE Tick
    <3>1. ASSUME NEW r \in Requests, req[r].pc = "nonce"
          PROVE  /\ req[r].step \in (req[r].at - 1)..(req[r].at + 1)
                 /\ req[r].at <= now' /\ now' <= req[r].at + MaxLag
      <4>1. req[r].at \in Nat
        BY <3>1, Shape DEF NonceReqs
      <4>2. now' = now + 1 /\ now < req[r].at + MaxLag
        BY <2>3, <3>1 DEF Tick
      <4> QED
        BY <3>1, <4>1, <4>2 DEF Fresh
    <3> QED
      BY <2>1, <3>1 DEF Fresh
  <2> QED
    BY <2>1, <2>2, <2>3, Frame
<1>2. ASSUME NEW r \in Requests, HandlerStep(r)
      PROVE  /\ req' \in [Requests -> InFlight]
             /\ \A q \in Requests : req'[q].pc # "idle" => req'[q].n \in 1..Limit
             /\ \A q \in Requests : Fresh(req[q])'
  <2>1. PICK w \in InFlight :
           /\ req' = [req EXCEPT ![r] = w]
           /\ w.pc # "idle" => w.n \in 1..Limit
           /\ w.pc = "nonce" =>
                w.step \in (w.at - 1)..(w.at + 1) /\ w.at = now /\ now' = now
    BY <1>2, HandlerMoves
  <2>2. now' = now
    BY <1>2 DEF HandlerStep, Arrive, LoginRead, LoginSecret, MfaPending, MfaCode, MfaRow, MfaNonce,
                MfaNonceFails, MfaEnroll, MfaFinish, Refuse, RequestDies
  <2>3. req'[r] = w /\ \A q \in Requests \ {r} : req'[q] = req[q]
    BY <2>1
  <2>4. Fresh(req[r])'
    BY <2>1, <2>2, <2>3 DEF Fresh
  <2>5. ASSUME NEW q \in Requests \ {r} PROVE Fresh(req[q])'
    BY <2>2, <2>3 DEF Fresh
  <2> QED
    BY <2>1, <2>3, <2>4, <2>5
<1> QED
  BY <1>1, <1>2, Steppers

\* Only an existing administrator is enrolled or has a login under way, and the row stays.
NeedsRow == {"totp", "code", "nonce", "enroll"}
Existing ==
    /\ admin.enrolled => admin.exists
    /\ \A r \in Requests : req[r].pc \in NeedsRow => admin.exists

LEMMA StepAdminType ==
  ASSUME Typed, Existing, [Next]_vars
  PROVE  /\ admin' \in Row /\ (admin'.secret # 0 => admin'.exists)
         /\ admin.exists => admin'.exists
         /\ admin.enrolled => admin'.enrolled
         /\ admin'.enrolled => admin'.exists
<1> USE Types, Numbers
<1> DEFINE G == /\ admin' \in Row /\ (admin'.secret # 0 => admin'.exists)
                /\ admin.exists => admin'.exists
                /\ admin.enrolled => admin'.enrolled
                /\ admin'.enrolled => admin'.exists
<1>1. ASSUME NEW p \in Replicas, BootCreate(p)
      PROVE  G
  BY <1>1 DEF BootCreate, Row, Existing
<1>2. ASSUME NEW d \in Row, NEW n \in Nat
      PROVE  LET w == [d EXCEPT !.secret = n]
                 v == [d EXCEPT !.enrolled = TRUE] IN
             /\ w \in Row /\ w.exists = d.exists /\ w.enrolled = d.enrolled /\ w.secret = n
             /\ v \in Row /\ v.exists = d.exists /\ v.enrolled /\ v.secret = d.secret
  BY DEF Row
<1>3. ASSUME NEW r \in Requests, LoginSecret(r)
      PROVE  G
  <2>1. req[r].n \in Nat /\ admin.exists /\ admin \in Row
    BY <1>3 DEF LoginSecret, Existing, NeedsRow
  <2>2. admin' = [admin EXCEPT !.secret = req[r].n]
    BY <1>3 DEF LoginSecret
  <2>3. admin' \in Row /\ admin'.exists = admin.exists /\ admin'.enrolled = admin.enrolled
    BY ONLY <1>2, <2>1, <2>2
  <2> QED
    BY <2>1, <2>3
<1>4. ASSUME NEW r \in Requests, MfaEnroll(r)
      PROVE  G
  <2>1. admin.exists /\ admin \in Row
    BY <1>4 DEF MfaEnroll, Existing, NeedsRow
  <2>2. CASE admin' = [admin EXCEPT !.enrolled = TRUE]
    <3>1. admin' \in Row /\ admin'.exists = admin.exists /\ admin'.enrolled
      BY ONLY <1>2, <2>1, <2>2, 0 \in Nat
    <3> QED
      BY <2>1, <3>1
  <2>3. CASE admin' = admin
    BY <2>1, <2>3 DEF Existing
  <2> QED
    BY <1>4, <2>2, <2>3 DEF MfaEnroll
<1> QED
  BY <1>1, <1>3, <1>4, Frame DEF Existing

LEMMA StepExisting ==
  ASSUME Typed, Existing, [Next]_vars
  PROVE  Existing'
<1> USE Types, Numbers
<1>1. admin.exists => admin'.exists
  BY StepAdminType
<1>2. ASSUME NEW r \in Requests, req'[r].pc \in NeedsRow PROVE admin.exists
  <2>1. CASE req'[r] = req[r]
    BY <1>2, <2>1 DEF Existing
  <2>2. ASSUME NEW q \in Requests, HandlerStep(q), q # r PROVE req'[r] = req[r]
    BY <2>2, HandlerMoves
  <2>3. CASE HandlerStep(r)
    <3>1. PICK w \in InFlight :
            /\ req' = [req EXCEPT ![r] = w]
            /\ w.pc = "nonce" => req[r].pc = "code"
            /\ w.pc = "code" => admin.secret # 0
            /\ w.pc = "totp" => admin.exists
            /\ w.pc = "enroll" => req[r].pc = "nonce"
      BY <2>3, HandlerMoves
    <3> QED
      BY <1>2, <3>1 DEF Existing, NeedsRow
  <2> QED
    BY <2>1, <2>2, <2>3, OthersRest, Steppers
<1> QED
  BY <1>1, <1>2, StepAdminType DEF Existing

\* The keys, the counters and the clock.
LEMMA StepKvType ==
  ASSUME Typed, [Next]_vars
  PROVE  /\ pending' \subseteq 1..Limit /\ sessions' \subseteq 1..Limit
         /\ used' \subseteq [step : Steps, at : Steps]
         /\ hits' \in [Kinds -> 0..Limit] /\ now' \in 1..MaxClock /\ faults' \in 0..MaxFaults
         /\ boot' \in [Replicas -> {"count", "create", "up"}]
<1> USE Types, Numbers
<1>1. ASSUME NEW r \in Requests, LoginRead(r) \/ MfaFinish(r)
      PROVE  pending' \subseteq 1..Limit /\ sessions' \subseteq 1..Limit
  <2>1. req[r].n \in 1..Limit
    BY <1>1 DEF LoginRead, MfaFinish
  <2>2. CASE LoginRead(r)
    BY <2>1, <2>2 DEF LoginRead
  <2>3. CASE MfaFinish(r)
    BY <2>1, <2>3 DEF MfaFinish
  <2> QED
    BY <1>1, <2>2, <2>3
<1>2. ASSUME NEW r \in Requests, MfaNonce(r) PROVE used' \subseteq [step : Steps, at : Steps]
  <2>1. req[r].step \in Steps /\ now \in Steps
    BY <1>2, Shape DEF MfaNonce, NonceReqs
  <2>2. used' = used \/ used' = used \union {[step |-> req[r].step, at |-> now]}
    BY <1>2 DEF MfaNonce
  <2> QED
    BY <2>1, <2>2
<1>3. ASSUME NEW u \in used, NonceExpires(u) PROVE used' \subseteq used
  BY <1>3 DEF NonceExpires
<1>4. ASSUME NEW r \in Requests, NEW k \in Kinds, Arrive(r, k) PROVE hits' \in [Kinds -> 0..Limit]
  BY <1>4 DEF Arrive, RateLimit
<1>5. Tick => now' \in 1..MaxClock
  BY DEF Tick
<1>6. Fault => faults' \in 0..MaxFaults
  BY DEF Fault
<1>7. ASSUME NEW p \in Replicas, BootCount(p) \/ BootCreate(p) \/ Restart(p)
      PROVE  boot' \in [Replicas -> {"count", "create", "up"}]
  BY <1>7 DEF BootCount, BootCreate, Restart
<1>8. ASSUME NEW r \in Requests, HandlerStep(r) PROVE boot' = boot
  BY <1>8 DEF HandlerStep, Arrive, LoginRead, LoginSecret, MfaPending, MfaCode, MfaRow, MfaNonce,
              MfaNonceFails, MfaEnroll, MfaFinish, Refuse, RequestDies
<1>9. OtherStep => boot' = boot \/ \E p \in Replicas : BootCount(p) \/ BootCreate(p) \/ Restart(p)
  BY DEF OtherStep, Logout, NonceExpires, Tick, vars
<1>10. pending' \subseteq 1..Limit /\ sessions' \subseteq 1..Limit
  BY <1>1, Frame
<1>11. used' \subseteq [step : Steps, at : Steps]
  BY <1>2, <1>3, Frame
<1>12. boot' \in [Replicas -> {"count", "create", "up"}]
  BY <1>7, <1>8, <1>9, Steppers
<1> QED
  BY <1>4, <1>5, <1>6, <1>10, <1>11, <1>12, Frame

LEMMA StepTyped ==
  ASSUME Typed, Existing, [Next]_vars
  PROVE  Typed'
<1>1. req' \in [Requests -> InFlight]
  BY StepReqType
<1>2. \A r \in Requests : req'[r].pc = "nonce" => req'[r].step \in (req'[r].at - 1)..(req'[r].at + 1)
  BY StepReqType DEF Fresh
<1>3. TypeOK'
  BY <1>1, <1>2, StepAdminType, StepKvType
     DEF TypeOK, InFlight, NewReqs, TotpReqs, RowReqs, CodeReqs, NonceReqs, PassReqs
<1> QED
  BY <1>3, StepReqType DEF Typed, Numbered

-----------------------------------------------------------------------------
(***************************************************************************)
(* Enrolment.                                                               *)
(***************************************************************************)

\* Until a login replaces the secret under another handler, every copy of the row that a code
\* is checked against has the secret of the row, and a handler that is about to enrol the
\* administrator has seen a code of it.
Coherent ==
    raced \/ /\ admin.enrolled => admin.secret \in confirmed
             /\ \A r \in Requests :
                  /\ req[r].pc = "totp" => ~req[r].row.enrolled
                  /\ req[r].pc \in {"code", "nonce"} => req[r].row.secret = admin.secret
                  /\ req[r].pc = "enroll" => admin.secret \in confirmed

\* Only a login replaces the secret, and only a code enrols.
LEMMA RowStep ==
  ASSUME Typed, [Next]_vars
  PROVE  \/ \E r \in Requests : LoginSecret(r)
         \/ /\ admin'.secret = admin.secret
            /\ admin'.enrolled => \/ admin.enrolled
                                  \/ \E r \in Requests : req[r].pc = "enroll"
<1> USE Types
<1>1. ASSUME NEW p \in Replicas, BootCreate(p)
      PROVE  admin'.secret = admin.secret /\ (admin'.enrolled => admin.enrolled)
  <2>1. CASE admin.exists
    BY <1>1, <2>1 DEF BootCreate
  <2>2. CASE ~admin.exists
    <3>1. admin' = [exists |-> TRUE, secret |-> 0, enrolled |-> FALSE]
      BY <1>1, <2>2 DEF BootCreate
    <3> QED
      BY <2>2, <3>1
  <2> QED
    BY <2>1, <2>2
<1>2. ASSUME NEW r \in Requests, MfaEnroll(r)
      PROVE  admin'.secret = admin.secret /\ req[r].pc = "enroll"
  BY <1>2 DEF MfaEnroll, Row
<1> QED
  BY <1>1, <1>2, Frame

LEMMA StepCoherent ==
  ASSUME Typed, Existing, Coherent, [Next]_vars
  PROVE  Coherent'
<1> USE Types, Numbers
<1> SUFFICES ASSUME ~raced'
             PROVE  /\ admin'.enrolled => admin'.secret \in confirmed'
                    /\ \A r \in Requests :
                         /\ req'[r].pc = "totp" => ~req'[r].row.enrolled
                         /\ req'[r].pc \in {"code", "nonce"} => req'[r].row.secret = admin'.secret
                         /\ req'[r].pc = "enroll" => admin'.secret \in confirmed'
  BY DEF Coherent
<1>0. ~raced
  BY Frame DEF LoginSecret
<1>1. /\ admin.enrolled => admin.secret \in confirmed
      /\ \A r \in Requests :
           /\ req[r].pc = "totp" => ~req[r].row.enrolled
           /\ req[r].pc \in {"code", "nonce"} => req[r].row.secret = admin.secret
           /\ req[r].pc = "enroll" => admin.secret \in confirmed
  BY <1>0 DEF Coherent
\* Nobody else acts on the row when its secret changes.
<1>2. ASSUME NEW r \in Requests, LoginSecret(r)
      PROVE  /\ ~admin'.enrolled
             /\ \A q \in Requests : req'[q].pc \notin {"totp", "code", "nonce", "enroll"}
  <2>1. InUse(r) = {} /\ req[r].row = admin /\ req[r].pc = "totp"
    BY <1>2 DEF LoginSecret
  <2>2. ~admin'.enrolled
    BY <1>1, <1>2, <2>1 DEF LoginSecret, Row
  <2>3. req' = [req EXCEPT ![r] = Idle]
    BY <1>2 DEF LoginSecret, Return
  <2>4. \A q \in Requests \ {r} : req[q].pc \notin {"totp", "code", "nonce", "enroll"}
    BY <2>1 DEF InUse
  <2> QED
    BY <2>2, <2>3, <2>4
<1>3. ASSUME admin'.secret = admin.secret,
             admin'.enrolled => admin.enrolled \/ \E r \in Requests : req[r].pc = "enroll"
      PROVE  /\ admin'.enrolled => admin'.secret \in confirmed'
             /\ \A r \in Requests :
                  /\ req'[r].pc = "totp" => ~req'[r].row.enrolled
                  /\ req'[r].pc \in {"code", "nonce"} => req'[r].row.secret = admin'.secret
                  /\ req'[r].pc = "enroll" => admin'.secret \in confirmed'
  <2>1. confirmed \subseteq confirmed'
    BY Frame
  <2>2. admin'.enrolled => admin'.secret \in confirmed'
    BY <1>1, <1>3, <2>1
  <2>3. ASSUME NEW r \in Requests
        PROVE  /\ req'[r].pc = "totp" => ~req'[r].row.enrolled
               /\ req'[r].pc \in {"code", "nonce"} => req'[r].row.secret = admin'.secret
               /\ req'[r].pc = "enroll" => admin'.secret \in confirmed'
    <3>1. CASE req'[r] = req[r]
      BY <1>1, <1>3, <2>1, <3>1
    <3>2. CASE HandlerStep(r)
      <4>1. PICK w \in InFlight :
              /\ req' = [req EXCEPT ![r] = w]
              /\ w.pc = "nonce" => req[r].pc = "code" /\ w.row = req[r].row
              /\ w.pc = "code" => w.row = admin
              /\ w.pc = "totp" => ~admin.enrolled /\ w.row = admin
              /\ w.pc = "enroll" => req[r].pc = "nonce" /\ req[r].row.secret \in confirmed'
        BY <3>2, HandlerMoves
      <4>2. req'[r] = w
        BY <4>1
      <4> QED
        BY <1>1, <1>3, <4>1, <4>2
    <3>3. ASSUME NEW q \in Requests, HandlerStep(q), q # r PROVE req'[r] = req[r]
      BY <3>3, HandlerMoves
    <3> QED
      BY <3>1, <3>2, <3>3, OthersRest, Steppers
  <2> QED
    BY <2>2, <2>3
<1> QED
  BY <1>2, <1>3, RowStep

-----------------------------------------------------------------------------
(***************************************************************************)
(* One session per code.                                                    *)
(***************************************************************************)

\* The sessions a step's code has earned and the handlers that it let through.
Earned(k)  == {g \in granted : g.step = k}
Through(k) == {r \in Requests : req[r].pc \in {"enroll", "finish"} /\ req[r].step = k}

\* What errors of SETNX may have let through.
Slack(k) == IF k \in opened THEN faults ELSE 0

\* No handler can pass SETNX with this step's code as long as its key is there, nor later
\* than the last step in which a handler may come to SETNX with it.
Spent(k) == (\E u \in used : u.step = k) \/ now > k + 1 + MaxLag

Spending ==
    /\ IsFiniteSet(granted)
    /\ \A u \in used : u.at >= u.step - 1
    /\ \A k \in Steps :
         LET n == Cardinality(Earned(k)) + Cardinality(Through(k)) IN
         /\ n <= 1 + Slack(k)
         /\ ~Spent(k) => n <= Slack(k)

\* A finite set with one more element.
LEMMA Grown ==
  ASSUME NEW S, IsFiniteSet(S), NEW e
  PROVE  IsFiniteSet(S \union {e}) /\ Cardinality(S \union {e}) <= Cardinality(S) + 1
<1>0. Cardinality(S) \in Nat
  BY FS_CardinalityType
<1>1. CASE e \in S
  <2>1. S \union {e} = S
    BY <1>1
  <2>2. IsFiniteSet(S \union {e}) /\ Cardinality(S \union {e}) = Cardinality(S)
    BY <2>1, Zenon
  <2> QED
    BY <1>0, <2>2
<1>2. CASE e \notin S
  <2>1. IsFiniteSet(S \union {e}) /\ Cardinality(S \union {e}) = Cardinality(S) + 1
    BY <1>2, FS_AddElement
  <2> QED
    BY <1>0, <2>1
<1> QED
  BY <1>1, <1>2

LEMMA FiniteParts ==
  ASSUME Spending, NEW k \in Steps
  PROVE  /\ IsFiniteSet(Earned(k)) /\ Cardinality(Earned(k)) \in Nat
         /\ IsFiniteSet(Through(k)) /\ Cardinality(Through(k)) \in Nat
<1>1. Earned(k) \subseteq granted /\ Through(k) \subseteq Requests /\ IsFiniteSet(granted)
  BY DEF Earned, Through, Spending
<1> QED
  BY <1>1, Numbers, FS_Subset, FS_CardinalityType

\* A step lets one handler through, or turns one that was let through into a session.
LEMMA CountStep ==
  ASSUME Typed, [Next]_vars, NEW k \in Steps
  PROVE  \/ Earned(k)' \subseteq Earned(k) /\ Through(k)' \subseteq Through(k)
         \/ \E r \in Through(k) : \E g :
              Earned(k)' \subseteq Earned(k) \union {g} /\ Through(k)' \subseteq Through(k) \ {r}
         \/ \E r \in Requests :
              /\ Earned(k)' \subseteq Earned(k) /\ Through(k)' \subseteq Through(k) \union {r}
              /\ req[r].pc = "nonce" /\ req[r].step = k /\ req'[r] # Idle
              /\ MfaNonce(r) \/ MfaNonceFails(r)
<1> USE Types, Numbers
<1>1. CASE OtherStep
  <2>1. req' = req /\ granted' = granted
    BY <1>1, OthersRest
       DEF OtherStep, BootCount, BootCreate, Restart, Logout, NonceExpires, Tick, vars, history
  <2> QED
    BY <2>1 DEF Earned, Through
<1>2. ASSUME NEW r \in Requests, MfaFinish(r)
      PROVE  \/ Earned(k)' \subseteq Earned(k) /\ Through(k)' \subseteq Through(k)
             \/ r \in Through(k) /\ \E g : /\ Earned(k)' \subseteq Earned(k) \union {g}
                                           /\ Through(k)' \subseteq Through(k) \ {r}
  <2> DEFINE g == [session |-> req[r].n, step |-> req[r].step]
  <2>1. granted' = granted \/ granted' = granted \union {g}
    BY <1>2 DEF MfaFinish
  <2>2. req' = [req EXCEPT ![r] = Idle] /\ req[r].pc = "finish"
    BY <1>2 DEF MfaFinish, Return
  <2>3. Through(k)' \subseteq Through(k) \ {r}
    BY <2>2 DEF Through
  <2>4. CASE req[r].step = k
    <3>1. r \in Through(k) /\ Earned(k)' \subseteq Earned(k) \union {g}
      BY <2>1, <2>2, <2>4 DEF Earned, Through
    <3> QED
      BY <2>3, <3>1
  <2>5. CASE req[r].step # k
    <3>1. g.step # k
      BY <2>5
    <3>2. Earned(k)' \subseteq Earned(k)
      BY <2>1, <3>1 DEF Earned
    <3> QED
      BY <2>3, <3>2
  <2> QED
    BY <2>4, <2>5
<1>3. ASSUME NEW r \in Requests, HandlerStep(r), ~MfaFinish(r)
      PROVE  \/ Earned(k)' \subseteq Earned(k) /\ Through(k)' \subseteq Through(k)
             \/ /\ Earned(k)' \subseteq Earned(k) /\ Through(k)' \subseteq Through(k) \union {r}
                /\ req[r].pc = "nonce" /\ req[r].step = k /\ req'[r] # Idle
                /\ MfaNonce(r) \/ MfaNonceFails(r)
  <2>1. granted' = granted
    BY <1>3 DEF HandlerStep, Arrive, LoginRead, LoginSecret, MfaPending, MfaCode, MfaRow, MfaNonce,
                MfaNonceFails, MfaEnroll, Refuse, RequestDies, history
  <2>2. Earned(k)' \subseteq Earned(k)
    BY <2>1 DEF Earned
  <2>3. PICK w \in InFlight :
          /\ req' = [req EXCEPT ![r] = w]
          /\ w.pc = "enroll" => /\ req[r].pc = "nonce" /\ w.step = req[r].step
                                /\ MfaNonce(r) \/ MfaNonceFails(r)
          /\ w.pc = "finish" => \/ /\ w.step = req[r].step
                                   /\ MfaNonce(r) \/ MfaNonceFails(r)
                                \/ req[r].pc = "enroll" /\ w.step = req[r].step
    BY <1>3, HandlerMoves
  <2>4. req'[r] = w /\ \A q \in Requests \ {r} : req'[q] = req[q]
    BY <2>3
  <2>5. Through(k)' \subseteq Through(k) \union {r}
    BY <2>4 DEF Through
  <2>6. CASE r \notin Through(k)' \/ r \in Through(k)
    BY <2>2, <2>5, <2>6
  <2>7. CASE r \in Through(k)' /\ r \notin Through(k)
    <3>1. w.pc \in {"enroll", "finish"} /\ w.step = k
      BY <2>4, <2>7 DEF Through
    <3>2. req[r].step = k
      BY <2>3, <3>1
    <3>3. req[r].pc # "enroll"
      BY <2>7, <3>2 DEF Through
    <3>4. MfaNonce(r) \/ MfaNonceFails(r)
      BY <2>3, <3>1, <3>3
    <3>5. req[r].pc = "nonce"
      BY <3>4 DEF MfaNonce, MfaNonceFails
    <3>6. w # Idle
      BY <3>1
    <3> QED
      BY <2>2, <2>4, <2>5, <3>2, <3>4, <3>5, <3>6
  <2> QED
    BY <2>6, <2>7
<1> QED
  BY <1>1, <1>2, <1>3, Steppers

\* A spent code stays spent when its key expires, for the key outlasts the code.
LEMMA SpentStays ==
  ASSUME MaxLag + 2 < NonceSteps, Typed, Spending, [Next]_vars, NEW k \in Steps, Spent(k)
  PROVE  Spent(k)'
<1> USE Types, Numbers
<1>1. now' >= now /\ k \in Nat
  BY Frame DEF Tick
<1>2. CASE now > k + 1 + MaxLag
  BY <1>1, <1>2, StepKvType DEF Spent
<1>3. ASSUME NEW u \in used, u.step = k PROVE Spent(k)'
  <2>1. CASE u \in used'
    BY <1>3, <2>1 DEF Spent
  <2>2. CASE u \notin used'
    <3>1. PICK v \in used : NonceExpires(v)
      BY <2>2, Frame DEF MfaNonce
    <3>2. u = v
      BY <2>2, <3>1 DEF NonceExpires
    <3>3. now >= u.at + NonceSteps /\ now' = now
      BY <3>1, <3>2 DEF NonceExpires
    <3>4. u.at >= k - 1 /\ u.at \in Nat
      BY <1>3 DEF Spending
    <3>5. now > k + 1 + MaxLag
      BY <1>1, <3>3, <3>4
    <3> QED
      BY <1>2, <3>5
  <2> QED
    BY <2>1, <2>2
<1> QED
  BY <1>2, <1>3 DEF Spent

LEMMA SlackGrows ==
  ASSUME Typed, [Next]_vars, NEW k \in Steps
  PROVE  /\ Slack(k) \in Nat /\ Slack(k)' \in Nat /\ Slack(k)' >= Slack(k)
         /\ \A r \in Requests : MfaNonceFails(r) /\ req[r].step = k => Slack(k)' >= Slack(k) + 1
<1> USE Types, Numbers
<1>1. faults' \in Nat /\ faults \in Nat /\ faults' >= faults
  BY Frame DEF Fault
<1>2. opened \subseteq opened'
  BY Frame DEF MfaNonceFails
<1>3. ASSUME NEW r \in Requests, MfaNonceFails(r), req[r].step = k
      PROVE  k \in opened' /\ faults' = faults + 1
  BY <1>3 DEF MfaNonceFails, Fault
<1> QED
  BY <1>1, <1>2, <1>3 DEF Slack

LEMMA StepSpending ==
  ASSUME MaxLag + 2 < NonceSteps, Typed, Spending, [Next]_vars
  PROVE  Spending'
<1> USE Types, Numbers
<1>1. IsFiniteSet(granted')
  <2>1. granted' = granted \/ \E g : granted' = granted \union {g}
    BY Frame, Zenon DEF MfaFinish
  <2>2. IsFiniteSet(granted)
    BY DEF Spending
  <2> QED
    BY <2>1, <2>2, FS_AddElement
<1>2. ASSUME NEW u \in used' PROVE u.at >= u.step - 1
  <2>1. CASE u \in used
    BY <2>1 DEF Spending
  <2>2. CASE u \notin used
    <3>1. PICK r \in Requests : MfaNonce(r)
      BY <2>2, Frame DEF NonceExpires
    <3>2. u = [step |-> req[r].step, at |-> now]
      BY <2>2, <3>1 DEF MfaNonce
    <3>3. req[r].pc = "nonce" /\ req[r] \in NonceReqs /\ Fresh(req[r])
      BY <3>1, Shape DEF MfaNonce
    <3>4. req[r].step \in Nat /\ req[r].at \in Nat /\ now \in Nat
      BY <3>3 DEF NonceReqs
    <3>5. u.step = req[r].step /\ u.at = now
      BY <3>2
    <3> QED
      BY <3>3, <3>4, <3>5 DEF Fresh
  <2> QED
    BY <2>1, <2>2
<1>3. ASSUME NEW k \in Steps
      PROVE  LET n == Cardinality(Earned(k)') + Cardinality(Through(k)') IN
             /\ n <= 1 + Slack(k)'
             /\ ~Spent(k)' => n <= Slack(k)'
  <2> DEFINE E == Earned(k)
             T == Through(k)
  <2>1. /\ IsFiniteSet(E) /\ Cardinality(E) \in Nat
        /\ IsFiniteSet(T) /\ Cardinality(T) \in Nat
    BY FiniteParts
  <2>2. /\ Cardinality(E) + Cardinality(T) <= 1 + Slack(k)
        /\ ~Spent(k) => Cardinality(E) + Cardinality(T) <= Slack(k)
    BY DEF Spending
  <2>3. Slack(k) \in Nat /\ Slack(k)' \in Nat /\ Slack(k)' >= Slack(k)
    BY SlackGrows
  <2>4. Spent(k) => Spent(k)'
    BY SpentStays
  <2>5. \/ E' \subseteq E /\ T' \subseteq T
        \/ \E r \in T : \E g : E' \subseteq E \union {g} /\ T' \subseteq T \ {r}
        \/ \E r \in Requests :
             /\ E' \subseteq E /\ T' \subseteq T \union {r}
             /\ req[r].pc = "nonce" /\ req[r].step = k /\ req'[r] # Idle
             /\ MfaNonce(r) \/ MfaNonceFails(r)
    BY CountStep
  <2> HIDE DEF E, T
  <2>6. CASE E' \subseteq E /\ T' \subseteq T
    <3>1. /\ Cardinality(E') \in Nat /\ Cardinality(T') \in Nat
          /\ Cardinality(E') <= Cardinality(E) /\ Cardinality(T') <= Cardinality(T)
      BY <2>1, <2>6, FS_Subset, FS_CardinalityType
    <3> QED
      BY <2>1, <2>2, <2>3, <2>4, <3>1 DEF E, T
  <2>7. ASSUME NEW r \in T, NEW g, E' \subseteq E \union {g}, T' \subseteq T \ {r}
        PROVE  Cardinality(E') + Cardinality(T') <= Cardinality(E) + Cardinality(T)
               /\ Cardinality(E') \in Nat /\ Cardinality(T') \in Nat
    <3>1. IsFiniteSet(E \union {g}) /\ Cardinality(E \union {g}) <= Cardinality(E) + 1
          /\ Cardinality(E \union {g}) \in Nat
      BY <2>1, Grown, FS_CardinalityType
    <3>2. Cardinality(E') <= Cardinality(E \union {g}) /\ Cardinality(E') \in Nat
      BY <2>7, <3>1, FS_Subset, FS_CardinalityType
    <3>3. IsFiniteSet(T \ {r}) /\ Cardinality(T \ {r}) = Cardinality(T) - 1
      BY <2>1, FS_RemoveElement
    <3>4. Cardinality(T') <= Cardinality(T \ {r}) /\ Cardinality(T') \in Nat
      BY <2>7, <3>3, FS_Subset, FS_CardinalityType
    <3> QED
      BY <2>1, <3>1, <3>2, <3>3, <3>4
  <2>8. ASSUME NEW r \in Requests, E' \subseteq E, T' \subseteq T \union {r}
        PROVE  Cardinality(E') + Cardinality(T') <= Cardinality(E) + Cardinality(T) + 1
               /\ Cardinality(E') \in Nat /\ Cardinality(T') \in Nat
    <3>1. IsFiniteSet(T \union {r}) /\ Cardinality(T \union {r}) <= Cardinality(T) + 1
          /\ Cardinality(T \union {r}) \in Nat
      BY <2>1, Grown, FS_CardinalityType
    <3>2. Cardinality(T') <= Cardinality(T \union {r}) /\ Cardinality(T') \in Nat
      BY <2>8, <3>1, FS_Subset, FS_CardinalityType
    <3>3. Cardinality(E') <= Cardinality(E) /\ Cardinality(E') \in Nat
      BY <2>1, <2>8, FS_Subset, FS_CardinalityType
    <3> QED
      BY <2>1, <3>1, <3>2, <3>3
  <2>9. ASSUME NEW r \in Requests, req[r].step = k, MfaNonceFails(r)
        PROVE  Slack(k)' >= Slack(k) + 1
    BY <2>9, SlackGrows
  <2>10. ASSUME NEW r \in Requests, req[r].step = k, MfaNonce(r), req'[r] # Idle
         PROVE  ~Spent(k) /\ Spent(k)'
    <3>1. /\ ~\E u \in used : u.step = k
          /\ used' = used \union {[step |-> req[r].step, at |-> now]}
      BY <2>10 DEF MfaNonce, Return
    <3>2. req[r] \in NonceReqs /\ Fresh(req[r]) /\ req[r].pc = "nonce"
      BY <2>10, Shape DEF MfaNonce
    <3>3. now <= k + 1 + MaxLag
      <4>1. req[r].at \in Nat /\ k \in Nat /\ now \in Nat
        BY <3>2 DEF NonceReqs
      <4> QED
        BY <2>10, <3>2, <4>1 DEF Fresh
    <3>4. [step |-> req[r].step, at |-> now].step = k
      BY <2>10
    <3>5. k \in Nat /\ now \in Nat
      OBVIOUS
    <3>6. ~Spent(k)
      BY <3>1, <3>3, <3>5 DEF Spent
    <3>7. Spent(k)'
      BY <3>1, <3>4 DEF Spent
    <3> QED
      BY <3>6, <3>7
  <2>11. CASE \E r \in T : \E g : E' \subseteq E \union {g} /\ T' \subseteq T \ {r}
    BY <2>1, <2>2, <2>3, <2>4, <2>7, <2>11 DEF E, T
  <2>12. CASE \E r \in Requests :
                /\ E' \subseteq E /\ T' \subseteq T \union {r}
                /\ req[r].pc = "nonce" /\ req[r].step = k /\ req'[r] # Idle
                /\ MfaNonce(r) \/ MfaNonceFails(r)
    <3>1. PICK r \in Requests :
            /\ E' \subseteq E /\ T' \subseteq T \union {r}
            /\ req[r].step = k /\ req'[r] # Idle
            /\ MfaNonce(r) \/ MfaNonceFails(r)
      BY <2>12
    <3>2. Cardinality(E') + Cardinality(T') <= Cardinality(E) + Cardinality(T) + 1
          /\ Cardinality(E') \in Nat /\ Cardinality(T') \in Nat
      BY <2>8, <3>1
    <3>3. CASE MfaNonceFails(r)
      BY <2>1, <2>2, <2>3, <2>4, <2>9, <3>1, <3>2, <3>3 DEF E, T
    <3>4. CASE MfaNonce(r)
      BY <2>1, <2>2, <2>3, <2>10, <3>1, <3>2, <3>4 DEF E, T
    <3> QED
      BY <3>1, <3>3, <3>4
  <2> QED
    BY <2>5, <2>6, <2>11, <2>12
<1> QED
  BY <1>1, <1>2, <1>3 DEF Spending

-----------------------------------------------------------------------------
(***************************************************************************)
(* The invariant.                                                           *)
(***************************************************************************)
IInv == /\ Typed /\ Existing /\ Coherent
        /\ MaxLag + 2 < NonceSteps => Spending

LEMMA InitInv == Init => IInv
<1> SUFFICES ASSUME Init PROVE IInv
  OBVIOUS
<1>1. /\ admin = [exists |-> FALSE, secret |-> 0, enrolled |-> FALSE]
      /\ boot = [p \in Replicas |-> "count"]
      /\ req = [r \in Requests |-> Idle]
      /\ pending = {} /\ sessions = {} /\ used = {}
      /\ hits = [k \in Kinds |-> 0]
      /\ now = 1 /\ faults = 0
      /\ granted = {} /\ opened = {} /\ confirmed = {} /\ raced = FALSE
  BY DEF Init
<1>2. admin \in Row /\ admin.secret = 0 /\ ~admin.enrolled
  BY <1>1 DEF Row
<1>3. \A r \in Requests : req[r] = Idle /\ req[r].pc = "idle"
  BY <1>1 DEF Idle
<1>4. Typed
  <2>1. TypeOK
    BY <1>1, <1>2, <1>3, AdminMfaAssumption, Numbers DEF TypeOK
  <2> QED
    BY <1>3, <2>1 DEF Typed, Numbered, Fresh
<1>5. Existing
  BY <1>2, <1>3 DEF Existing, NeedsRow
<1>6. Coherent
  BY <1>2, <1>3 DEF Coherent
<1>7. Spending
  <2>1. ASSUME NEW k \in Steps PROVE Earned(k) = {} /\ Through(k) = {} /\ Slack(k) \in {0}
    BY <1>1, <1>3 DEF Earned, Through, Slack
  <2> QED
    BY <1>1, <2>1, FS_EmptySet DEF Spending
<1> QED
  BY <1>4, <1>5, <1>6, <1>7 DEF IInv

LEMMA StepInv ==
  ASSUME IInv, [Next]_vars
  PROVE  IInv'
BY StepTyped, StepExisting, StepCoherent, StepSpending DEF IInv

LEMMA Invariance == Spec => []IInv
BY InitInv, StepInv, PTL DEF Spec

\* The administrator's row, the keys and every handler keep their shape, and a code in hand is
\* of a step that the clock admitted, for any number of replicas and handlers.
THEOREM MfaTypeCorrect == Spec => []TypeOK
<1>1. IInv => TypeOK
  BY DEF IInv, Typed
<1> QED
  BY Invariance, <1>1, PTL

\* "Single-use per time-step": SETNX lets one session through per code, plus one for every
\* error of SETNX, if its key lasts longer than the three steps in which the code is accepted
\* and the lag of a handler between the two.
THEOREM CodesAreSingleUse ==
  ASSUME MaxLag + 2 < NonceSteps
  PROVE  Spec => []OneSessionPerCode
<1>1. IInv => OneSessionPerCode
  <2> SUFFICES ASSUME IInv, NEW k \in Steps
               PROVE  LET n == Cardinality({g \in granted : g.step = k}) IN
                      IF k \in opened THEN n <= 1 + faults ELSE n <= 1
    BY DEF OneSessionPerCode
  <2>1. Spending /\ Typed
    BY DEF IInv
  <2>2. Cardinality(Earned(k)) + Cardinality(Through(k)) <= 1 + Slack(k)
    BY <2>1 DEF Spending
  <2>3. Cardinality(Earned(k)) \in Nat /\ Cardinality(Through(k)) \in Nat /\ faults \in Nat
    BY <2>1, FiniteParts, Types
  <2>4. Cardinality(Earned(k)) <= 1 + Slack(k)
    BY <2>2, <2>3 DEF Slack
  <2> QED
    BY <2>4 DEF Earned, Slack
<1> QED
  BY Invariance, <1>1, PTL

\* handleAdminLogin and handleAdminMFA leave an enrolled administrator with a secret whose
\* code was accepted, unless a login replaced the secret under a handler that used the row.
THEOREM SecretsAreConfirmed == Spec => []EnrolledIsConfirmed
<1>1. IInv => EnrolledIsConfirmed
  BY DEF IInv, Coherent, EnrolledIsConfirmed
<1> QED
  BY Invariance, <1>1, PTL

\* No login, no code and no replica that starts takes an enrolment back.
THEOREM EnrolmentIsKept == Spec => EnrolmentKept
<1>1. IInv /\ [Next]_vars => [admin.enrolled => admin'.enrolled]_vars
  BY StepAdminType DEF IInv
<1> QED
  BY Invariance, <1>1, PTL DEF Spec, EnrolmentKept
=============================================================================
