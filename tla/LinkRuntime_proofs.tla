------------------------- MODULE LinkRuntime_proofs -------------------------
(***************************************************************************)
(* Proofs about LinkRuntime, for every set of visitors and files, every     *)
(* clock, window and policy, and any number of requests and edits.           *)
(***************************************************************************)
EXTENDS LinkRuntime, FiniteSetTheorems, TLAPS

USE DEF vars, owner, people, bounds, history

-----------------------------------------------------------------------------
(***************************************************************************)
(* Type correctness.                                                        *)
(***************************************************************************)

\* The requests in flight, when one request moves on or ends.
LEMMA VisitMoves ==
  ASSUME TypeOK, NEW v \in Visitors
  PROVE  /\ Return(v) => visit' \in [Visitors -> Visits]
         /\ visit[v].pc # "idle" =>
              \A pc \in {"resolve", "gates", "consume"} :
                 Goto(v, pc) => visit' \in [Visitors -> Visits]
<1>1. Return(v) => visit' \in [Visitors -> Visits]
  BY DEF TypeOK, Return, Visits
<1>2. ASSUME visit[v].pc # "idle", NEW pc \in {"resolve", "gates", "consume"}, Goto(v, pc)
      PROVE  visit' \in [Visitors -> Visits]
  <2>1. visit[v] \in [pc : {"resolve", "gates", "consume"}, raw : BOOLEAN,
                      link : Snapshot, ok : BOOLEAN, unlocked : BOOLEAN, session : BOOLEAN]
    BY <1>2 DEF TypeOK, Visits
  <2>2. [visit[v] EXCEPT !.pc = pc] \in Visits
    BY <2>1 DEF Visits
  <2> QED
    BY <1>2, <2>2 DEF Goto, TypeOK
<1> QED
  BY <1>1, <1>2

\* The initial state is well typed.
LEMMA InitType == Init => TypeOK
<1> SUFFICES ASSUME Init PROVE TypeOK
  OBVIOUS
<1>1. link \in Snapshot
  <2>1. PICK f \in Files, p \in Policies, s \in Lifetimes :
          LET l == [file |-> f, cap |-> p.cap, lock |-> p.lock, exp |-> s * Second,
                    revoked |-> FALSE, frozen |-> FALSE]
          IN  link = [l EXCEPT !.exp = effectiveExpiry(l, f)]
    BY DEF Init
  <2>2. p.cap \in Caps /\ p.lock \in Locks
    BY DEF Caps, Locks
  <2>3. s * Second \in Nat /\ fexp[f] \in Nat
    BY LinkAssumption DEF Init
  <2> QED
    BY <2>1, <2>2, <2>3 DEF Snapshot, effectiveExpiry
<1>2. visit \in [Visitors -> Visits] /\ edit \in Edits \cup {Unset}
  BY DEF Init, Visits
<1> QED
  BY <1>1, <1>2 DEF Init, TypeOK, NoKey, Never

\* Every step keeps the types.
LEMMA StepType == TypeOK /\ [Next]_vars => TypeOK'
<1> SUFFICES ASSUME TypeOK, [Next]_vars PROVE TypeOK'
  OBVIOUS
<1> USE LinkAssumption
<1>1. ASSUME NEW v \in Visitors, NEW raw \in BOOLEAN, Admit(v, raw) PROVE TypeOK'
  <2>1. [pc |-> "resolve", raw |-> raw, link |-> link, ok |-> Admissible,
         unlocked |-> ~(raw /\ isolated) /\ now < cookie[v],
         session |-> ~(raw /\ isolated) /\ account[v] # "out"] \in Visits
    BY DEF TypeOK, Visits, Admissible
  <2> QED
    BY <1>1, <2>1 DEF Admit, TypeOK
<1>2. ASSUME NEW v \in Visitors,
             ResolveBacking(v) \/ PassGates(v) \/ Refuse(v) \/ Uncapped(v) \/ ConsumeFails(v)
      PROVE  TypeOK'
  BY <1>2, VisitMoves DEF ResolveBacking, PassGates, Refuse, Uncapped, ConsumeFails, TypeOK
<1>3. ASSUME NEW v \in Visitors, IssueGrant(v) PROVE TypeOK'
  <2>1. Grant(v, now) \in Grants
    BY <1>3 DEF IssueGrant, Grant, Grants, TypeOK, Visits, Snapshot
  <2> QED
    BY <1>3, <2>1, VisitMoves DEF IssueGrant, TypeOK
<1>4. ASSUME NEW v \in Visitors, ConsumeView(v) PROVE TypeOK'
  <2>1. visit[v].link \in Snapshot
    BY <1>4 DEF ConsumeView, TypeOK, Visits
  <2>2. visit[v].link.cap \in Caps /\ TTL(visit[v].link) \in Nat
    BY <2>1 DEF Snapshot, TTL, TypeOK
  <2>3. counter' \in [n : Nat, exp : Nat]
    BY <1>4, <2>2 DEF ConsumeView, TypeOK
  <2>4. admitted' \subseteq [life : Nat, n : Nat, cap : Caps]
    BY <1>4, <2>2 DEF ConsumeView, TypeOK
  <2>5. visit' \in [Visitors -> Visits]
    BY <1>4, VisitMoves DEF ConsumeView
  <2> QED
    BY <1>4, <2>3, <2>4, <2>5 DEF ConsumeView, TypeOK
<1>5. ASSUME NEW v \in Visitors, Unlock(v) \/ SignIn(v) \/ Join(v) \/ Leave(v) PROVE TypeOK'
  BY <1>5 DEF Unlock, SignIn, Join, Leave, Op, Standings, TypeOK
<1>6. ASSUME NEW v \in Visitors, SignOut(v) PROVE TypeOK'
  <2>1. CASE visit[v].pc = "idle"
    BY <1>6, <2>1 DEF SignOut, Op, Standings, TypeOK
  <2>2. CASE visit[v].pc # "idle"
    <3>1. [visit[v] EXCEPT !.session = FALSE] \in Visits
      BY <2>2 DEF TypeOK, Visits
    <3> QED
      BY <1>6, <2>2, <3>1 DEF SignOut, Op, Standings, TypeOK
  <2> QED
    BY <2>1, <2>2
<1>7. CASE UpdateRead
  <2>1. PICK f \in ready \cup {Unset}, s \in Lifetimes \cup {0}, p \in Policies \cup {Unset} :
          edit' = [file |-> f, policy |-> p,
                   exp |-> IF s = 0 THEN 0
                           ELSE IF f # Unset /\ fexp[f] < now + s * Second THEN fexp[f]
                           ELSE now + s * Second]
    BY <1>7, Zenon DEF UpdateRead
  <2>2. now + s * Second \in Nat
    BY DEF TypeOK
  <2>3. f # Unset => fexp[f] \in Nat
    BY DEF TypeOK
  <2>4. edit' \in Edits
    BY <2>1, <2>2, <2>3 DEF Edits, TypeOK
  <2> QED
    BY <1>7, <2>4 DEF UpdateRead, Op, TypeOK
<1>8. CASE UpdateLink
  <2>1. edit \in Edits /\ edit' = Unset
    BY <1>8 DEF UpdateLink, TypeOK
  <2>2. \A p \in Policies : p.cap \in Caps /\ p.lock \in Locks
    BY DEF Caps, Locks
  <2>3. link' \in Snapshot
    BY <1>8, <2>1, <2>2 DEF UpdateLink, Edits, TypeOK, Snapshot
  <2> QED
    BY <1>8, <2>1, <2>3 DEF UpdateLink, TypeOK
<1>9. CASE RevokeLink \/ FreezeLink \/ UnfreezeLink
  <2>1. link' \in Snapshot
    BY <1>9 DEF RevokeLink, FreezeLink, UnfreezeLink, TypeOK, Snapshot
  <2> QED
    BY <1>9, <2>1 DEF RevokeLink, FreezeLink, UnfreezeLink, Op, TypeOK
<1>10. ASSUME NEW f \in Files, FileDies(f) PROVE TypeOK'
  BY <1>10 DEF FileDies, Op, TypeOK
<1>11. CASE Tick
  BY <1>11 DEF Tick, TypeOK, NoKey
<1>12. CASE UNCHANGED vars
  BY <1>12 DEF TypeOK
<1> QED
  BY <1>1, <1>2, <1>3, <1>4, <1>5, <1>6, <1>7, <1>8, <1>9, <1>10, <1>11, <1>12
     DEF Next, Visit

\* Every value of the runtime keeps its type, whatever requests, edits and clock ticks
\* interleave.
THEOREM LinkTypeCorrect == Spec => []TypeOK
  BY InitType, StepType, PTL DEF Spec

-----------------------------------------------------------------------------
(***************************************************************************)
(* The inductive invariant.                                                 *)
(***************************************************************************)

\* No two views of one life of the counter drew the same number, and no number is above
\* the cap it was compared with or above what the living counter shows.
CounterInv ==
  /\ \A p \in admitted : /\ p.life <= lives /\ p.n >= 1
                         /\ p.cap > 0 => p.n <= p.cap
                         /\ p.life = lives => p.n <= counter.n
  /\ \A p, q \in admitted : p.life = q.life /\ p.n = q.n => p = q

\* A request that was not admissible when it read the link will be stopped: by the status
\* of its file, which never becomes ready again, or by the expiry, which never moves back.
VisitInv ==
  \A v \in Visitors :
    /\ visit[v].pc = "resolve" => \/ visit[v].ok \/ visit[v].link.file \notin ready
                                  \/ fexp[visit[v].link.file] < now
    /\ visit[v].pc = "gates" => visit[v].ok \/ fexp[visit[v].link.file] < now
    /\ visit[v].pc = "consume" => visit[v].ok

\* A request that counts as signed in belongs to a visitor who is.
SessionInv == \A v \in Visitors : visit[v].pc # "idle" /\ visit[v].session => account[v] # "out"

\* Whoever holds a grant had a right to it.
GrantInv == \A v \in Visitors : grant[v] # Never => Earned(v)

Inv == TypeOK /\ CounterInv /\ VisitInv /\ SessionInv /\ GrantInv

-----------------------------------------------------------------------------
(***************************************************************************)
(* The counter.                                                             *)
(***************************************************************************)

LEMMA StepCounter == Inv /\ [Next]_vars => CounterInv'
<1> SUFFICES ASSUME Inv, [Next]_vars PROVE CounterInv'
  OBVIOUS
<1> USE LinkAssumption DEF Inv
<1>0. /\ admitted \subseteq [life : Nat, n : Nat, cap : Caps] /\ lives \in Nat
      /\ counter \in [n : Nat, exp : Nat] /\ Caps \subseteq Int
  BY DEF TypeOK, Caps
<1>1. ASSUME NEW v \in Visitors, ConsumeView(v) PROVE CounterInv'
  <2> DEFINE p == [life |-> lives, n |-> counter.n + 1, cap |-> visit[v].link.cap]
  <2>1. visit[v].link.cap \in Caps
    BY <1>1 DEF ConsumeView, TypeOK, Visits, Snapshot
  <2>2. lives' = lives /\ counter'.n = counter.n + 1
    BY <1>1 DEF ConsumeView
  <2>3. CASE admitted' = admitted
    BY <1>0, <2>2, <2>3 DEF CounterInv
  <2>4. CASE /\ ~(visit[v].link.cap > 0 /\ counter.n + 1 > visit[v].link.cap)
             /\ admitted' = admitted \cup {p}
    <3>1. \A q \in admitted : q.life = lives => q.n # counter.n + 1
      BY <1>0 DEF CounterInv
    <3>2. p.life = lives /\ p.n = counter.n + 1 /\ p.cap = visit[v].link.cap
      OBVIOUS
    <3>3. counter.n \in Nat /\ p.cap \in Int
      BY <1>0, <2>1, <3>2
    <3>4. p.cap > 0 => p.n <= p.cap
      BY <2>4, <3>2, <3>3
    <3> HIDE DEF p
    <3>5. \A q \in admitted' : /\ q.life <= lives /\ q.n >= 1
                               /\ q.cap > 0 => q.n <= q.cap
                               /\ q.life = lives => q.n <= counter.n + 1
      BY <1>0, <2>4, <3>2, <3>3, <3>4 DEF CounterInv
    <3>6. \A q, s \in admitted' : q.life = s.life /\ q.n = s.n => q = s
      BY <1>0, <2>4, <3>1, <3>2 DEF CounterInv
    <3> QED
      BY <2>2, <3>5, <3>6 DEF CounterInv
  <2> QED
    BY <1>1, <2>3, <2>4 DEF ConsumeView
<1>2. CASE Tick
  <2>1. admitted' = admitted
    BY <1>2 DEF Tick
  <2>2. (lives' = lives + 1 /\ counter'.n = 0) \/ (lives' = lives /\ counter' = counter)
    BY <1>2 DEF Tick, NoKey
  <2> QED
    BY <1>0, <2>1, <2>2 DEF CounterInv
<1>3. CASE UNCHANGED <<counter, lives, admitted>>
  BY <1>3 DEF CounterInv
<1>4. ASSUME NEW v \in Visitors, Visit(v), ~ConsumeView(v)
      PROVE  UNCHANGED <<counter, lives, admitted>>
  BY <1>4 DEF Visit, Admit, ResolveBacking, IssueGrant, PassGates, Refuse, Uncapped,
     ConsumeFails, Unlock, SignIn, SignOut, Join, Leave
<1>5. ASSUME UpdateRead \/ UpdateLink \/ RevokeLink \/ FreezeLink \/ UnfreezeLink
             \/ (\E f \in Files : FileDies(f)) \/ UNCHANGED vars
      PROVE  UNCHANGED <<counter, lives, admitted>>
  BY <1>5 DEF UpdateRead, UpdateLink, RevokeLink, FreezeLink, UnfreezeLink, FileDies
<1> QED
  BY <1>1, <1>2, <1>3, <1>4, <1>5 DEF Next

\* Distinct numbers not above c: at most c of them.
LEMMA CounterCap == TypeOK /\ CounterInv => CapHoldsPerLife
<1> SUFFICES ASSUME TypeOK, CounterInv, NEW c \in Caps, NEW k \in 0..lives, c > 0
             PROVE  Cardinality({p \in admitted : p.life = k /\ p.cap \in 1..c}) <= c
  BY DEF CapHoldsPerLife
<1> DEFINE S == {p \in admitted : p.life = k /\ p.cap \in 1..c}
           num == [p \in S |-> p.n]
<1>1. c \in Nat
  BY LinkAssumption DEF Caps
<1>2. \A p \in S : p.n \in 1..c
  BY <1>1 DEF TypeOK, CounterInv
<1>3. num \in Injection(S, 1..c)
  <2>1. \A p, q \in S : num[p] = num[q] => p = q
    BY DEF CounterInv
  <2> QED
    BY <1>2, <2>1 DEF Injection, IsInjective
<1>4. IsFiniteSet(1..c) /\ Cardinality(1..c) = c
  BY <1>1, FS_Interval
<1> QED
  BY <1>3, <1>4, FS_Injection

-----------------------------------------------------------------------------
(***************************************************************************)
(* The requests in flight.                                                  *)
(***************************************************************************)

LEMMA StepVisit == Inv /\ [Next]_vars => VisitInv'
<1> SUFFICES ASSUME Inv, [Next]_vars PROVE VisitInv'
  OBVIOUS
<1> USE LinkAssumption DEF Inv
<1>0. /\ visit \in [Visitors -> Visits] /\ fexp \in [Files -> Nat] /\ now \in Nat
      /\ \A v \in Visitors : visit[v].pc # "idle" => visit[v].link \in Snapshot
  BY DEF TypeOK, Visits
<1>1. ASSUME NEW v \in Visitors, NEW raw \in BOOLEAN, Admit(v, raw) PROVE VisitInv'
  <2>1. Admissible \/ link.file \notin ready \/ fexp[link.file] < now
    BY <1>0, <1>1 DEF Admit, Admissible, TypeOK, Snapshot
  <2>2. /\ visit' = [visit EXCEPT ![v] = [pc |-> "resolve", raw |-> raw, link |-> link,
                 ok |-> Admissible, unlocked |-> ~(raw /\ isolated) /\ now < cookie[v],
                 session |-> ~(raw /\ isolated) /\ account[v] # "out"]]
        /\ UNCHANGED <<fexp, now, ready>>
    BY <1>1 DEF Admit
  <2> QED
    BY <1>0, <2>1, <2>2 DEF VisitInv
<1>2. ASSUME NEW v \in Visitors, Return(v), UNCHANGED <<fexp, now, ready>> PROVE VisitInv'
  BY <1>0, <1>2 DEF Return, VisitInv
<1>3. ASSUME NEW v \in Visitors, ResolveBacking(v) PROVE VisitInv'
  BY <1>0, <1>3 DEF ResolveBacking, Goto, VisitInv
<1>4. ASSUME NEW v \in Visitors, PassGates(v) PROVE VisitInv'
  <2>1. visit[v].pc = "gates" /\ visit[v].link \in Snapshot
    BY <1>0, <1>4 DEF PassGates
  <2>2. ~(fexp[visit[v].link.file] < now)
    BY <1>0, <1>4, <2>1 DEF PassGates, Expired, effectiveExpiry, Snapshot
  <2>3. visit[v].ok
    BY <2>1, <2>2 DEF VisitInv
  <2>4. visit' = [visit EXCEPT ![v].pc = "consume"] /\ UNCHANGED <<fexp, now, ready>>
    BY <1>4 DEF PassGates, Goto
  <2> QED
    BY <1>0, <2>3, <2>4 DEF VisitInv
<1>5. ASSUME NEW v \in Visitors, SignOut(v) PROVE VisitInv'
  <2>1. /\ visit' = visit \/ visit' = [visit EXCEPT ![v].session = FALSE]
        /\ UNCHANGED <<fexp, now, ready>>
    BY <1>5 DEF SignOut
  <2>2. \A u \in Visitors : /\ visit'[u].pc = visit[u].pc
                            /\ visit[u].pc # "idle" => /\ visit'[u].ok = visit[u].ok
                                                      /\ visit'[u].link = visit[u].link
    BY <1>0, <2>1 DEF Visits
  <2> QED
    BY <2>1, <2>2 DEF VisitInv
<1>6. ASSUME NEW f \in Files, FileDies(f) PROVE VisitInv'
  BY <1>0, <1>6 DEF FileDies, VisitInv
<1>7. CASE Tick
  <2>1. visit' = visit /\ fexp' = fexp /\ ready' = ready /\ now' = now + 1
    BY <1>7 DEF Tick
  <2>2. ASSUME NEW v \in Visitors, visit[v].pc # "idle", fexp[visit[v].link.file] < now
        PROVE  fexp[visit[v].link.file] < now + 1
    BY <1>0, <2>2 DEF Snapshot
  <2> QED
    BY <2>1, <2>2 DEF VisitInv
<1>8. CASE UNCHANGED <<visit, fexp, now, ready>>
  BY <1>8 DEF VisitInv
<1>9. ASSUME NEW v \in Visitors, IssueGrant(v) \/ Refuse(v) PROVE VisitInv'
  BY <1>2, <1>9 DEF IssueGrant, Refuse
<1>10. ASSUME NEW v \in Visitors, ConsumeView(v) \/ Uncapped(v) \/ ConsumeFails(v)
       PROVE  VisitInv'
  BY <1>2, <1>10 DEF ConsumeView, Uncapped, ConsumeFails
<1>11. ASSUME (\E v \in Visitors : Unlock(v) \/ SignIn(v) \/ Join(v) \/ Leave(v))
              \/ UpdateRead \/ UpdateLink \/ RevokeLink \/ FreezeLink \/ UnfreezeLink \/ UNCHANGED vars
       PROVE  VisitInv'
  BY <1>8, <1>11 DEF Unlock, SignIn, Join, Leave, UpdateRead, UpdateLink, RevokeLink,
     FreezeLink, UnfreezeLink
<1> QED
  BY <1>1, <1>3, <1>4, <1>5, <1>6, <1>7, <1>9, <1>10, <1>11 DEF Next, Visit

LEMMA StepSession == Inv /\ [Next]_vars => SessionInv'
<1> SUFFICES ASSUME Inv, [Next]_vars PROVE SessionInv'
  OBVIOUS
<1> USE DEF Inv
<1>0. /\ visit \in [Visitors -> Visits] /\ account \in [Visitors -> Standings]
      /\ SessionInv
  BY DEF TypeOK
<1>1. ASSUME NEW v \in Visitors, NEW raw \in BOOLEAN, Admit(v, raw) PROVE SessionInv'
  <2>1. /\ visit' = [visit EXCEPT ![v] = [pc |-> "resolve", raw |-> raw, link |-> link,
                 ok |-> Admissible, unlocked |-> ~(raw /\ isolated) /\ now < cookie[v],
                 session |-> ~(raw /\ isolated) /\ account[v] # "out"]]
        /\ account' = account
    BY <1>1 DEF Admit
  <2> QED
    BY <1>0, <2>1 DEF SessionInv
<1>2. ASSUME NEW v \in Visitors, Return(v), account' = account PROVE SessionInv'
  BY <1>0, <1>2 DEF Return, SessionInv
<1>3. ASSUME NEW v \in Visitors, ResolveBacking(v) \/ PassGates(v) PROVE SessionInv'
  <2>1. PICK pc \in {"gates", "consume"} : visit' = [visit EXCEPT ![v].pc = pc]
    BY <1>3 DEF ResolveBacking, PassGates, Goto
  <2>2. visit[v].pc # "idle" /\ account' = account
    BY <1>3 DEF ResolveBacking, PassGates
  <2>3. visit'[v].session = visit[v].session
    BY <1>0, <2>1, <2>2 DEF Visits
  <2>4. \A u \in Visitors : u # v => visit'[u] = visit[u]
    BY <1>0, <2>1
  <2> QED
    BY <1>0, <2>2, <2>3, <2>4 DEF SessionInv
<1>4. ASSUME NEW v \in Visitors, SignOut(v) PROVE SessionInv'
  <2>1. /\ account' = [account EXCEPT ![v] = "out"]
        /\ visit' = IF visit[v].pc = "idle" THEN visit ELSE [visit EXCEPT ![v].session = FALSE]
    BY <1>4 DEF SignOut
  <2>2. visit'[v].pc # "idle" => ~visit'[v].session
    BY <1>0, <2>1 DEF Visits
  <2>3. \A u \in Visitors : u # v => visit'[u] = visit[u] /\ account'[u] = account[u]
    BY <1>0, <2>1
  <2> QED
    BY <1>0, <2>2, <2>3 DEF SessionInv
<1>5. ASSUME NEW v \in Visitors, SignIn(v) \/ Join(v) \/ Leave(v) PROVE SessionInv'
  <2>1. PICK a \in {"user", "member"} : account' = [account EXCEPT ![v] = a]
    BY <1>5 DEF SignIn, Join, Leave
  <2>2. visit' = visit
    BY <1>5 DEF SignIn, Join, Leave
  <2>3. \A u \in Visitors : account[u] # "out" => account'[u] # "out"
    BY <1>0, <2>1
  <2> QED
    BY <1>0, <2>2, <2>3 DEF SessionInv
<1>6. CASE UNCHANGED <<visit, account>>
  BY <1>0, <1>6 DEF SessionInv
<1>7. ASSUME NEW v \in Visitors, IssueGrant(v) \/ Refuse(v) \/ ConsumeView(v) \/ Uncapped(v)
                                 \/ ConsumeFails(v)
      PROVE  SessionInv'
  BY <1>2, <1>7 DEF IssueGrant, Refuse, ConsumeView, Uncapped, ConsumeFails
<1>8. ASSUME (\E v \in Visitors : Unlock(v)) \/ UpdateRead \/ UpdateLink \/ RevokeLink
             \/ FreezeLink \/ UnfreezeLink \/ Tick \/ (\E f \in Files : FileDies(f))
             \/ UNCHANGED vars
      PROVE  UNCHANGED <<visit, account>>
  BY <1>8 DEF Unlock, UpdateRead, UpdateLink, RevokeLink, FreezeLink, UnfreezeLink, Tick,
     FileDies
<1> QED
  BY <1>1, <1>3, <1>4, <1>5, <1>6, <1>7, <1>8 DEF Next, Visit

\* What may happen to the holder of a grant without ending the right to it.
LEMMA RightKept ==
  ASSUME GrantInv, NEW w \in Visitors, grant'[w] = grant[w],
         w \in lost => w \in lost',
         \/ account'[w] = account[w]
         \/ w \in lost'
         \/ account[w] = "out"
         \/ account[w] = "user" /\ account'[w] = "member"
  PROVE  grant'[w] # Never => Earned(w)'
<1> SUFFICES ASSUME grant[w] # Never PROVE Earned(w)'
  OBVIOUS
<1> DEFINE k == grant[w].lock
<1>1. /\ k.password => grant[w].unlocked
      /\ k.account => w \in lost \/ (account[w] # "out" /\ Listed(w, k))
  BY DEF GrantInv, Earned
<1>2. k' = k
  OBVIOUS
<1>3. Earned(w)' = /\ k.password => grant[w].unlocked
                   /\ k.account => \/ w \in lost'
                                   \/ /\ account'[w] # "out"
                                      /\ \/ k.users = {} /\ ~k.tenant
                                         \/ w \in k.users
                                         \/ k.tenant /\ account'[w] = "member"
  BY DEF Earned, Listed
<1> HIDE DEF k
<1>4. CASE w \in lost'
  BY <1>1, <1>3, <1>4
<1>5. CASE w \notin lost'
  BY <1>1, <1>3, <1>5 DEF Listed
<1> QED
  BY <1>4, <1>5

LEMMA StepGrant == Inv /\ [Next]_vars => GrantInv'
<1> SUFFICES ASSUME Inv, [Next]_vars PROVE GrantInv'
  OBVIOUS
<1> USE DEF Inv
<1>0. /\ grant \in [Visitors -> {Never} \cup Grants] /\ account \in [Visitors -> Standings]
      /\ GrantInv
  BY DEF TypeOK
<1>1. ASSUME NEW v \in Visitors, IssueGrant(v) PROVE GrantInv'
  <2>1. /\ visit[v].pc = "gates" /\ Passes(v)
        /\ grant' = [grant EXCEPT ![v] = Grant(v, now)]
        /\ lost' = lost \ {v} /\ account' = account
    BY <1>1 DEF IssueGrant
  <2>2. visit[v].session => account[v] # "out"
    BY <2>1 DEF SessionInv
  <2>3. /\ visit[v].link.lock.password => visit[v].unlocked
        /\ visit[v].link.lock.account =>
             account[v] # "out" /\ Listed(v, visit[v].link.lock)
    BY <2>1, <2>2 DEF Passes
  <2>4. grant'[v].lock = visit[v].link.lock /\ grant'[v].unlocked = visit[v].unlocked
    BY <1>0, <2>1 DEF Grant
  <2>5. Earned(v)'
    BY <2>1, <2>3, <2>4 DEF Earned, Listed
  <2>6. ASSUME NEW w \in Visitors, w # v PROVE grant'[w] # Never => Earned(w)'
    BY <1>0, <2>1, <2>6, RightKept
  <2> QED
    BY <2>5, <2>6 DEF GrantInv
<1>2. ASSUME NEW v \in Visitors, SignIn(v) \/ SignOut(v) \/ Join(v) \/ Leave(v)
      PROVE  GrantInv'
  <2>1. /\ grant' = grant /\ lost \subseteq lost'
        /\ \E a \in Standings : account' = [account EXCEPT ![v] = a]
        /\ \/ account[v] = "out" \/ v \in lost'
           \/ account[v] = "user" /\ account' = [account EXCEPT ![v] = "member"]
    BY <1>2 DEF SignIn, SignOut, Join, Leave, Standings
  <2>2. \A w \in Visitors : w # v => account'[w] = account[w]
    BY <1>0, <2>1
  <2>3. account[v] = "out" \/ v \in lost' \/ (account[v] = "user" /\ account'[v] = "member")
    BY <1>0, <2>1
  <2>4. ASSUME NEW w \in Visitors PROVE grant'[w] # Never => Earned(w)'
    BY <1>0, <2>1, <2>2, <2>3, RightKept
  <2> QED
    BY <2>4 DEF GrantInv
<1>3. CASE UNCHANGED <<grant, account, lost>>
  BY <1>0, <1>3 DEF GrantInv, Earned, Listed
<1>4. ASSUME NEW v \in Visitors, Visit(v), ~IssueGrant(v),
             ~(SignIn(v) \/ SignOut(v) \/ Join(v) \/ Leave(v))
      PROVE  UNCHANGED <<grant, account, lost>>
  BY <1>4 DEF Visit, Admit, ResolveBacking, PassGates, Refuse, ConsumeView, Uncapped,
     ConsumeFails, Unlock
<1>5. ASSUME UpdateRead \/ UpdateLink \/ RevokeLink \/ FreezeLink \/ UnfreezeLink \/ Tick
             \/ (\E f \in Files : FileDies(f)) \/ UNCHANGED vars
      PROVE  UNCHANGED <<grant, account, lost>>
  BY <1>5 DEF UpdateRead, UpdateLink, RevokeLink, FreezeLink, UnfreezeLink, Tick, FileDies
<1> QED
  BY <1>1, <1>2, <1>3, <1>4, <1>5 DEF Next

-----------------------------------------------------------------------------
(***************************************************************************)
(* The theorems.                                                            *)
(***************************************************************************)

\* The invariant holds in every reachable state.
LEMMA Invariance == Spec => []Inv
<1>1. Init => Inv
  <2>1. Init => CounterInv
    BY DEF Init, CounterInv
  <2>2. Init => VisitInv
    BY DEF Init, VisitInv
  <2>3. Init => SessionInv
    BY DEF Init, SessionInv
  <2>4. Init => GrantInv
    BY DEF Init, GrantInv
  <2> QED
    BY <2>1, <2>2, <2>3, <2>4, InitType DEF Inv
<1>2. Inv /\ [Next]_vars => Inv'
  BY StepType, StepCounter, StepVisit, StepSession, StepGrant DEF Inv
<1> QED
  BY <1>1, <1>2, PTL DEF Spec

\* For any visitors, files and policies: whoever gets past the checks was admissible at
\* one instant, though the link, its backing and the policy are read one after the other.
THEOREM AdmissionIsAtomic == Spec => []AdmittedAtOneInstant
<1>1. Inv => AdmittedAtOneInstant
  BY DEF Inv, VisitInv, AdmittedAtOneInstant
<1> QED
  BY <1>1, Invariance, PTL

\* For any visitors and policies: while its key lives, the counter admits no more views
\* than the cap, whoever races for the last one.
THEOREM CapHolds == Spec => []CapHoldsPerLife
<1>1. Inv => CapHoldsPerLife
  BY CounterCap DEF Inv
<1> QED
  BY <1>1, Invariance, PTL

\* Two times in the same or in neighbouring windows are less than two windows apart.
LEMMA WindowSpan ==
  ASSUME NEW t \in Nat, NEW a \in Nat, NEW w \in Nat \ {0},
         (t \div w) - (a \div w) \in {0, 1}
  PROVE  t - a < 2 * w
<1> DEFINE i == t \div w
           j == a \div w
<1>1. i \in Int /\ j \in Int /\ t % w \in 0..(w - 1) /\ a % w \in 0..(w - 1)
  OBVIOUS
<1>2. t = w * i + (t % w) /\ a = w * j + (a % w)
  OBVIOUS
<1>3. i = j \/ i = j + 1
  BY <1>1
<1>4. w * (j + 1) = w * j + w
  BY <1>1
<1> HIDE DEF i, j
<1> QED
  BY <1>1, <1>2, <1>3, <1>4

\* For any windows and policies: a request that does not satisfy the lock it read gets past
\* the gates only on a grant issued less than two windows ago to a visitor with a right to
\* it.
THEOREM LocksTakeHold == Spec => LockTakesHold
<1> DEFINE A == \A v \in Visitors :
                  visit[v].pc = "gates" /\ visit'[v].pc = "consume" /\ ~Passes(v)
                  => \E w \in Visitors : /\ grant[w] # Never /\ Earned(w)
                                         /\ now - grant[w].at < 2 * Window
<1>1. ASSUME Inv, [Next]_vars, NEW v \in Visitors,
             visit[v].pc = "gates", visit'[v].pc = "consume", ~Passes(v)
      PROVE  \E w \in Visitors : /\ grant[w] # Never /\ Earned(w)
                                 /\ now - grant[w].at < 2 * Window
  <2>0. visit \in [Visitors -> Visits]
    BY <1>1 DEF Inv, TypeOK
  <2>1. PassGates(v)
    <3>1. ASSUME NEW u \in Visitors, Visit(u), u # v PROVE visit'[v].pc = visit[v].pc
      <4>1. \A pc : Goto(u, pc) => visit'[v] = visit[v]
        BY <2>0, <3>1 DEF Goto
      <4>2. Return(u) => visit'[v] = visit[v]
        BY <2>0, <3>1 DEF Return
      <4>3. \A raw : Admit(u, raw) => visit'[v] = visit[v]
        BY <2>0, <3>1 DEF Admit
      <4>4. SignOut(u) => visit'[v] = visit[v]
        BY <2>0, <3>1 DEF SignOut
      <4> QED
        BY <3>1, <4>1, <4>2, <4>3, <4>4 DEF Visit, ResolveBacking, IssueGrant, PassGates,
           Refuse, ConsumeView, Uncapped, ConsumeFails, Unlock, SignIn, Join, Leave
    <3>2. ASSUME Visit(v) PROVE PassGates(v)
      <4>1. ~Return(v) /\ visit' # visit
        BY <1>1, <2>0 DEF Return
      <4>2. ~SignOut(v)
        BY <1>1, <2>0 DEF SignOut, Visits
      <4> QED
        BY <1>1, <2>0, <3>2, <4>1, <4>2 DEF Visit, Admit, ResolveBacking, IssueGrant, Refuse,
           ConsumeView, Uncapped, ConsumeFails, Unlock, SignIn, Join, Leave
    <3>3. ASSUME UpdateRead \/ UpdateLink \/ RevokeLink \/ FreezeLink \/ UnfreezeLink \/ Tick
                 \/ (\E f \in Files : FileDies(f)) \/ UNCHANGED vars
          PROVE  visit' = visit
      BY <3>3 DEF UpdateRead, UpdateLink, RevokeLink, FreezeLink, UnfreezeLink, Tick, FileDies
    <3> QED
      BY <1>1, <3>1, <3>2, <3>3 DEF Next
  <2>2. PICK w \in Visitors : ValidGrant(w)
    BY <1>1, <2>1 DEF PassGates
  <2>3. grant[w] # Never /\ grant[w].at \in Nat
    <3>1. grant[w] # Never
      BY <2>2, Zenon DEF ValidGrant
    <3>2. grant[w] \in {Never} \cup Grants
      BY <1>1 DEF Inv, TypeOK
    <3> QED
      BY <3>1, <3>2 DEF Grants
  <2>4. Earned(w)
    BY <1>1, <2>3 DEF Inv, GrantInv
  <2>5. now - grant[w].at < 2 * Window
    <3>1. (now \div Window) - (grant[w].at \div Window) \in {0, 1}
      BY <2>2, Zenon DEF ValidGrant
    <3>2. now \in Nat /\ Window \in Nat \ {0}
      BY <1>1, LinkAssumption DEF Inv, TypeOK
    <3> QED
      BY <2>3, <3>1, <3>2, WindowSpan, Zenon
  <2> QED
    BY <2>3, <2>4, <2>5
<1>2. Inv /\ [Next]_vars => [A]_vars
  BY <1>1
<1> QED
  BY <1>2, Invariance, PTL DEF Spec, LockTakesHold
=============================================================================
