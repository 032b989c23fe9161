-------------------------- MODULE Moderation_proofs --------------------------
(***************************************************************************)
(* Holds survive every interleaving of freezes, suspensions and releases,   *)
(* for any instances, links, agents and operators.  HeldWhileInForce is not *)
(* inductive: a deleted instance takes its pending freeze away from its     *)
(* links, which must then owe their hold to the suspension alone.  So each  *)
(* cause is accounted for by its own pending statement.                     *)
(***************************************************************************)
EXTENDS Moderation, TLAPS

Excused == late \cup lifted \cup crossed \cup broken

\* A suspension is owed by its own second statement.
HeldWhileSuspended ==
    \A l \in Links :
        Servable(link[l]) /\ tenant = "suspended" =>
            (\E o \in Operators : op[o].pc = "suspendLinks") \/ l \in Excused

\* So is the freeze of an instance, to the links that still are its own.
HeldWhileFrozen ==
    \A l \in Links :
        Servable(link[l]) /\ link[l].inst \in Instances /\ inst[link[l].inst] = "frozen" =>
            \/ \E o \in Operators : op[o].pc = "freezeLinks" /\ op[o].inst = link[l].inst
            \/ l \in Excused

\* A link that was never inserted carries no hold an insertion could wipe out.
NoHoldUnborn == \A l \in Links : link[l].state = "none" => link[l].hold = "none"

\* An abuse hold has a reason, and sits on a link that was inserted.
AbuseShown == \A l \in abused : link[l].state # "none" /\ link[l].hold # "none"

Inv == TypeOK /\ HeldWhileSuspended /\ HeldWhileFrozen /\ NoHoldUnborn /\ AbuseShown

\* A link that serves after a mass statement was left alone by it: it is not one of
\* those it had to hold, and served before unless its release was noted as crossed.
LEMMA StatementEffect ==
  ASSUME TypeOK, NEW o \in Operators, SecondStatement(o), NEW l \in Links, Servable(link'[l])
  PROVE  /\ link'[l].inst = link[l].inst
         /\ Servable(link[l]) \/ (InForce(link[l].inst) => l \in crossed')
         /\ op[o].pc # "suspendLinks"
         /\ op[o].pc = "freezeLinks" => link[l].inst # op[o].inst
         /\ crossed \subseteq crossed'
<1> USE DEF TypeOK, Servable
<1>1. ASSUME NEW S \in SUBSET Links, NEW tag \in {InstanceFrozen, TenantSuspended}, Hold(S, tag)
      PROVE  link'[l] = link[l] /\ l \notin S /\ crossed' = crossed
  BY <1>1 DEF Hold, InstanceFrozen, TenantSuspended
<1>2. ASSUME NEW S \in SUBSET Links, NEW tag, Release(S, tag)
      PROVE  /\ link'[l].inst = link[l].inst
             /\ Servable(link[l]) \/ (InForce(link[l].inst) => l \in crossed')
             /\ crossed \subseteq crossed'
  <2>1. link'[l] = IF l \in S /\ link[l].hold = tag THEN [link[l] EXCEPT !.hold = "none"]
                   ELSE link[l]
    BY <1>2 DEF Release
  <2>2. crossed' = crossed \cup {k \in S : link[k].hold = tag /\ InForce(link[k].inst)}
    BY <1>2 DEF Release
  <2> QED
    BY <2>1, <2>2
<1>3. LinksOf(op[o].inst) \in SUBSET Links /\ Links \in SUBSET Links
  BY DEF LinksOf
<1>4. CASE op[o].pc = "suspendLinks"
  BY <1>1, <1>3, <1>4 DEF SecondStatement
<1>5. CASE op[o].pc = "freezeLinks"
  BY <1>1, <1>3, <1>5 DEF SecondStatement, LinksOf
<1>6. CASE op[o].pc = "unfreezeLinks"
  BY <1>2, <1>3, <1>6 DEF SecondStatement
<1>7. CASE op[o].pc = "restoreLinks"
  BY <1>2, <1>3, <1>7 DEF SecondStatement
<1> QED
  BY <1>4, <1>5, <1>6, <1>7 DEF SecondStatement

-----------------------------------------------------------------------------
LEMMA InitInv == Init => Inv
  BY DEF Init, Inv, TypeOK, HeldWhileSuspended, HeldWhileFrozen, NoHoldUnborn, AbuseShown,
     Servable, Idle, NoLink, Holds

\* Every action keeps the types.
LEMMA StepType == TypeOK /\ [Next]_vars => TypeOK'
<1> SUFFICES ASSUME TypeOK, [Next]_vars PROVE TypeOK'
  OBVIOUS
<1> USE ModerationAssumption DEF TypeOK, Holds, Idle, NoLink, Single, Begin
<1>1. ASSUME NEW a \in Agents, CreateAuth(a) PROVE TypeOK'
  BY <1>1 DEF CreateAuth
<1>2. ASSUME NEW a \in Agents, CreateTenant(a) PROVE TypeOK'
  <2>1. \/ create' = [create EXCEPT ![a] = Idle]
        \/ create' = [create EXCEPT ![a] = [@ EXCEPT !.pc = "insert"]]
    BY <1>2 DEF CreateTenant
  <2>2. create' \in [Agents -> [pc : {"idle", "tenant", "insert"}, inst : Instances \cup {NoInst}]]
    BY <2>1
  <2>3. \A b \in Agents : create'[b].pc # "idle" => create'[b].inst \in Instances
    <3>1. create[a].inst \in Instances
      BY <1>2 DEF CreateTenant
    <3>2. create'[a] = Idle \/ create'[a].inst = create[a].inst
      BY <2>1
    <3>3. \A b \in Agents \ {a} : create'[b] = create[b]
      BY <2>1
    <3> QED
      BY <3>1, <3>2, <3>3
  <2> QED
    BY <1>2, <2>2, <2>3 DEF CreateTenant
<1>3. ASSUME NEW a \in Agents, CreateInsert(a) PROVE TypeOK'
  BY <1>3 DEF CreateInsert
<1>4. ASSUME NEW l \in Links, RevokeLink(l) PROVE TypeOK'
  BY <1>4 DEF RevokeLink
<1>5. ASSUME NEW l \in Links, FreezeLink(l) PROVE TypeOK'
  BY <1>5 DEF FreezeLink
<1>6. ASSUME NEW l \in Links, UnfreezeLink(l) PROVE TypeOK'
  <2>1. link' \in [Links -> [state : {"none", "live", "revoked"},
                            inst : Instances \cup {NoInst}, hold : Holds]]
    BY <1>6 DEF UnfreezeLink
  <2>2. lifted' \subseteq Links /\ abused' \subseteq Links
    BY <1>6 DEF UnfreezeLink
  <2> QED
    BY <1>6, <2>1, <2>2 DEF UnfreezeLink
<1>7. ASSUME NEW o \in Operators, FreezeInstance(o) PROVE TypeOK'
  BY <1>7 DEF FreezeInstance
<1>8. ASSUME NEW o \in Operators, UnfreezeInstance(o) PROVE TypeOK'
  BY <1>8 DEF UnfreezeInstance
<1>9. ASSUME NEW o \in Operators, Suspend(o) PROVE TypeOK'
  BY <1>9 DEF Suspend
<1>10. ASSUME NEW o \in Operators, Restore(o) PROVE TypeOK'
  BY <1>10 DEF Restore
<1>11. ASSUME NEW o \in Operators, SecondStatement(o) PROVE TypeOK'
  <2>1. ASSUME NEW S \in SUBSET Links, NEW tag \in Holds, Hold(S, tag) PROVE TypeOK'
    <3>1. link' \in [Links -> [state : {"none", "live", "revoked"},
                              inst : Instances \cup {NoInst}, hold : Holds]]
      BY <2>1 DEF Hold
    <3>2. UNCHANGED <<crossed, abused>>
      BY <2>1 DEF Hold
    <3> QED
      BY <1>11, <3>1, <3>2 DEF SecondStatement
  <2>2. ASSUME NEW S \in SUBSET Links, NEW tag, Release(S, tag) PROVE TypeOK'
    <3>1. link' \in [Links -> [state : {"none", "live", "revoked"},
                              inst : Instances \cup {NoInst}, hold : Holds]]
      BY <2>2 DEF Release
    <3>2. crossed' \subseteq Links /\ abused' \subseteq Links
      BY <2>2 DEF Release
    <3> QED
      BY <1>11, <3>1, <3>2 DEF SecondStatement
  <2> QED
    BY <1>11, <2>1, <2>2 DEF SecondStatement, LinksOf, InstanceFrozen, TenantSuspended
<1>12. ASSUME NEW o \in Operators, SecondLost(o) PROVE TypeOK'
  BY <1>12 DEF SecondLost
<1>13. ASSUME NEW i \in Instances, DeleteInstance(i) PROVE TypeOK'
  BY <1>13 DEF DeleteInstance
<1>14. CASE UNCHANGED vars
  BY <1>14 DEF vars
<1> QED
  BY <1>1, <1>2, <1>3, <1>4, <1>5, <1>6, <1>7, <1>8, <1>9, <1>10, <1>11, <1>12, <1>13, <1>14
     DEF Next

\* The suspension stays accounted for.
LEMMA StepSuspended == Inv /\ [Next]_vars => HeldWhileSuspended'
<1> SUFFICES ASSUME Inv, [Next]_vars PROVE HeldWhileSuspended'
  OBVIOUS
<1> USE ModerationAssumption
    DEF Inv, TypeOK, HeldWhileSuspended, Servable, Excused, Idle, Single, Begin
<1>1. ASSUME NEW a \in Agents, CreateAuth(a) PROVE HeldWhileSuspended'
  BY <1>1 DEF CreateAuth
<1>2. ASSUME NEW a \in Agents, CreateTenant(a) PROVE HeldWhileSuspended'
  BY <1>2 DEF CreateTenant
<1>3. ASSUME NEW a \in Agents, CreateInsert(a) PROVE HeldWhileSuspended'
  BY <1>3 DEF CreateInsert, InForce
<1>4. ASSUME NEW l \in Links, RevokeLink(l) PROVE HeldWhileSuspended'
  BY <1>4 DEF RevokeLink
<1>5. ASSUME NEW l \in Links, FreezeLink(l) PROVE HeldWhileSuspended'
  BY <1>5 DEF FreezeLink
<1>6. ASSUME NEW l \in Links, UnfreezeLink(l) PROVE HeldWhileSuspended'
  BY <1>6 DEF UnfreezeLink
<1>7. ASSUME NEW o \in Operators, FreezeInstance(o) PROVE HeldWhileSuspended'
  BY <1>7 DEF FreezeInstance
<1>8. ASSUME NEW o \in Operators, UnfreezeInstance(o) PROVE HeldWhileSuspended'
  BY <1>8 DEF UnfreezeInstance
<1>9. ASSUME NEW o \in Operators, Suspend(o) PROVE HeldWhileSuspended'
  BY <1>9 DEF Suspend
<1>10. ASSUME NEW o \in Operators, Restore(o) PROVE HeldWhileSuspended'
  BY <1>10 DEF Restore
<1>11. ASSUME NEW o \in Operators, SecondStatement(o) PROVE HeldWhileSuspended'
  <2> SUFFICES ASSUME NEW l \in Links, Servable(link'[l]), tenant = "suspended", l \notin Excused'
               PROVE  \E p \in Operators : op'[p].pc = "suspendLinks"
    BY <1>11 DEF SecondStatement
  <2> QED
    BY <1>11, StatementEffect DEF SecondStatement, InForce
<1>12. ASSUME NEW o \in Operators, SecondLost(o) PROVE HeldWhileSuspended'
  BY <1>12 DEF SecondLost
<1>13. ASSUME NEW i \in Instances, DeleteInstance(i) PROVE HeldWhileSuspended'
  BY <1>13 DEF DeleteInstance
<1>14. CASE UNCHANGED vars
  BY <1>14 DEF vars
<1> QED
  BY <1>1, <1>2, <1>3, <1>4, <1>5, <1>6, <1>7, <1>8, <1>9, <1>10, <1>11, <1>12, <1>13, <1>14
     DEF Next

\* So does the freeze of an instance.
LEMMA StepFrozen == Inv /\ [Next]_vars => HeldWhileFrozen'
<1> SUFFICES ASSUME Inv, [Next]_vars PROVE HeldWhileFrozen'
  OBVIOUS
<1> USE ModerationAssumption
    DEF Inv, TypeOK, HeldWhileFrozen, Servable, Excused, Idle, Single, Begin
<1>1. ASSUME NEW a \in Agents, CreateAuth(a) PROVE HeldWhileFrozen'
  BY <1>1 DEF CreateAuth
<1>2. ASSUME NEW a \in Agents, CreateTenant(a) PROVE HeldWhileFrozen'
  BY <1>2 DEF CreateTenant
<1>3. ASSUME NEW a \in Agents, CreateInsert(a) PROVE HeldWhileFrozen'
  BY <1>3 DEF CreateInsert, InForce
<1>4. ASSUME NEW l \in Links, RevokeLink(l) PROVE HeldWhileFrozen'
  BY <1>4 DEF RevokeLink
<1>5. ASSUME NEW l \in Links, FreezeLink(l) PROVE HeldWhileFrozen'
  BY <1>5 DEF FreezeLink
<1>6. ASSUME NEW l \in Links, UnfreezeLink(l) PROVE HeldWhileFrozen'
  BY <1>6 DEF UnfreezeLink
<1>7. ASSUME NEW o \in Operators, FreezeInstance(o) PROVE HeldWhileFrozen'
  BY <1>7 DEF FreezeInstance
<1>8. ASSUME NEW o \in Operators, UnfreezeInstance(o) PROVE HeldWhileFrozen'
  BY <1>8 DEF UnfreezeInstance
<1>9. ASSUME NEW o \in Operators, Suspend(o) PROVE HeldWhileFrozen'
  BY <1>9 DEF Suspend
<1>10. ASSUME NEW o \in Operators, Restore(o) PROVE HeldWhileFrozen'
  BY <1>10 DEF Restore
<1>11. ASSUME NEW o \in Operators, SecondStatement(o) PROVE HeldWhileFrozen'
  <2> SUFFICES ASSUME NEW l \in Links, Servable(link'[l]), link'[l].inst \in Instances,
                      inst[link'[l].inst] = "frozen", l \notin Excused'
               PROVE  \E p \in Operators : op'[p].pc = "freezeLinks" /\ op'[p].inst = link'[l].inst
    BY <1>11 DEF SecondStatement
  <2> QED
    BY <1>11, StatementEffect DEF SecondStatement, InForce
<1>12. ASSUME NEW o \in Operators, SecondLost(o) PROVE HeldWhileFrozen'
  BY <1>12 DEF SecondLost
<1>13. ASSUME NEW i \in Instances, DeleteInstance(i) PROVE HeldWhileFrozen'
  BY <1>13 DEF DeleteInstance
<1>14. CASE UNCHANGED vars
  BY <1>14 DEF vars
<1> QED
  BY <1>1, <1>2, <1>3, <1>4, <1>5, <1>6, <1>7, <1>8, <1>9, <1>10, <1>11, <1>12, <1>13, <1>14
     DEF Next

\* No statement holds a link before it is inserted.
LEMMA StepUnborn == Inv /\ [Next]_vars => NoHoldUnborn'
<1> SUFFICES ASSUME Inv, [Next]_vars PROVE NoHoldUnborn'
  OBVIOUS
<1> USE ModerationAssumption DEF Inv, TypeOK, NoHoldUnborn
<1>1. ASSUME NEW a \in Agents, CreateInsert(a) PROVE NoHoldUnborn'
  BY <1>1 DEF CreateInsert
<1>2. ASSUME NEW l \in Links, RevokeLink(l) PROVE NoHoldUnborn'
  BY <1>2 DEF RevokeLink
<1>3. ASSUME NEW l \in Links, FreezeLink(l) \/ UnfreezeLink(l) PROVE NoHoldUnborn'
  BY <1>3 DEF FreezeLink, UnfreezeLink
<1>4. ASSUME NEW o \in Operators, SecondStatement(o) PROVE NoHoldUnborn'
  <2>1. CASE \E S, tag : Hold(S, tag)
    BY <2>1 DEF Hold
  <2>2. CASE \E S, tag : Release(S, tag)
    BY <2>2 DEF Release
  <2> QED
    BY <1>4, <2>1, <2>2 DEF SecondStatement
<1>5. ASSUME NEW i \in Instances, DeleteInstance(i) PROVE NoHoldUnborn'
  BY <1>5 DEF DeleteInstance
<1>6. CASE UNCHANGED link
  BY <1>6
<1> QED
  BY <1>1, <1>2, <1>3, <1>4, <1>5, <1>6
     DEF Next, CreateAuth, CreateTenant, FreezeInstance, UnfreezeInstance, Suspend, Restore,
         SecondLost, vars

\* An abuse hold leaves the set with its release and is not written over before.
LEMMA StepAbuse == Inv /\ [Next]_vars => AbuseShown'
<1> SUFFICES ASSUME Inv, [Next]_vars PROVE AbuseShown'
  OBVIOUS
<1> USE ModerationAssumption DEF Inv, TypeOK, AbuseShown
<1>1. ASSUME NEW a \in Agents, CreateInsert(a) PROVE AbuseShown'
  BY <1>1 DEF CreateInsert
<1>2. ASSUME NEW l \in Links, RevokeLink(l) PROVE AbuseShown'
  BY <1>2 DEF RevokeLink
<1>3. ASSUME NEW l \in Links, FreezeLink(l) \/ UnfreezeLink(l) PROVE AbuseShown'
  BY <1>3 DEF FreezeLink, UnfreezeLink
<1>4. ASSUME NEW o \in Operators, SecondStatement(o) PROVE AbuseShown'
  <2>1. CASE \E S, tag : Hold(S, tag)
    BY <2>1 DEF Hold
  <2>2. CASE \E S, tag : Release(S, tag)
    BY <2>2 DEF Release
  <2> QED
    BY <1>4, <2>1, <2>2 DEF SecondStatement
<1>5. ASSUME NEW i \in Instances, DeleteInstance(i) PROVE AbuseShown'
  BY <1>5 DEF DeleteInstance
<1>6. CASE UNCHANGED <<link, abused>>
  BY <1>6
<1> QED
  BY <1>1, <1>2, <1>3, <1>4, <1>5, <1>6
     DEF Next, CreateAuth, CreateTenant, FreezeInstance, UnfreezeInstance, Suspend, Restore,
         SecondLost, vars

\* The invariant holds in every reachable state.
LEMMA Invariance == Spec => []Inv
<1>1. Inv /\ [Next]_vars => Inv'
  BY StepType, StepSuspended, StepFrozen, StepUnborn, StepAbuse DEF Inv
<1> QED
  BY InitInv, <1>1, PTL DEF Spec

-----------------------------------------------------------------------------
\* Every value keeps its type, for any instances, links and requests.
THEOREM ModerationTypeCorrect == Spec => []TypeOK
<1>1. Inv => TypeOK
  BY DEF Inv
<1> QED
  BY Invariance, <1>1, PTL

\* While a suspension or an instance freeze is in force, every link it applies to is
\* held or about to be, except in the cases the model names, whatever the freezes,
\* suspensions, releases, deletions and concurrent creations do.
THEOREM HoldsStayInForce == Spec => []HeldWhileInForce
<1>1. Inv => HeldWhileInForce
  BY ModerationAssumption DEF Inv, TypeOK, HeldWhileSuspended, HeldWhileFrozen, Excused,
     HeldWhileInForce, InForce, HoldComing
<1> QED
  BY Invariance, <1>1, PTL

\* An abuse hold, with any reason, is lifted by unfreezing that very link or by a mass
\* release whose tag its text happens to be, and by nothing else: the mass statements only
\* touch their own tag, an insertion only a link without a hold.
THEOREM AbuseHoldsKept == Spec => AbuseHoldKept
<1> DEFINE A == \A l \in abused :
                  link'[l].hold = link[l].hold \/ UnfreezeLink(l) \/ NamesakeRelease(l)
<1>1. ASSUME Inv, [Next]_vars, NEW l \in abused, ~UnfreezeLink(l), ~NamesakeRelease(l)
      PROVE  link'[l].hold = link[l].hold
  <2> USE <1>1, ModerationAssumption DEF Inv, TypeOK, AbuseShown
  <2>1. ASSUME NEW a \in Agents, CreateInsert(a) PROVE link'[l].hold = link[l].hold
    BY <2>1 DEF CreateInsert
  <2>2. ASSUME NEW k \in Links, RevokeLink(k) \/ FreezeLink(k) \/ UnfreezeLink(k)
        PROVE  link'[l].hold = link[l].hold
    BY <2>2 DEF RevokeLink, FreezeLink, UnfreezeLink
  <2>3. ASSUME NEW o \in Operators, SecondStatement(o) PROVE link'[l].hold = link[l].hold
    <3>1. CASE \E S, tag : Hold(S, tag)
      BY <3>1 DEF Hold
    <3>2. CASE op[o].pc = "unfreezeLinks" /\ Release(LinksOf(op[o].inst), InstanceFrozen)
      BY <2>3, <3>2 DEF Release, LinksOf, NamesakeRelease
    <3>3. CASE op[o].pc = "restoreLinks" /\ Release(Links, TenantSuspended)
      BY <2>3, <3>3 DEF Release, NamesakeRelease
    <3> QED
      BY <2>3, <3>1, <3>2, <3>3 DEF SecondStatement
  <2>4. ASSUME NEW i \in Instances, DeleteInstance(i) PROVE link'[l].hold = link[l].hold
    BY <2>4 DEF DeleteInstance
  <2>5. CASE UNCHANGED link
    BY <2>5
  <2> QED
    BY <2>1, <2>2, <2>3, <2>4, <2>5
       DEF Next, CreateAuth, CreateTenant, FreezeInstance, UnfreezeInstance, Suspend, Restore,
           SecondLost, vars
<1>2. Inv /\ [Next]_vars => [A]_vars
  BY <1>1
<1> QED
  BY <1>2, Invariance, PTL DEF Spec, AbuseHoldKept
=============================================================================
