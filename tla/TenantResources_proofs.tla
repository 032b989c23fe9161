------------------------ MODULE TenantResources_proofs ------------------------
(***************************************************************************)
(* Limits, keys and domain checks, for any names, limits and requests in    *)
(* flight.  Each property strengthens to what the requests and the worker   *)
(* still carry: a snapshot read earlier, an outcome about to be written.    *)
(***************************************************************************)
EXTENDS TenantResources, FiniteSetTheorems, TLAPS

-----------------------------------------------------------------------------
(***************************************************************************)
(* The requests in flight, by the shape of their records.                   *)
(***************************************************************************)
InsertReqs == [pc : {"insert"}, name : Names]
KeyReqs    == [pc : {"rotate", "delete"}, name : Subdomains, id : Nat \ {0}]
LookupReqs == [pc : {"lookup"}, row : Snapshots]
VerifyReqs == [pc : {"verify"}, row : Snapshots, seen : BOOLEAN, routed : BOOLEAN]
InFlight   == {Idle} \union InsertReqs \union KeyReqs \union LookupReqs \union VerifyReqs
InHand     == [pc : {"write"}, row : Snapshots, seen : BOOLEAN]

\* The shape of a request follows from its pc.
LEMMA Shape ==
  ASSUME NEW q \in InFlight
  PROVE  /\ q.pc = "idle" <=> q = Idle
         /\ q.pc = "insert" => q \in InsertReqs
         /\ q.pc \in {"rotate", "delete"} => q \in KeyReqs
         /\ q.pc = "lookup" => q \in LookupReqs
         /\ q.pc = "verify" => q \in VerifyReqs
<1>1. CASE q = Idle
  BY <1>1 DEF Idle
<1>2. CASE q \in InsertReqs
  BY <1>2 DEF InsertReqs, Idle
<1>3. CASE q \in KeyReqs
  BY <1>3 DEF KeyReqs, Idle
<1>4. CASE q \in LookupReqs
  BY <1>4 DEF LookupReqs, Idle
<1>5. CASE q \in VerifyReqs
  BY <1>5 DEF VerifyReqs, Idle
<1> QED
  BY <1>1, <1>2, <1>3, <1>4, <1>5 DEF InFlight

\* A worker's row in hand is not idle.
LEMMA HandShape ==
  ASSUME NEW c \in {Idle} \union InHand
  PROVE  c # Idle <=> c \in InHand
  BY DEF InHand, Idle

-----------------------------------------------------------------------------
(***************************************************************************)
(* Types.                                                                   *)
(***************************************************************************)
Typed ==
    /\ TypeOK
    /\ dns \in [Hosts -> [txt : SUBSET (Nat \ {0}), cname : BOOLEAN]]
    /\ installed \in [Subdomains -> Seq(Nat \ {0})]

\* The type facts most steps need.
LEMMA Types ==
  ASSUME Typed
  PROVE  /\ inst \in [Subdomains -> [id : Nat, key : Nat, grace : Nat]]
         /\ dom \in [Hosts -> [id : Nat, status : Statuses, cert : {"none", "pending"},
                               recent : BOOLEAN]]
         /\ \A h \in Hosts : dom[h].id = 0 <=> dom[h].status = "none"
         /\ dns \in [Hosts -> [txt : SUBSET (Nat \ {0}), cname : BOOLEAN]]
         /\ req \in [Requests -> InFlight]
         /\ batch \subseteq Snapshots /\ cur \in {Idle} \union InHand
         /\ minted \in Nat /\ issued \in 0..MaxRequests
         /\ changes \in 0..MaxChanges /\ faults \in 0..MaxFaults
         /\ installed \in [Subdomains -> Seq(Nat \ {0})]
  BY DEF Typed, TypeOK, InFlight, InsertReqs, KeyReqs, LookupReqs, VerifyReqs, InHand

LEMMA SnapshotType ==
  ASSUME Typed, NEW h \in Hosts, dom[h].id # 0
  PROVE  /\ Snapshot(h) \in Snapshots
         /\ Snapshot(h).host = h /\ Snapshot(h).id = dom[h].id
         /\ Snapshot(h).status = dom[h].status
  BY Types DEF Snapshot, Snapshots, Statuses

\* What an update of a domain's status writes.
LEMMA StatusEffect ==
  ASSUME Typed, NEW s \in Snapshots, NEW status \in Statuses \ {"none"},
         NEW cert \in {"none", "pending"}, SetDomainStatus(s, status, cert)
  PROVE  /\ dom' \in [Hosts -> [id : Nat, status : Statuses, cert : {"none", "pending"},
                                recent : BOOLEAN]]
         /\ \A h \in Hosts :
              /\ dom'[h].id = dom[h].id
              /\ h = s.host /\ dom[h].id = s.id => dom'[h].status = status
              /\ ~(h = s.host /\ dom[h].id = s.id) => dom'[h] = dom[h]
         /\ \A h \in Hosts : dom'[h].id = 0 <=> dom'[h].status = "none"
<1>0. s.host \in Hosts /\ s.id \in Nat \ {0}
  BY DEF Snapshots
<1>1. CASE dom[s.host].id = s.id
  <2>1. dom' = [dom EXCEPT ![s.host] = [dom[s.host] EXCEPT !.status = status, !.cert = cert,
                                                            !.recent = TRUE]]
    BY <1>1 DEF SetDomainStatus
  <2>2. [dom[s.host] EXCEPT !.status = status, !.cert = cert, !.recent = TRUE]
          \in [id : Nat, status : Statuses, cert : {"none", "pending"}, recent : BOOLEAN]
    BY <1>0, Types
  <2>3. /\ dom'[s.host].id = dom[s.host].id /\ dom'[s.host].status = status
        /\ \A h \in Hosts \ {s.host} : dom'[h] = dom[h]
    BY <1>0, <2>1, Types
  <2> QED
    BY <1>0, <1>1, <2>1, <2>2, <2>3, Types
<1>2. CASE dom[s.host].id # s.id
  BY <1>2, Types DEF SetDomainStatus
<1> QED
  BY <1>1, <1>2

\* Requests keep their shapes.
LEMMA StepReqType ==
  ASSUME Typed, [Next]_vars
  PROVE  req' \in [Requests -> InFlight]
<1>0. Idle \in InFlight
  BY DEF InFlight
<1>1. ASSUME NEW r \in Requests, NEW n \in Names, CreateCount(r, n)
      PROVE  req' \in [Requests -> InFlight]
  <2>1. [pc |-> "insert", name |-> n] \in InFlight
    BY DEF InFlight, InsertReqs
  <2> QED
    BY <1>1, <2>1, Types DEF CreateCount, Start
<1>2. ASSUME NEW r \in Requests, NEW s \in Subdomains, NEW pc \in {"rotate", "delete"},
             LoadInstance(r, s, pc)
      PROVE  req' \in [Requests -> InFlight]
  <2>1. [pc |-> pc, name |-> s, id |-> inst[s].id] \in InFlight
    BY <1>2, Types DEF InFlight, KeyReqs, LoadInstance
  <2> QED
    BY <1>2, <2>1, Types DEF LoadInstance, Start
<1>3. ASSUME NEW r \in Requests, NEW h \in Hosts, VerifyRead(r, h)
      PROVE  req' \in [Requests -> InFlight]
  <2>1. [pc |-> "lookup", row |-> Snapshot(h)] \in InFlight
    BY <1>3, SnapshotType DEF InFlight, LookupReqs, VerifyRead
  <2> QED
    BY <1>3, <2>1, Types DEF VerifyRead, Start
<1>4. ASSUME NEW r \in Requests,
             CreateInsert(r) \/ RotateCredentials(r) \/ DeleteInstance(r) \/ VerifyWrite(r)
               \/ RequestDies(r)
      PROVE  req' \in [Requests -> InFlight]
  BY <1>0, <1>4, Types
     DEF CreateInsert, RotateCredentials, DeleteInstance, VerifyWrite, RequestDies, Return
<1>5. ASSUME NEW r \in Requests, NEW seen \in BOOLEAN, NEW routed \in BOOLEAN,
             Answered(r, seen, routed)
      PROVE  req' \in [Requests -> InFlight]
  <2>1. req[r] \in LookupReqs
    BY <1>5, Types, Shape DEF Answered
  <2>2. [pc |-> "verify", row |-> req[r].row, seen |-> seen, routed |-> routed] \in InFlight
    BY <2>1 DEF InFlight, LookupReqs, VerifyReqs
  <2> QED
    BY <1>5, <2>2, Types DEF Answered
<1>6. ASSUME NEW r \in Requests, VerifyLookup(r) PROVE req' \in [Requests -> InFlight]
  <2>1. req[r].row.host \in Hosts
    <3>1. req[r] \in LookupReqs
      BY <1>6, Types, Shape DEF VerifyLookup
    <3> QED
      BY <3>1 DEF LookupReqs, Snapshots
  <2>2. Published(req[r].row.host, req[r].row.id) \in BOOLEAN
        /\ dns[req[r].row.host].cname \in BOOLEAN
    BY <2>1, Types DEF Published
  <2> QED
    BY <1>5, <1>6, <2>2 DEF VerifyLookup
<1>7. ASSUME NEW r \in Requests, VerifyLookupFails(r) PROVE req' \in [Requests -> InFlight]
  BY <1>5, <1>7 DEF VerifyLookupFails
<1>8. ASSUME NEW h \in Hosts, DeleteDomain(h) \/ ChangeDns(h) \/ Ages(h) PROVE req' = req
  BY <1>8 DEF DeleteDomain, ChangeDns, Ages
<1>9. ASSUME Recheck \/ RecheckLost \/ (\E s \in batch : LookupFails(s)) \/ UNCHANGED vars
      PROVE  req' = req
  BY <1>9 DEF Recheck, RecheckList, RecheckWrite, RecheckLookup, RecheckLost, LookupFails, vars
<1> QED
  BY <1>1, <1>2, <1>3, <1>4, <1>6, <1>7, <1>8, <1>9, Types
     DEF Next, Handle, CreateInstance, CreateDomain, Names

\* Which actions write what.
LEMMA Frame ==
  ASSUME [Next]_vars
  PROVE  /\ \/ UNCHANGED <<inst, installed>>
            \/ \E r \in Requests : CreateInsert(r) \/ RotateCredentials(r) \/ DeleteInstance(r)
         /\ \/ dom' = dom
            \/ \E r \in Requests : CreateInsert(r) \/ VerifyWrite(r)
            \/ \E h \in Hosts : DeleteDomain(h) \/ Ages(h)
            \/ RecheckWrite
         /\ \/ UNCHANGED <<batch, cur>>
            \/ RecheckList \/ RecheckWrite \/ RecheckLost
            \/ \E s \in batch : RecheckLookup(s) \/ LookupFails(s)
         /\ \/ UNCHANGED minted
            \/ \E r \in Requests : CreateInsert(r) \/ RotateCredentials(r)
         /\ \/ UNCHANGED dns
            \/ \E h \in Hosts : ChangeDns(h)
<1> USE DEF tables, worker, bounds, history
<1>1. ASSUME NEW r \in Requests, NEW n, CreateCount(r, n)
      PROVE  UNCHANGED <<inst, installed, dom, batch, cur, minted, dns>>
  BY <1>1 DEF CreateCount
<1>2. ASSUME NEW r \in Requests,
             \/ \E s \in Subdomains, pc \in {"rotate", "delete"} : LoadInstance(r, s, pc)
             \/ \E h \in Hosts : VerifyRead(r, h)
             \/ RequestDies(r)
      PROVE  UNCHANGED <<inst, installed, dom, batch, cur, minted, dns>>
  BY <1>2 DEF LoadInstance, VerifyRead, RequestDies
<1>3. ASSUME NEW r \in Requests, CreateInsert(r) \/ RotateCredentials(r) \/ DeleteInstance(r)
      PROVE  /\ UNCHANGED <<batch, cur, dns>> /\ (dom' = dom \/ CreateInsert(r))
             /\ minted' = minted \/ CreateInsert(r) \/ RotateCredentials(r)
  BY <1>3 DEF CreateInsert, RotateCredentials, DeleteInstance
<1>4. ASSUME NEW r \in Requests, VerifyLookup(r) \/ VerifyLookupFails(r)
      PROVE  UNCHANGED <<inst, installed, dom, batch, cur, minted, dns>>
  BY <1>4 DEF VerifyLookup, VerifyLookupFails, Answered, Looked
<1>5. ASSUME NEW r \in Requests, VerifyWrite(r)
      PROVE  UNCHANGED <<inst, installed, batch, cur, minted, dns>>
  BY <1>5 DEF VerifyWrite
<1>6. ASSUME NEW h \in Hosts, DeleteDomain(h) \/ Ages(h)
      PROVE  UNCHANGED <<inst, installed, batch, cur, minted, dns>>
  BY <1>6 DEF DeleteDomain, Ages
<1>7. ASSUME NEW h \in Hosts, ChangeDns(h)
      PROVE  UNCHANGED <<inst, installed, dom, batch, cur, minted>>
  BY <1>7 DEF ChangeDns
<1>8. ASSUME \/ RecheckList \/ RecheckLost
             \/ \E s \in batch : RecheckLookup(s) \/ LookupFails(s)
      PROVE  UNCHANGED <<inst, installed, dom, minted, dns>>
  BY <1>8 DEF RecheckList, RecheckLost, RecheckLookup, LookupFails, Looked
<1>9. ASSUME RecheckWrite PROVE UNCHANGED <<inst, installed, minted, dns>>
  BY <1>9 DEF RecheckWrite
<1>10. CASE UNCHANGED vars
  BY <1>10 DEF vars
<1> QED
  BY <1>1, <1>2, <1>3, <1>4, <1>5, <1>6, <1>7, <1>8, <1>9, <1>10
     DEF Next, Handle, Recheck, CreateInstance, CreateDomain

\* The counters behind the bounds.
LEMMA StepBounds ==
  ASSUME Typed, [Next]_vars
  PROVE  issued' \in 0..MaxRequests /\ changes' \in 0..MaxChanges /\ faults' \in 0..MaxFaults
<1> USE ResourcesAssumption, Types DEF bounds
<1>1. ASSUME NEW r \in Requests,
             \/ \E n \in Names : CreateCount(r, n)
             \/ \E s \in Subdomains, pc \in {"rotate", "delete"} : LoadInstance(r, s, pc)
             \/ \E h \in Hosts : VerifyRead(r, h)
      PROVE  issued' \in 0..MaxRequests /\ UNCHANGED <<changes, faults>>
  BY <1>1 DEF CreateCount, LoadInstance, VerifyRead, Start
<1>2. ASSUME NEW r \in Requests, Handle(r) PROVE UNCHANGED <<issued, changes, faults>>
  BY <1>2 DEF Handle, CreateInsert, RotateCredentials, DeleteInstance, VerifyLookup, VerifyWrite
<1>3. ASSUME Fault PROVE faults' \in 0..MaxFaults /\ UNCHANGED <<issued, changes>>
  BY <1>3 DEF Fault
<1>4. ASSUME NEW h \in Hosts, DeleteDomain(h) \/ ChangeDns(h) \/ Ages(h)
      PROVE  issued' \in 0..MaxRequests /\ changes' \in 0..MaxChanges /\ faults' = faults
  BY <1>4 DEF DeleteDomain, ChangeDns, Ages
<1>5. ASSUME Recheck \/ UNCHANGED vars PROVE UNCHANGED <<issued, changes, faults>>
  BY <1>5 DEF Recheck, RecheckList, RecheckWrite, RecheckLookup, vars
<1> QED
  BY <1>1, <1>2, <1>3, <1>4, <1>5
     DEF Next, CreateInstance, CreateDomain, Names, VerifyLookupFails, RequestDies, RecheckLost,
         LookupFails

LEMMA StepDom ==
  ASSUME Typed, [Next]_vars
  PROVE  /\ dom' \in [Hosts -> [id : Nat, status : Statuses, cert : {"none", "pending"},
                                recent : BOOLEAN]]
         /\ \A h \in Hosts : dom'[h].id = 0 <=> dom'[h].status = "none"
<1> DEFINE G == /\ dom' \in [Hosts -> [id : Nat, status : Statuses, cert : {"none", "pending"},
                                       recent : BOOLEAN]]
                /\ \A h \in Hosts : dom'[h].id = 0 <=> dom'[h].status = "none"
<1>1. ASSUME NEW r \in Requests, CreateInsert(r) PROVE G
  <2>1. req[r].name \in Names
    BY <1>1, Types, Shape DEF CreateInsert, InsertReqs
  <2> DEFINE n == req[r].name
             row == [NoDom EXCEPT !.id = minted + 1, !.status = "pending"]
  <2>2. CASE n \in Rows(Names) \/ n \in Subdomains
    <3>1. dom' = dom
      BY <1>1, <2>2 DEF CreateInsert, tables
    <3> QED
      BY <3>1, Types
  <2>3. CASE ~(n \in Rows(Names) \/ n \in Subdomains)
    <3>1. dom' = [dom EXCEPT ![n] = row]
      BY <1>1, <2>3 DEF CreateInsert
    <3>2. NoDom \in [id : Nat, status : Statuses, cert : {"none", "pending"}, recent : BOOLEAN]
      BY DEF NoDom, Statuses
    <3>3. n \in Hosts
      BY <2>1, <2>3 DEF Names
    <3>4. row \in [id : Nat, status : Statuses, cert : {"none", "pending"}, recent : BOOLEAN]
          /\ row.id # 0 /\ row.status # "none"
      <4>1. ASSUME NEW d \in [id : Nat, status : Statuses, cert : {"none", "pending"},
                              recent : BOOLEAN], NEW i \in Nat \ {0}
            PROVE  LET w == [d EXCEPT !.id = i, !.status = "pending"] IN
                   /\ w \in [id : Nat, status : Statuses, cert : {"none", "pending"},
                             recent : BOOLEAN]
                   /\ w.id # 0 /\ w.status # "none"
        BY DEF Statuses
      <4>2. minted + 1 \in Nat \ {0}
        BY Types
      <4> QED
        BY <3>2, <4>1, <4>2
    <3>5. dom'[n] = row /\ \A h \in Hosts \ {n} : dom'[h] = dom[h]
      BY <3>1, <3>3, Types
    <3> HIDE DEF n, row
    <3>6. dom' \in [Hosts -> [id : Nat, status : Statuses, cert : {"none", "pending"},
                              recent : BOOLEAN]]
      BY <3>1, <3>4, Types
    <3> QED
      BY <3>4, <3>5, <3>6, Types
  <2> QED
    BY <2>2, <2>3
<1>2. ASSUME NEW r \in Requests, VerifyWrite(r) PROVE G
  <2>1. req[r] \in VerifyReqs
    BY <1>2, Types, Shape DEF VerifyWrite
  <2>2. PICK status \in Statuses \ {"none"}, cert \in {"none", "pending"} :
          SetDomainStatus(req[r].row, status, cert)
    BY <1>2 DEF VerifyWrite, Statuses
  <2> QED
    BY <2>1, <2>2, StatusEffect DEF VerifyReqs
<1>3. ASSUME RecheckWrite PROVE G
  <2>1. cur \in InHand
    BY <1>3, Types, HandShape DEF RecheckWrite
  <2>2. cur.row \in Snapshots /\ cur.row.status \in Statuses \ {"none"}
        /\ cur.row.cert \in {"none", "pending"}
    BY <2>1 DEF InHand, Snapshots
  <2>3. PICK status \in Statuses \ {"none"}, cert \in {"none", "pending"} :
          SetDomainStatus(cur.row, status, cert)
    BY <1>3, <2>2 DEF RecheckWrite, Statuses
  <2> QED
    BY <2>2, <2>3, StatusEffect
<1>4. ASSUME NEW h \in Hosts, DeleteDomain(h) PROVE G
  <2>1. NoDom \in [id : Nat, status : Statuses, cert : {"none", "pending"}, recent : BOOLEAN]
        /\ NoDom.id = 0 /\ NoDom.status = "none"
    BY DEF NoDom, Statuses
  <2> QED
    BY <1>4, <2>1, Types DEF DeleteDomain
<1>5. ASSUME NEW h \in Hosts, Ages(h) PROVE G
  BY <1>5, Types DEF Ages
<1> QED
  BY <1>1, <1>2, <1>3, <1>4, <1>5, Frame, Types

LEMMA StepWorker ==
  ASSUME Typed, [Next]_vars
  PROVE  batch' \subseteq Snapshots /\ cur' \in {Idle} \union InHand
<1>1. ASSUME RecheckList PROVE batch' \subseteq Snapshots /\ cur' = cur
  <2>1. \A h \in Hosts : dom[h].status \in {"verified", "pending"} => Snapshot(h) \in Snapshots
    BY Types, SnapshotType
  <2> QED
    BY <1>1, <2>1 DEF RecheckList
<1>2. ASSUME NEW s \in batch, RecheckLookup(s) \/ LookupFails(s)
      PROVE  batch' \subseteq batch /\ cur' \in InHand
  <2>1. PICK seen \in BOOLEAN : cur' = [pc |-> "write", row |-> s, seen |-> seen]
    <3>1. Published(s.host, s.id) \in BOOLEAN /\ FALSE \in BOOLEAN
      BY DEF Published
    <3> QED
      BY <1>2, <3>1 DEF RecheckLookup, LookupFails
  <2>2. s \in Snapshots
    BY Types
  <2>3. cur' \in InHand
    BY <2>1, <2>2 DEF InHand
  <2> QED
    BY <1>2, <2>3 DEF RecheckLookup, LookupFails
<1>3. ASSUME RecheckWrite \/ RecheckLost PROVE batch' = batch /\ cur' = Idle
  BY <1>3 DEF RecheckWrite, RecheckLost
<1> QED
  BY <1>1, <1>2, <1>3, Frame, Types

LEMMA StepDns ==
  ASSUME Typed, [Next]_vars
  PROVE  dns' \in [Hosts -> [txt : SUBSET (Nat \ {0}), cname : BOOLEAN]]
<1>1. ASSUME NEW h \in Hosts, ChangeDns(h)
      PROVE  dns' \in [Hosts -> [txt : SUBSET (Nat \ {0}), cname : BOOLEAN]]
  <2>1. PICK d \in [txt : {{}, dns[h].txt \union ({dom[h].id} \ {0})}, cname : BOOLEAN] :
          dns' = [dns EXCEPT ![h] = d]
    BY <1>1 DEF ChangeDns
  <2>2. d \in [txt : SUBSET (Nat \ {0}), cname : BOOLEAN]
    BY Types
  <2> QED
    BY <2>1, <2>2, Types
<1> QED
  BY <1>1, Frame, Types

-----------------------------------------------------------------------------
(***************************************************************************)
(* Keys.                                                                    *)
(***************************************************************************)

\* An instance's two keys are the last two entries of its list of keys; a row that is not
\* there has none.
KeysRecorded(s) ==
    LET k == installed[s]
        n == Len(k) IN
    IF inst[s].id = 0
    THEN n = 0 /\ inst[s].key = 0 /\ inst[s].grace = 0
    ELSE /\ n > 0 /\ inst[s].key = k[n]
         /\ inst[s].grace = IF n = 1 THEN 0 ELSE k[n - 1]

Recorded == \A s \in Subdomains : KeysRecorded(s)

LEMMA StepKeys ==
  ASSUME Typed, Recorded, [Next]_vars
  PROVE  /\ inst' \in [Subdomains -> [id : Nat, key : Nat, grace : Nat]]
         /\ installed' \in [Subdomains -> Seq(Nat \ {0})]
         /\ minted' \in Nat
         /\ Recorded'
<1> DEFINE G == /\ inst' \in [Subdomains -> [id : Nat, key : Nat, grace : Nat]]
                /\ installed' \in [Subdomains -> Seq(Nat \ {0})]
                /\ minted' \in Nat
                /\ Recorded'
<1>0. /\ inst \in [Subdomains -> [id : Nat, key : Nat, grace : Nat]]
      /\ installed \in [Subdomains -> Seq(Nat \ {0})]
      /\ minted \in Nat
  BY Types
\* A new row or a row gone: one instance gets entry e and list k.
<1>1. ASSUME NEW s \in Subdomains, NEW e \in [id : Nat, key : Nat, grace : Nat],
             NEW k \in Seq(Nat \ {0}),
             inst' = [inst EXCEPT ![s] = e], installed' = [installed EXCEPT ![s] = k],
             minted' \in Nat,
             IF e.id = 0 THEN Len(k) = 0 /\ e.key = 0 /\ e.grace = 0
             ELSE /\ Len(k) > 0 /\ e.key = k[Len(k)]
                  /\ e.grace = IF Len(k) = 1 THEN 0 ELSE k[Len(k) - 1]
      PROVE  G
  <2>1. inst' \in [Subdomains -> [id : Nat, key : Nat, grace : Nat]]
    BY <1>0, <1>1
  <2>2. installed' \in [Subdomains -> Seq(Nat \ {0})]
    BY <1>0, <1>1
  <2>3. inst'[s] = e /\ installed'[s] = k
    BY <1>0, <1>1
  <2>4. \A t \in Subdomains \ {s} : inst'[t] = inst[t] /\ installed'[t] = installed[t]
    BY <1>0, <1>1
  <2>5. KeysRecorded(s)'
    BY <1>1, <2>3 DEF KeysRecorded
  <2>6. ASSUME NEW t \in Subdomains \ {s} PROVE KeysRecorded(t)'
    BY <2>4 DEF Recorded, KeysRecorded
  <2> QED
    BY <1>1, <2>1, <2>2, <2>5, <2>6 DEF Recorded
<1>2. CASE UNCHANGED <<inst, installed>> /\ minted' \in Nat
  BY <1>0, <1>2 DEF Recorded, KeysRecorded
<1>3. ASSUME NEW r \in Requests, CreateInsert(r) PROVE G
  <2> DEFINE s == req[r].name
             e == [id |-> minted + 1, key |-> minted + 2, grace |-> 0]
             k == <<minted + 2>>
  <2>1. CASE UNCHANGED <<inst, installed>>
    BY <1>0, <1>2, <1>3, <2>1 DEF CreateInsert, tables
  <2>2. CASE ~UNCHANGED <<inst, installed>>
    <3>1. /\ s \in Subdomains /\ inst' = [inst EXCEPT ![s] = e]
          /\ installed' = [installed EXCEPT ![s] = k] /\ minted' = minted + 2
      BY <1>3, <2>2 DEF CreateInsert, tables
    <3>2. e \in [id : Nat, key : Nat, grace : Nat] /\ e.id # 0 /\ e.grace = 0 /\ e.key = minted + 2
      BY <1>0
    <3>3. k \in Seq(Nat \ {0}) /\ Len(k) = 1 /\ k[1] = minted + 2
      BY <1>0
    <3>4. minted' \in Nat
      BY <1>0, <3>1
    <3>5. Len(k) > 0 /\ e.key = k[Len(k)] /\ e.grace = IF Len(k) = 1 THEN 0 ELSE k[Len(k) - 1]
      BY <3>2, <3>3
    <3> HIDE DEF e, k, s
    <3> QED
      BY <1>1, <3>1, <3>2, <3>3, <3>4, <3>5
  <2> QED
    BY <2>1, <2>2
<1>4. ASSUME NEW r \in Requests, RotateCredentials(r) PROVE G
  <2> DEFINE s == req[r].name
             e == [inst[s] EXCEPT !.key = minted + 1, !.grace = inst[s].key]
             k == Append(installed[s], minted + 1)
  <2>1. s \in Subdomains /\ req[r].id # 0
    BY <1>4, Types, Shape DEF RotateCredentials, KeyReqs
  <2>2. CASE inst[s].id # req[r].id
    BY <1>0, <1>2, <1>4, <2>2 DEF RotateCredentials
  <2>3. CASE inst[s].id = req[r].id
    <3>1. /\ inst' = [inst EXCEPT ![s] = e]
          /\ installed' = [installed EXCEPT ![s] = k] /\ minted' = minted + 1
      BY <1>0, <1>4, <2>1, <2>3 DEF RotateCredentials
    <3>2. /\ e \in [id : Nat, key : Nat, grace : Nat] /\ e.id # 0
          /\ e.key = minted + 1 /\ e.grace = inst[s].key
      <4>1. ASSUME NEW d \in [id : Nat, key : Nat, grace : Nat], NEW a \in Nat, NEW b \in Nat
            PROVE  LET w == [d EXCEPT !.key = a, !.grace = b] IN
                   /\ w \in [id : Nat, key : Nat, grace : Nat]
                   /\ w.id = d.id /\ w.key = a /\ w.grace = b
        OBVIOUS
      <4>2. inst[s] \in [id : Nat, key : Nat, grace : Nat] /\ inst[s].id # 0 /\ inst[s].key \in Nat
            /\ minted + 1 \in Nat
        BY <1>0, <2>1, <2>3
      <4> QED
        BY <4>1, <4>2
    <3>3. installed[s] \in Seq(Nat \ {0}) /\ minted + 1 \in Nat \ {0}
      BY <1>0, <2>1
    <3>4. /\ k \in Seq(Nat \ {0}) /\ Len(k) = Len(installed[s]) + 1
          /\ k[Len(k)] = minted + 1
          /\ \A i \in 1..Len(installed[s]) : k[i] = installed[s][i]
      BY <3>3
    <3>5. Len(installed[s]) \in Nat \ {0} /\ inst[s].key = installed[s][Len(installed[s])]
      BY <2>1, <2>3, <3>3 DEF Recorded, KeysRecorded
    <3>6. Len(k) > 0 /\ Len(k) # 1 /\ e.grace = k[Len(k) - 1]
      BY <3>2, <3>4, <3>5
    <3> HIDE DEF e, k, s
    <3> QED
      BY <1>0, <1>1, <2>1, <3>1, <3>2, <3>4, <3>6
  <2> QED
    BY <2>2, <2>3
<1>5. ASSUME NEW r \in Requests, DeleteInstance(r) PROVE G
  <2> DEFINE s == req[r].name
  <2>1. s \in Subdomains
    BY <1>5, Types, Shape DEF DeleteInstance, KeyReqs
  <2>2. CASE inst[s].id # req[r].id
    BY <1>0, <1>2, <1>5, <2>2 DEF DeleteInstance
  <2>3. CASE inst[s].id = req[r].id
    <3>1. /\ inst' = [inst EXCEPT ![s] = NoInst]
          /\ installed' = [installed EXCEPT ![s] = <<>>] /\ minted' = minted
      BY <1>5, <2>3 DEF DeleteInstance
    <3>2. NoInst \in [id : Nat, key : Nat, grace : Nat] /\ NoInst.id = 0 /\ NoInst.key = 0
          /\ NoInst.grace = 0
      BY DEF NoInst
    <3>3. <<>> \in Seq(Nat \ {0}) /\ Len(<<>>) = 0
      OBVIOUS
    <3> HIDE DEF s
    <3> QED
      BY <1>0, <1>1, <2>1, <3>1, <3>2, <3>3
  <2> QED
    BY <2>2, <2>3
<1>6. UNCHANGED minted => minted' \in Nat
  BY <1>0
<1> QED
  BY <1>2, <1>3, <1>4, <1>5, <1>6, Frame

\* The keys of an instance are those the last two installations left.
LEMMA KeysAreNewest == Typed /\ Recorded => OnlyNewestKeys
<1> SUFFICES ASSUME Typed, Recorded, NEW s \in Subdomains
             PROVE  LET k == installed[s]
                        n == Len(k) IN
                    /\ n > 0 => k[n] \in Accepted(s)
                    /\ Accepted(s) \subseteq {k[i] : i \in {n, n - 1} \intersect 1..n}
  BY DEF OnlyNewestKeys
<1> DEFINE k == installed[s]
           n == Len(k)
<1>1. k \in Seq(Nat \ {0}) /\ n \in Nat /\ \A i \in 1..n : k[i] # 0
  BY Types
<1>2. KeysRecorded(s)
  BY DEF Recorded
<1>3. CASE inst[s].id = 0
  <2>1. n = 0 /\ Accepted(s) = {}
    BY <1>2, <1>3 DEF KeysRecorded, Accepted
  <2> QED
    BY <2>1
<1>4. CASE inst[s].id # 0 /\ n = 1
  <2>1. Accepted(s) = {k[1]}
    BY <1>1, <1>2, <1>4 DEF KeysRecorded, Accepted
  <2>2. {n, n - 1} \intersect 1..n = {1}
    BY <1>4
  <2> QED
    BY <2>1, <2>2
<1>5. CASE inst[s].id # 0 /\ n > 1
  <2>1. Accepted(s) = {k[n], k[n - 1]}
    BY <1>1, <1>2, <1>5 DEF KeysRecorded, Accepted
  <2>2. {n, n - 1} \intersect 1..n = {n, n - 1}
    BY <1>1, <1>5
  <2> HIDE DEF k, n
  <2>3. {k[i] : i \in {n, n - 1}} = {k[n], k[n - 1]}
    OBVIOUS
  <2> QED
    BY <2>1, <2>2, <2>3 DEF k, n
<1>6. inst[s].id # 0 => n = 1 \/ n > 1
  <2>1. inst[s].id # 0 => n > 0
    BY <1>2 DEF KeysRecorded
  <2> HIDE DEF n
  <2> QED
    BY <1>1, <2>1
<1> QED
  BY <1>3, <1>4, <1>5, <1>6

-----------------------------------------------------------------------------
(***************************************************************************)
(* Domain checks.                                                           *)
(***************************************************************************)

\* Whoever may still write verified has a lookup behind it, its own or the one that made
\* the row verified before it was listed.
FindingsProven ==
    /\ \A s \in batch : s.status = "verified" => s.id \in proven
    /\ cur # Idle /\ cur.row.status = "verified" => cur.row.id \in proven
    /\ \A r \in Requests : req[r].pc = "verify" /\ req[r].seen => req[r].row.id \in proven

Concerns(s, h) == s.host = h /\ s.id = dom[h].id

\* No check in flight will write something else than verified to the row in h.
NoOlderFinding(h) ==
    /\ \A s \in batch : Concerns(s, h) => s.status = "verified"
    /\ cur # Idle /\ Concerns(cur.row, h) => cur.row.status = "verified" /\ cur.seen
    /\ \A q \in Requests : req[q].pc = "verify" /\ Concerns(req[q].row, h) => req[q].seen

KeptSafely == \A h \in confirmed : dom[h].status = "verified" /\ NoOlderFinding(h)

Checked == FindingsProven /\ VerifiedWasProven /\ confirmed \subseteq Hosts /\ KeptSafely

\* How a request comes to hold a finding.
LEMMA Findings ==
  ASSUME Typed, [Next]_vars, NEW q \in Requests, req'[q].pc = "verify"
  PROVE  \/ req'[q] = req[q]
         \/ \E seen \in BOOLEAN :
              /\ req[q].pc = "lookup" /\ req'[q].seen = seen /\ req'[q].row = req[q].row
              /\ Looked(req[q].row.host, req[q].row.id, seen)
              /\ UNCHANGED <<dom, batch, cur>>
<1> USE Types
<1>1. ASSUME NEW r \in Requests,
             \/ \E n \in Names : CreateCount(r, n)
             \/ \E s \in Subdomains, pc \in {"rotate", "delete"} : LoadInstance(r, s, pc)
             \/ \E h \in Hosts : VerifyRead(r, h)
      PROVE  req'[q] = req[q]
  BY <1>1 DEF CreateCount, LoadInstance, VerifyRead, Start
<1>2. ASSUME NEW r \in Requests,
             CreateInsert(r) \/ RotateCredentials(r) \/ DeleteInstance(r) \/ VerifyWrite(r)
               \/ RequestDies(r)
      PROVE  req'[q] = req[q]
  BY <1>2 DEF CreateInsert, RotateCredentials, DeleteInstance, VerifyWrite, RequestDies, Return, Idle
<1>3. ASSUME NEW r \in Requests, NEW seen \in BOOLEAN, NEW routed, Answered(r, seen, routed),
             UNCHANGED <<dom, batch, cur>>
      PROVE  \/ req'[q] = req[q]
             \/ /\ req[q].pc = "lookup" /\ req'[q].seen = seen /\ req'[q].row = req[q].row
                /\ Looked(req[q].row.host, req[q].row.id, seen)
                /\ UNCHANGED <<dom, batch, cur>>
  BY <1>3 DEF Answered
<1>4. ASSUME NEW r \in Requests, VerifyLookup(r) \/ VerifyLookupFails(r)
      PROVE  /\ \E seen \in BOOLEAN : \E routed : Answered(r, seen, routed)
             /\ UNCHANGED <<dom, batch, cur>>
  <2>1. \A h, i : Published(h, i) \in BOOLEAN
    BY DEF Published
  <2>2. CASE VerifyLookup(r)
    BY <2>1, <2>2 DEF VerifyLookup, tables, worker
  <2>3. CASE VerifyLookupFails(r)
    <3>1. Answered(r, FALSE, FALSE) /\ UNCHANGED <<dom, batch, cur>>
      BY <2>3 DEF VerifyLookupFails, tables, worker
    <3> QED
      BY <3>1, Zenon
  <2> QED
    BY <1>4, <2>2, <2>3
<1>5. ASSUME NEW h \in Hosts, DeleteDomain(h) \/ ChangeDns(h) \/ Ages(h) PROVE req' = req
  BY <1>5 DEF DeleteDomain, ChangeDns, Ages
<1>6. ASSUME Recheck \/ RecheckLost \/ (\E s \in batch : LookupFails(s)) \/ UNCHANGED vars
      PROVE  req' = req
  BY <1>6 DEF Recheck, RecheckList, RecheckWrite, RecheckLookup, RecheckLost, LookupFails, vars
<1> QED
  BY <1>1, <1>2, <1>3, <1>4, <1>5, <1>6
     DEF Next, Handle, CreateInstance, CreateDomain, Names

\* The books: a lookup's finding is noted at once, and a host is confirmed only by a request
\* that found its record and had no older finding beside it.
LEMMA Books ==
  ASSUME [Next]_vars
  PROVE  /\ proven \subseteq proven'
         /\ \/ confirmed' \subseteq confirmed
            \/ \E r \in Requests : VerifyWrite(r)
<1> USE DEF history, Looked
<1>1. ASSUME NEW r \in Requests,
             \/ \E n \in Names : CreateCount(r, n)
             \/ \E s \in Subdomains, pc \in {"rotate", "delete"} : LoadInstance(r, s, pc)
             \/ \E h \in Hosts : VerifyRead(r, h)
             \/ RequestDies(r)
      PROVE  UNCHANGED <<proven, confirmed>>
  BY <1>1 DEF CreateCount, LoadInstance, VerifyRead, RequestDies
<1>2. ASSUME NEW r \in Requests, CreateInsert(r) \/ RotateCredentials(r) \/ DeleteInstance(r)
      PROVE  UNCHANGED <<proven, confirmed>>
  BY <1>2 DEF CreateInsert, RotateCredentials, DeleteInstance
<1>3. ASSUME NEW h, NEW i, NEW seen, Looked(h, i, seen)
      PROVE  proven \subseteq proven' /\ confirmed' \subseteq confirmed
  BY <1>3
<1>4. ASSUME NEW r \in Requests, VerifyLookup(r) \/ VerifyLookupFails(r)
      PROVE  proven \subseteq proven' /\ confirmed' \subseteq confirmed
  BY <1>4 DEF VerifyLookup, VerifyLookupFails, Answered
<1>5. ASSUME NEW r \in Requests, VerifyWrite(r) PROVE proven' = proven
  BY <1>5 DEF VerifyWrite
<1>6. ASSUME NEW h \in Hosts, DeleteDomain(h) \/ ChangeDns(h) \/ Ages(h)
      PROVE  proven' = proven /\ confirmed' \subseteq confirmed
  BY <1>6 DEF DeleteDomain, ChangeDns, Ages
<1>7. ASSUME \E s \in batch : RecheckLookup(s) \/ LookupFails(s)
      PROVE  proven \subseteq proven' /\ confirmed' \subseteq confirmed
  BY <1>7 DEF RecheckLookup, LookupFails
<1>8. ASSUME RecheckList \/ RecheckWrite \/ RecheckLost \/ UNCHANGED vars
      PROVE  UNCHANGED <<proven, confirmed>>
  BY <1>8 DEF RecheckList, RecheckWrite, RecheckLost, vars
<1> QED
  BY <1>1, <1>2, <1>4, <1>5, <1>6, <1>7, <1>8
     DEF Next, Handle, Recheck, CreateInstance, CreateDomain, Names

\* Findings stay proven.
LEMMA StepFindings ==
  ASSUME Typed, FindingsProven, VerifiedWasProven, [Next]_vars
  PROVE  FindingsProven'
<1>1. ASSUME NEW s \in batch', s.status = "verified" PROVE s.id \in proven'
  <2>1. CASE s \in batch
    BY <1>1, <2>1, Books DEF FindingsProven
  <2>2. CASE RecheckList
    <3>1. PICK h \in Hosts : s = Snapshot(h) /\ dom[h].status \in {"verified", "pending"}
      BY <1>1, <2>2 DEF RecheckList
    <3>2. dom[h].id # 0
      BY <3>1, Types
    <3>3. dom[h].status = "verified" /\ s.id = dom[h].id
      BY <1>1, <3>1, <3>2, SnapshotType
    <3> QED
      BY <3>3, Books DEF VerifiedWasProven
  <2>3. ASSUME RecheckWrite \/ RecheckLost \/ \E k \in batch : RecheckLookup(k) \/ LookupFails(k)
        PROVE  batch' \subseteq batch
    BY <2>3 DEF RecheckWrite, RecheckLost, RecheckLookup, LookupFails
  <2> QED
    BY <1>1, <2>1, <2>2, <2>3, Frame
<1>2. ASSUME cur' # Idle, cur'.row.status = "verified" PROVE cur'.row.id \in proven'
  <2>1. CASE cur' = cur
    BY <1>2, <2>1, Books DEF FindingsProven
  <2>2. ASSUME NEW s \in batch, RecheckLookup(s) \/ LookupFails(s) PROVE cur'.row.id \in proven'
    <3>1. \E seen : cur' = [pc |-> "write", row |-> s, seen |-> seen]
      BY <2>2, Zenon DEF RecheckLookup, LookupFails
    <3>2. cur'.row = s
      BY <3>1
    <3> QED
      BY <1>2, <3>2, Books DEF FindingsProven
  <2>3. ASSUME RecheckList \/ RecheckWrite \/ RecheckLost PROVE cur' = cur \/ cur' = Idle
    BY <2>3 DEF RecheckList, RecheckWrite, RecheckLost
  <2> QED
    BY <1>2, <2>1, <2>2, <2>3, Frame
<1>3. ASSUME NEW q \in Requests, req'[q].pc = "verify", req'[q].seen
      PROVE  req'[q].row.id \in proven'
  <2>1. CASE req'[q] = req[q]
    BY <1>3, <2>1, Books DEF FindingsProven
  <2>2. CASE req'[q] # req[q]
    <3>1. req'[q].row = req[q].row /\ Looked(req[q].row.host, req[q].row.id, TRUE)
      BY <1>3, <2>2, Findings
    <3> QED
      BY <3>1 DEF Looked
  <2> QED
    BY <2>1, <2>2
<1> QED
  BY <1>1, <1>2, <1>3 DEF FindingsProven

\* What may become verified, was verified before or has been found by the check that writes.
LEMMA StepVerified ==
  ASSUME Typed, FindingsProven, VerifiedWasProven, [Next]_vars
  PROVE  VerifiedWasProven'
<1> SUFFICES ASSUME NEW h \in Hosts, dom'[h].status = "verified" PROVE dom'[h].id \in proven'
  BY DEF VerifiedWasProven
<1>1. CASE dom'[h].id = dom[h].id /\ dom'[h].status = dom[h].status
  BY <1>1, Books DEF VerifiedWasProven
<1>2. ASSUME NEW s \in Snapshots, NEW status \in Statuses \ {"none"},
             NEW cert \in {"none", "pending"}, SetDomainStatus(s, status, cert),
             status = "verified" => s.id \in proven
      PROVE  dom'[h].id \in proven'
  <2>1. CASE h = s.host /\ dom[h].id = s.id
    BY <1>2, <2>1, StatusEffect, Books
  <2>2. CASE ~(h = s.host /\ dom[h].id = s.id)
    BY <1>1, <1>2, <2>2, StatusEffect
  <2> QED
    BY <2>1, <2>2
<1>3. ASSUME NEW r \in Requests, CreateInsert(r) PROVE dom'[h].id \in proven'
  <2>1. dom' = dom \/ dom' = [dom EXCEPT ![req[r].name] =
                                [NoDom EXCEPT !.id = minted + 1, !.status = "pending"]]
    BY <1>3 DEF CreateInsert, tables
  <2>2. CASE h = req[r].name /\ dom' # dom
    BY <2>1, <2>2, Types DEF NoDom
  <2> QED
    BY <1>1, <2>1, <2>2, Types
<1>4. ASSUME NEW r \in Requests, VerifyWrite(r) PROVE dom'[h].id \in proven'
  <2>1. req[r] \in VerifyReqs
    BY <1>4, Types, Shape DEF VerifyWrite
  <2>2. PICK cert \in {"none", "pending"} :
          SetDomainStatus(req[r].row, IF req[r].seen THEN "verified" ELSE "failed", cert)
    BY <1>4 DEF VerifyWrite
  <2>3. req[r].row \in Snapshots /\ (req[r].seen => req[r].row.id \in proven)
    BY <1>4, <2>1 DEF VerifyReqs, FindingsProven, VerifyWrite
  <2>4. CASE req[r].seen
    BY <1>2, <2>2, <2>3, <2>4 DEF Statuses
  <2>5. CASE ~req[r].seen
    BY <1>2, <2>2, <2>3, <2>5 DEF Statuses
  <2> QED
    BY <2>4, <2>5
<1>5. ASSUME RecheckWrite PROVE dom'[h].id \in proven'
  <2>1. cur \in InHand /\ cur # Idle
    BY <1>5, Types, HandShape DEF RecheckWrite
  <2>2. cur.row \in Snapshots /\ cur.row.status \in Statuses \ {"none"}
        /\ cur.row.cert \in {"none", "pending"}
    BY <2>1 DEF InHand, Snapshots
  <2>3. CASE SetDomainStatus(cur.row, cur.row.status, cur.row.cert)
    BY <1>2, <2>1, <2>2, <2>3 DEF FindingsProven
  <2>4. CASE SetDomainStatus(cur.row, "failed", "none")
    BY <1>2, <2>2, <2>4 DEF Statuses
  <2> QED
    BY <1>5, <2>3, <2>4 DEF RecheckWrite
<1>6. ASSUME NEW g \in Hosts, DeleteDomain(g) PROVE dom'[h].id \in proven'
  BY <1>1, <1>6, Types DEF DeleteDomain, NoDom
<1>7. ASSUME NEW g \in Hosts, Ages(g) PROVE dom'[h].id \in proven'
  BY <1>1, <1>7, Types DEF Ages
<1> QED
  BY <1>1, <1>3, <1>4, <1>5, <1>6, <1>7, Frame

\* A confirmed host keeps its row and its status.
LEMMA KeptRow ==
  ASSUME Typed, KeptSafely, confirmed \subseteq Hosts, [Next]_vars,
         NEW h \in confirmed, h \in confirmed'
  PROVE  dom'[h].id = dom[h].id /\ dom'[h].status = "verified"
<1>0. h \in Hosts /\ dom[h].status = "verified" /\ dom[h].id # 0 /\ NoOlderFinding(h)
  BY Types DEF KeptSafely
<1>1. CASE dom'[h].id = dom[h].id /\ dom'[h].status = dom[h].status
  BY <1>0, <1>1
<1>2. ASSUME NEW s \in Snapshots, NEW status \in Statuses \ {"none"},
             NEW cert \in {"none", "pending"}, SetDomainStatus(s, status, cert),
             Concerns(s, h) => status = "verified"
      PROVE  dom'[h].id = dom[h].id /\ dom'[h].status = "verified"
  <2>1. CASE Concerns(s, h)
    BY <1>0, <1>2, <2>1, StatusEffect DEF Concerns
  <2>2. CASE ~Concerns(s, h)
    BY <1>0, <1>2, <2>2, StatusEffect DEF Concerns
  <2> QED
    BY <2>1, <2>2
<1>3. ASSUME NEW r \in Requests, CreateInsert(r) PROVE dom'[h] = dom[h]
  <2>1. h \in Rows(Names)
    BY <1>0, ResourcesAssumption DEF Rows, Names
  <2>2. dom' = dom \/ (/\ req[r].name # h
                       /\ dom' = [dom EXCEPT ![req[r].name] =
                                    [NoDom EXCEPT !.id = minted + 1, !.status = "pending"]])
    BY <1>3, <2>1 DEF CreateInsert, tables
  <2> QED
    BY <1>0, <2>2, Types
<1>4. ASSUME NEW r \in Requests, VerifyWrite(r)
      PROVE  dom'[h].id = dom[h].id /\ dom'[h].status = "verified"
  <2>1. req[r] \in VerifyReqs
    BY <1>4, Types, Shape DEF VerifyWrite
  <2>2. PICK cert \in {"none", "pending"} :
          SetDomainStatus(req[r].row, IF req[r].seen THEN "verified" ELSE "failed", cert)
    BY <1>4 DEF VerifyWrite
  <2>3. req[r].row \in Snapshots /\ (Concerns(req[r].row, h) => req[r].seen)
    BY <1>0, <1>4, <2>1 DEF VerifyReqs, NoOlderFinding, VerifyWrite
  <2>4. CASE req[r].seen
    BY <1>2, <2>2, <2>3, <2>4 DEF Statuses
  <2>5. CASE ~req[r].seen
    BY <1>2, <2>2, <2>3, <2>5 DEF Statuses
  <2> QED
    BY <2>4, <2>5
<1>5. ASSUME RecheckWrite
      PROVE  dom'[h].id = dom[h].id /\ dom'[h].status = "verified"
  <2>1. cur \in InHand /\ cur # Idle
    BY <1>5, Types, HandShape DEF RecheckWrite
  <2>2. cur.row \in Snapshots /\ cur.row.status \in Statuses \ {"none"}
        /\ cur.row.cert \in {"none", "pending"}
    BY <2>1 DEF InHand, Snapshots
  <2>3. Concerns(cur.row, h) => cur.row.status = "verified" /\ cur.seen
    BY <1>0, <2>1 DEF NoOlderFinding
  <2>4. CASE cur.seen
    <3>1. SetDomainStatus(cur.row, cur.row.status, cur.row.cert)
      BY <1>5, <2>4 DEF RecheckWrite
    <3> QED
      BY <1>2, <2>2, <2>3, <3>1
  <2>5. CASE ~cur.seen
    <3>1. SetDomainStatus(cur.row, "failed", "none")
      BY <1>5, <2>5 DEF RecheckWrite
    <3> QED
      BY <1>2, <2>2, <2>3, <2>5, <3>1 DEF Statuses
  <2> QED
    BY <2>4, <2>5
<1>6. ASSUME NEW g \in Hosts, DeleteDomain(g) PROVE dom'[h] = dom[h]
  <2>1. g # h
    BY <1>6 DEF DeleteDomain
  <2> QED
    BY <1>0, <1>6, <2>1, Types DEF DeleteDomain
<1>7. ASSUME NEW g \in Hosts, Ages(g)
      PROVE  dom'[h].id = dom[h].id /\ dom'[h].status = dom[h].status
  BY <1>0, <1>7, Types DEF Ages
<1> QED
  BY <1>0, <1>1, <1>3, <1>4, <1>5, <1>6, <1>7, Frame

\* No older finding of it arises: a lookup that misses its record unconfirms the host.
LEMMA KeptSafe ==
  ASSUME Typed, KeptSafely, confirmed \subseteq Hosts, [Next]_vars,
         NEW h \in confirmed, h \in confirmed'
  PROVE  NoOlderFinding(h)'
<1>0. /\ h \in Hosts /\ dom[h].status = "verified" /\ NoOlderFinding(h)
      /\ dom'[h].id = dom[h].id
  BY KeptRow DEF KeptSafely
<1>a. \A s : Concerns(s, h)' = Concerns(s, h)
  BY <1>0 DEF Concerns
<1>1. ASSUME NEW s \in batch', Concerns(s, h) PROVE s.status = "verified"
  <2>1. CASE RecheckList
    <3>1. PICK g \in Hosts : s = Snapshot(g) /\ dom[g].status \in {"verified", "pending"}
      BY <1>1, <2>1 DEF RecheckList
    <3>2. dom[g].id # 0
      BY <3>1, Types
    <3>3. g = h /\ s.status = dom[g].status
      BY <1>1, <3>1, <3>2, SnapshotType DEF Concerns
    <3> QED
      BY <1>0, <3>3
  <2>2. ASSUME RecheckWrite \/ RecheckLost \/ \E k \in batch : RecheckLookup(k) \/ LookupFails(k)
        PROVE  batch' \subseteq batch
    BY <2>2 DEF RecheckWrite, RecheckLost, RecheckLookup, LookupFails
  <2>3. CASE s \in batch
    BY <1>0, <1>1, <2>3 DEF NoOlderFinding
  <2> QED
    BY <1>1, <2>1, <2>2, <2>3, Frame
<1>2. ASSUME cur' # Idle, Concerns(cur'.row, h)
      PROVE  cur'.row.status = "verified" /\ cur'.seen
  <2>1. CASE cur' = cur
    BY <1>0, <1>2, <2>1 DEF NoOlderFinding
  <2>2. ASSUME NEW s \in batch, NEW seen \in BOOLEAN,
               cur' = [pc |-> "write", row |-> s, seen |-> seen], Looked(s.host, s.id, seen)
        PROVE  cur'.row.status = "verified" /\ cur'.seen
    <3>1. cur'.row = s /\ cur'.seen = seen
      BY <2>2
    <3>2. s.status = "verified" /\ s.host = h /\ s.id = dom[h].id
      BY <1>0, <1>2, <3>1 DEF NoOlderFinding, Concerns
    <3>3. seen
      BY <2>2, <3>2 DEF Looked
    <3> QED
      BY <3>1, <3>2, <3>3
  <2>3. ASSUME NEW s \in batch, RecheckLookup(s) \/ LookupFails(s)
        PROVE  cur'.row.status = "verified" /\ cur'.seen
    <3>1. Published(s.host, s.id) \in BOOLEAN /\ FALSE \in BOOLEAN
      BY DEF Published
    <3> QED
      BY <2>2, <2>3, <3>1 DEF RecheckLookup, LookupFails
  <2>4. ASSUME RecheckList \/ RecheckWrite \/ RecheckLost PROVE cur' = cur \/ cur' = Idle
    BY <2>4 DEF RecheckList, RecheckWrite, RecheckLost
  <2> QED
    BY <1>2, <2>1, <2>3, <2>4, Frame
<1>3. ASSUME NEW q \in Requests, req'[q].pc = "verify", Concerns(req'[q].row, h)
      PROVE  req'[q].seen
  <2>1. CASE req'[q] = req[q]
    BY <1>0, <1>3, <2>1 DEF NoOlderFinding
  <2>2. CASE req'[q] # req[q]
    <3>1. PICK seen \in BOOLEAN :
            /\ req'[q].seen = seen /\ req'[q].row = req[q].row
            /\ Looked(req[q].row.host, req[q].row.id, seen)
      BY <1>3, <2>2, Findings
    <3>2. seen
      BY <1>3, <3>1 DEF Looked, Concerns
    <3> QED
      BY <3>1, <3>2
  <2> QED
    BY <2>1, <2>2
<1> QED
  BY <1>a, <1>1, <1>2, <1>3 DEF NoOlderFinding

LEMMA StepKept ==
  ASSUME Typed, KeptSafely, confirmed \subseteq Hosts, [Next]_vars
  PROVE  confirmed' \subseteq Hosts /\ KeptSafely'
<1>1. ASSUME NEW h \in confirmed', h \in confirmed
      PROVE  h \in Hosts /\ dom'[h].status = "verified" /\ NoOlderFinding(h)'
  BY <1>1, KeptRow, KeptSafe
<1>2. ASSUME NEW h \in confirmed', h \notin confirmed
      PROVE  h \in Hosts /\ dom'[h].status = "verified" /\ NoOlderFinding(h)'
  <2>1. PICK r \in Requests : VerifyWrite(r)
    BY <1>2, Books
  <2>2. /\ req[r].seen /\ h = req[r].row.host /\ dom[h].id = req[r].row.id
        /\ ~OlderFinding(h, r)
    BY <1>2, <2>1 DEF VerifyWrite
  <2>3. req[r].row \in Snapshots
    BY <2>1, Types, Shape DEF VerifyWrite, VerifyReqs
  <2>4. PICK cert \in {"none", "pending"} : SetDomainStatus(req[r].row, "verified", cert)
    BY <2>1, <2>2 DEF VerifyWrite
  <2>5. h \in Hosts /\ dom'[h].id = dom[h].id /\ dom'[h].status = "verified"
    BY <2>2, <2>3, <2>4, StatusEffect DEF Statuses, Snapshots
  <2>6. UNCHANGED <<batch, cur>> /\ req' = [req EXCEPT ![r] = Idle]
    BY <2>1 DEF VerifyWrite, worker, Return
  <2>7. \A q \in Requests : req'[q].pc = "verify" => q # r /\ req'[q] = req[q]
    BY <2>6, Types DEF Idle
  <2>8. \A s : Concerns(s, h)' = Concerns(s, h)
    BY <2>5 DEF Concerns
  <2> QED
    BY <2>2, <2>5, <2>6, <2>7, <2>8 DEF OlderFinding, NoOlderFinding, Concerns
<1> QED
  BY <1>1, <1>2 DEF KeptSafely

-----------------------------------------------------------------------------
(***************************************************************************)
(* Limits.                                                                  *)
(***************************************************************************)

IdOf(n) == IF n \in Subdomains THEN inst[n].id ELSE dom[n].id

LEMMA RowsById == \A K : Rows(K) = {n \in K : IdOf(n) # 0}
  BY DEF Rows, IdOf

\* A row appears by the commit of a creation and in no other way.
LEMMA RowStep ==
  ASSUME Typed, [Next]_vars, NEW n \in Names, IdOf(n)' # 0, IdOf(n) = 0
  PROVE  \E r \in Requests : CreateInsert(r) /\ req[r].name = n
<1>1. CASE n \in Subdomains
  <2>1. inst'[n].id # 0 /\ inst[n].id = 0
    BY <1>1 DEF IdOf
  <2>2. ASSUME NEW r \in Requests, CreateInsert(r), req[r].name # n PROVE inst'[n].id = inst[n].id
    <3>1. inst' = inst \/ \E e : inst' = [inst EXCEPT ![req[r].name] = e]
      BY <2>2 DEF CreateInsert, tables
    <3> QED
      BY <1>1, <2>2, <3>1, Types
  <2>3. ASSUME NEW r \in Requests, RotateCredentials(r) PROVE inst'[n].id = inst[n].id
    <3> DEFINE s == req[r].name
    <3>1. s \in Subdomains
      BY <2>3, Types, Shape DEF RotateCredentials, KeyReqs
    <3>2. inst' = inst \/ inst' = [inst EXCEPT ![s].key = minted + 1, ![s].grace = inst[s].key]
      BY <2>3 DEF RotateCredentials
    <3> HIDE DEF s
    <3>3. ASSUME NEW d \in [id : Nat, key : Nat, grace : Nat], NEW a, NEW b
          PROVE  [d EXCEPT !.key = a, !.grace = b].id = d.id
      OBVIOUS
    <3>4. inst[s] \in [id : Nat, key : Nat, grace : Nat]
      BY <3>1, Types
    <3>5. CASE n = s /\ inst' # inst
      <4>1. inst'[s] = [inst[s] EXCEPT !.key = minted + 1, !.grace = inst[s].key]
        BY <3>1, <3>2, <3>5, Types
      <4> QED
        BY <3>3, <3>4, <3>5, <4>1
    <3>6. CASE n # s \/ inst' = inst
      BY <1>1, <3>1, <3>2, <3>6, Types
    <3> QED
      BY <3>5, <3>6
  <2>4. ASSUME NEW r \in Requests, DeleteInstance(r) PROVE inst'[n].id \in {0, inst[n].id}
    <3> DEFINE s == req[r].name
    <3>1. inst' = inst \/ inst' = [inst EXCEPT ![s] = NoInst]
      BY <2>4 DEF DeleteInstance
    <3>2. NoInst.id = 0
      BY DEF NoInst
    <3> HIDE DEF s
    <3>3. CASE n = s /\ inst' # inst
      BY <1>1, <3>1, <3>2, <3>3, Types
    <3>4. CASE n # s \/ inst' = inst
      BY <1>1, <3>1, <3>4, Types
    <3> QED
      BY <3>3, <3>4
  <2> QED
    BY <2>1, <2>2, <2>3, <2>4, Frame
<1>2. CASE n \in Hosts /\ n \notin Subdomains
  <2>1. dom'[n].id # 0 /\ dom[n].id = 0
    BY <1>2 DEF IdOf
  <2>2. ASSUME NEW r \in Requests, CreateInsert(r), req[r].name # n PROVE dom'[n].id = dom[n].id
    <3>1. dom' = dom \/ \E e : dom' = [dom EXCEPT ![req[r].name] = e]
      BY <2>2 DEF CreateInsert, tables
    <3> QED
      BY <1>2, <2>2, <3>1, Types
  <2>3. ASSUME NEW s \in Snapshots, NEW status, NEW cert, SetDomainStatus(s, status, cert)
        PROVE  dom'[n].id = dom[n].id
    BY <1>2, <2>3, Types DEF SetDomainStatus
  <2>4. ASSUME NEW r \in Requests, VerifyWrite(r) PROVE dom'[n].id = dom[n].id
    <3>1. req[r].row \in Snapshots
      BY <2>4, Types, Shape DEF VerifyWrite, VerifyReqs
    <3> QED
      BY <2>3, <2>4, <3>1 DEF VerifyWrite
  <2>5. ASSUME RecheckWrite PROVE dom'[n].id = dom[n].id
    <3>1. cur.row \in Snapshots
      BY <2>5, Types, HandShape DEF RecheckWrite, InHand
    <3> QED
      BY <2>3, <2>5, <3>1 DEF RecheckWrite
  <2>6. ASSUME NEW h \in Hosts, DeleteDomain(h) PROVE dom'[n].id \in {0, dom[n].id}
    BY <1>2, <2>6, Types DEF DeleteDomain, NoDom
  <2>7. ASSUME NEW h \in Hosts, Ages(h) PROVE dom'[n].id = dom[n].id
    BY <1>2, <2>7, Types DEF Ages
  <2> QED
    BY <2>1, <2>2, <2>4, <2>5, <2>6, <2>7, Frame
<1> QED
  BY <1>1, <1>2 DEF Names

\* A request is about to insert because it has just counted.
LEMMA PendingStep ==
  ASSUME Typed, [Next]_vars, NEW q \in Requests, req'[q].pc = "insert"
  PROVE  \/ req'[q] = req[q]
         \/ \E n \in Names : CreateCount(q, n) /\ req'[q].name = n
<1> USE Types
<1>1. ASSUME NEW r \in Requests, NEW n \in Names, CreateCount(r, n)
      PROVE  req'[q] = req[q] \/ (CreateCount(q, n) /\ req'[q].name = n)
  BY <1>1 DEF CreateCount, Start
<1>2. ASSUME NEW r \in Requests,
             \/ \E s \in Subdomains, pc \in {"rotate", "delete"} : LoadInstance(r, s, pc)
             \/ \E h \in Hosts : VerifyRead(r, h)
      PROVE  req'[q] = req[q]
  BY <1>2 DEF LoadInstance, VerifyRead, Start
<1>3. ASSUME NEW r \in Requests,
             CreateInsert(r) \/ RotateCredentials(r) \/ DeleteInstance(r) \/ VerifyWrite(r)
               \/ RequestDies(r)
      PROVE  req'[q] = req[q]
  BY <1>3 DEF CreateInsert, RotateCredentials, DeleteInstance, VerifyWrite, RequestDies, Return, Idle
<1>4. ASSUME NEW r \in Requests, VerifyLookup(r) \/ VerifyLookupFails(r) PROVE req'[q] = req[q]
  <2>1. ASSUME NEW seen, NEW routed, Answered(r, seen, routed) PROVE req'[q] = req[q]
    <3> DEFINE rec == [pc |-> "verify", row |-> req[r].row, seen |-> seen, routed |-> routed]
    <3>1. req' = [req EXCEPT ![r] = rec] /\ rec.pc = "verify"
      BY <2>1 DEF Answered
    <3> HIDE DEF rec
    <3> QED
      BY <3>1, Types
  <2> QED
    BY <1>4, <2>1 DEF VerifyLookup, VerifyLookupFails
<1>5. ASSUME NEW h \in Hosts, DeleteDomain(h) \/ ChangeDns(h) \/ Ages(h) PROVE req' = req
  BY <1>5 DEF DeleteDomain, ChangeDns, Ages
<1>6. ASSUME Recheck \/ RecheckLost \/ (\E s \in batch : LookupFails(s)) \/ UNCHANGED vars
      PROVE  req' = req
  BY <1>6 DEF Recheck, RecheckList, RecheckWrite, RecheckLookup, RecheckLost, LookupFails, vars
<1> QED
  BY <1>1, <1>2, <1>3, <1>4, <1>5, <1>6
     DEF Next, Handle, CreateInstance, CreateDomain, Names

\* A creation concerns one of the two kinds of names, whose limit it has compared.
LEMMA KinOf ==
  ASSUME NEW K \in {Subdomains, Hosts}, NEW n \in K
  PROVE  Kin(n) = K /\ n \in Names
  BY ResourcesAssumption DEF Kin, Names

\* Rows and pending creations of a kind: fewer, or one more that has just counted, or one
\* that turns from pending to row.
LEMMA KindStep ==
  ASSUME Typed, [Next]_vars, NEW K \in {Subdomains, Hosts}
  PROVE  \/ Rows(K)' \subseteq Rows(K) /\ Pending(K)' \subseteq Pending(K)
         \/ \E r \in Requests :
              /\ Rows(K)' \subseteq Rows(K) /\ Pending(K)' \subseteq Pending(K) \union {r}
              /\ Cardinality(Rows(K)) < LimitOf(K)
         \/ \E r \in Pending(K), n \in K :
              Rows(K)' \subseteq Rows(K) \union {n} /\ Pending(K)' \subseteq Pending(K) \ {r}
<1>0. K \subseteq Names
  BY DEF Names
<1>1. CASE \E r \in Requests, n \in K : CreateCount(r, n)
  <2>1. PICK r \in Requests, n \in K : CreateCount(r, n)
    BY <1>1
  <2>2. Cardinality(Rows(K)) < LimitOf(K)
    BY <2>1, KinOf, Zenon DEF CreateCount
  <2>3. Rows(K)' = Rows(K)
    BY <2>1 DEF CreateCount, tables, Rows
  <2>4. \A q \in Requests \ {r} : req'[q] = req[q]
    BY <2>1, Types DEF CreateCount, Start
  <2> QED
    BY <2>2, <2>3, <2>4 DEF Pending
<1>2. CASE \E r \in Requests : CreateInsert(r) /\ req[r].name \in K
  <2>1. PICK r \in Requests : CreateInsert(r) /\ req[r].name \in K
    BY <1>2
  <2>2. r \in Pending(K)
    BY <2>1 DEF Pending, CreateInsert
  <2>3. req' = [req EXCEPT ![r] = Idle]
    BY <2>1 DEF CreateInsert, Return
  <2>4. Pending(K)' \subseteq Pending(K) \ {r}
    BY <2>3, Types DEF Pending, Idle
  <2>5. ASSUME NEW m \in K, IdOf(m)' # 0, IdOf(m) = 0 PROVE m = req[r].name
    <3>1. PICK q \in Requests : CreateInsert(q) /\ req[q].name = m
      BY <1>0, <2>5, RowStep
    <3>2. q = r
      <4>1. req[q].pc = "insert" /\ req'[q].pc = "idle"
        BY <3>1, Types DEF CreateInsert, Return, Idle
      <4> QED
        BY <2>3, <4>1, Types
    <3> QED
      BY <3>1, <3>2
  <2>6. Rows(K)' \subseteq Rows(K) \union {req[r].name}
    <3>1. Rows(K) = {m \in K : IdOf(m) # 0}
      BY RowsById
    <3>2. Rows(K)' = {m \in K : IdOf(m)' # 0}
      BY DEF Rows, IdOf
    <3> QED
      BY <2>5, <3>1, <3>2
  <2> QED
    BY <2>1, <2>2, <2>4, <2>6
<1>3. CASE /\ ~\E r \in Requests, n \in K : CreateCount(r, n)
           /\ ~\E r \in Requests : CreateInsert(r) /\ req[r].name \in K
  <2>1. Rows(K)' \subseteq Rows(K)
    <3>1. Rows(K) = {m \in K : IdOf(m) # 0}
      BY RowsById
    <3>2. Rows(K)' = {m \in K : IdOf(m)' # 0}
      BY DEF Rows, IdOf
    <3>3. ASSUME NEW m \in K, IdOf(m)' # 0 PROVE IdOf(m) # 0
      BY <1>0, <1>3, <3>3, RowStep
    <3> QED
      BY <3>1, <3>2, <3>3
  <2>2. ASSUME NEW q \in Requests, req'[q].pc = "insert", req'[q].name \in K PROVE req'[q] = req[q]
    BY <1>3, <2>2, PendingStep
  <2>3. Pending(K)' \subseteq Pending(K)
    BY <2>2 DEF Pending
  <2> QED
    BY <2>1, <2>3
<1> QED
  BY <1>1, <1>2, <1>3

LEMMA FiniteKinds ==
  ASSUME NEW K \in {Subdomains, Hosts}
  PROVE  /\ IsFiniteSet(Rows(K)) /\ IsFiniteSet(Pending(K))
         /\ Cardinality(Rows(K)) \in Nat /\ Cardinality(Pending(K)) \in Nat
         /\ Cardinality(Pending(K)) <= Cardinality(Requests)
         /\ LimitOf(K) \in Nat
         /\ Cardinality(Requests) \in Nat /\ Cardinality(Requests) >= 1
<1>1. IsFiniteSet(K) /\ Rows(K) \subseteq K /\ Pending(K) \subseteq Requests
  BY ResourcesAssumption DEF Rows, Pending
<1>2. IsFiniteSet(Requests) /\ Requests # {}
  BY ResourcesAssumption
<1>3. IsFiniteSet(Rows(K)) /\ IsFiniteSet(Pending(K))
      /\ Cardinality(Pending(K)) <= Cardinality(Requests)
  BY <1>1, <1>2, FS_Subset
<1>4. Cardinality(Requests) >= 1
  BY <1>2, FS_EmptySet, FS_CardinalityType
<1>5. LimitOf(K) \in Nat
  BY ResourcesAssumption DEF LimitOf
<1> QED
  BY <1>2, <1>3, <1>4, <1>5, FS_CardinalityType

LEMMA StepOvershoot ==
  ASSUME Typed, OvershootBounded, [Next]_vars
  PROVE  OvershootBounded'
<1> SUFFICES ASSUME NEW K \in {Subdomains, Hosts}, Pending(K)' # {} \/ Rows(K)' # {}
             PROVE  Cardinality(Rows(K)') + Cardinality(Pending(K)')
                      <= LimitOf(K) + Cardinality(Requests) - 1
  BY DEF OvershootBounded
<1> DEFINE R == Rows(K)
           P == Pending(K)
           L == LimitOf(K)
           C == Cardinality(Requests)
<1>1. /\ IsFiniteSet(R) /\ IsFiniteSet(P) /\ Cardinality(R) \in Nat /\ Cardinality(P) \in Nat
      /\ L \in Nat /\ C \in Nat /\ C >= 1 /\ Cardinality(P) <= C
  BY FiniteKinds
<1>2. P # {} \/ R # {} => Cardinality(R) + Cardinality(P) <= L + C - 1
  BY DEF OvershootBounded
<1>3. P' \subseteq Requests /\ IsFiniteSet(Requests)
  BY ResourcesAssumption DEF Pending
<1>4. P' # {} \/ R' # {}
  OBVIOUS
<1>5. \/ R' \subseteq R /\ P' \subseteq P
      \/ \E r \in Requests : R' \subseteq R /\ P' \subseteq P \union {r} /\ Cardinality(R) < L
      \/ \E r \in P, n \in K : R' \subseteq R \union {n} /\ P' \subseteq P \ {r}
  BY KindStep
<1> SUFFICES Cardinality(R') + Cardinality(P') <= L + C - 1
  OBVIOUS
<1> HIDE DEF R, P, L, C
<1>6. Cardinality(P') \in Nat /\ Cardinality(P') <= C
  BY <1>3, FS_Subset, FS_CardinalityType DEF C
<1>7. CASE R' \subseteq R /\ P' \subseteq P
  <2>1. Cardinality(R') <= Cardinality(R) /\ Cardinality(P') <= Cardinality(P)
        /\ Cardinality(R') \in Nat
    BY <1>1, <1>7, FS_Subset, FS_CardinalityType
  <2> QED
    BY <1>1, <1>2, <1>4, <1>6, <1>7, <2>1
<1>8. CASE R' \subseteq R /\ Cardinality(R) < L
  <2>1. Cardinality(R') <= Cardinality(R) /\ Cardinality(R') \in Nat
    BY <1>1, <1>8, FS_Subset, FS_CardinalityType
  <2> QED
    BY <1>1, <1>6, <1>8, <2>1
<1>9. ASSUME NEW r \in P, NEW n \in K, R' \subseteq R \union {n}, P' \subseteq P \ {r}
      PROVE  Cardinality(R') + Cardinality(P') <= L + C - 1
  <2>1. IsFiniteSet(R \union {n}) /\ Cardinality(R \union {n}) \in Nat
        /\ Cardinality(R \union {n}) <= Cardinality(R) + 1
    <3>1. CASE n \in R
      <4>1. R \union {n} = R
        BY <3>1
      <4>2. IsFiniteSet(R \union {n}) /\ Cardinality(R \union {n}) = Cardinality(R)
        BY <1>1, <4>1, Zenon
      <4> QED
        BY <1>1, <4>2
    <3>2. CASE n \notin R
      <4>1. IsFiniteSet(R \union {n}) /\ Cardinality(R \union {n}) = Cardinality(R) + 1
        BY <1>1, <3>2, FS_AddElement
      <4> QED
        BY <1>1, <4>1
    <3> QED
      BY <3>1, <3>2
  <2>2. IsFiniteSet(P \ {r}) /\ Cardinality(P \ {r}) = Cardinality(P) - 1
    BY <1>1, FS_RemoveElement
  <2>3. Cardinality(R') <= Cardinality(R \union {n}) /\ Cardinality(R') \in Nat
    BY <1>9, <2>1, FS_Subset, FS_CardinalityType
  <2>4. Cardinality(P') <= Cardinality(P \ {r})
    BY <1>9, <2>2, FS_Subset
  <2> QED
    BY <1>1, <1>2, <1>6, <2>1, <2>2, <2>3, <2>4
<1> QED
  BY <1>5, <1>7, <1>8, <1>9

-----------------------------------------------------------------------------
(***************************************************************************)
(* The invariant.                                                           *)
(***************************************************************************)
IInv == Typed /\ Recorded /\ Checked /\ OvershootBounded

LEMMA InitInv == Init => IInv
<1> SUFFICES ASSUME Init PROVE IInv
  OBVIOUS
<1>1. /\ inst = [s \in Subdomains |-> NoInst] /\ dom = [h \in Hosts |-> NoDom]
      /\ dns = [h \in Hosts |-> [txt |-> {}, cname |-> FALSE]]
      /\ req = [r \in Requests |-> Idle]
      /\ batch = {} /\ cur = Idle
      /\ minted = 0 /\ issued = 0 /\ changes = 0 /\ faults = 0
      /\ installed = [s \in Subdomains |-> <<>>]
      /\ proven = {} /\ confirmed = {}
  BY DEF Init
<1>2. /\ NoInst \in [id : Nat, key : Nat, grace : Nat]
      /\ NoInst.id = 0 /\ NoInst.key = 0 /\ NoInst.grace = 0
      /\ NoDom \in [id : Nat, status : Statuses, cert : {"none", "pending"}, recent : BOOLEAN]
      /\ NoDom.id = 0 /\ NoDom.status = "none"
  BY DEF NoInst, NoDom, Statuses
<1>3. /\ [txt |-> {}, cname |-> FALSE] \in [txt : SUBSET (Nat \ {0}), cname : BOOLEAN]
      /\ Idle \in InFlight /\ Idle.pc = "idle"
      /\ <<>> \in Seq(Nat \ {0}) /\ Len(<<>>) = 0
  BY DEF InFlight, Idle
<1>4. Typed
  <2>1. \A h \in Hosts : dom[h].id = 0 <=> dom[h].status = "none"
    BY <1>1, <1>2
  <2>2. dns \in [Hosts -> [txt : SUBSET (Nat \ {0}), cname : BOOLEAN]]
    BY <1>1, <1>3
  <2>3. req \in [Requests -> InFlight] /\ installed \in [Subdomains -> Seq(Nat \ {0})]
    BY <1>1, <1>3
  <2>4. /\ inst \in [Subdomains -> [id : Nat, key : Nat, grace : Nat]]
        /\ dom \in [Hosts -> [id : Nat, status : Statuses, cert : {"none", "pending"},
                              recent : BOOLEAN]]
    BY <1>1, <1>2
  <2>5. /\ batch \subseteq Snapshots /\ cur \in {Idle} \union InHand
        /\ minted \in Nat /\ issued \in 0..MaxRequests
        /\ changes \in 0..MaxChanges /\ faults \in 0..MaxFaults
    BY <1>1, ResourcesAssumption
  <2> QED
    BY <2>1, <2>2, <2>3, <2>4, <2>5
       DEF Typed, TypeOK, InFlight, InsertReqs, KeyReqs, LookupReqs, VerifyReqs, InHand
<1>5. Recorded
  BY <1>1, <1>2, <1>3 DEF Recorded, KeysRecorded
<1>6. Checked
  BY <1>1, <1>2, <1>3 DEF Checked, FindingsProven, VerifiedWasProven, KeptSafely
<1>7. OvershootBounded
  <2>1. ASSUME NEW K \in {Subdomains, Hosts} PROVE Rows(K) = {} /\ Pending(K) = {}
    <3>1. \A n \in K : IdOf(n) = 0
      BY <1>1, <1>2 DEF IdOf
    <3> QED
      BY <1>1, <1>3, <3>1, RowsById DEF Pending
  <2> QED
    BY <2>1, Zenon DEF OvershootBounded
<1> QED
  BY <1>4, <1>5, <1>6, <1>7 DEF IInv

LEMMA StepInv ==
  ASSUME IInv, [Next]_vars
  PROVE  IInv'
<1> USE DEF IInv, Checked
<1>1. Typed'
  BY StepReqType, StepDom, StepWorker, StepBounds, StepDns, StepKeys
     DEF Typed, TypeOK, InFlight, InsertReqs, KeyReqs, LookupReqs, VerifyReqs, InHand
<1>2. Recorded'
  BY StepKeys
<1>3. Checked'
  BY StepFindings, StepVerified, StepKept
<1>4. OvershootBounded'
  BY StepOvershoot
<1> QED
  BY <1>1, <1>2, <1>3, <1>4

LEMMA Invariance == Spec => []IInv
BY InitInv, StepInv, PTL DEF Spec

\* Every table and every check in flight keeps its shape, and a row has the status none only
\* when there is no row, for any tenants' names and limits and any requests in flight.
THEOREM ResourcesTypeCorrect == Spec => []TypeOK
<1>1. IInv => TypeOK
  BY DEF IInv, Typed
<1> QED
  BY Invariance, <1>1, PTL

\* CreateInstance and CreateDomain count before they insert, each in a transaction that does
\* not see the other's row: the limit is exceeded by less than the number of requests at once.
THEOREM LimitsNearlyHold == Spec => []OvershootBounded
<1>1. IInv => OvershootBounded
  BY DEF IInv
<1> QED
  BY Invariance, <1>1, PTL

\* VerifyInstanceAPIKey accepts the key that creation or rotation installed last, and no key
\* older than the one before it, whatever rotations and deletions interleave.
THEOREM OldKeysAreDead == Spec => []OnlyNewestKeys
<1>1. IInv => OnlyNewestKeys
  BY KeysAreNewest DEF IInv
<1> QED
  BY Invariance, <1>1, PTL

\* A domain is verified only by a lookup that saw the TXT record of that very row: a check of
\* a deleted row does not verify the one added under the same host.
THEOREM VerifiedDomainsWereProven == Spec => []VerifiedWasProven
<1>1. IInv => VerifiedWasProven
  BY DEF IInv, Checked
<1> QED
  BY Invariance, <1>1, PTL

\* A domain verified by request while nobody held an older finding of it stays verified until
\* a lookup misses its record.
THEOREM VerificationIsKept == Spec => []VerifiedKept
<1>1. IInv => VerifiedKept
  BY DEF IInv, Checked, KeptSafely, VerifiedKept
<1> QED
  BY Invariance, <1>1, PTL
=============================================================================
