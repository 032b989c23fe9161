--------------------------- MODULE TenantResources ---------------------------
(***************************************************************************)
(* What a tenant's plan limits by number: agent instances with their API    *)
(* keys, and custom domains with their verification by request and by the   *)
(* worker's periodic recheck.                                               *)
(*                                                                         *)
(* Both are created by the same pattern: count and compare, then insert, in *)
(* one transaction at READ COMMITTED, so that the count does not see what   *)
(* a concurrent transaction is about to insert. A check of a domain reads   *)
(* the row, asks the DNS and writes the row without looking at it again.    *)
(*                                                                         *)
(* Ids are drawn from one counter and never used twice; a domain's id also  *)
(* stands for its TXT value, an instance's key is a number of its own.      *)
(***************************************************************************)
EXTENDS Integers, Sequences, FiniteSets

CONSTANTS
    Subdomains,     \* names of instances (UNIQUE)
    Hosts,          \* names of custom domains (UNIQUE)
    InstanceLimit,  \* quotas.instance_limit
    DomainLimit,    \* quotas.custom_domain_limit
    Requests,       \* API requests in flight at a time
    MaxRequests,    \* bound: requests in all
    MaxChanges,     \* bound: changes of the DNS
    MaxFaults       \* bound: failed statements and lookups

ASSUME ResourcesAssumption ==
    /\ Subdomains \intersect Hosts = {}
    /\ IsFiniteSet(Subdomains) /\ IsFiniteSet(Hosts)
    /\ IsFiniteSet(Requests) /\ Requests # {}
    /\ InstanceLimit \in Nat /\ DomainLimit \in Nat
    /\ MaxRequests \in Nat /\ MaxChanges \in Nat /\ MaxFaults \in Nat

VARIABLES
    inst,    \* agent_instances: id (0: no row), active key, grace key (0: none)
    dom,     \* custom_domains: id (0: no row), status, cert_status, and whether
             \* last_checked_at is less than twelve hours old
    dns,     \* which row's TXT record is published at each host, and the CNAME
    req,     \* API handlers in flight
    batch,   \* recheckDomains: rows as listed and not yet looked up
    cur,     \* the row in hand and what its lookup said
    minted,  \* ids drawn so far
    issued, changes, faults   \* counters behind the bounds

\* History variables: they guard nothing and are only read by properties.
VARIABLES
    installed,  \* the keys each instance has had, oldest first
    proven,     \* rows of custom_domains whose TXT record was seen by a lookup
    confirmed   \* hosts verified by request while no other check held an older finding
                \* of them, and not since looked up without success

tables  == <<inst, dom, minted>>
worker  == <<batch, cur>>
bounds  == <<issued, changes, faults>>
history == <<installed, proven, confirmed>>
vars    == <<tables, dns, req, worker, bounds, history>>

-----------------------------------------------------------------------------
Idle   == [pc |-> "idle"]
NoInst == [id |-> 0, key |-> 0, grace |-> 0]
NoDom  == [id |-> 0, status |-> "none", cert |-> "none", recent |-> FALSE]

Names      == Subdomains \union Hosts
Rows(K)    == {n \in K : IF n \in Subdomains THEN inst[n].id # 0 ELSE dom[n].id # 0}
Kin(n)     == IF n \in Subdomains THEN Subdomains ELSE Hosts
LimitOf(K) == IF K = Subdomains THEN InstanceLimit ELSE DomainLimit

Init ==
    /\ inst = [s \in Subdomains |-> NoInst]
    /\ dom = [h \in Hosts |-> NoDom]
    /\ dns = [h \in Hosts |-> [txt |-> {}, cname |-> FALSE]]
    /\ req = [r \in Requests |-> Idle]
    /\ batch = {} /\ cur = Idle
    /\ minted = 0 /\ issued = 0 /\ changes = 0 /\ faults = 0
    /\ installed = [s \in Subdomains |-> <<>>]
    /\ proven = {} /\ confirmed = {}

Start(r, rec) ==
    /\ req[r] = Idle /\ issued < MaxRequests
    /\ req' = [req EXCEPT ![r] = rec]
    /\ issued' = issued + 1
    /\ UNCHANGED <<changes, faults>>

Return(r) == req' = [req EXCEPT ![r] = Idle]
Fault     == faults < MaxFaults /\ faults' = faults + 1 /\ UNCHANGED <<issued, changes>>

-----------------------------------------------------------------------------
(***************************************************************************)
(* Creation under a limit.                                                  *)
(***************************************************************************)

\* Mutant of CreateCount: used > limit.
CreateCountLate(r, n) ==
    /\ Cardinality(Rows(Kin(n))) <= LimitOf(Kin(n))
    /\ Start(r, [pc |-> "insert", name |-> n])
    /\ UNCHANGED <<tables, dns, worker, history>>

\* Both transactions begin with the count of committed rows against the limit.
CreateCount(r, n) ==
    /\ Cardinality(Rows(Kin(n))) < LimitOf(Kin(n))
    /\ Start(r, [pc |-> "insert", name |-> n])
    /\ UNCHANGED <<tables, dns, worker, history>>

\* handleCreateInstance and handleCreateDomain.
CreateInstance(r, s) == CreateCount(r, s)
CreateDomain(r, h)   == CreateCount(r, h)

\* INSERT and COMMIT; a name that is taken is a conflict.
CreateInsert(r) ==
    /\ req[r].pc = "insert"
    /\ LET n == req[r].name IN
       IF n \in Rows(Names) THEN UNCHANGED <<tables, installed>>
       ELSE IF n \in Subdomains
       THEN /\ inst' = [inst EXCEPT ![n] = [id |-> minted + 1, key |-> minted + 2, grace |-> 0]]
            /\ installed' = [installed EXCEPT ![n] = <<minted + 2>>]
            /\ minted' = minted + 2
            /\ UNCHANGED dom
       ELSE /\ dom' = [dom EXCEPT ![n] = [NoDom EXCEPT !.id = minted + 1, !.status = "pending"]]
            /\ minted' = minted + 1
            /\ UNCHANGED <<inst, installed>>
    /\ Return(r)
    /\ UNCHANGED <<dns, worker, bounds, proven, confirmed>>

-----------------------------------------------------------------------------
(***************************************************************************)
(* Instances and their keys.                                                *)
(***************************************************************************)

\* VerifyInstanceAPIKey: the active key or the one before it.
Accepted(s) == {inst[s].key, inst[s].grace} \ {0}

\* loadOwnedInstance for handleRotateCredentials and handleDeleteInstance.
LoadInstance(r, s, pc) ==
    /\ inst[s].id # 0
    /\ Start(r, [pc |-> pc, name |-> s, id |-> inst[s].id])
    /\ UNCHANGED <<tables, dns, worker, history>>

\* Mutant of RotateCredentials: an earlier grace key is kept.
RotateKeepsGrace(r) ==
    /\ req[r].pc = "rotate"
    /\ LET s == req[r].name IN
       IF inst[s].id = req[r].id
       THEN /\ inst' = [inst EXCEPT ![s].key = minted + 1,
                                    ![s].grace = IF @ = 0 THEN inst[s].key ELSE @]
            /\ installed' = [installed EXCEPT ![s] = Append(@, minted + 1)]
            /\ minted' = minted + 1
       ELSE UNCHANGED <<inst, installed, minted>>
    /\ Return(r)
    /\ UNCHANGED <<dom, dns, worker, bounds, proven, confirmed>>

\* RotateCredentials: by id; a row that is gone is an error.
RotateCredentials(r) ==
    /\ req[r].pc = "rotate"
    /\ LET s == req[r].name IN
       IF inst[s].id = req[r].id
       THEN /\ inst' = [inst EXCEPT ![s].key = minted + 1, ![s].grace = inst[s].key]
            /\ installed' = [installed EXCEPT ![s] = Append(@, minted + 1)]
            /\ minted' = minted + 1
       ELSE UNCHANGED <<inst, installed, minted>>
    /\ Return(r)
    /\ UNCHANGED <<dom, dns, worker, bounds, proven, confirmed>>

\* DeleteInstance: by id.
DeleteInstance(r) ==
    /\ req[r].pc = "delete"
    /\ LET s == req[r].name IN
       IF inst[s].id = req[r].id
       THEN /\ inst' = [inst EXCEPT ![s] = NoInst]
            /\ installed' = [installed EXCEPT ![s] = <<>>]
       ELSE UNCHANGED <<inst, installed>>
    /\ Return(r)
    /\ UNCHANGED <<dom, minted, dns, worker, bounds, proven, confirmed>>

-----------------------------------------------------------------------------
(***************************************************************************)
(* Domains.                                                                 *)
(***************************************************************************)

\* A row as a check reads it.
Snapshot(h) == [host |-> h, id |-> dom[h].id, status |-> dom[h].status, cert |-> dom[h].cert]

\* What a lookup made now tells about the row with this id.
Published(h, i) == i \in dns[h].txt

\* Books of a lookup: seen is whether it found the record.
Looked(h, i, seen) ==
    /\ proven' = IF seen THEN proven \union {i} ELSE proven
    /\ confirmed' = IF ~seen /\ dom[h].id = i THEN confirmed \ {h} ELSE confirmed
    /\ UNCHANGED installed

\* Mutant of SetDomainStatus: by name, so that a check of a deleted row reaches its successor.
SetDomainStatusByName(s, status, cert) ==
    dom' = IF dom[s.host].id # 0
           THEN [dom EXCEPT ![s.host] = [@ EXCEPT !.status = status, !.cert = cert, !.recent = TRUE]]
           ELSE dom

\* Mutant of SetDomainStatus: an upsert, so that a check brings back a deleted row.
SetDomainStatusUpsert(s, status, cert) ==
    dom' = IF dom[s.host].id \in {0, s.id}
           THEN [dom EXCEPT ![s.host] = [@ EXCEPT !.status = status, !.cert = cert, !.recent = TRUE]]
           ELSE dom

\* SetDomainStatus: by id, whatever the status is now.
SetDomainStatus(s, status, cert) ==
    dom' = IF dom[s.host].id = s.id
           THEN [dom EXCEPT ![s.host] = [@ EXCEPT !.status = status, !.cert = cert, !.recent = TRUE]]
           ELSE dom

\* handleVerifyDomain: DomainByID.
VerifyRead(r, h) ==
    /\ dom[h].id # 0
    /\ Start(r, [pc |-> "lookup", row |-> Snapshot(h)])
    /\ UNCHANGED <<tables, dns, worker, history>>

\* What both lookups of a request said.
Answered(r, seen, routed) ==
    /\ req[r].pc = "lookup"
    /\ req' = [req EXCEPT ![r] = [pc |-> "verify", row |-> req[r].row, seen |-> seen,
                                  routed |-> routed]]
    /\ Looked(req[r].row.host, req[r].row.id, seen)

\* checkDomainTXT and checkDomainCNAME.
VerifyLookup(r) ==
    /\ req[r].pc = "lookup"
    /\ LET s == req[r].row IN Answered(r, Published(s.host, s.id), dns[s.host].cname)
    /\ UNCHANGED <<tables, dns, worker, bounds>>

\* A failing resolver is taken for a missing record.
VerifyLookupFails(r) ==
    /\ Fault
    /\ Answered(r, FALSE, FALSE)
    /\ UNCHANGED <<tables, dns, worker>>

\* Another check of the row in h will write something else than verified: the worker listed it
\* with another status, or a lookup has already missed its record.
OlderFinding(h, r) ==
    LET Of(s) == s.host = h /\ s.id = dom[h].id IN
    \/ \E s \in batch : Of(s) /\ s.status # "verified"
    \/ cur # Idle /\ Of(cur.row) /\ (cur.row.status # "verified" \/ ~cur.seen)
    \/ \E q \in Requests \ {r} : req[q].pc = "verify" /\ Of(req[q].row) /\ ~req[q].seen

\* SetDomainStatus with the outcome.
VerifyWrite(r) ==
    /\ req[r].pc = "verify"
    /\ LET s == req[r].row
           status == IF req[r].seen THEN "verified" ELSE "failed" IN
       /\ SetDomainStatus(s, status, IF req[r].seen /\ req[r].routed THEN "pending" ELSE "none")
       /\ confirmed' = IF /\ req[r].seen /\ dom[s.host].id = s.id
                          /\ ~OlderFinding(s.host, r)
                       THEN confirmed \union {s.host} ELSE confirmed
    /\ Return(r)
    /\ UNCHANGED <<inst, minted, dns, worker, bounds, installed, proven>>

\* handleDeleteDomain.
DeleteDomain(h) ==
    /\ dom[h].id # 0 /\ issued < MaxRequests
    /\ dom' = [dom EXCEPT ![h] = NoDom]
    /\ issued' = issued + 1
    /\ confirmed' = confirmed \ {h}
    /\ UNCHANGED <<inst, minted, dns, req, worker, changes, faults, installed, proven>>

\* recheckDomains: DomainsToRecheck, at a tick of the loop.
RecheckList ==
    /\ batch = {} /\ cur = Idle
    /\ batch' = {Snapshot(h) : h \in {g \in Hosts : /\ dom[g].status \in {"verified", "pending"}
                                                    /\ ~dom[g].recent}}
    /\ batch' # {}
    /\ UNCHANGED <<tables, dns, req, cur, bounds, history>>

\* txtRecordPresent.
RecheckLookup(s) ==
    /\ s \in batch /\ cur = Idle
    /\ batch' = batch \ {s}
    /\ cur' = [pc |-> "write", row |-> s, seen |-> Published(s.host, s.id)]
    /\ Looked(s.host, s.id, Published(s.host, s.id))
    /\ UNCHANGED <<tables, dns, req, bounds>>

\* The same in the worker.
LookupFails(s) ==
    /\ Fault
    /\ s \in batch /\ cur = Idle
    /\ batch' = batch \ {s}
    /\ cur' = [pc |-> "write", row |-> s, seen |-> FALSE]
    /\ Looked(s.host, s.id, FALSE)
    /\ UNCHANGED <<tables, dns, req>>

\* Mutant of RecheckWrite: a record that is there makes a verified domain pending again.
RecheckWritePending ==
    /\ cur # Idle
    /\ SetDomainStatus(cur.row, IF cur.seen THEN "pending" ELSE "failed", "none")
    /\ cur' = Idle
    /\ UNCHANGED <<inst, minted, dns, req, batch, bounds, history>>

\* Mutant of RecheckWrite: a missing record only refreshes last_checked_at.
RecheckWriteKeeps ==
    /\ cur # Idle
    /\ SetDomainStatus(cur.row, cur.row.status, cur.row.cert)
    /\ cur' = Idle
    /\ UNCHANGED <<inst, minted, dns, req, batch, bounds, history>>

\* The status that was listed is written back, or the domain is reverted to failed.
RecheckWrite ==
    /\ cur # Idle
    /\ LET s == cur.row IN
       IF cur.seen THEN SetDomainStatus(s, s.status, s.cert)
                   ELSE SetDomainStatus(s, "failed", "none")
    /\ cur' = Idle
    /\ UNCHANGED <<inst, minted, dns, req, batch, bounds, history>>

\* An ignored error of SetDomainStatus in the worker.
RecheckLost ==
    /\ Fault
    /\ cur # Idle
    /\ cur' = Idle
    /\ UNCHANGED <<tables, dns, req, batch, history>>

\* An error that a handler returns or ignores, a cancelled request or a restart.
RequestDies(r) ==
    /\ Fault
    /\ req[r] # Idle
    /\ Return(r)
    /\ UNCHANGED <<tables, dns, worker, history>>

\* The owner of a host publishes the record of a row, or withdraws it, and routes the host.
ChangeDns(h) ==
    /\ changes < MaxChanges /\ changes' = changes + 1
    /\ dns' \in {[dns EXCEPT ![h] = d] : d \in [txt : {{}, dns[h].txt \union ({dom[h].id} \ {0})}, cname : BOOLEAN]}
    /\ dns' # dns
    /\ UNCHANGED <<tables, req, worker, issued, faults, history>>

\* Twelve hours pass since the last check.
Ages(h) ==
    /\ dom[h].recent
    /\ dom' = [dom EXCEPT ![h].recent = FALSE]
    /\ UNCHANGED <<inst, minted, dns, req, worker, bounds, history>>

Recheck == RecheckList \/ RecheckWrite \/ \E s \in batch : RecheckLookup(s)

Handle(r) == \/ CreateInsert(r) \/ RotateCredentials(r) \/ DeleteInstance(r)
             \/ VerifyLookup(r) \/ VerifyWrite(r)

Next ==
    \/ \E r \in Requests :
         \/ \E s \in Subdomains :
              \/ CreateInstance(r, s)
              \/ \E pc \in {"rotate", "delete"} : LoadInstance(r, s, pc)
         \/ \E h \in Hosts : CreateDomain(r, h) \/ VerifyRead(r, h)
         \/ Handle(r) \/ VerifyLookupFails(r) \/ RequestDies(r)
    \/ \E h \in Hosts : DeleteDomain(h) \/ ChangeDns(h) \/ Ages(h)
    \/ Recheck \/ RecheckLost \/ \E s \in batch : LookupFails(s)

Spec == Init /\ [][Next]_vars

\* The recheck loop ticks for ever, time passes and handlers run to their end; users, DNS and
\* failures owe nothing.
FairSpec == /\ Spec
            /\ WF_vars(Recheck)
            /\ \A h \in Hosts : WF_vars(Ages(h))
            /\ \A r \in Requests : WF_vars(Handle(r))

-----------------------------------------------------------------------------
(***************************************************************************)
(* Properties.                                                              *)
(***************************************************************************)
Statuses  == {"none", "pending", "verified", "failed"}
Snapshots == [host : Hosts, id : Nat \ {0}, status : Statuses \ {"none"}, cert : {"none", "pending"}]

\* Every table and every check in flight keeps its shape; a row's status is none only when
\* there is no row.
TypeOK ==
    /\ inst \in [Subdomains -> [id : Nat, key : Nat, grace : Nat]]
    /\ dom \in [Hosts -> [id : Nat, status : Statuses, cert : {"none", "pending"},
                          recent : BOOLEAN]]
    /\ \A h \in Hosts : dom[h].id = 0 <=> dom[h].status = "none"
    /\ \A h \in Hosts : dns[h].txt \subseteq Nat \ {0} /\ dns[h].cname \in BOOLEAN
    /\ req \in [Requests ->
         {Idle} \union [pc : {"insert"}, name : Names]
         \union [pc : {"rotate", "delete"}, name : Subdomains, id : Nat \ {0}]
         \union [pc : {"lookup"}, row : Snapshots]
         \union [pc : {"verify"}, row : Snapshots, seen : BOOLEAN, routed : BOOLEAN]]
    /\ batch \subseteq Snapshots
    /\ cur \in {Idle} \union [pc : {"write"}, row : Snapshots, seen : BOOLEAN]
    /\ minted \in Nat /\ issued \in 0..MaxRequests
    /\ changes \in 0..MaxChanges /\ faults \in 0..MaxFaults

Pending(K) == {r \in Requests : req[r].pc = "insert" /\ req[r].name \in K}

\* CreateInstance and CreateDomain exceed their limit by less than the number of requests
\* that can be between the count and the commit; the room for those already there shrinks
\* with every one of them that commits.
OvershootBounded ==
    \A K \in {Subdomains, Hosts} :
        Pending(K) # {} \/ Rows(K) # {} =>
            Cardinality(Rows(K)) + Cardinality(Pending(K))
                <= LimitOf(K) + Cardinality(Requests) - 1

\* However rotations, deletions and a new instance of the same name interleave, the key
\* installed last is accepted, and beside it at most the one before: an older key, or one of
\* a deleted instance, is never accepted again.  Nothing here asks that the previous key be
\* accepted: apage-spec.md:234 wants it to become invalid after a grace period, but the code
\* has no such period (token_grace_hash has no expiry), and a replaced key stays accepted
\* until the next rotation.
OnlyNewestKeys ==
    \A s \in Subdomains :
        LET k == installed[s]
            n == Len(k) IN
        /\ n > 0 => k[n] \in Accepted(s)
        /\ Accepted(s) \subseteq {k[i] : i \in {n, n - 1} \intersect 1..n}

\* A verified domain's own TXT record was seen: a check that was running when the domain was
\* deleted and added again never verifies the new row.
VerifiedWasProven ==
    \A h \in Hosts : dom[h].status = "verified" => dom[h].id \in proven

\* A domain that was verified by request, while no other check held an older finding of it,
\* stays verified until a lookup misses its record, whatever checks run after it.
VerifiedKept == \A h \in confirmed : dom[h].status = "verified"

\* "reverts domains whose TXT record has disappeared": a record that is gone for good does
\* not leave its domain verified for good.
VanishedReverts ==
    \A h \in Hosts : <>[](~Published(h, dom[h].id)) => []<>(dom[h].status # "verified")
=============================================================================
