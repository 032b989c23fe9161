----------------------------- MODULE Moderation -----------------------------
(***************************************************************************)
(* Freezing and suspension.  A preview link has one hold (frozen_at with    *)
(* frozen_reason).  It is set by freezing the link, by freezing its         *)
(* instance or by suspending the tenant, and the mass operations release    *)
(* only holds that carry their own tag.  Each mass operation is two SQL     *)
(* statements, and an agent creates links concurrently, so one action is    *)
(* one statement.  One tenant.                                              *)
(***************************************************************************)
EXTENDS Integers, FiniteSets

CONSTANTS
    Instances, Links, NoInst,
    Agents,     \* concurrent create-link requests
    Operators,  \* concurrent console and admin requests
    Reasons,    \* free-text reasons of a link freeze
    MaxOps,     \* bound: operator requests
    MaxFaults   \* bound: failing second statements and skipped checks

InstanceFrozen  == "instance_frozen"     \* instanceFrozenReason
TenantSuspended == "tenant_suspended"    \* suspendReason

ASSUME ModerationAssumption ==
    /\ NoInst \notin Instances
    /\ "none" \notin Reasons
    /\ MaxOps \in Nat /\ MaxFaults \in Nat

VARIABLES
    tenant,     \* tenants.status
    inst,       \* agent_instances: active, frozen, or deleted
    link,       \* preview_links: state, instance_id, frozen_reason
    create,     \* handleCreateLink in flight
    op,         \* the second statement a mass operation still owes
    ops, faults

\* History variables, only read by properties.
VARIABLES
    late,       \* links inserted although a hold was in force by then
    lifted,     \* links an operator unfroze by hand
    crossed,    \* links a mass release served while another cause held them
    broken,     \* links a failed statement left without their hold
    abused      \* links whose hold was set by handleFreezeLink

vars == <<tenant, inst, link, create, op, ops, faults, late, lifted, crossed, broken, abused>>

Holds == {"none", InstanceFrozen, TenantSuspended} \cup Reasons

Idle   == [pc |-> "idle", inst |-> NoInst]
NoLink == [state |-> "none", inst |-> NoInst, hold |-> "none"]

Init ==
    /\ tenant = "active" /\ inst = [i \in Instances |-> "active"]
    /\ link = [l \in Links |-> NoLink]
    /\ create = [a \in Agents |-> Idle] /\ op = [o \in Operators |-> Idle]
    /\ ops = 0 /\ faults = 0
    /\ late = {} /\ lifted = {} /\ crossed = {} /\ broken = {} /\ abused = {}

\* A visitor passes the revoked and frozen gates of admitLink.
Servable(k) == k.state = "live" /\ k.hold = "none"

\* A suspension or an instance freeze applies to a link of instance i.
InForce(i) == tenant = "suspended" \/ (i # NoInst /\ inst[i] = "frozen")

-----------------------------------------------------------------------------
\* handleCreateLink: the instance as the API key was verified, then the tenant,
\* then the INSERT, which only needs the instance to exist.
CreateAuth(a) ==
    /\ create[a].pc = "idle"
    /\ \E i \in Instances :
         /\ inst[i] = "active"
         /\ create' = [create EXCEPT ![a] = [pc |-> "tenant", inst |-> i]]
    /\ UNCHANGED <<tenant, inst, link, op, ops, faults, late, lifted, crossed, broken, abused>>

CreateTenant(a) ==
    /\ create[a].pc = "tenant"
    /\ \/ /\ create' = [create EXCEPT ![a] = IF tenant = "suspended" THEN Idle
                                             ELSE [@ EXCEPT !.pc = "insert"]]
          /\ UNCHANGED faults
       \/ /\ faults < MaxFaults /\ faults' = faults + 1   \* the read fails: no check
          /\ create' = [create EXCEPT ![a].pc = "insert"]
    /\ UNCHANGED <<tenant, inst, link, op, ops, late, lifted, crossed, broken, abused>>

CreateInsert(a) ==
    /\ create[a].pc = "insert"
    /\ \E l \in Links :
         /\ link[l].state = "none"
         /\ IF inst[create[a].inst] = "deleted" THEN UNCHANGED <<link, late>>
            ELSE /\ link' = [link EXCEPT ![l] =
                               [state |-> "live", inst |-> create[a].inst, hold |-> "none"]]
                 /\ late' = IF InForce(create[a].inst) THEN late \cup {l} ELSE late
    /\ create' = [create EXCEPT ![a] = Idle]
    /\ UNCHANGED <<tenant, inst, op, ops, faults, lifted, crossed, broken, abused>>

-----------------------------------------------------------------------------
Begin(o, pc, i) ==
    /\ op[o].pc = "idle" /\ ops < MaxOps
    /\ ops' = ops + 1
    /\ op' = [op EXCEPT ![o] = [pc |-> pc, inst |-> i]]

\* An operator request of a single statement.
Single == ops < MaxOps /\ ops' = ops + 1

\* handleRevokeLink, handleFreezeLink, handleUnfreezeLink.  A link is unfrozen
\* whatever its reason was.
RevokeLink(l) ==
    /\ Single /\ link[l].state = "live"
    /\ link' = [link EXCEPT ![l].state = "revoked"]
    /\ UNCHANGED <<tenant, inst, create, op, faults, late, lifted, crossed, broken, abused>>

FreezeLink(l) ==
    /\ Single /\ link[l].state # "none" /\ link[l].hold = "none"
    /\ \E why \in Reasons : link' = [link EXCEPT ![l].hold = why]
    /\ abused' = abused \cup {l}
    /\ UNCHANGED <<tenant, inst, create, op, faults, late, lifted, crossed, broken>>

UnfreezeLink(l) ==
    /\ Single /\ link[l].hold # "none"
    /\ link' = [link EXCEPT ![l].hold = "none"]
    /\ lifted' = lifted \cup {l} /\ abused' = abused \ {l}
    /\ UNCHANGED <<tenant, inst, create, op, faults, late, crossed, broken>>

\* Mutant: the hold is written without its tag.
HoldUntagged(S, tag) ==
    /\ link' = [l \in Links |-> IF l \in S /\ link[l].state # "none" /\ link[l].hold = "none"
                                THEN [link[l] EXCEPT !.hold = ""] ELSE link[l]]
    /\ UNCHANGED <<crossed, abused>>

\* The mass statements: set the tag where there is no hold, or clear the holds
\* that carry it.
Hold(S, tag) ==
    /\ link' = [l \in Links |-> IF l \in S /\ link[l].state # "none" /\ link[l].hold = "none"
                                THEN [link[l] EXCEPT !.hold = tag] ELSE link[l]]
    /\ UNCHANGED <<crossed, abused>>

\* Mutant: every hold is cleared, whoever set it.
ReleaseAll(S, tag) ==
    /\ link' = [l \in Links |-> IF l \in S THEN [link[l] EXCEPT !.hold = "none"] ELSE link[l]]
    /\ UNCHANGED <<crossed, abused>>

Release(S, tag) ==
    LET freed == {l \in S : link[l].hold = tag} IN
    /\ link' = [l \in Links |-> IF l \in freed THEN [link[l] EXCEPT !.hold = "none"] ELSE link[l]]
    /\ crossed' = crossed \cup {l \in freed : InForce(link[l].inst)}
    /\ abused' = abused \ freed

LinksOf(i) == {l \in Links : link[l].state # "none" /\ link[l].inst = i}

\* handleFreezeInstance and handleUnfreezeInstance: the instance row first, and
\* nothing more when it already was in the wanted state (404).
FreezeInstance(o) ==
    /\ \E i \in Instances : inst[i] = "active" /\ inst' = [inst EXCEPT ![i] = "frozen"]
                            /\ Begin(o, "freezeLinks", i)
    /\ UNCHANGED <<tenant, link, create, faults, late, lifted, crossed, broken, abused>>

UnfreezeInstance(o) ==
    /\ \E i \in Instances : inst[i] = "frozen" /\ inst' = [inst EXCEPT ![i] = "active"]
                            /\ Begin(o, "unfreezeLinks", i)
    /\ UNCHANGED <<tenant, link, create, faults, late, lifted, crossed, broken, abused>>

\* Mutant: only the tenant's status is written.
SuspendStatusOnly(o) ==
    /\ op[o].pc = "idle" /\ Single /\ tenant' = "suspended"
    /\ UNCHANGED <<inst, link, create, op, faults, late, lifted, crossed, broken, abused>>

\* handleAdminSuspend and handleAdminRestore: the tenant row first, in any state.
Suspend(o) ==
    /\ tenant' = "suspended" /\ Begin(o, "suspendLinks", NoInst)
    /\ UNCHANGED <<inst, link, create, faults, late, lifted, crossed, broken, abused>>

Restore(o) ==
    /\ tenant' = "active" /\ Begin(o, "restoreLinks", NoInst)
    /\ UNCHANGED <<inst, link, create, faults, late, lifted, crossed, broken, abused>>

\* Their second statement.
SecondStatement(o) ==
    /\ \/ op[o].pc = "freezeLinks"   /\ Hold(LinksOf(op[o].inst), InstanceFrozen)
       \/ op[o].pc = "unfreezeLinks" /\ Release(LinksOf(op[o].inst), InstanceFrozen)
       \/ op[o].pc = "suspendLinks"  /\ Hold(Links, TenantSuspended)
       \/ op[o].pc = "restoreLinks"  /\ Release(Links, TenantSuspended)
    /\ op' = [op EXCEPT ![o] = Idle]
    /\ UNCHANGED <<tenant, inst, create, ops, faults, late, lifted, broken>>

\* It fails, or the process dies before it; the error is ignored.
SecondLost(o) ==
    /\ faults < MaxFaults /\ faults' = faults + 1
    /\ op[o].pc # "idle"
    /\ broken' = broken \cup
         {l \in Links : /\ Servable(link[l])
                        /\ \/ op[o].pc = "suspendLinks"
                           \/ op[o].pc = "freezeLinks" /\ link[l].inst = op[o].inst}
    /\ op' = [op EXCEPT ![o] = Idle]
    /\ UNCHANGED <<tenant, inst, link, create, ops, late, lifted, crossed, abused>>

\* handleDeleteInstance: the row goes, the links stay (ON DELETE SET NULL).
DeleteInstance(i) ==
    /\ Single /\ inst[i] # "deleted"
    /\ inst' = [inst EXCEPT ![i] = "deleted"]
    /\ link' = [l \in Links |-> IF link[l].inst = i THEN [link[l] EXCEPT !.inst = NoInst]
                                ELSE link[l]]
    /\ UNCHANGED <<tenant, create, op, faults, late, lifted, crossed, broken, abused>>

-----------------------------------------------------------------------------
Next ==
    \/ \E a \in Agents : CreateAuth(a) \/ CreateTenant(a) \/ CreateInsert(a)
    \/ \E l \in Links : RevokeLink(l) \/ FreezeLink(l) \/ UnfreezeLink(l)
    \/ \E o \in Operators : \/ FreezeInstance(o) \/ UnfreezeInstance(o)
                            \/ Suspend(o) \/ Restore(o)
                            \/ SecondStatement(o) \/ SecondLost(o)
    \/ \E i \in Instances : DeleteInstance(i)

Spec == Init /\ [][Next]_vars

-----------------------------------------------------------------------------
\* Types of the state.
TypeOK ==
    /\ tenant \in {"active", "suspended"}
    /\ inst \in [Instances -> {"active", "frozen", "deleted"}]
    /\ link \in [Links -> [state : {"none", "live", "revoked"},
                           inst : Instances \cup {NoInst}, hold : Holds]]
    /\ create \in [Agents -> [pc : {"idle", "tenant", "insert"}, inst : Instances \cup {NoInst}]]
    /\ \A a \in Agents : create[a].pc # "idle" => create[a].inst \in Instances
    /\ op \in [Operators -> [pc : {"idle", "freezeLinks", "unfreezeLinks", "suspendLinks",
                                   "restoreLinks"}, inst : Instances \cup {NoInst}]]
    /\ ops \in Nat /\ faults \in Nat
    /\ late \subseteq Links /\ lifted \subseteq Links
    /\ crossed \subseteq Links /\ broken \subseteq Links /\ abused \subseteq Links

\* A mass release whose tag is, by coincidence, the free text of link l's abuse hold.
NamesakeRelease(l) ==
    \E o \in Operators :
        /\ \/ /\ op[o].pc = "unfreezeLinks" /\ link[l].inst = op[o].inst
              /\ link[l].hold = InstanceFrozen
           \/ op[o].pc = "restoreLinks" /\ link[l].hold = TenantSuspended
        /\ SecondStatement(o)

\* The hold that handleFreezeLink set on a link, with any reason, is lifted only by
\* unfreezing that very link: no interleaving of instance freezes, suspensions, deletions
\* and their releases clears it or writes over it.  The one exception is what the code
\* does and its comments (admin.go:307, instances.go:139, moderation.go:99) do not expect:
\* the reason is free text, and a mass release frees a hold whose text equals its own tag.
AbuseHoldKept ==
    [][\A l \in abused :
         link'[l].hold = link[l].hold \/ UnfreezeLink(l) \/ NamesakeRelease(l)]_vars

\* A second statement that will set the holds of link l is still to come.
HoldComing(l) ==
    \E o \in Operators : \/ op[o].pc = "suspendLinks"
                         \/ op[o].pc = "freezeLinks" /\ link[l].inst = op[o].inst

\* While a suspension or an instance freeze is in force every link it applies to
\* is held or about to be, except in the named cases: the link was inserted by a
\* request that had checked before, an operator unfroze it, another mass release
\* freed it, or a statement failed.
HeldWhileInForce ==
    \A l \in Links :
        Servable(link[l]) /\ InForce(link[l].inst) =>
            HoldComing(l) \/ l \in late \cup lifted \cup crossed \cup broken

-----------------------------------------------------------------------------
\* What comments of the repository say and the code does not keep.

Quiet == faults = 0 /\ \A o \in Operators : op[o].pc = "idle"

\* admin.go: restoring a tenant lifts only "the suspension-induced freeze", so the
\* links of a frozen instance stay held if nobody unfroze them by hand.
FrozenInstanceServesNothing ==
    Quiet => \A l \in Links \ (late \cup lifted) :
                 link[l].inst # NoInst /\ inst[link[l].inst] = "frozen" => ~Servable(link[l])
=============================================================================
