----------------------------- MODULE UsageMeter -----------------------------
(***************************************************************************)
(* Egress metering.  Serving bytes adds them to a Redis buffer (INCRBY) and *)
(* registers the buffer's key (SADD); once a minute the worker drains the   *)
(* registered buffers (SMEMBERS, then SREM and GETDEL for each) and adds    *)
(* what it took to the quotas and usage_daily tables.  One action is one    *)
(* Redis or SQL call; a key stands for a tenant with a dimension.           *)
(***************************************************************************)
EXTENDS Integers, FiniteSets

CONSTANTS
    Keys,       \* tenant|dimension pairs
    NoKey,
    Servers,    \* requests that may be metering at the same time
    MaxBytes,   \* bound: bytes served by one request
    MaxServed,  \* bound: metered requests
    MaxFaults   \* bound: failed calls and crashes

ASSUME KeysAssumption == NoKey \notin Keys
ASSUME UsageBounds == MaxBytes \in Nat /\ MaxServed \in Nat /\ MaxFaults \in Nat

VARIABLES
    buf,        \* usagebuf:<key>; 0 when the key does not exist
    members,    \* the set usagebuf:keys
    add,        \* AddUsage in flight: the key still to be registered, or NoKey
    pc,         \* where flushUsage is
    todo,       \* members the drain has not handled
    cur,        \* the member it is handling
    taken,      \* deltas returned by GETDEL and not yet applied
    total,      \* quotas.cloud_egress_used
    daily,      \* usage_daily.cloud_egress, all days together
    served, faults

\* History variables, only read by properties.
VARIABLES
    metered,    \* bytes ever added to the buffer
    lost,       \* bytes taken from the buffer and never applied
    stranded    \* keys whose registration a fault lost

flusher == <<pc, todo, cur, taken>>
tables  == <<total, daily>>
vars == <<buf, members, add, flusher, tables, served, faults, metered, lost, stranded>>

Zero == [k \in Keys |-> 0]

Init ==
    /\ buf = Zero /\ members = {} /\ add = [s \in Servers |-> NoKey]
    /\ pc = "idle" /\ todo = {} /\ cur = NoKey /\ taken = Zero
    /\ total = Zero /\ daily = Zero
    /\ served = 0 /\ faults = 0
    /\ metered = Zero /\ lost = Zero /\ stranded = {}

Fault == faults < MaxFaults /\ faults' = faults + 1

-----------------------------------------------------------------------------
\* Mutant: the bytes are those of a Content-Length, which is -1 when it is unknown.
IncrDeclared(s) ==
    /\ add[s] = NoKey /\ served < MaxServed
    /\ served' = served + 1
    /\ \E k \in Keys, n \in {-1} \cup (1..MaxBytes) :
         /\ buf' = [buf EXCEPT ![k] = @ + n]
         /\ metered' = [metered EXCEPT ![k] = @ + n]
         /\ add' = [add EXCEPT ![s] = k]
    /\ UNCHANGED <<members, flusher, tables, faults, lost, stranded>>

\* meterEgress -> redisx.AddUsage: INCRBY, then SADD.  The writer counts what it wrote,
\* and nothing is done when that is nothing.
Incr(s) ==
    /\ add[s] = NoKey /\ served < MaxServed
    /\ served' = served + 1
    /\ \E k \in Keys, n \in 1..MaxBytes :
         /\ buf' = [buf EXCEPT ![k] = @ + n]
         /\ metered' = [metered EXCEPT ![k] = @ + n]
         /\ add' = [add EXCEPT ![s] = k]
    /\ UNCHANGED <<members, flusher, tables, faults, lost, stranded>>

Register(s) ==
    /\ add[s] # NoKey
    /\ members' = members \cup {add[s]}
    /\ add' = [add EXCEPT ![s] = NoKey]
    /\ UNCHANGED <<buf, flusher, tables, served, faults, metered, lost, stranded>>

\* The SADD fails or the API process dies before it.
RegisterLost(s) ==
    /\ Fault /\ add[s] # NoKey
    /\ stranded' = stranded \cup {add[s]}
    /\ add' = [add EXCEPT ![s] = NoKey]
    /\ UNCHANGED <<buf, members, flusher, tables, served, metered, lost>>

-----------------------------------------------------------------------------
\* DrainUsage.
Members ==
    /\ pc = "idle" /\ members # {}
    /\ todo' = members /\ pc' = "rem"
    /\ UNCHANGED <<buf, members, add, cur, taken, tables, served, faults, metered, lost, stranded>>

\* Where the loop goes once the member in hand is done.
NextMember(left) ==
    /\ cur' = NoKey /\ todo' = left
    /\ pc' = IF left = {} THEN "flush" ELSE "rem"

\* Mutant: the whole set of keys is dropped instead of the one in hand.
RemAll ==
    /\ pc = "rem"
    /\ members' = {}
    /\ \E k \in todo : cur' = k /\ pc' = "get"
    /\ UNCHANGED <<buf, todo, taken, add, tables, served, faults, metered, lost, stranded>>

\* The key is unregistered before its counter is taken.
Rem ==
    /\ pc = "rem"
    /\ \E k \in todo :
         /\ members' = members \ {k}
         /\ cur' = k /\ pc' = "get"
    /\ UNCHANGED <<buf, todo, taken, add, tables, served, faults, metered, lost, stranded>>

\* The SREM fails; its error is ignored.
RemFails ==
    /\ Fault /\ pc = "rem"
    /\ \E k \in todo : cur' = k /\ pc' = "get"
    /\ UNCHANGED <<buf, members, todo, taken, add, tables, served, metered, lost, stranded>>

\* Mutant: the counter is read but not deleted.
GetOnly ==
    /\ pc = "get"
    /\ taken' = [taken EXCEPT ![cur] = @ + buf[cur]]
    /\ NextMember(todo \ {cur})
    /\ UNCHANGED <<buf, members, add, tables, served, faults, metered, lost, stranded>>

\* GETDEL: a missing or zero counter adds nothing.
Get ==
    /\ pc = "get"
    /\ taken' = [taken EXCEPT ![cur] = @ + buf[cur]]
    /\ buf' = [buf EXCEPT ![cur] = 0]
    /\ NextMember(todo \ {cur})
    /\ UNCHANGED <<members, add, tables, served, faults, metered, lost, stranded>>

GetFails ==
    /\ Fault /\ pc = "get"
    /\ stranded' = stranded \cup {cur}
    /\ NextMember(todo \ {cur})
    /\ UNCHANGED <<buf, members, add, taken, tables, served, metered, lost>>

-----------------------------------------------------------------------------
\* flushUsage: each delta goes to quotas and then to usage_daily.
Flush ==
    /\ pc = "flush"
    /\ \E k \in Keys :
         /\ taken[k] > 0
         /\ total' = [total EXCEPT ![k] = @ + taken[k]]
         /\ cur' = k /\ pc' = "daily"
    /\ UNCHANGED <<buf, members, todo, taken, add, daily, served, faults, metered, lost, stranded>>

\* Mutant: a failed delta still reaches the daily rollup.
FlushFailsIntoDaily ==
    /\ Fault /\ pc = "flush"
    /\ \E k \in Keys :
         /\ taken[k] > 0
         /\ lost' = [lost EXCEPT ![k] = @ + taken[k]]
         /\ daily' = [daily EXCEPT ![k] = @ + taken[k]]
         /\ taken' = [taken EXCEPT ![k] = 0]
    /\ UNCHANGED <<buf, members, add, pc, todo, cur, total, served, metered, stranded>>

\* An AddUsage that fails is logged and the delta skipped.
FlushFails ==
    /\ Fault /\ pc = "flush"
    /\ \E k \in Keys :
         /\ taken[k] > 0
         /\ lost' = [lost EXCEPT ![k] = @ + taken[k]]
         /\ taken' = [taken EXCEPT ![k] = 0]
    /\ UNCHANGED <<buf, members, add, pc, todo, cur, tables, served, metered, stranded>>

\* AddUsageDaily is best effort.
Daily ==
    /\ pc = "daily"
    /\ \/ daily' = [daily EXCEPT ![cur] = @ + taken[cur]] /\ UNCHANGED faults
       \/ Fault /\ UNCHANGED daily
    /\ taken' = [taken EXCEPT ![cur] = 0]
    /\ cur' = NoKey /\ pc' = "flush"
    /\ UNCHANGED <<buf, members, todo, add, total, served, metered, lost, stranded>>

FlushDone ==
    /\ pc = "flush" /\ \A k \in Keys : taken[k] = 0
    /\ pc' = "idle"
    /\ UNCHANGED <<buf, members, todo, cur, taken, add, tables, served, faults, metered, lost, stranded>>

\* The worker stops: what it took is only in its memory.
Crash ==
    /\ Fault /\ pc # "idle"
    /\ lost' = [k \in Keys |-> IF pc = "daily" /\ k = cur THEN lost[k] ELSE lost[k] + taken[k]]
    /\ stranded' = IF pc = "get" THEN stranded \cup {cur} ELSE stranded
    /\ pc' = "idle" /\ todo' = {} /\ cur' = NoKey /\ taken' = Zero
    /\ UNCHANGED <<buf, members, add, tables, served, metered>>

-----------------------------------------------------------------------------
Adder(s) == Register(s)
Drainer  == Members \/ Rem \/ Get \/ Flush \/ Daily \/ FlushDone

Next ==
    \/ \E s \in Servers : Incr(s) \/ Adder(s) \/ RegisterLost(s)
    \/ Drainer \/ RemFails \/ GetFails \/ FlushFails \/ Crash

Spec == Init /\ [][Next]_vars

\* A request that has counted its bytes goes on to register them, and the
\* worker's ticker never stops.
FairSpec == Spec /\ (\A s \in Servers : WF_vars(Adder(s))) /\ WF_vars(Drainer)

-----------------------------------------------------------------------------
\* Types of the state: no buffer, delta or table is ever negative, and the drain applies a
\* delta only to a key it has in hand.
TypeOK ==
    /\ buf \in [Keys -> Nat] /\ members \subseteq Keys
    /\ add \in [Servers -> Keys \cup {NoKey}]
    /\ pc \in {"idle", "rem", "get", "flush", "daily"}
    /\ todo \subseteq Keys /\ cur \in Keys \cup {NoKey}
    /\ pc \in {"get", "daily"} => cur \in Keys
    /\ taken \in [Keys -> Nat]
    /\ total \in [Keys -> Nat] /\ daily \in [Keys -> Nat]
    /\ served \in Nat /\ faults \in Nat
    /\ metered \in [Keys -> Nat] /\ lost \in [Keys -> Nat] /\ stranded \subseteq Keys

\* In the worker's hands and not yet in quotas.
InHand(k) == IF pc = "daily" /\ cur = k THEN 0 ELSE taken[k]

\* No byte is counted twice and none disappears unnoticed: what was metered is
\* in the buffer, in the worker's hands, in quotas, or was dropped by a fault.
Conservation ==
    \A k \in Keys : metered[k] = buf[k] + InHand(k) + total[k] + lost[k]

\* No counter is left behind: bytes in a buffer are registered, about to be, or
\* about to be taken; only a fault between the two calls can strand them.
BufferReachable ==
    \A k \in Keys :
        buf[k] > 0 => \/ k \in members \cup stranded
                      \/ \E s \in Servers : add[s] = k
                      \/ pc = "get" /\ cur = k

\* The daily rollup never shows more than the quota was charged.
DailyWithinTotal == \A k \in Keys : daily[k] <= total[k]

\* The delta about to be added to the rollup is already in the total.
DailyRoom == pc = "daily" => daily[cur] + taken[cur] <= total[cur]

\* The inductive invariant of UsageMeter_proofs.
Inv == TypeOK /\ Conservation /\ BufferReachable /\ DailyWithinTotal /\ DailyRoom

\* Under fairness everything metered reaches quotas or a fault took it.
EventuallyFlushed ==
    \A k \in Keys : <>[](metered[k] = total[k] + lost[k] \/ k \in stranded)

=============================================================================
