-------------------------- MODULE UsageMeter_proofs --------------------------
(***************************************************************************)
(* Metering loses nothing, for any number of keys, servers and faults.      *)
(* Conservation and BufferReachable are inductive given the types;          *)
(* DailyWithinTotal needs DailyRoom, which says that the delta about to be  *)
(* added to the daily rollup is already part of the quota's total.          *)
(***************************************************************************)
EXTENDS UsageMeter, TLAPS

\* The invariant holds initially.
LEMMA InitInv == Init => Inv
  BY KeysAssumption DEF Init, Inv, TypeOK, Conservation, BufferReachable, DailyWithinTotal,
     DailyRoom, InHand, Zero

\* The types are preserved.
LEMMA StepType == TypeOK /\ [Next]_vars => TypeOK'
<1> SUFFICES ASSUME TypeOK, [Next]_vars PROVE TypeOK'
  OBVIOUS
<1> USE KeysAssumption, UsageBounds
<1>1. ASSUME NEW s \in Servers, Incr(s) PROVE TypeOK'
  BY <1>1 DEF TypeOK, Incr, flusher, tables
<1>2. ASSUME NEW s \in Servers, Adder(s) PROVE TypeOK'
  BY <1>2 DEF TypeOK, Adder, Register, flusher, tables
<1>3. ASSUME NEW s \in Servers, RegisterLost(s) PROVE TypeOK'
  BY <1>3 DEF TypeOK, RegisterLost, Fault, flusher, tables
<1>4. CASE Members
  BY <1>4 DEF TypeOK, Members, tables
<1>5. CASE Rem
  BY <1>5 DEF TypeOK, Rem, tables
<1>6. CASE Get
  BY <1>6 DEF TypeOK, Get, NextMember, tables
<1>7. CASE Flush
  BY <1>7 DEF TypeOK, Flush, tables
<1>8. CASE Daily
  BY <1>8 DEF TypeOK, Daily, Fault, tables
<1>9. CASE FlushDone
  BY <1>9 DEF TypeOK, FlushDone, tables
<1>10. CASE RemFails
  BY <1>10 DEF TypeOK, RemFails, Fault, tables
<1>11. CASE GetFails
  BY <1>11 DEF TypeOK, GetFails, Fault, NextMember, tables
<1>12. CASE FlushFails
  BY <1>12 DEF TypeOK, FlushFails, Fault, tables
<1>13. CASE Crash
  BY <1>13 DEF TypeOK, Crash, Fault, Zero, tables
<1>14. CASE UNCHANGED vars
  BY <1>14 DEF TypeOK, vars, flusher, tables
<1> QED
  BY <1>1, <1>2, <1>3, <1>4, <1>5, <1>6, <1>7, <1>8, <1>9, <1>10, <1>11, <1>12, <1>13, <1>14
     DEF Next, Drainer
\* Every step moves bytes from one place to the next.
LEMMA StepConservation == Inv /\ [Next]_vars => Conservation'
<1> SUFFICES ASSUME Inv, [Next]_vars PROVE Conservation'
  OBVIOUS
<1> USE KeysAssumption DEF Inv, TypeOK, Conservation, InHand
<1>1. ASSUME NEW s \in Servers, Incr(s) PROVE Conservation'
  BY <1>1 DEF Incr, flusher, tables
<1>2. ASSUME NEW s \in Servers, Adder(s) PROVE Conservation'
  BY <1>2 DEF Adder, Register, flusher, tables
<1>3. ASSUME NEW s \in Servers, RegisterLost(s) PROVE Conservation'
  BY <1>3 DEF RegisterLost, flusher, tables
<1>4. CASE Members
  BY <1>4 DEF Members, flusher, tables
<1>5. CASE Rem
  BY <1>5 DEF Rem, flusher, tables
<1>6. CASE Get
  BY <1>6 DEF Get, NextMember, flusher, tables
<1>7. CASE Flush
  BY <1>7 DEF Flush, flusher, tables
<1>8. CASE Daily
  BY <1>8 DEF Daily, flusher, tables
<1>9. CASE FlushDone
  BY <1>9 DEF FlushDone, flusher, tables
<1>10. CASE RemFails
  BY <1>10 DEF RemFails, flusher, tables
<1>11. CASE GetFails
  BY <1>11 DEF GetFails, NextMember, flusher, tables
<1>12. CASE FlushFails
  BY <1>12 DEF FlushFails, flusher, tables
<1>13. CASE Crash
  BY <1>13 DEF Crash, Zero, flusher, tables
<1>14. CASE UNCHANGED vars
  BY <1>14 DEF vars, flusher, tables
<1> QED
  BY <1>1, <1>2, <1>3, <1>4, <1>5, <1>6, <1>7, <1>8, <1>9, <1>10, <1>11, <1>12, <1>13, <1>14
     DEF Next, Drainer

\* No step hides a counter that still holds bytes.
LEMMA StepReachable == Inv /\ [Next]_vars => BufferReachable'
<1> SUFFICES ASSUME Inv, [Next]_vars PROVE BufferReachable'
  OBVIOUS
<1> USE KeysAssumption DEF Inv, TypeOK, BufferReachable
<1>1. ASSUME NEW s \in Servers, Incr(s) PROVE BufferReachable'
  BY <1>1 DEF Incr, flusher, tables
<1>2. ASSUME NEW s \in Servers, Adder(s) PROVE BufferReachable'
  BY <1>2 DEF Adder, Register, flusher, tables
<1>3. ASSUME NEW s \in Servers, RegisterLost(s) PROVE BufferReachable'
  BY <1>3 DEF RegisterLost, flusher, tables
<1>4. CASE Members
  BY <1>4 DEF Members, flusher, tables
<1>5. CASE Rem
  BY <1>5 DEF Rem, flusher, tables
<1>6. CASE Get
  BY <1>6 DEF Get, NextMember, flusher, tables
<1>7. CASE Flush
  BY <1>7 DEF Flush, flusher, tables
<1>8. CASE Daily
  BY <1>8 DEF Daily, flusher, tables
<1>9. CASE FlushDone
  BY <1>9 DEF FlushDone, flusher, tables
<1>10. CASE RemFails
  BY <1>10 DEF RemFails, flusher, tables
<1>11. CASE GetFails
  BY <1>11 DEF GetFails, NextMember, flusher, tables
<1>12. CASE FlushFails
  BY <1>12 DEF FlushFails, flusher, tables
<1>13. CASE Crash
  BY <1>13 DEF Crash, Zero, flusher, tables
<1>14. CASE UNCHANGED vars
  BY <1>14 DEF vars, flusher, tables
<1> QED
  BY <1>1, <1>2, <1>3, <1>4, <1>5, <1>6, <1>7, <1>8, <1>9, <1>10, <1>11, <1>12, <1>13, <1>14
     DEF Next, Drainer

\* The rollup follows the total.
LEMMA StepDaily == Inv /\ [Next]_vars => (DailyWithinTotal /\ DailyRoom)'
<1> SUFFICES ASSUME Inv, [Next]_vars PROVE (DailyWithinTotal /\ DailyRoom)'
  OBVIOUS
<1> USE KeysAssumption DEF Inv, TypeOK, DailyWithinTotal, DailyRoom
<1>1. ASSUME NEW s \in Servers, Incr(s) PROVE (DailyWithinTotal /\ DailyRoom)'
  BY <1>1 DEF Incr, flusher, tables
<1>2. ASSUME NEW s \in Servers, Adder(s) PROVE (DailyWithinTotal /\ DailyRoom)'
  BY <1>2 DEF Adder, Register, flusher, tables
<1>3. ASSUME NEW s \in Servers, RegisterLost(s) PROVE (DailyWithinTotal /\ DailyRoom)'
  BY <1>3 DEF RegisterLost, flusher, tables
<1>4. CASE Members
  BY <1>4 DEF Members, flusher, tables
<1>5. CASE Rem
  BY <1>5 DEF Rem, flusher, tables
<1>6. CASE Get
  BY <1>6 DEF Get, NextMember, flusher, tables
<1>7. CASE Flush
  BY <1>7 DEF Flush, flusher, tables
<1>8. CASE Daily
  BY <1>8 DEF Daily, flusher, tables
<1>9. CASE FlushDone
  BY <1>9 DEF FlushDone, flusher, tables
<1>10. CASE RemFails
  BY <1>10 DEF RemFails, flusher, tables
<1>11. CASE GetFails
  BY <1>11 DEF GetFails, NextMember, flusher, tables
<1>12. CASE FlushFails
  BY <1>12 DEF FlushFails, flusher, tables
<1>13. CASE Crash
  BY <1>13 DEF Crash, Zero, flusher, tables
<1>14. CASE UNCHANGED vars
  BY <1>14 DEF vars, flusher, tables
<1> QED
  BY <1>1, <1>2, <1>3, <1>4, <1>5, <1>6, <1>7, <1>8, <1>9, <1>10, <1>11, <1>12, <1>13, <1>14
     DEF Next, Drainer

\* The invariant holds in every reachable state.
LEMMA Invariance == Spec => []Inv
<1>1. Inv /\ [Next]_vars => Inv'
  BY StepType, StepConservation, StepReachable, StepDaily DEF Inv
<1> QED
  BY InitInv, <1>1, PTL DEF Spec

\* For any set of keys and servers, any interleaving of metering requests with
\* the drain and any failures, every variable keeps its type: in particular the
\* drain holds a buffer only while it has a key to write it to.
THEOREM UsageTypeCorrect == Spec => []TypeOK
<1>1. Inv => TypeOK
  BY DEF Inv
<1> QED
  BY Invariance, <1>1, PTL

\* No byte is counted twice and none disappears: every byte metered is buffered,
\* flushed, in the drain's hands, or lost to one of the failures that lose it.
THEOREM EveryByteAccounted == Spec => []Conservation
<1>1. Inv => Conservation
  BY DEF Inv
<1> QED
  BY Invariance, <1>1, PTL

\* A filled buffer is registered for the drain, about to be, or known to be stranded.
THEOREM BuffersStayReachable == Spec => []BufferReachable
<1>1. Inv => BufferReachable
  BY DEF Inv
<1> QED
  BY Invariance, <1>1, PTL

\* The daily rollup never passes the total the quota reads, though the two are
\* written by separate statements.
THEOREM DailyFollowsTotal == Spec => []DailyWithinTotal
<1>1. Inv => DailyWithinTotal
  BY DEF Inv
<1> QED
  BY Invariance, <1>1, PTL
=============================================================================
