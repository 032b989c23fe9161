--------------------------- MODULE AgentFlow_proofs ---------------------------
(***************************************************************************)
(* The agent's tools, for any number of agents, files, keys, polls, broken  *)
(* connections and faults. Two arguments carry the proofs: whoever got hold *)
(* of a file presigned with the key it was made under, and a call that made *)
(* a link has its answer in the cache, or on the way there.                 *)
(***************************************************************************)
EXTENDS AgentFlow, TLAPS

-----------------------------------------------------------------------------
(***************************************************************************)
(* Requests, tools and cached answers by their shape.                       *)
(***************************************************************************)
Pcs == {"get", "run", "insert", "set", "answer"}
Attempts == [pc : Pcs, op : Ops, key : Keys \union {None},
             body : Bodies \union {None}, file : Files \union {None}, link : Nat \union {None},
             res : Answers, call : Calls]
AgentRecs == [pc : Ops \union {"idle", "put", "poll", "done", "failed"},
              tool : {"create", "update"}, call : Calls, file : Files \union {None},
              link : Nat \union {None}, polls : 0..MaxPolls]

Resting == {"idle", "done", "failed"}
Early   == {"presign", "put", "complete", "poll"}

\* What an attempt may say at each of its stages.
WellFormed(q) ==
    /\ q.call \in 1..calls
    /\ q.op \in Wrapped => q.key \in Keys
    /\ q.op = "update" => q.link \in 1..Len(links)
    /\ q.op \in {"complete", "create", "update"} => q.file \in Files /\ content[q.file] # 0
    /\ q.pc = "get" => q.op \in Wrapped
    /\ q.pc = "insert" => q.op \in {"create", "update"}
    /\ q.pc = "set" => q.op \in Wrapped /\ q.res # None
    /\ q.op = "presign" => q.res \in Files \union {None} /\ drawn[q.key] # 0
    /\ q.op = "create" => q.res \in 1..Len(links) \union {None}

\* What a tool call has at each of its stages.
Staged(g) ==
    /\ g.call <= calls
    /\ g.pc \notin Resting => g.call >= 1
    /\ g.tool = "update" => g.link \in 1..Len(links)
    /\ g.pc \in {"put", "complete", "poll", "create", "update"} => g.file \in Files
    /\ g.pc \in {"complete", "poll", "create", "update"} => content[g.file] # 0
    /\ g.pc \in {"create", "update"} => g.pc = g.tool

\* A tool that waits for an answer has its request out, and no other tool has.
Asking(a) ==
    /\ agent[a].pc \in Ops <=> att[Cur(a)] # Unanswered
    /\ agent[a].pc \in Ops =>
         /\ att[Cur(a)].op = agent[a].pc /\ att[Cur(a)].call = agent[a].call
         /\ agent[a].pc # "presign" => att[Cur(a)].file = agent[a].file

\* What a cached answer was stored for.
EntryOK(o, k) ==
    LET e == cache[o][k] IN
    e # None =>
      /\ e \in Entries
      /\ o = "presign" => e.res \in Files /\ drawn[k] # 0
      /\ o = "create" => e.res \in 1..Len(links)

Typed ==
    /\ state \in [Files -> Service!Phases] /\ revived \subseteq Files
    /\ content \in [Files -> Calls]
    /\ links \in Seq([file : Files, call : Calls])
    /\ cache \in [Wrapped -> [Keys -> Entries \union {None}]]
    /\ agent \in [Agents -> AgentRecs]
    /\ att \in [Slots -> Attempts \union {Unanswered}]
    /\ calls \in Calls
    /\ drawn \in [Keys -> Calls]
    /\ \A x \in Slots : att[x] # Unanswered => WellFormed(att[x])
    /\ \A a \in Agents : Staged(agent[a]) /\ Asking(a)
    /\ \A o \in Wrapped, k \in Keys : EntryOK(o, k)

LEMMA SlotFacts ==
  /\ \A a \in Agents : Cur(a) \in Slots /\ Orphan(a) \in Slots /\ Cur(a) # Orphan(a)
  /\ \A a, b \in Agents : Cur(a) # Orphan(b) /\ (Cur(a) = Cur(b) => a = b)
                          /\ (Orphan(a) = Orphan(b) => a = b)
  /\ \A x \in Slots : \E a \in Agents : x = Cur(a) \/ x = Orphan(a)
BY DEF Slots, Cur, Orphan

LEMMA Consts ==
  /\ None \notin Files /\ None \notin Nat /\ None \notin Keys
  /\ None \notin Entries
  /\ MaxCalls \in Nat /\ MaxPolls \in Nat /\ Calls \subseteq Nat /\ 0 \in Calls
BY AgentAssumption DEF Calls, Entries

\* An attempt is told from none by its pc.
LEMMA AttShape ==
  ASSUME NEW q \in Attempts \union {Unanswered}
  PROVE  /\ q # Unanswered <=> q \in Attempts
         /\ q # Unanswered <=> q.pc # "none"
         /\ Unanswered.pc = "none"
BY DEF Attempts, Pcs, Unanswered

\* What changing its pc and its answer leaves of an attempt.
Kept(w, q) == /\ w \in Attempts
              /\ w.op = q.op /\ w.key = q.key /\ w.body = q.body /\ w.file = q.file
              /\ w.link = q.link /\ w.call = q.call

\* An attempt moved to p, and the table of attempts with that; with a new answer v, too.
At(q, p)            == [q EXCEPT !.pc = p]
AtWith(q, p, v)     == [q EXCEPT !.pc = p, !.res = v]
TableAt(x, p)       == [att EXCEPT ![x].pc = p]
TableWith(x, p, v)  == [att EXCEPT ![x].pc = p, ![x].res = v]

LEMMA AttUpdate ==
  ASSUME NEW q \in Attempts, NEW p \in Pcs
  PROVE  /\ At(q, p) \in Attempts /\ Kept(At(q, p), q) /\ At(q, p).pc = p /\ At(q, p).res = q.res
BY DEF Attempts, Pcs, Kept, At

LEMMA AttUpdateWith ==
  ASSUME NEW q \in Attempts, NEW p \in Pcs,
         NEW v \in Answers
  PROVE  /\ AtWith(q, p, v) \in Attempts /\ Kept(AtWith(q, p, v), q)
         /\ AtWith(q, p, v).pc = p /\ AtWith(q, p, v).res = v
BY DEF Attempts, Pcs, Kept, AtWith

LEMMA TableUpdate ==
  ASSUME att \in [Slots -> Attempts \union {Unanswered}], NEW x \in Slots, NEW p, NEW v
  PROVE  /\ TableAt(x, p) = [att EXCEPT ![x] = At(att[x], p)]
         /\ TableWith(x, p, v) = [att EXCEPT ![x] = AtWith(att[x], p, v)]
BY DEF TableAt, TableWith, At, AtWith

-----------------------------------------------------------------------------
(***************************************************************************)
(* What each step of the server does to the attempt it works on.            *)
(***************************************************************************)

Becomes(x, w) == att' = [att EXCEPT ![x] = w]

\* Attempt x is at p and becomes w, of the same request.
Moves(x, p, w) == /\ att[x] \in Attempts /\ att[x].pc = p
                  /\ Kept(w, att[x])
                  /\ Becomes(x, w)

\* What no step of the server touches.
Aside == UNCHANGED <<content, agent, calls, drawn, answered, collided>>

LEMMA MovePc ==
  ASSUME Typed, NEW x \in Slots, NEW p \in Pcs,
         NEW s, att[x].pc = s, s # "none"
  PROVE  /\ att[x] \in Attempts
         /\ att' = TableAt(x, p) =>
              \E w \in Attempts : Moves(x, s, w) /\ w.pc = p /\ w.res = att[x].res
         /\ \A v \in Answers : att' = TableWith(x, p, v) =>
              \E w \in Attempts : Moves(x, s, w) /\ w.pc = p /\ w.res = v
<1>1. att \in [Slots -> Attempts \union {Unanswered}]
  BY DEF Typed
<1>2. att[x] \in Attempts
  BY <1>1, AttShape
<1>3. ASSUME att' = TableAt(x, p)
      PROVE  \E w \in Attempts : Moves(x, s, w) /\ w.pc = p /\ w.res = att[x].res
  <2>1. /\ Kept(At(att[x], p), att[x]) /\ At(att[x], p).pc = p
        /\ At(att[x], p).res = att[x].res /\ At(att[x], p) \in Attempts
    BY <1>2, AttUpdate
  <2>2. Moves(x, s, At(att[x], p))
    BY <1>1, <1>2, <1>3, <2>1, TableUpdate DEF Moves, Becomes
  <2> QED
    BY <2>1, <2>2
<1>4. ASSUME NEW v \in Answers, att' = TableWith(x, p, v)
      PROVE  \E w \in Attempts : Moves(x, s, w) /\ w.pc = p /\ w.res = v
  <2>1. /\ Kept(AtWith(att[x], p, v), att[x]) /\ AtWith(att[x], p, v).pc = p
        /\ AtWith(att[x], p, v).res = v /\ AtWith(att[x], p, v) \in Attempts
    BY <1>2, AttUpdateWith
  <2>2. Moves(x, s, AtWith(att[x], p, v))
    BY <1>1, <1>2, <1>4, <2>1, TableUpdate DEF Moves, Becomes
  <2> QED
    BY <2>1, <2>2
<1> QED
  BY <1>2, <1>3, <1>4

LEMMA GetStep ==
  ASSUME Typed, NEW x \in Slots, IdempotencyGet(x)
  PROVE  LET q == att[x] e == cache[q.op][q.key] IN
         \E w \in Attempts :
           /\ Moves(x, "get", w) /\ Aside /\ UNCHANGED <<state, revived, links, cache>>
           /\ \/ /\ e = None /\ w.pc = "run" /\ w.res = q.res
                 /\ \/ excused' = excused \union {q.call}
                    \/ excused' = excused /\ ~Overlaps(x)
              \/ /\ e # None /\ w.pc = "answer" /\ excused' = excused
                 /\ w.res = None \/ (e.hash = bodyHash(q) /\ w.res = e.res)
<1> DEFINE q == att[x]
           e == cache[q.op][q.key]
<1>1. q.pc = "get" /\ q.pc # "none"
  BY DEF IdempotencyGet
<1>2. q \in Attempts /\ WellFormed(q)
  BY <1>1, MovePc, AttShape DEF Typed, Answers
<1>3. q.op \in Wrapped /\ q.key \in Keys
  BY <1>1, <1>2 DEF WellFormed
<1>4. Aside /\ UNCHANGED <<state, revived, links, cache>>
  BY DEF IdempotencyGet, Aside, files, bounds
<1>5. CASE e = None
  <2>1. /\ att' = TableAt(x, "run")
        /\ excused' = IF Overlaps(x) THEN excused \union {q.call} ELSE excused
    BY <1>5 DEF IdempotencyGet, TableAt
  <2>2. PICK w \in Attempts : Moves(x, "get", w) /\ w.pc = "run" /\ w.res = q.res
    BY <1>1, <2>1, MovePc DEF Answers, Pcs
  <2> QED
    BY <1>4, <1>5, <2>1, <2>2
<1>6. CASE e # None
  <2> DEFINE v == IF e.hash = bodyHash(q) THEN e.res ELSE None
  <2>1. att' = TableWith(x, "answer", v) /\ excused' = excused
    BY <1>6 DEF IdempotencyGet, Answer, TableWith
  <2>2. e \in Entries
    BY <1>3, <1>6 DEF Typed, EntryOK
  <2>3. v \in Answers
    BY <2>2 DEF Entries, Answers
  <2>4. v = None \/ (e.hash = bodyHash(q) /\ v = e.res)
    OBVIOUS
  <2> HIDE DEF v
  <2>5. PICK w \in Attempts : Moves(x, "get", w) /\ w.pc = "answer" /\ w.res = v
    BY <1>1, <2>1, <2>3, MovePc DEF Pcs
  <2> QED
    BY <1>4, <1>6, <2>1, <2>4, <2>5
<1> QED
  BY <1>5, <1>6

\* Files keep a phase, and none goes back to where it did not exist.
FilesStep == /\ state' \in [Files -> Service!Phases] /\ revived' \subseteq Files
             /\ \A f \in Files : state[f] # "absent" => state'[f] # "absent"

LEMMA FilesRest ==
  ASSUME Typed, UNCHANGED <<state, revived>>
  PROVE  FilesStep
BY DEF Typed, FilesStep

\* A file that moves on from a phase other than absent.
LEMMA FilesMove ==
  ASSUME Typed, NEW f \in Files, NEW from, NEW to \in Service!Phases \ {"absent"},
         Service!Move(f, from, to), UNCHANGED revived
  PROVE  FilesStep
BY DEF Typed, FilesStep, Service!Move

\* A step of the server that leaves links and cache alone: it takes a failed lookup for a
\* miss, finds the file ready, or answers.
Quiet(x, w) ==
    /\ att[x] \in Attempts /\ Kept(w, att[x]) /\ Becomes(x, w)
    /\ Aside /\ UNCHANGED <<links, cache>> /\ FilesStep
    /\ w.res \in {att[x].res, None} \/ att[x].op \notin Wrapped
    /\ \/ att[x].pc = "get" /\ w.pc = "run"
       \/ att[x].pc = "run" /\ w.pc = "insert" /\ att[x].op \in {"create", "update"}
       \/ att[x].pc # "insert" /\ w.pc = "answer"
    /\ excused \subseteq excused' /\ (att[x].pc \in {"get", "set"} => att[x].call \in excused')

LEMMA QuietSteps ==
  ASSUME Typed, NEW x \in Slots,
         GetFails(x) \/ SetFails(x) \/ CompleteUpload(x) \/ FileByID(x)
  PROVE  \E w \in Attempts : Quiet(x, w)
<1>1. CASE GetFails(x)
  <2>1. att' = TableAt(x, "run") /\ att[x].pc = "get"
    BY <1>1 DEF GetFails, TableAt
  <2>2. PICK w \in Attempts : Moves(x, "get", w) /\ w.pc = "run" /\ w.res = att[x].res
    BY <2>1, MovePc DEF Pcs
  <2>3. /\ Aside /\ UNCHANGED <<state, revived, links, cache>>
        /\ excused' = excused \union {att[x].call}
    BY <1>1 DEF GetFails, Fault, Aside, files
  <2> QED
    BY <2>1, <2>2, <2>3, FilesRest DEF Quiet, Moves
<1>2. CASE SetFails(x)
  <2>1. att' = TableAt(x, "answer") /\ att[x].pc = "set"
    BY <1>2 DEF SetFails, TableAt
  <2>2. PICK w \in Attempts : Moves(x, "set", w) /\ w.pc = "answer" /\ w.res = att[x].res
    BY <2>1, MovePc DEF Pcs
  <2>3. /\ Aside /\ UNCHANGED <<state, revived, links, cache>>
        /\ excused' = excused \union {att[x].call}
    BY <1>2 DEF SetFails, Fault, Aside, files
  <2> QED
    BY <2>1, <2>2, <2>3, FilesRest DEF Quiet, Moves
<1>3. CASE CompleteUpload(x)
  <2>1. att[x].pc = "run" /\ att[x].op = "complete" /\ Aside /\ UNCHANGED <<links, cache, excused>>
    BY <1>3 DEF CompleteUpload, Aside, bounds, history
  <2>2. att[x] \in Attempts /\ WellFormed(att[x]) /\ att[x].file \in Files
    BY <2>1, MovePc, AttShape DEF Typed, Pcs, WellFormed
  <2>3. FilesStep
    <3>1. CASE state[att[x].file] = "awaiting"
      BY <1>3, <2>2, <3>1, FilesMove DEF CompleteUpload, Service!Complete, Service!Phases
    <3>2. CASE state[att[x].file] # "awaiting"
      BY <1>3, <3>2, FilesRest DEF CompleteUpload
    <3> QED
      BY <3>1, <3>2
  <2>4. \E v \in Answers : att' = TableWith(x, "answer", v)
    BY <1>3, <2>2 DEF CompleteUpload, Answer, TableWith, Answers
  <2>5. PICK w \in Attempts : Moves(x, "run", w) /\ w.pc = "answer"
    BY <2>1, <2>4, MovePc DEF Pcs
  <2> QED
    BY <2>1, <2>3, <2>5 DEF Quiet, Moves, Wrapped
<1>4. CASE FileByID(x)
  <2>1. /\ att[x].pc = "run" /\ att[x].op \in {"create", "update"} /\ Aside
        /\ UNCHANGED <<state, revived, links, cache, excused>>
    BY <1>4 DEF FileByID, Aside, files, bounds, history
  <2>2. att' = TableAt(x, "insert") \/ att' = TableWith(x, "answer", None)
    BY <1>4 DEF FileByID, Answer, TableAt, TableWith
  <2>3. PICK w \in Attempts : /\ Moves(x, "run", w)
                              /\ \/ w.pc = "insert" /\ w.res = att[x].res
                                 \/ w.pc = "answer" /\ w.res = None
    <3>1. "run" \in Pcs /\ "insert" \in Pcs /\ "answer" \in Pcs /\ None \in Answers
      BY DEF Pcs, Answers
    <3>2. CASE att' = TableAt(x, "insert")
      BY <2>1, <3>1, <3>2, MovePc
    <3>3. CASE att' = TableWith(x, "answer", None)
      BY <2>1, <3>1, <3>3, MovePc
    <3> QED
      BY <2>2, <3>2, <3>3
  <2> QED
    BY <2>1, <2>3, FilesRest DEF Quiet, Moves
<1> QED
  BY <1>1, <1>2, <1>3, <1>4

LEMMA PresignStep ==
  ASSUME Typed, NEW x \in Slots, Presign(x)
  PROVE  \E w \in Attempts : \E f \in Files :
           /\ Moves(x, "run", w) /\ att[x].op = "presign" /\ w.pc = "set" /\ w.res = f
           /\ state[f] = "absent" /\ FilesStep /\ state'[f] # "absent"
           /\ \A g \in Files \ {f} : state'[g] = state[g]
           /\ Aside /\ UNCHANGED <<links, cache, excused>>
<1>1. /\ att[x].pc = "run" /\ att[x].op = "presign" /\ Aside /\ UNCHANGED <<links, cache, excused>>
      /\ Service!Insert(Fresh) /\ att' = TableWith(x, "set", Fresh)
  BY DEF Presign, Aside, bounds, history, TableWith
<1>2. Fresh \in Files /\ state[Fresh] = "absent"
  BY DEF Presign, Fresh
<1>3. PICK w \in Attempts : Moves(x, "run", w) /\ w.pc = "set" /\ w.res = Fresh
  BY <1>1, <1>2, MovePc DEF Pcs, Answers
<1>4. PICK to \in {"awaiting", "checking"} :
        Service!Move(Fresh, {"absent"}, to) /\ UNCHANGED revived
  BY <1>1 DEF Service!Insert
<1>5. FilesStep
  BY <1>2, <1>4, FilesMove DEF Service!Phases
<1>6. state'[Fresh] # "absent" /\ \A g \in Files \ {Fresh} : state'[g] = state[g]
  BY <1>2, <1>4 DEF Typed, Service!Move
<1> QED
  BY <1>1, <1>2, <1>3, <1>5, <1>6

LEMMA CreateStep ==
  ASSUME Typed, NEW x \in Slots, CreateLink(x)
  PROVE  \E w \in Attempts :
           /\ Moves(x, "insert", w) /\ att[x].op = "create" /\ w.pc = "set"
           /\ w.res = Len(links) + 1
           /\ links' = Append(links, [file |-> att[x].file, call |-> att[x].call])
           /\ Aside /\ UNCHANGED <<state, revived, cache, excused>>
<1>1. /\ att[x].pc = "insert" /\ att[x].op = "create" /\ Aside
      /\ UNCHANGED <<state, revived, cache, excused>>
      /\ links' = Append(links, [file |-> att[x].file, call |-> att[x].call])
      /\ att' = TableWith(x, "set", Len(links) + 1)
  BY DEF CreateLink, Aside, bounds, history, files, TableWith
<1>2. Len(links) + 1 \in Answers
  BY DEF Typed, Answers
<1>3. PICK w \in Attempts : Moves(x, "insert", w) /\ w.pc = "set" /\ w.res = Len(links) + 1
  BY <1>1, <1>2, MovePc DEF Pcs
<1> QED
  BY <1>1, <1>3

Relinked(l, f) == [links EXCEPT ![l].file = f]

LEMMA UpdateStep ==
  ASSUME Typed, NEW x \in Slots, UpdateLink(x)
  PROVE  \E w \in Attempts :
           /\ Moves(x, "insert", w) /\ att[x].op = "update" /\ w.pc = "answer"
           /\ links' = Relinked(att[x].link, att[x].file)
           /\ Aside /\ UNCHANGED <<state, revived, cache, excused>>
<1>1. /\ att[x].pc = "insert" /\ att[x].op = "update" /\ Aside
      /\ UNCHANGED <<state, revived, cache, excused>>
      /\ links' = Relinked(att[x].link, att[x].file)
      /\ att' = TableWith(x, "answer", att[x].link)
  BY DEF Relinked, UpdateLink, Answer, Aside, bounds, history, files, TableWith
<1>2. att[x] \in Attempts
  BY <1>1, MovePc DEF Pcs
<1>3. att[x].link \in Answers
  BY <1>2 DEF Attempts, Answers
<1>4. PICK w \in Attempts : Moves(x, "insert", w) /\ w.pc = "answer"
  BY <1>1, <1>3, MovePc DEF Pcs
<1> QED
  BY <1>1, <1>4

LEMMA SetStep ==
  ASSUME Typed, NEW x \in Slots, IdempotencySet(x)
  PROVE  \E w \in Attempts :
           /\ Moves(x, "set", w) /\ w.pc = "answer" /\ w.res = att[x].res
           /\ cache' = [cache EXCEPT ![att[x].op][att[x].key] =
                          [hash |-> bodyHash(att[x]), res |-> att[x].res]]
           /\ Aside /\ UNCHANGED <<state, revived, links, excused>>
<1>1. /\ att[x].pc = "set" /\ Aside /\ UNCHANGED <<state, revived, links, excused>>
      /\ cache' = [cache EXCEPT ![att[x].op][att[x].key] =
                     [hash |-> bodyHash(att[x]), res |-> att[x].res]]
      /\ att' = TableAt(x, "answer")
  BY DEF IdempotencySet, Aside, bounds, history, files, TableAt
<1>2. PICK w \in Attempts : Moves(x, "set", w) /\ w.pc = "answer" /\ w.res = att[x].res
  BY <1>1, MovePc DEF Pcs
<1> QED
  BY <1>1, <1>2

-----------------------------------------------------------------------------
(***************************************************************************)
(* Types: what requests and tools refer to never goes away.                 *)
(***************************************************************************)
LinkRecs == [file : Files, call : Calls]

Grows ==
    /\ calls \in Nat /\ calls' \in Nat /\ calls <= calls'
    /\ Len(links) \in Nat /\ Len(links') \in Nat /\ Len(links) <= Len(links')
    /\ \A i \in 1..Len(links) : links'[i].call = links[i].call
    /\ \A f \in Files : content[f] # 0 => content'[f] # 0
    /\ \A k \in Keys : drawn[k] # 0 => drawn'[k] # 0

LEMMA GrowsAtRest ==
  ASSUME Typed, UNCHANGED <<calls, links, content, drawn>>
  PROVE  Grows
<1>1. Len(links) \in Nat
  BY DEF Typed
<1>2. calls \in Nat
  BY Consts DEF Typed
<1> QED
  BY <1>1, <1>2 DEF Grows

\* An attempt that stays as it is, or moves on, keeps being well-formed.
LEMMA WellFormedMoved ==
  ASSUME NEW q \in Attempts, WellFormed(q), NEW w \in Attempts, Kept(w, q), Grows,
         w.pc = "get" => q.op \in Wrapped,
         w.pc = "insert" => q.op \in {"create", "update"},
         w.pc = "set" => q.op \in Wrapped /\ w.res # None,
         q.op = "presign" => w.res \in Files \union {None},
         q.op = "create" => w.res \in 1..Len(links') \union {None}
  PROVE  WellFormed(w)'
<1>1. q.call \in Nat
  BY Consts DEF Attempts
<1>2. w.call \in 1..calls'
  BY <1>1 DEF WellFormed, Kept, Grows
<1>3. q.op = "update" => w.link \in 1..Len(links')
  BY DEF WellFormed, Kept, Grows
<1> QED
  BY <1>2, <1>3 DEF WellFormed, Kept, Grows, Wrapped

LEMMA WellFormedKept ==
  ASSUME NEW q \in Attempts, WellFormed(q), Grows
  PROVE  WellFormed(q)'
<1>1. q.op = "create" => q.res \in 1..Len(links') \union {None}
  BY DEF WellFormed, Grows
<1> QED
  BY <1>1, WellFormedMoved DEF WellFormed, Kept

LEMMA StagedKept ==
  ASSUME NEW g \in AgentRecs, Staged(g), Grows
  PROVE  Staged(g)'
<1>1. g.call \in Nat
  BY Consts DEF AgentRecs
<1>2. g.tool = "update" => g.link \in 1..Len(links')
  BY DEF Staged, Grows
<1> QED
  BY <1>1, <1>2 DEF Staged, Grows

LEMMA EntryKept ==
  ASSUME Typed, Grows, NEW o \in Wrapped, NEW k \in Keys,
         cache'[o][k] = cache[o][k]
  PROVE  EntryOK(o, k)'
BY DEF Typed, EntryOK, Grows

LEMMA ServerTyped ==
  ASSUME Typed, NEW x \in Slots, NEW w \in Attempts, att[x] \in Attempts, Kept(w, att[x]),
         Becomes(x, w), Aside, FilesStep, Grows, WellFormed(w)',
         links' \in Seq(LinkRecs), cache' \in [Wrapped -> [Keys -> Entries \union {None}]],
         \A o \in Wrapped, k \in Keys : EntryOK(o, k)'
  PROVE  Typed'
<1>1. att \in [Slots -> Attempts \union {Unanswered}]
  BY DEF Typed
<1>2. /\ att' \in [Slots -> Attempts \union {Unanswered}]
      /\ att'[x] = w /\ \A y \in Slots \ {x} : att'[y] = att[y]
  BY <1>1 DEF Becomes
<1>3. ASSUME NEW y \in Slots, att'[y] # Unanswered
      PROVE  WellFormed(att[y])'
  <2>1. CASE y = x
    BY <1>2, <2>1
  <2>2. CASE y # x
    <3>1. att'[y] = att[y] /\ att[y] \in Attempts
      BY <1>1, <1>2, <1>3, <2>2, AttShape
    <3>2. WellFormed(att[y])
      BY <1>3, <3>1 DEF Typed
    <3> QED
      BY <3>1, <3>2, WellFormedKept
  <2> QED
    BY <2>1, <2>2
<1>4. ASSUME NEW a \in Agents
      PROVE  Staged(agent[a])' /\ Asking(a)'
  <2>1. agent'[a] = agent[a] /\ agent[a] \in AgentRecs /\ Staged(agent[a]) /\ Asking(a)
    BY DEF Typed, Aside
  <2>2. w # Unanswered /\ att[x] # Unanswered /\ w.op = att[x].op /\ w.call = att[x].call
        /\ w.file = att[x].file
    BY AttShape DEF Kept
  <2>3. Asking(a)'
    <3>1. CASE Cur(a) = x
      BY <1>2, <2>1, <2>2, <3>1 DEF Asking
    <3>2. CASE Cur(a) # x
      BY <1>2, <2>1, <3>2, SlotFacts DEF Asking
    <3> QED
      BY <3>1, <3>2
  <2> QED
    BY <2>1, <2>3, StagedKept
<1> QED
  BY <1>2, <1>3, <1>4 DEF Typed, Aside, FilesStep, LinkRecs

\* CreateLink and UpdateLink leave links to be links.
LEMMA LinkAppended ==
  ASSUME links \in Seq(LinkRecs), NEW r \in LinkRecs, links' = Append(links, r)
  PROVE  /\ links' \in Seq(LinkRecs) /\ Len(links) \in Nat /\ Len(links') = Len(links) + 1
         /\ \A i \in 1..Len(links) : links'[i] = links[i]
         /\ links'[Len(links) + 1] = r
OBVIOUS

LEMMA LinkUpdated ==
  ASSUME links \in Seq(LinkRecs), NEW l \in 1..Len(links), NEW f \in Files,
         links' = Relinked(l, f)
  PROVE  /\ links' \in Seq(LinkRecs) /\ Len(links) \in Nat /\ Len(links') = Len(links)
         /\ \A i \in 1..Len(links) : links'[i].call = links[i].call
<1>1. links[l] \in LinkRecs
  OBVIOUS
<1>2. ASSUME NEW d \in LinkRecs
      PROVE  [d EXCEPT !.file = f] \in LinkRecs /\ [d EXCEPT !.file = f].call = d.call
  BY DEF LinkRecs
<1> DEFINE d == [links[l] EXCEPT !.file = f]
<1>3. d \in LinkRecs /\ d.call = links[l].call
  BY <1>1, <1>2
<1>4. links' = [links EXCEPT ![l] = d]
  BY DEF Relinked
<1> HIDE DEF d
<1> QED
  BY <1>3, <1>4

LEMMA LinkShape ==
  ASSUME Typed
  PROVE  /\ links \in Seq(LinkRecs) /\ Len(links) \in Nat
         /\ \A i \in 1..Len(links) : links[i].call \in Calls /\ links[i].call \in Nat
<1>1. links \in Seq(LinkRecs)
  BY DEF Typed, LinkRecs
<1>2. \A r \in LinkRecs : r.call \in Calls
  BY DEF LinkRecs
<1>3. Len(links) \in Nat /\ \A i \in 1..Len(links) : links[i] \in LinkRecs
  BY <1>1
<1> QED
  BY <1>1, <1>2, <1>3, Consts

\* The attempt a step of the server works on.
LEMMA Worked ==
  ASSUME Typed, NEW x \in Slots, att[x] \in Attempts
  PROVE  WellFormed(att[x]) /\ att[x] # Unanswered
BY AttShape DEF Typed

LEMMA ServerKeepsTypes ==
  ASSUME Typed, NEW x \in Slots, Server(x) \/ GetFails(x) \/ SetFails(x)
  PROVE  Typed' /\ Grows /\ FilesStep
<1> USE SMTT(20)
<1>a. /\ links \in Seq(LinkRecs) /\ cache \in [Wrapped -> [Keys -> Entries \union {None}]]
      /\ Len(links) \in Nat
  BY DEF Typed, LinkRecs
<1>b. ASSUME Aside, UNCHANGED links
      PROVE  Grows
  BY <1>b, GrowsAtRest DEF Aside
<1>c. ASSUME Grows, UNCHANGED cache
      PROVE  \A o \in Wrapped, k \in Keys : EntryOK(o, k)'
  BY <1>c, EntryKept
<1>1. CASE GetFails(x) \/ SetFails(x) \/ CompleteUpload(x) \/ FileByID(x)
  <2>1. PICK w \in Attempts : Quiet(x, w)
    BY <1>1, QuietSteps
  <2>2. Grows
    BY <2>1, <1>b DEF Quiet
  <2>3. WellFormed(w)'
    <3>1. WellFormed(att[x]) /\ Kept(w, att[x]) /\ att[x] \in Attempts
      BY <2>1, Worked DEF Quiet
    <3>2. att[x].op = "create" => w.res \in 1..Len(links') \union {None}
      BY <2>1, <3>1 DEF Quiet, WellFormed, Wrapped
    <3>3. att[x].op = "presign" => w.res \in Files \union {None}
      BY <2>1, <3>1 DEF Quiet, WellFormed, Wrapped
    <3>4. (w.pc = "insert" => att[x].op \in {"create", "update"}) /\ w.pc \notin {"get", "set"}
      BY <2>1 DEF Quiet
    <3> QED
      BY <2>2, <3>1, <3>2, <3>3, <3>4, WellFormedMoved
  <2>4. \A o \in Wrapped, k \in Keys : EntryOK(o, k)'
    BY <2>1, <2>2, <1>c DEF Quiet
  <2> QED
    BY <2>1, <2>2, <2>3, <2>4, <1>a, ServerTyped DEF Quiet
<1>2. CASE IdempotencyGet(x)
  <2>1. PICK w \in Attempts :
           /\ Moves(x, "get", w) /\ Aside /\ UNCHANGED <<state, revived, links, cache>>
           /\ \/ w.pc = "run" /\ w.res = att[x].res
              \/ /\ cache[att[x].op][att[x].key] # None /\ w.pc = "answer"
                 /\ w.res = None \/ w.res = cache[att[x].op][att[x].key].res
    BY <1>2, GetStep
  <2>2. Grows /\ FilesStep
    BY <2>1, <1>b, FilesRest
  <2>3. WellFormed(w)'
    <3>1. WellFormed(att[x]) /\ Kept(w, att[x]) /\ att[x] \in Attempts /\ att[x].pc = "get"
      BY <2>1, Worked DEF Moves
    <3>2. att[x].op \in Wrapped /\ att[x].key \in Keys
      BY <3>1 DEF WellFormed
    <3>3. EntryOK(att[x].op, att[x].key)
      BY <3>2 DEF Typed
    <3>4. att[x].op = "create" => w.res \in 1..Len(links') \union {None}
      BY <2>1, <3>1, <3>3 DEF WellFormed, EntryOK
    <3>5. att[x].op = "presign" => w.res \in Files \union {None}
      BY <2>1, <3>1, <3>3 DEF WellFormed, EntryOK
    <3> QED
      BY <2>1, <2>2, <3>1, <3>4, <3>5, WellFormedMoved
  <2>4. \A o \in Wrapped, k \in Keys : EntryOK(o, k)'
    BY <2>1, <2>2, <1>c DEF Quiet
  <2> QED
    BY <2>1, <2>2, <2>3, <2>4, <1>a, ServerTyped DEF Moves
<1>3. CASE Presign(x)
  <2>1. PICK w \in Attempts :
           /\ Moves(x, "run", w) /\ att[x].op = "presign" /\ w.pc = "set" /\ w.res \in Files
           /\ FilesStep /\ Aside /\ UNCHANGED <<links, cache>>
    BY <1>3, PresignStep
  <2>2. Grows
    BY <2>1, <1>b
  <2>3. WellFormed(w)'
    BY <2>1, <2>2, Worked, WellFormedMoved, Consts DEF Moves, Wrapped
  <2>4. \A o \in Wrapped, k \in Keys : EntryOK(o, k)'
    BY <2>1, <2>2, <1>c DEF Quiet
  <2> QED
    BY <2>1, <2>2, <2>3, <2>4, <1>a, ServerTyped DEF Moves
<1>4. CASE CreateLink(x)
  <2>1. PICK w \in Attempts :
           /\ Moves(x, "insert", w) /\ att[x].op = "create" /\ w.pc = "set"
           /\ w.res = Len(links) + 1
           /\ links' = Append(links, [file |-> att[x].file, call |-> att[x].call])
           /\ Aside /\ UNCHANGED <<state, revived, cache>>
    BY <1>4, CreateStep
  <2>2. att[x].file \in Files /\ att[x].call \in Calls
    BY <2>1, Worked DEF Moves, WellFormed, Attempts
  <2>3. [file |-> att[x].file, call |-> att[x].call] \in LinkRecs
    BY <2>2 DEF LinkRecs
  <2>4. /\ links' \in Seq(LinkRecs) /\ Len(links') = Len(links) + 1
        /\ \A i \in 1..Len(links) : links'[i] = links[i]
    BY <1>a, <2>1, <2>3, LinkAppended
  <2>5. Grows
    BY <1>a, <2>1, <2>4, Consts DEF Grows, Aside, Typed
  <2>6. WellFormed(w)'
    <3>1. w.res \in 1..Len(links') /\ w.res # None
      BY <1>a, <2>1, <2>4, Consts
    <3> QED
      BY <2>1, <2>5, <3>1, Worked, WellFormedMoved DEF Moves, Wrapped
  <2>7. \A o \in Wrapped, k \in Keys : EntryOK(o, k)'
    BY <2>1, <2>5, <1>c
  <2> QED
    BY <2>1, <2>4, <2>5, <2>6, <2>7, <1>a, FilesRest, ServerTyped DEF Moves
<1>5. CASE UpdateLink(x)
  <2>1. PICK w \in Attempts :
           /\ Moves(x, "insert", w) /\ att[x].op = "update" /\ w.pc = "answer"
           /\ links' = Relinked(att[x].link, att[x].file)
           /\ Aside /\ UNCHANGED <<state, revived, cache>>
    BY <1>5, UpdateStep
  <2>2. att[x].link \in 1..Len(links) /\ att[x].file \in Files
    BY <2>1, Worked DEF Moves, WellFormed
  <2>3. /\ links' \in Seq(LinkRecs) /\ Len(links') = Len(links)
        /\ \A i \in 1..Len(links) : links'[i].call = links[i].call
    BY <1>a, <2>1, <2>2, LinkUpdated
  <2>4. Grows
    BY <1>a, <2>1, <2>3, Consts DEF Grows, Aside, Typed
  <2>5. WellFormed(w)'
    BY <2>1, <2>4, Worked, WellFormedMoved DEF Moves
  <2>6. \A o \in Wrapped, k \in Keys : EntryOK(o, k)'
    BY <2>1, <2>4, <1>c
  <2> QED
    BY <2>1, <2>3, <2>4, <2>5, <2>6, <1>a, FilesRest, ServerTyped DEF Moves
<1>6. CASE IdempotencySet(x)
  <2> DEFINE o == att[x].op
             k == att[x].key
             e == [hash |-> bodyHash(att[x]), res |-> att[x].res]
  <2>1. PICK w \in Attempts :
           /\ Moves(x, "set", w) /\ w.pc = "answer" /\ w.res = att[x].res
           /\ cache' = [cache EXCEPT ![o][k] = e]
           /\ Aside /\ UNCHANGED <<state, revived, links>>
    BY <1>6, SetStep
  <2>2. /\ WellFormed(att[x]) /\ o \in Wrapped /\ k \in Keys /\ att[x] \in Attempts
        /\ att[x].res # None
    BY <2>1, Worked DEF Moves, WellFormed
  <2>3. /\ o = "presign" => att[x].res \in Files /\ drawn[k] # 0
        /\ o = "create" => att[x].res \in 1..Len(links)
    BY <2>2 DEF WellFormed
  <2>4. e \in Entries
    <3>1. att[x].res \in Files \union Nat
      BY <2>2, <2>3 DEF Wrapped
    <3>2. bodyHash(att[x]) \in (Bodies \union {None}) \X (Files \union {None})
      BY <2>2 DEF bodyHash, Attempts
    <3> QED
      BY <3>1, <3>2 DEF Entries
  <2>5. Grows /\ FilesStep
    BY <2>1, <1>b, FilesRest
  <2>6. WellFormed(w)'
    BY <2>1, <2>2, <2>5, Worked, WellFormedMoved DEF Moves, WellFormed
  <2>7. e.res = att[x].res
    OBVIOUS
  <2> HIDE DEF e
  <2>8. cache' \in [Wrapped -> [Keys -> Entries \union {None}]]
    BY <1>a, <2>1, <2>2, <2>4
  <2>9. ASSUME NEW p \in Wrapped, NEW j \in Keys
        PROVE  EntryOK(p, j)'
    <3>1. CASE p = o /\ j = k
      <4>1. cache'[p][j] = e
        BY <1>a, <2>1, <2>2, <3>1
      <4> QED
        BY <4>1, <3>1, <2>3, <2>4, <2>7, <2>1 DEF EntryOK, Aside
    <3>2. CASE p # o \/ j # k
      <4>1. cache'[p][j] = cache[p][j]
        BY <1>a, <2>1, <2>2, <3>2
      <4> QED
        BY <4>1, <2>5, EntryKept
    <3> QED
      BY <3>1, <3>2
  <2> QED
    BY <2>1, <2>5, <2>6, <2>8, <2>9, <1>a, ServerTyped DEF Moves
<1> QED
  BY <1>1, <1>2, <1>3, <1>4, <1>5, <1>6 DEF Server

-----------------------------------------------------------------------------
(***************************************************************************)
(* What each step of a tool does to the call and its requests.              *)
(***************************************************************************)

\* Only agent a, its current request and its orphan change.
Works(a) ==
    /\ agent' \in [Agents -> AgentRecs]
    /\ \A b \in Agents \ {a} : agent'[b] = agent[b]
    /\ att' \in [Slots -> Attempts \union {Unanswered}]
    /\ \A y \in Slots \ {Cur(a), Orphan(a)} : att'[y] = att[y]

AgentBecomes(a, g) == agent' = [agent EXCEPT ![a] = g]

\* A tool goes to pc with a fresh request of its call, to which q is what it answers.
Asks(a, q) == /\ att'[Cur(a)] = q /\ att'[Cur(a)] # Unanswered
              /\ att'[Orphan(a)] = att[Orphan(a)]
              /\ q.res = None
              /\ \/ q.pc = "get" /\ q.op \in Wrapped
                 \/ q.pc = "run" /\ q.op \notin Wrapped

LEMMA ToolWorks ==
  ASSUME Typed, NEW a \in Agents, NEW g \in AgentRecs, AgentBecomes(a, g),
         NEW w \in Attempts \union {Unanswered}, Becomes(Cur(a), w)
  PROVE  /\ Works(a) /\ agent'[a] = g /\ att'[Cur(a)] = w
         /\ att'[Orphan(a)] = att[Orphan(a)]
<1>1. Cur(a) \in Slots /\ Orphan(a) \in Slots /\ Cur(a) # Orphan(a)
  BY SlotFacts
<1> QED
  BY <1>1 DEF Typed, Works, AgentBecomes, Becomes

\* The same call, at another stage.
SameCall(g, h) == /\ g.tool = h.tool /\ g.call = h.call /\ g.file = h.file /\ g.link = h.link

Opt(S) == S \union {None}

LEMMA RequestShape ==
  ASSUME NEW a \in Agents, agent[a].call \in Calls,
         NEW op \in Ops, NEW k \in Opt(Keys), NEW b \in Opt(Bodies),
         NEW f \in Opt(Files), NEW l \in Opt(Nat), NEW q,
         q = Request(a, op, k, b, f, l)
  PROVE  /\ q \in Attempts /\ q # Unanswered /\ q.res = None
         /\ \/ q.pc = "get" /\ q.op \in Wrapped
            \/ q.pc = "run" /\ q.op \notin Wrapped
         /\ q.op = op /\ q.key = k /\ q.body = b /\ q.file = f /\ q.link = l
         /\ q.call = agent[a].call
<1>1. FirstStep(op) \in Pcs
  BY DEF FirstStep, Pcs
<1>2. None \in Answers
  BY DEF Answers
<1>3. q \in Attempts
  BY <1>1, <1>2 DEF Request, Attempts, Opt
<1> QED
  BY <1>3, AttShape DEF Request, FirstStep

\* Used by ToolCall: a new call, and its first request.
NewCall(tool, c, l) == [NoCall EXCEPT !.pc = "presign", !.tool = tool, !.call = c, !.link = l]

LEMMA NewCallShape ==
  ASSUME NEW tool \in {"create", "update"}, NEW c \in Calls, NEW l \in Nat \union {None}, NEW g,
         g = NewCall(tool, c, l)
  PROVE  /\ g \in AgentRecs /\ g.pc = "presign" /\ g.tool = tool /\ g.call = c
         /\ g.file = None /\ g.link = l
<1>1. g = [pc |-> "presign", tool |-> tool, call |-> c, file |-> None, link |-> l, polls |-> 0]
  BY DEF NewCall, NoCall
<1>2. 0 \in 0..MaxPolls
  BY Consts
<1> QED
  BY <1>1, <1>2 DEF AgentRecs, Ops, Wrapped

LEMMA FailedShape ==
  /\ Failed \in AgentRecs /\ Failed.pc = "failed" /\ Failed.call = 0 /\ Failed.file = None
  /\ Failed.tool = "create"
BY Consts DEF Failed, NoCall, AgentRecs, Ops, Wrapped

LEMMA CallStep ==
  ASSUME Typed, NEW a \in Agents, NEW tool \in {"create", "update"}, NEW l \in Nat \union {None},
         NEW b \in Bodies, NEW k \in Keys, ToolCall(a, tool, l, b, k)
  PROVE  LET g == agent'[a] q == att'[Cur(a)] c == calls + 1 IN
         /\ Works(a) /\ Asks(a, q) /\ agent[a].pc \in Resting /\ calls' = c /\ c \in Calls
         /\ g.pc = "presign" /\ g.tool = tool /\ g.call = c /\ g.file = None /\ g.link = l
         /\ q.op = "presign" /\ q.key = k /\ q.call = c
         /\ UNCHANGED <<state, revived, content, links, cache, answered, excused>>
         /\ drawn' = [drawn EXCEPT ![k] = c]
         /\ drawn[k] # 0 => collided' = collided \union {c, drawn[k]}
         /\ drawn[k] = 0 => collided' = collided
<1> DEFINE c == calls + 1
           g == NewCall(tool, c, l)
           r == Request(a, "presign", k, b, None, None)
           q == [r EXCEPT !.call = c]
<1>1. calls' = c /\ c \in Calls /\ agent[a].pc \in Resting
  BY Consts DEF ToolCall, Typed, Calls, Resting
<1>2. agent[a] \in AgentRecs /\ agent[a].call \in Calls
  BY DEF Typed, AgentRecs
<1>3. /\ r \in Attempts /\ r.res = None /\ r.pc = "get"
      /\ r.op = "presign" /\ r.key = k
  <2>1. /\ "presign" \in Ops /\ k \in Opt(Keys) /\ b \in Opt(Bodies)
        /\ None \in Opt(Files) /\ None \in Opt(Nat)
    BY DEF Ops, Wrapped, Opt
  <2> QED
    BY <1>2, <2>1, RequestShape DEF Wrapped
<1>4. ASSUME NEW d \in Attempts
      PROVE  /\ [d EXCEPT !.call = c] \in Attempts /\ [d EXCEPT !.call = c].res = d.res
             /\ [d EXCEPT !.call = c].pc = d.pc /\ [d EXCEPT !.call = c].op = d.op
             /\ [d EXCEPT !.call = c].key = d.key /\ [d EXCEPT !.call = c].call = c
  BY <1>1 DEF Attempts
<1>5. /\ q \in Attempts /\ q.res = None /\ q.pc = "get" /\ q.op = "presign" /\ q.key = k
      /\ q.call = c
  BY <1>3, <1>4
<1>6. g \in AgentRecs /\ g.pc = "presign" /\ g.tool = tool /\ g.call = c /\ g.file = None
      /\ g.link = l
  BY <1>1, NewCallShape
<1>7. AgentBecomes(a, g) /\ Becomes(Cur(a), q)
  BY DEF ToolCall, AgentBecomes, Becomes, NewCall
<1>8. /\ UNCHANGED <<state, revived, content, links, cache, answered, excused>>
      /\ drawn' = [drawn EXCEPT ![k] = c]
      /\ drawn[k] # 0 => collided' = collided \union {c, drawn[k]}
      /\ drawn[k] = 0 => collided' = collided
  BY DEF ToolCall, Draw, files
<1> HIDE DEF g, q
<1>9. Works(a) /\ agent'[a] = g /\ att'[Cur(a)] = q /\ att'[Orphan(a)] = att[Orphan(a)]
  BY <1>5, <1>6, <1>7, ToolWorks
<1> QED
  BY <1>1, <1>5, <1>6, <1>8, <1>9, AttShape DEF Asks, Wrapped

\* agent[a].pc = p, and the number of polls, changed.
StageAt(a, p)   == [agent EXCEPT ![a].pc = p]
PolledOnce(a)   == [agent EXCEPT ![a].polls = @ + 1]

LEMMA StageShape ==
  ASSUME Typed, NEW a \in Agents, NEW p \in Ops \union {"idle", "put", "poll", "done", "failed"},
         agent' = StageAt(a, p)
  PROVE  \E g \in AgentRecs : AgentBecomes(a, g) /\ g.pc = p /\ SameCall(g, agent[a])
<1> DEFINE g == [agent[a] EXCEPT !.pc = p]
<1>1. agent \in [Agents -> AgentRecs]
  BY DEF Typed
<1>2. ASSUME NEW d \in AgentRecs
      PROVE  LET h == [d EXCEPT !.pc = p] IN h \in AgentRecs /\ h.pc = p /\ SameCall(h, d)
  BY DEF AgentRecs, SameCall
<1>3. g \in AgentRecs /\ g.pc = p /\ SameCall(g, agent[a])
  BY <1>1, <1>2
<1>4. AgentBecomes(a, g)
  BY <1>1 DEF StageAt, AgentBecomes
<1> HIDE DEF g
<1> QED
  BY <1>3, <1>4

LEMMA PolledShape ==
  ASSUME Typed, NEW a \in Agents, agent' = PolledOnce(a), agent[a].polls < MaxPolls
  PROVE  \E g \in AgentRecs :
            AgentBecomes(a, g) /\ g.pc = agent[a].pc /\ SameCall(g, agent[a])
<1> DEFINE g == [agent[a] EXCEPT !.polls = @ + 1]
<1>1. agent \in [Agents -> AgentRecs]
  BY DEF Typed
<1>2. ASSUME NEW d \in AgentRecs, d.polls < MaxPolls
      PROVE  LET h == [d EXCEPT !.polls = @ + 1] IN
             h \in AgentRecs /\ h.pc = d.pc /\ SameCall(h, d)
  BY <1>2, Consts DEF AgentRecs, SameCall
<1>3. g \in AgentRecs /\ g.pc = agent[a].pc /\ SameCall(g, agent[a])
  BY <1>1, <1>2
<1>4. AgentBecomes(a, g)
  BY <1>1 DEF PolledOnce, AgentBecomes
<1> HIDE DEF g
<1> QED
  BY <1>3, <1>4

\* A stage's request names the file of its call.
LEMMA PutStep ==
  ASSUME Typed, NEW a \in Agents, Put(a)
  PROVE  LET g == agent'[a] q == att'[Cur(a)] f == agent[a].file IN
         /\ Works(a) /\ Asks(a, q) /\ agent[a].pc = "put" /\ f \in Files
         /\ g.pc = "complete" /\ SameCall(g, agent[a])
         /\ q.op = "complete" /\ q.file = f /\ q.call = agent[a].call
         /\ content' = [content EXCEPT ![f] = agent[a].call]
         /\ UNCHANGED <<state, revived, links, cache, calls, drawn, answered, collided, excused>>
<1> DEFINE f == agent[a].file
           q == Request(a, "complete", None, None, f, None)
<1>1. agent[a].pc = "put" /\ agent[a] \in AgentRecs /\ Staged(agent[a])
  BY DEF Put, Typed
<1>2. f \in Files /\ agent[a].call \in Calls
  BY <1>1 DEF Staged, AgentRecs
<1>3. /\ content' = [content EXCEPT ![f] = agent[a].call]
      /\ UNCHANGED <<state, revived, links, cache, calls, drawn, answered, collided, excused>>
      /\ agent' = StageAt(a, "complete") /\ Becomes(Cur(a), q)
  BY DEF Put, StageAt, Becomes, bounds, history
<1>4. PICK g \in AgentRecs :
        AgentBecomes(a, g) /\ g.pc = "complete" /\ SameCall(g, agent[a])
  BY <1>3, StageShape DEF Ops
<1>5. /\ q \in Attempts /\ q # Unanswered /\ q.res = None
      /\ \/ q.pc = "get" /\ q.op \in Wrapped
         \/ q.pc = "run" /\ q.op \notin Wrapped
      /\ q.op = "complete" /\ q.file = f /\ q.call = agent[a].call
  <2>1. /\ "complete" \in Ops /\ None \in Opt(Keys) /\ None \in Opt(Bodies)
        /\ f \in Opt(Files) /\ None \in Opt(Nat)
    BY <1>2 DEF Ops, Opt
  <2> QED
    BY <1>2, <2>1, RequestShape
<1> HIDE DEF q
<1>6. Works(a) /\ agent'[a] = g /\ att'[Cur(a)] = q /\ att'[Orphan(a)] = att[Orphan(a)]
  BY <1>3, <1>4, <1>5, ToolWorks
<1> QED
  BY <1>1, <1>2, <1>3, <1>4, <1>5, <1>6 DEF Asks

LEMMA PollReadyStep ==
  ASSUME Typed, NEW a \in Agents, NEW k \in Keys, PollReady(a, k)
  PROVE  LET g == agent'[a] q == att'[Cur(a)] f == agent[a].file IN
         /\ Works(a) /\ Asks(a, q) /\ agent[a].pc = "poll" /\ f \in Files
         /\ g.pc = agent[a].tool /\ SameCall(g, agent[a])
         /\ q.op = agent[a].tool /\ q.key = k /\ q.file = f /\ q.link = agent[a].link
         /\ q.call = agent[a].call
         /\ UNCHANGED <<state, revived, content, links, cache, calls, drawn, answered,
                        collided, excused>>
<1> DEFINE f == agent[a].file
           t == agent[a].tool
           q == Request(a, t, k, None, f, agent[a].link)
<1>1. agent[a].pc = "poll" /\ agent[a] \in AgentRecs /\ Staged(agent[a])
  BY DEF PollReady, Typed
<1>2. /\ f \in Files /\ agent[a].call \in Calls /\ t \in {"create", "update"}
      /\ agent[a].link \in Nat \union {None}
  BY <1>1 DEF Staged, AgentRecs
<1>3. /\ UNCHANGED <<state, revived, content, links, cache, calls, drawn, answered,
                     collided, excused>>
      /\ agent' = StageAt(a, t) /\ Becomes(Cur(a), q)
  BY <1>2 DEF PollReady, StageAt, Becomes, bounds, files, Draw
<1>4. PICK g \in AgentRecs : AgentBecomes(a, g) /\ g.pc = t /\ SameCall(g, agent[a])
  BY <1>2, <1>3, StageShape DEF Ops, Wrapped
<1>5. /\ q \in Attempts /\ q # Unanswered /\ q.res = None
      /\ \/ q.pc = "get" /\ q.op \in Wrapped
         \/ q.pc = "run" /\ q.op \notin Wrapped
      /\ q.op = t /\ q.key = k /\ q.file = f /\ q.link = agent[a].link /\ q.call = agent[a].call
  <2>1. /\ t \in Ops /\ k \in Opt(Keys) /\ None \in Opt(Bodies)
        /\ f \in Opt(Files) /\ agent[a].link \in Opt(Nat)
    BY <1>2 DEF Ops, Wrapped, Opt
  <2> QED
    BY <1>2, <2>1, RequestShape
<1> HIDE DEF q
<1>6. Works(a) /\ agent'[a] = g /\ att'[Cur(a)] = q /\ att'[Orphan(a)] = att[Orphan(a)]
  BY <1>3, <1>4, <1>5, ToolWorks
<1> QED
  BY <1>1, <1>2, <1>3, <1>4, <1>5, <1>6 DEF Asks

\* Polling goes on, or ends in failure, without a request.
LEMMA PollStep ==
  ASSUME Typed, NEW a \in Agents, PollAgain(a) \/ PollFails(a)
  PROVE  /\ Works(a) /\ agent[a].pc = "poll"
         /\ \/ agent'[a] = Failed
            \/ agent'[a].pc = "poll" /\ SameCall(agent'[a], agent[a])
         /\ UNCHANGED <<state, revived, content, links, cache, att, calls, drawn, answered,
                        collided, excused>>
<1>1. /\ agent[a].pc = "poll"
      /\ UNCHANGED <<state, revived, content, links, cache, att, calls, drawn, answered,
                     collided, excused>>
  BY DEF PollAgain, PollFails, files, bounds, history
<1>2. att \in [Slots -> Attempts \union {Unanswered}]
  BY DEF Typed
<1>3. \E g \in AgentRecs : /\ AgentBecomes(a, g)
                           /\ \/ g = Failed
                              \/ g.pc = "poll" /\ SameCall(g, agent[a])
  <2>1. CASE PollAgain(a)
    <3>1. agent' = PolledOnce(a) /\ agent[a].polls < MaxPolls
      BY <2>1 DEF PollAgain, PolledOnce
    <3>2. PICK g \in AgentRecs :
            AgentBecomes(a, g) /\ g.pc = agent[a].pc /\ SameCall(g, agent[a])
      BY <3>1, PolledShape
    <3> QED
      BY <3>2, <1>1
  <2>2. CASE PollFails(a)
    <3>1. AgentBecomes(a, Failed)
      BY <2>2 DEF PollFails, AgentBecomes
    <3> QED
      BY <3>1, FailedShape
  <2> QED
    BY <2>1, <2>2
<1>4. Works(a) /\ \/ agent'[a] = Failed
                  \/ agent'[a].pc = "poll" /\ SameCall(agent'[a], agent[a])
  BY <1>1, <1>2, <1>3 DEF Works, AgentBecomes, Typed
<1> QED
  BY <1>1, <1>4

\* The tool goes on with answer q.
NextStage(q) == CASE q.op = "presign" -> "put" [] q.op = "complete" -> "poll" [] OTHER -> "done"
Advanced(h, p, f, l) == [h EXCEPT !.pc = p, !.polls = 0, !.file = f, !.link = l]
Received(h, q) == Advanced(h, NextStage(q), IF q.op = "presign" THEN q.res ELSE h.file,
                                            IF q.op = "create" THEN q.res ELSE h.link)

LEMMA ReceivedShape ==
  ASSUME NEW h \in AgentRecs, NEW q \in Attempts,
         q.op = "presign" => q.res \in Files, q.op = "create" => q.res \in Nat
  PROVE  /\ Received(h, q) \in AgentRecs
         /\ Received(h, q).pc = NextStage(q)
         /\ Received(h, q).tool = h.tool /\ Received(h, q).call = h.call
         /\ q.op = "presign" => Received(h, q).file = q.res
         /\ q.op # "presign" => Received(h, q).file = h.file
         /\ q.op = "create" => Received(h, q).link = q.res
         /\ q.op # "create" => Received(h, q).link = h.link
<1>1. NextStage(q) \in {"put", "poll", "done"}
  BY DEF NextStage
<1>2. 0 \in 0..MaxPolls
  BY Consts
<1>3. ASSUME NEW p \in {"put", "poll", "done"}, NEW f \in Opt(Files), NEW l \in Opt(Nat)
      PROVE  LET r == Advanced(h, p, f, l) IN
             /\ r \in AgentRecs /\ r.pc = p /\ r.tool = h.tool /\ r.call = h.call
             /\ r.file = f /\ r.link = l
  BY <1>2 DEF AgentRecs, Opt, Advanced
<1> DEFINE f == IF q.op = "presign" THEN q.res ELSE h.file
           l == IF q.op = "create" THEN q.res ELSE h.link
           p == NextStage(q)
<1>4. f \in Opt(Files) /\ l \in Opt(Nat)
  BY DEF AgentRecs, Opt
<1>5. Received(h, q) = Advanced(h, p, f, l)
  BY DEF Received
<1>6. /\ q.op = "presign" => f = q.res
      /\ q.op # "presign" => f = h.file
      /\ q.op = "create" => l = q.res
      /\ q.op # "create" => l = h.link
  OBVIOUS
<1> HIDE DEF f, l, p
<1> QED
  BY <1>1, <1>3, <1>4, <1>5, <1>6 DEF p

LEMMA ReceiveStep ==
  ASSUME Typed, NEW a \in Agents, Receive(a)
  PROVE  LET g == agent'[a] h == agent[a] q == att[Cur(a)] IN
         /\ Works(a) /\ q \in Attempts /\ q.pc = "answer" /\ h.pc = q.op
         /\ att'[Cur(a)] = Unanswered /\ att'[Orphan(a)] = att[Orphan(a)]
         /\ \/ q.res = None /\ g = Failed /\ answered' = answered
            \/ /\ q.res # None /\ g.pc = NextStage(q) /\ g.tool = h.tool /\ g.call = h.call
               /\ q.op = "presign" => g.file = q.res
               /\ q.op # "presign" => g.file = h.file
               /\ q.op = "create" =>
                    /\ g.link = q.res
                    /\ answered' = answered \union
                                     {[call |-> h.call, file |-> h.file, link |-> q.res]}
               /\ q.op # "create" => g.link = h.link /\ answered' = answered
         /\ UNCHANGED <<state, revived, content, links, cache, calls, drawn, collided, excused>>
<1> DEFINE h == agent[a]
           q == att[Cur(a)]
<1>1. /\ q.pc = "answer"
      /\ UNCHANGED <<state, revived, content, links, cache, calls, drawn, collided, excused>>
      /\ answered' = IF q.op = "create" /\ q.res # None
                     THEN answered \union {[call |-> h.call, file |-> h.file, link |-> q.res]}
                     ELSE answered
      /\ Becomes(Cur(a), Unanswered)
  BY DEF Receive, Becomes, files, bounds
<1>2. /\ Cur(a) \in Slots /\ h \in AgentRecs /\ Asking(a)
      /\ q \in Attempts \union {Unanswered}
  BY SlotFacts DEF Typed
<1>3. q \in Attempts /\ WellFormed(q) /\ h.pc = q.op /\ Len(links) \in Nat
  BY <1>1, <1>2, AttShape DEF Typed, Asking, Attempts
<1>4. CASE q.res = None
  <2>1. AgentBecomes(a, Failed)
    BY <1>4 DEF Receive, AgentBecomes
  <2>2. /\ Works(a) /\ agent'[a] = Failed /\ att'[Cur(a)] = Unanswered
        /\ att'[Orphan(a)] = att[Orphan(a)]
    BY <2>1, <1>1, FailedShape, ToolWorks
  <2> QED
    BY <1>1, <1>3, <1>4, <2>2
<1>5. CASE q.res # None
  <2>1. AgentBecomes(a, Received(h, q))
    <3>1. agent' = [agent EXCEPT ![a] = IF q.res = None THEN Failed ELSE Received(h, q)]
      BY DEF Receive, Received, Advanced, NextStage
    <3> QED
      BY <1>5, <3>1 DEF AgentBecomes
  <2>2. (q.op = "presign" => q.res \in Files) /\ (q.op = "create" => q.res \in Nat)
    BY <1>3, <1>5 DEF WellFormed
  <2> DEFINE g == Received(h, q)
  <2>3. /\ g \in AgentRecs /\ g.pc = NextStage(q) /\ g.tool = h.tool /\ g.call = h.call
        /\ q.op = "presign" => g.file = q.res
        /\ q.op # "presign" => g.file = h.file
        /\ q.op = "create" => g.link = q.res
        /\ q.op # "create" => g.link = h.link
    BY <1>2, <1>3, <2>2, ReceivedShape
  <2> HIDE DEF g
  <2>4. /\ Works(a) /\ agent'[a] = g /\ att'[Cur(a)] = Unanswered
        /\ att'[Orphan(a)] = att[Orphan(a)]
    BY <2>1, <2>3, <1>1, ToolWorks DEF g
  <2> QED
    BY <1>1, <1>3, <1>5, <2>3, <2>4
<1> QED
  BY <1>4, <1>5

LEMMA ReconnectStep ==
  ASSUME Typed, NEW a \in Agents, Reconnect(a)
  PROVE  LET q == att[Cur(a)] w == att'[Cur(a)] IN
         /\ Works(a) /\ q \in Attempts /\ att[Orphan(a)] = Unanswered
         /\ att'[Orphan(a)] = q /\ w \in Attempts /\ Kept(w, q) /\ w.res = None
         /\ \/ w.pc = "get" /\ w.op \in Wrapped
            \/ w.pc = "run" /\ w.op \notin Wrapped
         /\ UNCHANGED <<state, revived, content, links, cache, agent, calls, drawn, answered,
                        collided, excused>>
<1> DEFINE q == att[Cur(a)]
           w == AtWith(q, FirstStep(q.op), None)
<1>1. Cur(a) \in Slots /\ Orphan(a) \in Slots /\ Cur(a) # Orphan(a)
  BY SlotFacts
<1>2. /\ att \in [Slots -> Attempts \union {Unanswered}] /\ agent \in [Agents -> AgentRecs]
      /\ q # Unanswered /\ q \in Attempts
  BY <1>1, AttShape DEF Typed, Reconnect
<1>3. FirstStep(q.op) \in Pcs /\ None \in Answers
  BY DEF FirstStep, Pcs, Answers
<1>4. w \in Attempts /\ Kept(w, q) /\ w.pc = FirstStep(q.op) /\ w.res = None
  BY <1>2, <1>3, AttUpdateWith
<1>5. att' = [att EXCEPT ![Orphan(a)] = q, ![Cur(a)] = w]
  BY <1>1, <1>2 DEF Reconnect, AtWith
<1>6. /\ att[Orphan(a)] = Unanswered
      /\ UNCHANGED <<state, revived, content, links, cache, agent, calls, drawn, answered,
                     collided, excused>>
  BY DEF Reconnect, files, history
<1>7. \/ w.pc = "get" /\ w.op \in Wrapped
      \/ w.pc = "run" /\ w.op \notin Wrapped
  BY <1>4 DEF FirstStep, Kept
<1> HIDE DEF w
<1>8. Works(a) /\ att'[Orphan(a)] = q /\ att'[Cur(a)] = w
  BY <1>1, <1>2, <1>4, <1>5, <1>6 DEF Works
<1> QED
  BY <1>2, <1>4, <1>6, <1>7, <1>8

LEMMA GiveUpStep ==
  ASSUME Typed, NEW a \in Agents, GiveUp(a)
  PROVE  /\ Works(a) /\ agent'[a] = Failed /\ att[Orphan(a)] = Unanswered
         /\ att'[Cur(a)] = Unanswered /\ att'[Orphan(a)] = att[Cur(a)]
         /\ UNCHANGED <<state, revived, content, links, cache, calls, drawn, answered,
                        collided, excused>>
<1>1. Cur(a) \in Slots /\ Orphan(a) \in Slots /\ Cur(a) # Orphan(a)
  BY SlotFacts
<1>2. att \in [Slots -> Attempts \union {Unanswered}] /\ agent \in [Agents -> AgentRecs]
  BY DEF Typed
<1>3. /\ att[Orphan(a)] = Unanswered /\ agent' = [agent EXCEPT ![a] = Failed]
      /\ att' = [att EXCEPT ![Orphan(a)] = att[Cur(a)], ![Cur(a)] = Unanswered]
      /\ UNCHANGED <<state, revived, content, links, cache, calls, drawn, answered,
                     collided, excused>>
  BY DEF GiveUp, Fault, files, history
<1> QED
  BY <1>1, <1>2, <1>3, FailedShape DEF Works

LEMMA OrphanStep ==
  ASSUME Typed, NEW a \in Agents, OrphanEnds(a)
  PROVE  /\ Works(a) /\ att[Orphan(a)] \in Attempts /\ att'[Cur(a)] = att[Cur(a)]
         /\ att'[Orphan(a)] = Unanswered /\ excused \subseteq excused'
         /\ att[Orphan(a)].pc = "set" => att[Orphan(a)].call \in excused'
         /\ UNCHANGED <<state, revived, content, links, cache, agent, calls, drawn, answered,
                        collided>>
<1>1. Cur(a) \in Slots /\ Orphan(a) \in Slots /\ Cur(a) # Orphan(a)
  BY SlotFacts
<1>2. att \in [Slots -> Attempts \union {Unanswered}] /\ agent \in [Agents -> AgentRecs]
  BY DEF Typed
<1>3. /\ att[Orphan(a)] # Unanswered /\ att' = [att EXCEPT ![Orphan(a)] = Unanswered]
      /\ UNCHANGED <<state, revived, content, links, cache, agent, calls, drawn, answered,
                     collided>>
  BY DEF OrphanEnds, files, bounds
<1>4. /\ excused \subseteq excused'
      /\ att[Orphan(a)].pc = "set" => att[Orphan(a)].call \in excused'
  BY DEF OrphanEnds
<1> QED
  BY <1>1, <1>2, <1>3, <1>4, AttShape DEF Works

LEMMA MoveStep ==
  ASSUME Typed, NEW f \in Files, FileMoves(f)
  PROVE  /\ FilesStep
         /\ UNCHANGED <<content, links, cache, agent, att, calls, drawn, answered, collided,
                        excused>>
<1>1. FilesStep
  <2>1. Service!Publish(f) => FilesStep
    BY FilesMove DEF Service!Publish, Service!Phases
  <2>2. Service!End(f) => FilesStep
    BY FilesMove DEF Service!End, Service!Phases
  <2> QED
    BY <2>1, <2>2 DEF FileMoves
<1> QED
  BY <1>1 DEF FileMoves, bounds, history

-----------------------------------------------------------------------------
(***************************************************************************)
(* Types, continued: the steps of the tools.                                *)
(***************************************************************************)
LEMMA WorksTyped ==
  ASSUME Typed, NEW a \in Agents, Works(a), Grows, FilesStep, UNCHANGED <<links, cache>>,
         content' \in [Files -> Calls], calls' \in Calls, drawn' \in [Keys -> Calls],
         att'[Cur(a)] # Unanswered => WellFormed(att[Cur(a)])',
         att'[Orphan(a)] \in {att[Orphan(a)], att[Cur(a)], Unanswered},
         Staged(agent[a])', Asking(a)'
  PROVE  Typed'
<1>1. /\ att \in [Slots -> Attempts \union {Unanswered}] /\ agent \in [Agents -> AgentRecs]
      /\ Cur(a) \in Slots /\ Orphan(a) \in Slots
  BY SlotFacts DEF Typed
<1>2. ASSUME NEW y \in Slots, att'[y] # Unanswered
      PROVE  WellFormed(att[y])'
  <2>1. CASE y = Cur(a)
    BY <1>2, <2>1
  <2>2. CASE y # Cur(a)
    <3>1. PICK z \in Slots : att'[y] = att[z]
      BY <1>1, <1>2, <2>2 DEF Works
    <3>2. att[z] \in Attempts /\ WellFormed(att[z])
      BY <1>1, <1>2, <3>1, AttShape DEF Typed
    <3> QED
      BY <3>1, <3>2, WellFormedKept
  <2> QED
    BY <2>1, <2>2
<1>3. ASSUME NEW b \in Agents
      PROVE  Staged(agent[b])' /\ Asking(b)'
  <2>1. CASE b = a
    BY <2>1
  <2>2. CASE b # a
    <3>1. agent'[b] = agent[b] /\ agent[b] \in AgentRecs /\ Staged(agent[b]) /\ Asking(b)
      BY <1>1, <2>2 DEF Works, Typed
    <3>2. Cur(b) \in Slots \ {Cur(a), Orphan(a)}
      BY <2>2, SlotFacts
    <3>3. att'[Cur(b)] = att[Cur(b)]
      BY <3>2 DEF Works
    <3> QED
      BY <3>1, <3>3, StagedKept DEF Asking
  <2> QED
    BY <2>1, <2>2
<1>4. \A o \in Wrapped, k \in Keys : EntryOK(o, k)'
  BY EntryKept
<1> QED
  BY <1>2, <1>3, <1>4 DEF Typed, FilesStep, Works

LEMMA ToolKeepsTypes ==
  ASSUME Typed, NEW a \in Agents,
         \/ \E k \in Keys : PollReady(a, k)
         \/ Put(a) \/ PollAgain(a) \/ PollFails(a) \/ Receive(a)
         \/ Reconnect(a) \/ GiveUp(a) \/ OrphanEnds(a)
  PROVE  Typed' /\ Grows /\ FilesStep
<1> USE SMTT(20)
<1>1. /\ agent[a] \in AgentRecs /\ Staged(agent[a]) /\ Asking(a) /\ agent[a].call \in Nat
      /\ calls \in Calls /\ content \in [Files -> Calls] /\ drawn \in [Keys -> Calls]
      /\ Len(links) \in Nat /\ calls \in Nat /\ agent[a].call <= calls
      /\ agent[a].call \in Calls
  <2>1. /\ agent[a] \in AgentRecs /\ Staged(agent[a]) /\ Asking(a) /\ Len(links) \in Nat
        /\ calls \in Calls /\ content \in [Files -> Calls] /\ drawn \in [Keys -> Calls]
    BY DEF Typed
  <2>2. agent[a].call \in Calls
    BY <2>1 DEF AgentRecs
  <2>3. agent[a].call <= calls
    BY <2>1 DEF Staged
  <2>4. \A c \in Calls : c \in Nat
    BY Consts
  <2>5. agent[a].call \in Nat /\ calls \in Nat
    BY <2>1, <2>2, <2>4
  <2> QED
    BY <2>1, <2>2, <2>3, <2>5
<1>2. ASSUME NEW k \in Keys, PollReady(a, k)
      PROVE  Typed' /\ Grows /\ FilesStep
  <2> DEFINE f == agent[a].file
  <2>1. /\ Works(a) /\ Asks(a, att'[Cur(a)]) /\ agent[a].pc = "poll" /\ f \in Files
        /\ agent'[a].pc = agent[a].tool /\ SameCall(agent'[a], agent[a])
        /\ att'[Cur(a)].op = agent[a].tool /\ att'[Cur(a)].key = k
        /\ att'[Cur(a)].file = f /\ att'[Cur(a)].link = agent[a].link
        /\ att'[Cur(a)].call = agent[a].call
        /\ UNCHANGED <<state, revived, content, links, cache, calls, drawn>>
    BY <1>2, PollReadyStep
  <2>2. Grows /\ FilesStep
    BY <2>1, GrowsAtRest, FilesRest
  <2>3. agent[a].tool \in {"create", "update"} /\ content[f] # 0 /\ agent[a].call \in 1..calls
    BY <1>1, <2>1 DEF Staged, AgentRecs, Resting
  <2>4. WellFormed(att[Cur(a)])'
    BY <1>1, <2>1, <2>3 DEF WellFormed, Asks, Staged, Wrapped
  <2>5. Staged(agent[a])'
    BY <1>1, <2>1, <2>3 DEF Staged, SameCall, Resting
  <2>6. Asking(a)'
    BY <2>1, <2>3 DEF Asking, Asks, SameCall, Ops, Wrapped
  <2>7. /\ content' \in [Files -> Calls] /\ calls' \in Calls /\ drawn' \in [Keys -> Calls]
        /\ att'[Orphan(a)] = att[Orphan(a)] /\ UNCHANGED <<links, cache>>
    BY <1>1, <2>1 DEF Asks
  <2> QED
    BY <2>1, <2>2, <2>4, <2>5, <2>6, <2>7, WorksTyped
<1>3. CASE Put(a)
  <2> DEFINE f == agent[a].file
  <2>1. /\ Works(a) /\ Asks(a, att'[Cur(a)]) /\ agent[a].pc = "put" /\ f \in Files
        /\ agent'[a].pc = "complete" /\ SameCall(agent'[a], agent[a])
        /\ att'[Cur(a)].op = "complete" /\ att'[Cur(a)].file = f
        /\ att'[Cur(a)].call = agent[a].call
        /\ content' = [content EXCEPT ![f] = agent[a].call]
        /\ UNCHANGED <<state, revived, links, cache, calls, drawn>>
    BY <1>3, PutStep
  <2>2. agent[a].call \in 1..calls
    BY <1>1, <2>1 DEF Staged, Resting
  <2>3. /\ content' \in [Files -> Calls] /\ content'[f] # 0
        /\ \A h \in Files : content[h] # 0 => content'[h] # 0
    BY <1>1, <2>1, <2>2
  <2>4. Grows /\ FilesStep
    BY <1>1, <2>1, <2>3, FilesRest DEF Grows
  <2>5. WellFormed(att[Cur(a)])'
    BY <1>1, <2>1, <2>2, <2>3 DEF WellFormed, Asks, Wrapped
  <2>6. Staged(agent[a])'
    BY <1>1, <2>1, <2>2, <2>3 DEF Staged, SameCall, Resting
  <2>7. Asking(a)'
    BY <2>1 DEF Asking, Asks, SameCall, Ops, Wrapped
  <2>8. /\ calls' \in Calls /\ drawn' \in [Keys -> Calls]
        /\ att'[Orphan(a)] = att[Orphan(a)] /\ UNCHANGED <<links, cache>>
    BY <1>1, <2>1 DEF Asks
  <2> QED
    BY <2>1, <2>3, <2>4, <2>5, <2>6, <2>7, <2>8, WorksTyped
<1>4. CASE PollAgain(a) \/ PollFails(a)
  <2>1. /\ Works(a) /\ agent[a].pc = "poll"
        /\ \/ agent'[a] = Failed
           \/ agent'[a].pc = "poll" /\ SameCall(agent'[a], agent[a])
        /\ UNCHANGED <<state, revived, content, links, cache, att, calls, drawn>>
    BY <1>4, PollStep
  <2>2. Grows /\ FilesStep
    BY <2>1, GrowsAtRest, FilesRest
  <2>3. att'[Cur(a)] = Unanswered
    BY <1>1, <2>1 DEF Asking, Ops, Wrapped
  <2>4. Staged(agent[a])'
    BY <1>1, <2>1, FailedShape DEF Staged, SameCall, Resting
  <2>5. Asking(a)'
    BY <2>1, <2>3, FailedShape DEF Asking, Ops, Wrapped
  <2>6. /\ content' \in [Files -> Calls] /\ calls' \in Calls /\ drawn' \in [Keys -> Calls]
        /\ att'[Orphan(a)] = att[Orphan(a)] /\ UNCHANGED <<links, cache>>
    BY <1>1, <2>1
  <2> QED
    BY <2>1, <2>2, <2>3, <2>4, <2>5, <2>6, WorksTyped
<1>5. CASE Receive(a)
  <2> DEFINE h == agent[a]
             q == att[Cur(a)]
  <2>1. /\ Works(a) /\ q \in Attempts /\ h.pc = q.op
        /\ att'[Cur(a)] = Unanswered /\ att'[Orphan(a)] = att[Orphan(a)]
        /\ \/ agent'[a] = Failed
           \/ /\ q.res # None /\ agent'[a].pc = NextStage(q) /\ agent'[a].tool = h.tool
              /\ agent'[a].call = h.call
              /\ q.op = "presign" => agent'[a].file = q.res
              /\ q.op # "presign" => agent'[a].file = h.file
              /\ q.op = "create" => agent'[a].link = q.res
              /\ q.op # "create" => agent'[a].link = h.link
        /\ UNCHANGED <<state, revived, content, links, cache, calls, drawn>>
    BY <1>5, ReceiveStep
  <2>2. Grows /\ FilesStep
    BY <2>1, GrowsAtRest, FilesRest
  <2>3. /\ WellFormed(q) /\ h.pc \in Ops /\ h.pc # "put"
        /\ h.pc \in {"create", "update"} => h.pc = h.tool
    <3>1. Cur(a) \in Slots
      BY SlotFacts
    <3>2. q.op \in Ops
      BY <2>1 DEF Attempts
    <3> QED
      BY <1>1, <2>1, <3>1, <3>2, Worked DEF Staged, Ops, Wrapped
  <2>4. Staged(agent[a])'
    <3>1. CASE agent'[a] = Failed
      BY <1>1, <2>1, <3>1, FailedShape DEF Staged, Resting
    <3>2. CASE agent'[a] # Failed
      <4>1. CASE q.op = "presign"
        <5>1. agent'[a].pc = "put" /\ q.res \in Files
          BY <2>1, <2>3, <3>2, <4>1 DEF NextStage, WellFormed
        <5> QED
          BY <1>1, <2>1, <2>3, <3>2, <4>1, <5>1 DEF Staged, Resting
      <4>2. CASE q.op = "complete"
        <5>1. agent'[a].pc = "poll"
          BY <2>1, <3>2, <4>2 DEF NextStage
        <5> QED
          BY <1>1, <2>1, <2>3, <3>2, <4>2, <5>1 DEF Staged, Resting
      <4>3. CASE q.op \in {"create", "update"}
        <5>1. agent'[a].pc = "done"
          BY <2>1, <3>2, <4>3 DEF NextStage
        <5> QED
          BY <1>1, <2>1, <2>3, <3>2, <4>3, <5>1 DEF Staged, Resting
      <4> QED
        BY <2>1, <2>3, <4>1, <4>2, <4>3 DEF Ops, Wrapped
    <3> QED
      BY <3>1, <3>2
  <2>5. Asking(a)'
    <3>1. agent'[a].pc \notin Ops
      BY <2>1, FailedShape DEF NextStage, Ops, Wrapped
    <3> QED
      BY <2>1, <3>1 DEF Asking
  <2>6. /\ content' \in [Files -> Calls] /\ calls' \in Calls /\ drawn' \in [Keys -> Calls]
        /\ UNCHANGED <<links, cache>>
    BY <1>1, <2>1
  <2> QED
    BY <2>1, <2>2, <2>4, <2>5, <2>6, WorksTyped
<1>6. CASE Reconnect(a)
  <2> DEFINE q == att[Cur(a)]
             w == att'[Cur(a)]
  <2>1. /\ Works(a) /\ q \in Attempts /\ att'[Orphan(a)] = q
        /\ w \in Attempts /\ Kept(w, q) /\ w.res = None
        /\ \/ w.pc = "get" /\ w.op \in Wrapped
           \/ w.pc = "run" /\ w.op \notin Wrapped
        /\ UNCHANGED <<state, revived, content, links, cache, agent, calls, drawn>>
    BY <1>6, ReconnectStep
  <2>2. Grows /\ FilesStep
    BY <2>1, GrowsAtRest, FilesRest
  <2>3. Cur(a) \in Slots /\ q # Unanswered /\ w # Unanswered /\ WellFormed(q)
    BY <2>1, SlotFacts, AttShape, Worked
  <2>4. WellFormed(att[Cur(a)])'
    BY <2>1, <2>2, <2>3, WellFormedMoved DEF Kept
  <2>5. Staged(agent[a])' /\ Asking(a)'
    BY <1>1, <2>1, <2>2, <2>3, StagedKept DEF Asking, Kept
  <2>6. /\ content' \in [Files -> Calls] /\ calls' \in Calls /\ drawn' \in [Keys -> Calls]
        /\ UNCHANGED <<links, cache>>
    BY <1>1, <2>1
  <2> QED
    BY <2>1, <2>2, <2>4, <2>5, <2>6, WorksTyped
<1>7. CASE GiveUp(a)
  <2>1. /\ Works(a) /\ agent'[a] = Failed
        /\ att'[Cur(a)] = Unanswered /\ att'[Orphan(a)] = att[Cur(a)]
        /\ UNCHANGED <<state, revived, content, links, cache, calls, drawn>>
    BY <1>7, GiveUpStep
  <2>2. Grows /\ FilesStep
    BY <2>1, GrowsAtRest, FilesRest
  <2>3. Staged(agent[a])' /\ Asking(a)'
    BY <1>1, <2>1, FailedShape DEF Staged, Asking, Resting, Ops, Wrapped
  <2>4. /\ content' \in [Files -> Calls] /\ calls' \in Calls /\ drawn' \in [Keys -> Calls]
        /\ UNCHANGED <<links, cache>>
    BY <1>1, <2>1
  <2> QED
    BY <2>1, <2>2, <2>3, <2>4, WorksTyped
<1>8. CASE OrphanEnds(a)
  <2>1. /\ Works(a) /\ att'[Cur(a)] = att[Cur(a)] /\ att'[Orphan(a)] = Unanswered
        /\ UNCHANGED <<state, revived, content, links, cache, agent, calls, drawn>>
    BY <1>8, OrphanStep
  <2>2. Grows /\ FilesStep
    BY <2>1, GrowsAtRest, FilesRest
  <2>3. att[Cur(a)] # Unanswered => WellFormed(att[Cur(a)]) /\ att[Cur(a)] \in Attempts
    BY SlotFacts, AttShape DEF Typed
  <2>4. att'[Cur(a)] # Unanswered => WellFormed(att[Cur(a)])'
    BY <2>1, <2>2, <2>3, WellFormedKept
  <2>5. Staged(agent[a])' /\ Asking(a)'
    BY <1>1, <2>1, <2>2, StagedKept DEF Asking
  <2>6. /\ content' \in [Files -> Calls] /\ calls' \in Calls /\ drawn' \in [Keys -> Calls]
        /\ UNCHANGED <<links, cache>>
    BY <1>1, <2>1
  <2> QED
    BY <2>1, <2>2, <2>4, <2>5, <2>6, WorksTyped
<1> QED
  BY <1>2, <1>3, <1>4, <1>5, <1>6, <1>7, <1>8

LEMMA CallKeepsTypes ==
  ASSUME Typed, NEW a \in Agents, NEW tool \in {"create", "update"}, NEW l \in Nat \union {None},
         tool = "update" => l \in 1..Len(links),
         NEW b \in Bodies, NEW k \in Keys, ToolCall(a, tool, l, b, k)
  PROVE  Typed' /\ Grows /\ FilesStep
<1> DEFINE c == calls + 1
<1>1. /\ Works(a) /\ Asks(a, att'[Cur(a)]) /\ calls' = c /\ c \in Calls
      /\ agent'[a].pc = "presign" /\ agent'[a].tool = tool /\ agent'[a].call = c
      /\ agent'[a].link = l
      /\ att'[Cur(a)].op = "presign" /\ att'[Cur(a)].key = k /\ att'[Cur(a)].call = c
      /\ UNCHANGED <<state, revived, content, links, cache>>
      /\ drawn' = [drawn EXCEPT ![k] = c]
  BY CallStep
<1>2. /\ content \in [Files -> Calls] /\ drawn \in [Keys -> Calls] /\ Len(links) \in Nat
      /\ calls \in Nat
  BY Consts DEF Typed
<1>3. drawn' \in [Keys -> Calls] /\ drawn'[k] # 0 /\ \A j \in Keys : drawn[j] # 0 => drawn'[j] # 0
  BY <1>1, <1>2
<1>4. Grows /\ FilesStep
  BY <1>1, <1>2, <1>3, FilesRest DEF Grows
<1>5. c \in 1..calls'
  BY <1>1, <1>2
<1>6. WellFormed(att[Cur(a)])'
  BY <1>1, <1>3, <1>5 DEF WellFormed, Asks, Wrapped
<1>7. Staged(agent[a])'
  BY <1>1, <1>5 DEF Staged, Resting
<1>8. Asking(a)'
  BY <1>1 DEF Asking, Asks, Ops, Wrapped
<1>9. content' \in [Files -> Calls] /\ calls' \in Calls /\ att'[Orphan(a)] = att[Orphan(a)]
  BY <1>1, <1>2 DEF Asks
<1> QED
  BY <1>1, <1>3, <1>4, <1>6, <1>7, <1>8, <1>9, WorksTyped

LEMMA MoveKeepsTypes ==
  ASSUME Typed, NEW f \in Files, FileMoves(f)
  PROVE  Typed' /\ Grows /\ FilesStep
<1>1. /\ FilesStep
      /\ UNCHANGED <<content, links, cache, agent, att, calls, drawn>>
  BY MoveStep
<1>2. Grows
  BY <1>1, GrowsAtRest
<1> QED
  BY <1>1, <1>2 DEF Typed, FilesStep, WellFormed, Staged, Asking, EntryOK

LEMMA StutterKeepsTypes ==
  ASSUME Typed, UNCHANGED vars
  PROVE  Typed' /\ Grows /\ FilesStep
<1>1. UNCHANGED <<state, revived, content, links, cache, agent, att, calls, drawn>>
  BY DEF vars, files, bounds, history
<1>2. Grows /\ FilesStep
  BY <1>1, GrowsAtRest, FilesRest
<1> QED
  BY <1>1, <1>2 DEF Typed, WellFormed, Staged, Asking, EntryOK

\* Every step of Next, by what it is.
LEMMA NextSteps ==
  ASSUME Typed, Next
  PROVE  \/ \E a \in Agents : \E tool \in {"create", "update"} : \E l \in Nat \union {None} :
              \E b \in Bodies : \E k \in Keys :
                ToolCall(a, tool, l, b, k) /\ (tool = "update" => l \in 1..Len(links))
         \/ \E a \in Agents :
              \/ \E k \in Keys : PollReady(a, k)
              \/ Put(a) \/ PollAgain(a) \/ PollFails(a) \/ Receive(a)
              \/ Reconnect(a) \/ GiveUp(a) \/ OrphanEnds(a)
         \/ \E x \in Slots : Server(x) \/ GetFails(x) \/ SetFails(x)
         \/ \E f \in Files : FileMoves(f)
<1>1. Len(links) \in Nat /\ \A l \in 1..Len(links) : l \in Nat \union {None}
  BY DEF Typed
<1>2. None \in Nat \union {None}
  OBVIOUS
<1>3. CASE \E a \in Agents, b \in Bodies, k \in Keys :
             \/ ToolCall(a, "create", None, b, k)
             \/ \E l \in 1..Len(links) : ToolCall(a, "update", l, b, k)
  BY <1>1, <1>2, <1>3
<1>4. CASE \E a \in Agents : Tool(a) \/ Reconnect(a) \/ GiveUp(a) \/ OrphanEnds(a)
  BY <1>4 DEF Tool
<1> QED
  BY <1>3, <1>4 DEF Next

LEMMA TypedStep ==
  ASSUME Typed, [Next]_vars
  PROVE  Typed' /\ Grows /\ FilesStep
<1>1. CASE UNCHANGED vars
  BY <1>1, StutterKeepsTypes
<1>2. CASE Next
  BY <1>2, NextSteps, CallKeepsTypes, ToolKeepsTypes, ServerKeepsTypes, MoveKeepsTypes
<1> QED
  BY <1>1, <1>2

LEMMA TypedInit ==
  ASSUME Init
  PROVE  Typed
<1>1. /\ state \in [Files -> Service!Phases] /\ revived \subseteq Files
      /\ content \in [Files -> Calls] /\ calls \in Calls /\ drawn \in [Keys -> Calls]
      /\ calls \in Nat
  BY Consts DEF Init, Service!Init, Service!Phases
<1>2. links \in Seq([file : Files, call : Calls]) /\ Len(links) = 0
  BY DEF Init
<1>3. NoCall \in AgentRecs /\ NoCall.pc = "idle" /\ NoCall.call = 0 /\ NoCall.tool = "create"
  BY Consts DEF NoCall, AgentRecs, Ops, Wrapped
<1>4. agent \in [Agents -> AgentRecs] /\ \A a \in Agents : agent[a] = NoCall
  BY <1>3 DEF Init
<1>5. /\ att \in [Slots -> Attempts \union {Unanswered}]
      /\ \A x \in Slots : att[x] = Unanswered
  BY DEF Init
<1>6. \A a \in Agents : Staged(agent[a]) /\ Asking(a)
  BY <1>1, <1>3, <1>4, <1>5, SlotFacts DEF Staged, Asking, Resting, Ops, Wrapped
<1>7. /\ cache \in [Wrapped -> [Keys -> Entries \union {None}]]
      /\ \A o \in Wrapped, k \in Keys : cache[o][k] = None
  BY DEF Init
<1> QED
  BY <1>1, <1>2, <1>4, <1>5, <1>6, <1>7 DEF Typed, EntryOK

LEMMA TypedImpliesTypeOK ==
  ASSUME Typed
  PROVE  TypeOK
<1>1. /\ state \in [Files -> Service!Phases] /\ revived \subseteq Files
      /\ content \in [Files -> Calls] /\ links \in Seq([file : Files, call : Calls])
  BY DEF Typed
<1>2. ASSUME NEW o \in Wrapped, NEW k \in Keys, cache[o][k] # None
      PROVE  /\ DOMAIN cache[o][k] = {"hash", "res"}
             /\ cache[o][k].res \in IF o = "presign" THEN Files ELSE 1..Len(links)
  <2>1. EntryOK(o, k)
    BY DEF Typed
  <2>2. cache[o][k] \in Entries
    BY <1>2, <2>1 DEF EntryOK
  <2>3. DOMAIN cache[o][k] = {"hash", "res"}
    BY <2>2 DEF Entries
  <2> QED
    BY <1>2, <2>1, <2>3 DEF EntryOK, Wrapped
<1>3. ASSUME NEW x \in Slots, att[x] # Unanswered
      PROVE  /\ att[x].pc \in {"get", "run", "insert", "set", "answer"}
             /\ att[x].op \in Ops /\ att[x].call \in Calls /\ att[x].res \in Answers
             /\ att[x].op = "update" => att[x].link \in 1..Len(links)
  <2>1. att[x] \in Attempts /\ WellFormed(att[x])
    BY <1>3, AttShape DEF Typed
  <2> QED
    BY <2>1 DEF Attempts, Pcs, WellFormed
<1>4. agent \in [Agents -> [pc : Ops \union {"idle", "put", "poll", "done", "failed"},
                            tool : {"create", "update"}, call : Calls,
                            file : Files \union {None}, link : Nat \union {None},
                            polls : 0..MaxPolls]]
  BY DEF Typed, AgentRecs
<1> QED
  BY <1>1, <1>2, <1>3, <1>4 DEF TypeOK

\* Every table and every request keeps its shape, and an update names a link that exists.
THEOREM AgentTypeCorrect == Spec => []TypeOK
<1>1. Init => Typed
  BY TypedInit
<1>2. Typed /\ [Next]_vars => Typed'
  BY TypedStep
<1>3. Typed => TypeOK
  BY TypedImpliesTypeOK
<1> QED
  BY <1>1, <1>2, <1>3, PTL DEF Spec

-----------------------------------------------------------------------------
(***************************************************************************)
(* One link per call.                                                       *)
(***************************************************************************)

\* Attempts to create a link for call c, and those past the lookup of the cache.
Creates(x, c) == att[x] # Unanswered /\ att[x].op = "create" /\ att[x].call = c
Busy(x)       == att[x].pc \in {"run", "insert", "set"}
Made(i, c)    == i \in 1..Len(links) /\ links[i].call = c

\* Of a call that is not excused, at most one attempt is past the lookup, ...
OneBusy(c) == \A x, y \in Slots :
                Creates(x, c) /\ Creates(y, c) /\ Busy(x) /\ Busy(y) => x = y
\* ... it makes at most one link, ...
OneMade(c) == \A i, j \in Nat : Made(i, c) /\ Made(j, c) => i = j
\* ... after which none of its attempts is about to make one, ...
NoneLeft(c) == \A x \in Slots : \A i \in Nat :
                 Creates(x, c) /\ Made(i, c) => att[x].pc \notin {"run", "insert"}
\* ... because its answer is in the cache or about to be stored.
Remembered(c) == \A i \in Nat : Made(i, c) => \A y \in Slots : Creates(y, c) =>
                   \/ cache["create"][att[y].key] # None
                   \/ \E x \in Slots : Creates(x, c) /\ att[x].pc = "set"

Once(c) == OneBusy(c) /\ OneMade(c) /\ NoneLeft(c) /\ Remembered(c)

\* Attempts of one call have one key.
SameKey == \A c \in Calls : \A x, y \in Slots :
             Creates(x, c) /\ Creates(y, c) => att[x].key = att[y].key

\* A call that has yet to ask for its link has none, nor an attempt to make one.
NotYet == \A a \in Agents : agent[a].pc \in Early =>
            /\ \A x \in Slots : ~Creates(x, agent[a].call)
            /\ \A i \in Nat : ~Made(i, agent[a].call)

\* Two agents work on different calls.
Distinct == \A a, b \in Agents :
              a # b /\ agent[a].call = agent[b].call => agent[a].call = 0

LinkBound == \A i \in 1..Len(links) : links[i].call <= calls

Linking == /\ SameKey /\ NotYet /\ Distinct /\ LinkBound
           /\ \A c \in Calls : c \notin excused => Once(c)

\* An attempt for c afterwards was one before, under the same key: y was at m[y].
Follows(m, c) ==
    \A y \in Slots : Creates(y, c)' =>
       /\ Creates(m[y], c) /\ att'[y].key = att[m[y]].key
       /\ att'[y].pc \in {"run", "insert"} => att[m[y]].pc \in {"run", "insert"}
       /\ att'[y].pc = "set" => att[m[y]].pc = "set"

\* A step that makes no link for c and starts no attempt of it past the lookup.
LEMMA OnceKept ==
  ASSUME NEW c, Once(c), NEW m \in [Slots -> Slots], Follows(m, c),
         \A y, z \in Slots : Creates(y, c)' /\ Creates(z, c)' /\ Busy(y)' /\ Busy(z)'
                               /\ m[y] = m[z] => y = z,
         \A z \in Slots : Creates(z, c) /\ att[z].pc = "set" =>
           \/ \A y \in Slots : Creates(y, c)' => cache'["create"][att'[y].key] # None
           \/ \E y \in Slots : Creates(y, c)' /\ att'[y].pc = "set",
         \A y \in Slots : Creates(y, c)' /\ cache["create"][att'[y].key] # None =>
                            cache'["create"][att'[y].key] # None,
         \A i \in Nat : Made(i, c)' => Made(i, c)
  PROVE  Once(c)'
<1>1. OneBusy(c)'
  <2>1. SUFFICES ASSUME NEW y \in Slots, NEW z \in Slots, Creates(y, c)', Creates(z, c)',
                        Busy(y)', Busy(z)'
                 PROVE  y = z
    BY DEF OneBusy
  <2>2. Creates(m[y], c) /\ Creates(m[z], c) /\ Busy(m[y]) /\ Busy(m[z])
    BY <2>1 DEF Follows, Busy
  <2>3. m[y] = m[z]
    BY <2>2 DEF Once, OneBusy
  <2> QED
    BY <2>1, <2>3
<1>2. OneMade(c)'
  BY DEF Once, OneMade
<1>3. NoneLeft(c)'
  BY DEF Once, NoneLeft, Follows
<1>4. Remembered(c)'
  <2>1. SUFFICES ASSUME NEW i \in Nat, Made(i, c)', NEW y \in Slots, Creates(y, c)',
                        ~ \E x \in Slots : Creates(x, c)' /\ att'[x].pc = "set"
                 PROVE  cache'["create"][att'[y].key] # None
    BY DEF Remembered
  <2>2. Creates(m[y], c) /\ Made(i, c) /\ att'[y].key = att[m[y]].key
    BY <2>1 DEF Follows
  <2>3. CASE cache["create"][att[m[y]].key] # None
    BY <2>1, <2>2, <2>3
  <2>4. CASE \E z \in Slots : Creates(z, c) /\ att[z].pc = "set"
    BY <2>1, <2>4
  <2> QED
    BY <2>2, <2>3, <2>4 DEF Once, Remembered
<1> QED
  BY <1>1, <1>2, <1>3, <1>4 DEF Once

\* The table of attempts after a step of the server.
LEMMA ServerCreates ==
  ASSUME Typed, NEW x \in Slots, NEW w \in Attempts, att[x] \in Attempts, Kept(w, att[x]),
         Becomes(x, w)
  PROVE  /\ att'[x] = w /\ \A y \in Slots \ {x} : att'[y] = att[y]
         /\ \A y \in Slots : \A c : Creates(y, c)' <=> Creates(y, c)
         /\ \A y \in Slots : \A c : Creates(y, c) => att'[y].key = att[y].key
<1>1. att'[x] = w /\ \A y \in Slots \ {x} : att'[y] = att[y]
  BY DEF Typed, Becomes
<1>2. w # Unanswered /\ att[x] # Unanswered
  BY AttShape
<1> QED
  BY <1>1, <1>2 DEF Kept, Creates

\* What of Linking does not depend on where the attempts are.
LEMMA ServerBasics ==
  ASSUME Typed, Grows, Linking, NEW x \in Slots, att[x] \in Attempts, Aside,
         \A y \in Slots : \A c : Creates(y, c)' <=> Creates(y, c),
         \A y \in Slots : \A c : Creates(y, c) => att'[y].key = att[y].key,
         \A i \in Nat : \A c : Made(i, c)' => Made(i, c) \/ Creates(x, c)
  PROVE  SameKey' /\ NotYet' /\ Distinct' /\ LinkBound'
<1>1. SameKey'
  BY DEF Linking, SameKey
<1>2. NotYet'
  BY DEF Linking, NotYet, Aside
<1>3. Distinct'
  BY DEF Linking, Distinct, Aside
<1>4. LinkBound'
  <2>1. SUFFICES ASSUME NEW i \in 1..Len(links')
                 PROVE  links'[i].call <= calls
    BY DEF LinkBound, Aside
  <2>2. PICK d : d = links'[i].call
    OBVIOUS
  <2>3. i \in Nat /\ Made(i, d)'
    BY <2>1, <2>2 DEF Made, Grows
  <2>4. CASE Made(i, d)
    BY <2>2, <2>4 DEF Made, Linking, LinkBound
  <2>5. CASE Creates(x, d)
    <3>1. WellFormed(att[x]) /\ calls \in Nat
      BY Worked DEF Grows
    <3> QED
      BY <2>2, <2>5, <3>1 DEF Creates, WellFormed
  <2> QED
    BY <2>3, <2>4, <2>5
<1> QED
  BY <1>1, <1>2, <1>3, <1>4

LEMMA MadeBefore ==
  ASSUME Grows, Len(links') = Len(links)
  PROVE  \A i \in Nat : \A c : Made(i, c)' <=> Made(i, c)
BY DEF Grows, Made

\* OnceKept for a step after which every attempt is where it was.
LEMMA OnceInPlace ==
  ASSUME NEW c, Once(c),
         \A y \in Slots : Creates(y, c)' =>
           /\ Creates(y, c) /\ att'[y].key = att[y].key
           /\ att'[y].pc \in {"run", "insert"} => att[y].pc \in {"run", "insert"}
           /\ att'[y].pc = "set" => att[y].pc = "set",
         \A z \in Slots : Creates(z, c) /\ att[z].pc = "set" =>
           \/ \A y \in Slots : Creates(y, c)' => cache'["create"][att'[y].key] # None
           \/ Creates(z, c)' /\ att'[z].pc = "set",
         \A y \in Slots : Creates(y, c)' /\ cache["create"][att'[y].key] # None =>
                            cache'["create"][att'[y].key] # None,
         \A i \in Nat : Made(i, c)' => Made(i, c)
  PROVE  Once(c)'
<1> DEFINE m == [y \in Slots |-> y]
<1>1. m \in [Slots -> Slots] /\ \A y \in Slots : m[y] = y
  OBVIOUS
<1> HIDE DEF m
<1>2. Follows(m, c)
  BY <1>1 DEF Follows
<1>3. \A y, z \in Slots : m[y] = m[z] => y = z
  BY <1>1
<1>4. \A z \in Slots : Creates(z, c) /\ att[z].pc = "set" =>
        \/ \A y \in Slots : Creates(y, c)' => cache'["create"][att'[y].key] # None
        \/ \E y \in Slots : Creates(y, c)' /\ att'[y].pc = "set"
  OBVIOUS
<1> QED
  BY <1>1, <1>2, <1>3, <1>4, OnceKept

\* A step on an attempt that is none for c, which at most makes the link of another call.
LEMMA OnceElsewhere ==
  ASSUME NEW c, Once(c), NEW x \in Slots, ~Creates(x, c),
         \A y \in Slots \ {x} : att'[y] = att[y],
         \A y \in Slots : Creates(y, c)' <=> Creates(y, c),
         \A k : cache["create"][k] # None => cache'["create"][k] # None,
         \A i \in Nat : Made(i, c)' => Made(i, c)
  PROVE  Once(c)'
<1>1. \A y \in Slots : Creates(y, c)' => Creates(y, c) /\ att'[y] = att[y]
  OBVIOUS
<1>2. \A z \in Slots : Creates(z, c) /\ att[z].pc = "set" => Creates(z, c)' /\ att'[z].pc = "set"
  BY <1>1
<1> QED
  BY <1>1, <1>2, OnceInPlace

LEMMA GetKeepsOnce ==
  ASSUME Typed, Grows, Linking, NEW x \in Slots, IdempotencyGet(x), NEW c \in Calls,
         c \notin excused', Creates(x, c), Once(c)
  PROVE  Once(c)'
<1> DEFINE q == att[x]
           e == cache[q.op][q.key]
<1>1. PICK w \in Attempts :
        /\ Moves(x, "get", w) /\ Aside /\ UNCHANGED <<state, revived, links, cache>>
        /\ \/ /\ e = None /\ w.pc = "run"
              /\ \/ excused' = excused \union {q.call}
                 \/ excused' = excused /\ ~Overlaps(x)
           \/ w.pc = "answer"
  BY GetStep
<1>2. /\ att'[x] = w /\ \A y \in Slots \ {x} : att'[y] = att[y]
      /\ \A y \in Slots : Creates(y, c)' <=> Creates(y, c)
      /\ \A y \in Slots : Creates(y, c) => att'[y].key = att[y].key
  BY <1>1, ServerCreates DEF Moves
<1>3. \A i \in Nat : Made(i, c)' <=> Made(i, c)
  BY <1>1, MadeBefore
<1>4. q.pc = "get" /\ q.op = "create" /\ q.call = c
  BY <1>1 DEF Moves, Creates
<1>5. CASE w.pc = "answer"
  <2>1. \A y \in Slots : Creates(y, c)' =>
          /\ Creates(y, c) /\ att'[y].key = att[y].key
          /\ att'[y].pc \in {"run", "insert"} => att[y].pc \in {"run", "insert"}
          /\ att'[y].pc = "set" => att[y].pc = "set"
    BY <1>2, <1>5
  <2>2. \A z \in Slots : Creates(z, c) /\ att[z].pc = "set" =>
          Creates(z, c)' /\ att'[z].pc = "set"
    BY <1>2, <1>4
  <2> QED
    BY <1>1, <1>3, <2>1, <2>2, OnceInPlace
<1>6. CASE w.pc = "run"
  <2>1. e = None /\ ~Overlaps(x)
    BY <1>1, <1>4, <1>6
  <2>2. ASSUME NEW y \in Slots, Creates(y, c), Busy(y)
        PROVE  FALSE
    <3>1. att[y].key = q.key /\ att[y].op = q.op
      BY <1>4, <2>2 DEF Linking, SameKey, Creates
    <3>2. y # x
      BY <1>4, <2>2 DEF Busy
    <3> QED
      BY <2>1, <2>2, <3>1, <3>2 DEF Overlaps, Busy
  <2>3. \A i \in Nat : ~Made(i, c)
    BY <1>4, <2>1, <2>2 DEF Once, Remembered, Busy
  <2>4. OneBusy(c)'
    BY <1>2, <2>2 DEF OneBusy, Busy
  <2> QED
    BY <1>3, <2>3, <2>4 DEF Once, OneMade, NoneLeft, Remembered
<1> QED
  BY <1>1, <1>5, <1>6

LEMMA CreateKeepsOnce ==
  ASSUME Typed, Grows, Linking, NEW x \in Slots, CreateLink(x), NEW c \in Calls,
         Creates(x, c), Once(c)
  PROVE  Once(c)'
<1>1. PICK w \in Attempts :
        /\ Moves(x, "insert", w) /\ w.pc = "set"
        /\ links' = Append(links, [file |-> att[x].file, call |-> att[x].call])
  BY CreateStep
<1>2. /\ att'[x] = w /\ \A y \in Slots \ {x} : att'[y] = att[y]
      /\ \A y \in Slots : Creates(y, c)' <=> Creates(y, c)
  BY <1>1, ServerCreates DEF Moves
<1>3. Busy(x) /\ \A i \in Nat : ~Made(i, c)
  BY <1>1 DEF Moves, Busy, Once, NoneLeft
<1>4. Len(links) \in Nat /\ links \in Seq(LinkRecs)
  BY DEF Typed, LinkRecs
<1>5. \A i \in Nat : Made(i, c)' => i = Len(links) + 1
  BY <1>1, <1>3, <1>4 DEF Made
<1>6. ASSUME NEW y \in Slots, Creates(y, c), Busy(y)
      PROVE  y = x
  BY <1>3, <1>6 DEF Once, OneBusy
<1>7. OneBusy(c)'
  BY <1>2, <1>6 DEF OneBusy, Busy
<1>8. NoneLeft(c)'
  BY <1>1, <1>2, <1>6 DEF NoneLeft, Busy
<1>9. Remembered(c)'
  BY <1>1, <1>2 DEF Remembered
<1> QED
  BY <1>5, <1>7, <1>8, <1>9 DEF Once, OneMade

LEMMA SetKeepsOnce ==
  ASSUME Typed, Grows, Linking, NEW x \in Slots, IdempotencySet(x), NEW c \in Calls,
         Creates(x, c), Once(c)
  PROVE  Once(c)'
<1> DEFINE q == att[x]
           e == [hash |-> bodyHash(q), res |-> q.res]
<1>1. PICK w \in Attempts :
        /\ Moves(x, "set", w) /\ w.pc = "answer"
        /\ cache' = [cache EXCEPT ![q.op][q.key] = e]
        /\ UNCHANGED links
  BY SetStep
<1>2. /\ att'[x] = w /\ \A y \in Slots \ {x} : att'[y] = att[y]
      /\ \A y \in Slots : Creates(y, c)' <=> Creates(y, c)
      /\ \A y \in Slots : Creates(y, c) => att'[y].key = att[y].key
  BY <1>1, ServerCreates DEF Moves
<1>3. \A i \in Nat : Made(i, c)' <=> Made(i, c)
  BY <1>1, MadeBefore
<1>4. WellFormed(q) /\ q.op = "create" /\ q.key \in Keys
  BY <1>1, Worked DEF Moves, Creates, WellFormed, Wrapped
<1>5. cache'["create"][q.key] # None
  <2>1. cache'["create"][q.key] = e
    BY <1>1, <1>4 DEF Typed, Wrapped
  <2>2. e \in Entries
    <3>1. q.res \in 1..Len(links) /\ q \in Attempts /\ Len(links) \in Nat
      BY <1>1, <1>4 DEF Moves, WellFormed, Typed
    <3>2. bodyHash(q) \in (Bodies \union {None}) \X (Files \union {None})
      BY <3>1 DEF bodyHash, Attempts
    <3> QED
      BY <3>1, <3>2 DEF Entries
  <2> QED
    BY <2>1, <2>2, Consts
<1>6. \A y \in Slots : Creates(y, c)' => att'[y].key = q.key
  BY <1>2, <1>4 DEF Linking, SameKey
<1>7. \A y \in Slots : Creates(y, c)' => cache'["create"][att'[y].key] # None
  BY <1>5, <1>6
<1>8. \A y \in Slots : Creates(y, c)' =>
        /\ Creates(y, c) /\ att'[y].key = att[y].key
        /\ att'[y].pc \in {"run", "insert"} => att[y].pc \in {"run", "insert"}
        /\ att'[y].pc = "set" => att[y].pc = "set"
  BY <1>1, <1>2
<1> QED
  BY <1>3, <1>7, <1>8, OnceInPlace

LEMMA ServerKeepsLinking ==
  ASSUME Typed, Grows, Linking, NEW x \in Slots, Server(x) \/ GetFails(x) \/ SetFails(x)
  PROVE  Linking' /\ excused \subseteq excused'
<1> USE SMTT(20)
<1>a. ASSUME SameKey', NotYet', Distinct', LinkBound', excused \subseteq excused',
             \A c \in Calls : c \notin excused' /\ Creates(x, c) => Once(c)',
             \A c \in Calls : c \notin excused' /\ ~Creates(x, c) => Once(c)'
      PROVE  Linking' /\ excused \subseteq excused'
  BY <1>a DEF Linking
<1>1. CASE GetFails(x) \/ SetFails(x) \/ CompleteUpload(x) \/ FileByID(x)
  <2>1. PICK w \in Attempts : Quiet(x, w)
    BY <1>1, QuietSteps
  <2>2. /\ att[x] \in Attempts /\ Kept(w, att[x]) /\ Becomes(x, w) /\ Aside
        /\ UNCHANGED <<links, cache>> /\ excused \subseteq excused'
    BY <2>1 DEF Quiet
  <2>3. /\ att'[x] = w /\ \A y \in Slots \ {x} : att'[y] = att[y]
        /\ \A y \in Slots : \A c : Creates(y, c)' <=> Creates(y, c)
        /\ \A y \in Slots : \A c : Creates(y, c) => att'[y].key = att[y].key
    BY <2>2, ServerCreates
  <2>4. \A i \in Nat : \A c : Made(i, c)' <=> Made(i, c)
    BY <2>2, MadeBefore
  <2>5. SameKey' /\ NotYet' /\ Distinct' /\ LinkBound'
    BY <2>2, <2>3, <2>4, ServerBasics
  <2>6. ASSUME NEW c \in Calls, c \notin excused'
        PROVE  Once(c)'
    <3>1. Once(c)
      BY <2>2, <2>6 DEF Linking
    <3>2. Creates(x, c) =>
            /\ w.pc \in {"run", "insert"} => att[x].pc \in {"run", "insert"}
            /\ w.pc # "set" /\ att[x].pc # "set"
      BY <2>1, <2>6 DEF Quiet, Creates
    <3>3. \A y \in Slots : Creates(y, c)' =>
            /\ Creates(y, c) /\ att'[y].key = att[y].key
            /\ att'[y].pc \in {"run", "insert"} => att[y].pc \in {"run", "insert"}
            /\ att'[y].pc = "set" => att[y].pc = "set"
      BY <2>3, <3>2
    <3>4. \A z \in Slots : Creates(z, c) /\ att[z].pc = "set" =>
            Creates(z, c)' /\ att'[z].pc = "set"
      BY <2>3, <3>2
    <3> QED
      BY <2>2, <2>4, <3>1, <3>3, <3>4, OnceInPlace
  <2> QED
    BY <2>2, <2>5, <2>6, <1>a
<1>2. CASE IdempotencyGet(x)
  <2>1. PICK w \in Attempts :
          /\ Moves(x, "get", w) /\ Aside /\ UNCHANGED <<state, revived, links, cache>>
          /\ excused \subseteq excused'
    BY <1>2, GetStep
  <2>2. /\ \A y \in Slots \ {x} : att'[y] = att[y]
        /\ \A y \in Slots : \A c : Creates(y, c)' <=> Creates(y, c)
        /\ \A y \in Slots : \A c : Creates(y, c) => att'[y].key = att[y].key
    BY <2>1, ServerCreates DEF Moves
  <2>3. \A i \in Nat : \A c : Made(i, c)' <=> Made(i, c)
    BY <2>1, MadeBefore
  <2>4. SameKey' /\ NotYet' /\ Distinct' /\ LinkBound'
    BY <2>1, <2>2, <2>3, ServerBasics DEF Moves
  <2>5. \A c \in Calls : c \notin excused' /\ Creates(x, c) => Once(c)'
    BY <1>2, <2>1, GetKeepsOnce DEF Linking
  <2>6. \A c \in Calls : c \notin excused' /\ ~Creates(x, c) => Once(c)'
    BY <2>1, <2>2, <2>3, OnceElsewhere DEF Linking
  <2> QED
    BY <2>1, <2>4, <2>5, <2>6, <1>a
<1>3. CASE Presign(x)
  <2>1. PICK w \in Attempts :
          /\ Moves(x, "run", w) /\ att[x].op = "presign" /\ Aside
          /\ UNCHANGED <<links, cache, excused>>
    BY <1>3, PresignStep
  <2>2. /\ \A y \in Slots \ {x} : att'[y] = att[y]
        /\ \A y \in Slots : \A c : Creates(y, c)' <=> Creates(y, c)
        /\ \A y \in Slots : \A c : Creates(y, c) => att'[y].key = att[y].key
    BY <2>1, ServerCreates DEF Moves
  <2>3. \A i \in Nat : \A c : Made(i, c)' <=> Made(i, c)
    BY <2>1, MadeBefore
  <2>4. SameKey' /\ NotYet' /\ Distinct' /\ LinkBound'
    BY <2>1, <2>2, <2>3, ServerBasics DEF Moves
  <2>5. \A c : ~Creates(x, c)
    BY <2>1 DEF Creates
  <2>6. \A c \in Calls : c \notin excused' => Once(c)'
    BY <2>1, <2>2, <2>3, <2>5, OnceElsewhere DEF Linking
  <2> QED
    BY <2>1, <2>4, <2>6, <1>a
<1>4. CASE CreateLink(x)
  <2>1. PICK w \in Attempts :
          /\ Moves(x, "insert", w) /\ att[x].op = "create"
          /\ links' = Append(links, [file |-> att[x].file, call |-> att[x].call])
          /\ Aside /\ UNCHANGED <<state, revived, cache, excused>>
    BY <1>4, CreateStep
  <2>2. /\ \A y \in Slots \ {x} : att'[y] = att[y]
        /\ \A y \in Slots : \A c : Creates(y, c)' <=> Creates(y, c)
        /\ \A y \in Slots : \A c : Creates(y, c) => att'[y].key = att[y].key
    BY <2>1, ServerCreates DEF Moves
  <2>3. \A i \in Nat : \A c : Made(i, c)' => Made(i, c) \/ Creates(x, c)
    <3>1. Len(links) \in Nat /\ links \in Seq(LinkRecs) /\ att[x] # Unanswered
      BY <2>1, Worked DEF Moves, Typed, LinkRecs
    <3> QED
      BY <2>1, <3>1 DEF Made, Creates
  <2>4. SameKey' /\ NotYet' /\ Distinct' /\ LinkBound'
    BY <2>1, <2>2, <2>3, ServerBasics DEF Moves
  <2>5. \A c \in Calls : c \notin excused' /\ Creates(x, c) => Once(c)'
    BY <1>4, <2>1, CreateKeepsOnce DEF Linking
  <2>6. \A c \in Calls : c \notin excused' /\ ~Creates(x, c) => Once(c)'
    BY <2>1, <2>2, <2>3, OnceElsewhere DEF Linking
  <2> QED
    BY <2>1, <2>4, <2>5, <2>6, <1>a
<1>5. CASE UpdateLink(x)
  <2>1. PICK w \in Attempts :
          /\ Moves(x, "insert", w) /\ att[x].op = "update"
          /\ links' = Relinked(att[x].link, att[x].file)
          /\ Aside /\ UNCHANGED <<state, revived, cache, excused>>
    BY <1>5, UpdateStep
  <2>2. /\ \A y \in Slots \ {x} : att'[y] = att[y]
        /\ \A y \in Slots : \A c : Creates(y, c)' <=> Creates(y, c)
        /\ \A y \in Slots : \A c : Creates(y, c) => att'[y].key = att[y].key
    BY <2>1, ServerCreates DEF Moves
  <2>3. \A i \in Nat : \A c : Made(i, c)' <=> Made(i, c)
    <3>1. /\ att[x].link \in 1..Len(links) /\ att[x].file \in Files
          /\ links \in Seq(LinkRecs)
      BY <2>1, Worked DEF Moves, WellFormed, Typed, LinkRecs
    <3>2. Len(links') = Len(links)
      BY <2>1, <3>1, LinkUpdated
    <3> QED
      BY <3>2, MadeBefore
  <2>4. SameKey' /\ NotYet' /\ Distinct' /\ LinkBound'
    BY <2>1, <2>2, <2>3, ServerBasics DEF Moves
  <2>5. \A c : ~Creates(x, c)
    BY <2>1 DEF Creates
  <2>6. \A c \in Calls : c \notin excused' => Once(c)'
    BY <2>1, <2>2, <2>3, <2>5, OnceElsewhere DEF Linking
  <2> QED
    BY <2>1, <2>4, <2>6, <1>a
<1>6. CASE IdempotencySet(x)
  <2> DEFINE e == [hash |-> bodyHash(att[x]), res |-> att[x].res]
  <2>1. PICK w \in Attempts :
          /\ Moves(x, "set", w) /\ cache' = [cache EXCEPT ![att[x].op][att[x].key] = e]
          /\ Aside /\ UNCHANGED <<state, revived, links, excused>>
    BY <1>6, SetStep
  <2>2. /\ \A y \in Slots \ {x} : att'[y] = att[y]
        /\ \A y \in Slots : \A c : Creates(y, c)' <=> Creates(y, c)
        /\ \A y \in Slots : \A c : Creates(y, c) => att'[y].key = att[y].key
    BY <2>1, ServerCreates DEF Moves
  <2>3. \A i \in Nat : \A c : Made(i, c)' <=> Made(i, c)
    BY <2>1, MadeBefore
  <2>4. SameKey' /\ NotYet' /\ Distinct' /\ LinkBound'
    BY <2>1, <2>2, <2>3, ServerBasics DEF Moves
  <2>5. \A c \in Calls : c \notin excused' /\ Creates(x, c) => Once(c)'
    BY <1>6, <2>1, SetKeepsOnce DEF Linking
  <2>6. ASSUME NEW c \in Calls, c \notin excused', ~Creates(x, c)
        PROVE  Once(c)'
    <3>1. CASE att[x].op = "create"
      <4>1. att[x] # Unanswered
        BY <2>1, Worked DEF Moves
      <4>2. att[x].call # c
        BY <2>6, <3>1, <4>1 DEF Creates
      <4>3. Typed'
        BY <1>6, ServerKeepsTypes DEF Server
      <4>4. \A y \in Slots : Creates(y, c)' /\ cache["create"][att'[y].key] # None =>
                               cache'["create"][att'[y].key] # None
        <5>1. WellFormed(att[x]) /\ att[x].key \in Keys /\ att[x] \in Attempts /\ att[x].res # None
          BY <2>1, <3>1, Worked DEF Moves, WellFormed, Wrapped
        <5>2. e # None
          <6>1. att[x].res \in 1..Len(links) /\ Len(links) \in Nat
            BY <3>1, <5>1 DEF WellFormed, Typed
          <6>2. bodyHash(att[x]) \in (Bodies \union {None}) \X (Files \union {None})
            BY <5>1 DEF bodyHash, Attempts
          <6>3. e \in Entries
            BY <6>1, <6>2 DEF Entries
          <6> QED
            BY <6>3, Consts
        <5> HIDE DEF e
        <5>3. \A k \in Keys : cache'["create"][k] # None \/ cache'["create"][k] = cache["create"][k]
          BY <2>1, <3>1, <5>1, <5>2 DEF Typed, Wrapped
        <5>4. ASSUME NEW y \in Slots, Creates(y, c)'
              PROVE  att'[y].key \in Keys
          <6>1. WellFormed(att[y])'
            BY <4>3, <5>4 DEF Typed, Creates
          <6> QED
            BY <5>4, <6>1 DEF WellFormed, Creates, Wrapped
        <5> QED
          BY <5>3, <5>4
      <4>5. \A y \in Slots : Creates(y, c)' => Creates(y, c) /\ att'[y] = att[y]
        BY <2>2, <2>6
      <4>6. \A z \in Slots : Creates(z, c) /\ att[z].pc = "set" =>
              Creates(z, c)' /\ att'[z].pc = "set"
        BY <2>2, <2>6
      <4> QED
        BY <2>1, <2>3, <2>6, <4>4, <4>5, <4>6, OnceInPlace DEF Linking
    <3>2. CASE att[x].op # "create"
      <4>1. cache'["create"] = cache["create"]
        <5>1. att[x].op \in Wrapped
          BY <2>1, Worked DEF Moves, WellFormed
        <5> QED
          BY <2>1, <3>2, <5>1 DEF Typed, Wrapped
      <4> QED
        BY <2>1, <2>2, <2>3, <2>6, <4>1, OnceElsewhere DEF Linking
    <3> QED
      BY <3>1, <3>2
  <2> QED
    BY <2>1, <2>4, <2>5, <2>6, <1>a
<1> QED
  BY <1>1, <1>2, <1>3, <1>4, <1>5, <1>6 DEF Server

\* Every attempt for a call is there already, or repeats one under its key.
Repeats == \A y \in Slots : \A c : Creates(y, c)' =>
              \E z \in Slots : Creates(z, c) /\ att'[y].key = att[z].key

LEMMA ToolBasics ==
  ASSUME Typed, Grows, Linking, NEW a \in Agents, Works(a), UNCHANGED links, Repeats,
         agent'[a].call \in {0, agent[a].call},
         agent'[a].pc \in Early => agent[a].pc \in Early /\ agent'[a].call = agent[a].call
  PROVE  SameKey' /\ NotYet' /\ Distinct' /\ LinkBound'
<1>1. \A i \in Nat : \A c : Made(i, c)' <=> Made(i, c)
  BY MadeBefore
<1>2. SameKey'
  BY DEF SameKey, Linking, Repeats
<1>3. NotYet'
  <2>1. SUFFICES ASSUME NEW b \in Agents, agent'[b].pc \in Early
                 PROVE  /\ \A x \in Slots : ~Creates(x, agent[b].call)'
                        /\ \A i \in Nat : ~Made(i, agent[b].call)'
    BY DEF NotYet
  <2>2. agent[b].pc \in Early /\ agent'[b].call = agent[b].call
    BY <2>1 DEF Works
  <2>3. PICK c : c = agent[b].call
    OBVIOUS
  <2>4. (\A x \in Slots : ~Creates(x, c)) /\ (\A i \in Nat : ~Made(i, c))
    BY <2>2, <2>3 DEF Linking, NotYet
  <2>5. (\A x \in Slots : ~Creates(x, c)') /\ (\A i \in Nat : ~Made(i, c)')
    BY <2>4, <1>1 DEF Repeats
  <2> QED
    BY <2>2, <2>3, <2>5
<1>4. Distinct'
  BY DEF Linking, Distinct, Works
<1>5. LinkBound'
  <2>1. \A i \in 1..Len(links) : links[i].call \in Nat
    BY LinkShape
  <2> QED
    BY <2>1 DEF Linking, LinkBound, Grows
<1> QED
  BY <1>2, <1>3, <1>4, <1>5

\* A step of a tool after which its attempts are where they were, or gone.
LEMMA ToolInPlace ==
  ASSUME Typed, Grows, Linking, NEW a \in Agents, Works(a), UNCHANGED <<links, cache>>,
         excused \subseteq excused',
         agent'[a].call \in {0, agent[a].call},
         agent'[a].pc \in Early => agent[a].pc \in Early /\ agent'[a].call = agent[a].call,
         \A y \in Slots : \A c : Creates(y, c)' => Creates(y, c) /\ att'[y] = att[y],
         \A z \in Slots : \A c : Creates(z, c) /\ att[z].pc = "set" =>
            c \in excused' \/ (Creates(z, c)' /\ att'[z].pc = "set")
  PROVE  Linking' /\ excused \subseteq excused'
<1>1. \A i \in Nat : \A c : Made(i, c)' <=> Made(i, c)
  BY MadeBefore
<1>2. SameKey' /\ NotYet' /\ Distinct' /\ LinkBound'
  BY ToolBasics DEF Repeats
<1>3. ASSUME NEW c \in Calls, c \notin excused'
      PROVE  Once(c)'
  <2>1. Once(c)
    BY <1>3 DEF Linking
  <2>2. \A z \in Slots : Creates(z, c) /\ att[z].pc = "set" =>
          Creates(z, c)' /\ att'[z].pc = "set"
    BY <1>3
  <2>3. \A y \in Slots : Creates(y, c)' => Creates(y, c) /\ att'[y] = att[y]
    OBVIOUS
  <2> QED
    BY <1>1, <2>1, <2>2, <2>3, OnceInPlace
<1> QED
  BY <1>2, <1>3 DEF Linking

\* A step that moves the current request to the orphan's place, and may repeat it.
LEMMA ToolMovesRequest ==
  ASSUME Typed, Grows, Linking, NEW a \in Agents, Works(a), UNCHANGED <<links, cache, excused>>,
         agent'[a].call \in {0, agent[a].call},
         agent'[a].pc \in Early => agent[a].pc \in Early /\ agent'[a].call = agent[a].call,
         att[Orphan(a)] = Unanswered, att'[Orphan(a)] = att[Cur(a)],
         \A c : Creates(Cur(a), c)' => /\ Creates(Cur(a), c) /\ att'[Cur(a)].pc = "get"
                                       /\ att'[Cur(a)].key = att[Cur(a)].key
  PROVE  Linking' /\ excused \subseteq excused'
<1>1. \A i \in Nat : \A c : Made(i, c)' <=> Made(i, c)
  BY MadeBefore
<1>2. Cur(a) \in Slots /\ Orphan(a) \in Slots /\ Cur(a) # Orphan(a)
  BY SlotFacts
<1> DEFINE m == [y \in Slots |-> IF y = Orphan(a) THEN Cur(a) ELSE y]
<1>3. /\ m \in [Slots -> Slots] /\ m[Orphan(a)] = Cur(a)
      /\ \A y \in Slots : y # Orphan(a) => m[y] = y
  BY <1>2
<1> HIDE DEF m
<1>4. \A y \in Slots : \A c : Creates(y, c)' =>
        /\ Creates(m[y], c) /\ att'[y].key = att[m[y]].key
        /\ y = Cur(a) => att'[y].pc = "get"
        /\ y # Cur(a) => att'[y] = att[m[y]]
  <2>1. ASSUME NEW y \in Slots, NEW c, Creates(y, c)'
        PROVE  /\ Creates(m[y], c) /\ att'[y].key = att[m[y]].key
               /\ y = Cur(a) => att'[y].pc = "get"
               /\ y # Cur(a) => att'[y] = att[m[y]]
    <3>1. CASE y = Cur(a)
      BY <1>2, <1>3, <2>1, <3>1
    <3>2. CASE y = Orphan(a)
      BY <1>2, <1>3, <2>1, <3>2 DEF Creates
    <3>3. CASE y \in Slots \ {Cur(a), Orphan(a)}
      BY <1>3, <2>1, <3>3 DEF Creates, Works
    <3> QED
      BY <3>1, <3>2, <3>3
  <2> QED
    BY <2>1
<1>5. SameKey' /\ NotYet' /\ Distinct' /\ LinkBound'
  <2>1. Repeats
    BY <1>3, <1>4 DEF Repeats
  <2> QED
    BY <2>1, ToolBasics
<1>6. ASSUME NEW c \in Calls, c \notin excused
      PROVE  Once(c)'
  <2>1. Once(c)
    BY <1>6 DEF Linking
  <2>2. Follows(m, c)
    BY <1>4 DEF Follows
  <2>3. ASSUME NEW y \in Slots, NEW z \in Slots, Creates(y, c)', Creates(z, c)', Busy(y)',
               Busy(z)', m[y] = m[z]
        PROVE  y = z
    <3>1. y # Cur(a) /\ z # Cur(a)
      BY <1>4, <2>3 DEF Busy
    <3> QED
      BY <1>3, <2>3, <3>1
  <2>4. ASSUME NEW z \in Slots, Creates(z, c), att[z].pc = "set"
        PROVE  \E y \in Slots : Creates(y, c)' /\ att'[y].pc = "set"
    <3>1. z # Orphan(a)
      BY <2>4 DEF Creates
    <3>2. CASE z = Cur(a)
      BY <1>2, <2>4, <3>2 DEF Creates
    <3>3. CASE z # Cur(a)
      BY <2>4, <3>1, <3>3 DEF Creates, Works
    <3> QED
      BY <3>2, <3>3
  <2> QED
    BY <1>1, <1>3, <2>1, <2>2, <2>3, <2>4, OnceKept
<1> QED
  BY <1>5, <1>6 DEF Linking

LEMMA ToolKeepsLinking ==
  ASSUME Typed, Grows, Linking, NEW a \in Agents,
         \/ Put(a) \/ PollAgain(a) \/ PollFails(a) \/ Receive(a)
         \/ Reconnect(a) \/ GiveUp(a) \/ OrphanEnds(a)
  PROVE  Linking' /\ excused \subseteq excused'
<1>1. Cur(a) \in Slots /\ Orphan(a) \in Slots /\ Cur(a) # Orphan(a)
  BY SlotFacts
<1>2. CASE Put(a)
  <2>1. /\ Works(a) /\ Asks(a, att'[Cur(a)]) /\ agent[a].pc = "put"
        /\ agent'[a].pc = "complete" /\ SameCall(agent'[a], agent[a])
        /\ att'[Cur(a)].op = "complete" /\ UNCHANGED <<links, cache, excused>>
    BY <1>2, PutStep
  <2>2. att[Cur(a)] = Unanswered
    BY <2>1 DEF Typed, Asking, Ops, Wrapped
  <2>3. \A y \in Slots : \A c : Creates(y, c)' => y # Cur(a)
    BY <2>1 DEF Creates
  <2>4. \A y \in Slots : y # Cur(a) => att'[y] = att[y]
    BY <2>1 DEF Works, Asks
  <2>5. \A z \in Slots : \A c : Creates(z, c) => z # Cur(a)
    BY <2>2 DEF Creates
  <2> QED
    BY <2>1, <2>3, <2>4, <2>5, ToolInPlace DEF SameCall, Early, Creates
<1>3. CASE PollAgain(a) \/ PollFails(a)
  <2>1. /\ Works(a) /\ agent[a].pc = "poll"
        /\ \/ agent'[a] = Failed
           \/ agent'[a].pc = "poll" /\ SameCall(agent'[a], agent[a])
        /\ UNCHANGED <<links, cache, att, excused>>
    BY <1>3, PollStep
  <2> QED
    BY <2>1, FailedShape, ToolInPlace DEF SameCall, Early, Creates
<1>4. CASE Receive(a)
  <2> DEFINE q == att[Cur(a)]
  <2>1. /\ Works(a) /\ q.pc = "answer" /\ agent[a].pc = q.op
        /\ att'[Cur(a)] = Unanswered /\ att'[Orphan(a)] = att[Orphan(a)]
        /\ \/ agent'[a] = Failed
           \/ agent'[a].pc = NextStage(q) /\ agent'[a].call = agent[a].call
        /\ UNCHANGED <<links, cache, excused>>
    BY <1>4, ReceiveStep
  <2>2. /\ agent'[a].call \in {0, agent[a].call}
        /\ agent'[a].pc \in Early => agent[a].pc \in Early /\ agent'[a].call = agent[a].call
    BY <2>1, FailedShape DEF NextStage, Early
  <2>3. \A y \in Slots : y # Cur(a) => att'[y] = att[y]
    BY <2>1 DEF Works
  <2>4. \A y \in Slots : \A c : Creates(y, c)' => y # Cur(a)
    BY <2>1 DEF Creates
  <2> QED
    BY <2>1, <2>2, <2>3, <2>4, ToolInPlace DEF Creates
<1>5. CASE OrphanEnds(a)
  <2>1. /\ Works(a) /\ att'[Cur(a)] = att[Cur(a)] /\ att'[Orphan(a)] = Unanswered
        /\ excused \subseteq excused'
        /\ att[Orphan(a)].pc = "set" => att[Orphan(a)].call \in excused'
        /\ UNCHANGED <<links, cache, agent>>
    BY <1>5, OrphanStep
  <2>2. \A y \in Slots : y # Orphan(a) => att'[y] = att[y]
    BY <2>1 DEF Works
  <2>3. \A y \in Slots : \A c : Creates(y, c)' => y # Orphan(a)
    BY <2>1 DEF Creates
  <2>4. \A z \in Slots : \A c : Creates(z, c) /\ att[z].pc = "set" =>
          c \in excused' \/ (Creates(z, c)' /\ att'[z].pc = "set")
    BY <2>1, <2>2 DEF Creates
  <2>5. \A y \in Slots : \A c : Creates(y, c)' => Creates(y, c) /\ att'[y] = att[y]
    BY <2>2, <2>3 DEF Creates
  <2>6. /\ agent'[a].call \in {0, agent[a].call}
        /\ agent'[a].pc \in Early => agent[a].pc \in Early /\ agent'[a].call = agent[a].call
    BY <2>1
  <2> QED
    BY <2>1, <2>4, <2>5, <2>6, ToolInPlace
<1>6. CASE Reconnect(a)
  <2> DEFINE q == att[Cur(a)]
             w == att'[Cur(a)]
  <2>1. /\ Works(a) /\ q \in Attempts /\ att[Orphan(a)] = Unanswered
        /\ att'[Orphan(a)] = q /\ w \in Attempts /\ Kept(w, q)
        /\ \/ w.pc = "get"
           \/ w.op \notin Wrapped
        /\ UNCHANGED <<links, cache, agent, excused>>
    BY <1>6, ReconnectStep
  <2>2. \A c : Creates(Cur(a), c)' => /\ Creates(Cur(a), c) /\ w.pc = "get"
                                      /\ w.key = q.key
    BY <2>1, AttShape DEF Creates, Kept, Wrapped
  <2> QED
    BY <2>1, <2>2, ToolMovesRequest
<1>7. CASE GiveUp(a)
  <2>1. /\ Works(a) /\ agent'[a] = Failed /\ att[Orphan(a)] = Unanswered
        /\ att'[Cur(a)] = Unanswered /\ att'[Orphan(a)] = att[Cur(a)]
        /\ UNCHANGED <<links, cache, excused>>
    BY <1>7, GiveUpStep
  <2>2. \A c : ~Creates(Cur(a), c)'
    BY <2>1 DEF Creates
  <2>3. agent'[a].call = 0 /\ agent'[a].pc \notin Early
    BY <2>1, FailedShape DEF Early
  <2> QED
    BY <2>1, <2>2, <2>3, ToolMovesRequest
<1> QED
  BY <1>2, <1>3, <1>4, <1>5, <1>6, <1>7

\* The first request of a link: nobody has asked for it before.
LEMMA PollReadyKeepsLinking ==
  ASSUME Typed, Grows, Linking, NEW a \in Agents, NEW k \in Keys, PollReady(a, k)
  PROVE  Linking' /\ excused \subseteq excused'
<1> DEFINE d == agent[a].call
<1>1. /\ Works(a) /\ Asks(a, att'[Cur(a)]) /\ agent[a].pc = "poll"
      /\ agent'[a].pc = agent[a].tool /\ SameCall(agent'[a], agent[a])
      /\ att'[Cur(a)].op = agent[a].tool /\ att'[Cur(a)].call = d
      /\ UNCHANGED <<links, cache, calls, excused>>
  BY PollReadyStep
<1>2. \A i \in Nat : \A c : Made(i, c)' <=> Made(i, c)
  BY <1>1, MadeBefore
<1>3. /\ agent[a] \in AgentRecs /\ Staged(agent[a])
      /\ att[Cur(a)] = Unanswered
  BY <1>1 DEF Typed, Asking, Ops, Wrapped
<1>4. agent[a].tool \in {"create", "update"} /\ d # 0
  BY <1>1, <1>3, Consts DEF AgentRecs, Staged, Resting
<1>5. \A y \in Slots : y # Cur(a) => att'[y] = att[y]
  BY <1>1 DEF Works, Asks
<1>6. (\A x \in Slots : ~Creates(x, d)) /\ (\A i \in Nat : ~Made(i, d))
  BY <1>1 DEF Linking, NotYet, Early
<1>7. ASSUME NEW y \in Slots, NEW c, Creates(y, c)'
      PROVE  \/ y = Cur(a) /\ c = d /\ att'[y].pc = "get"
             \/ Creates(y, c) /\ att'[y] = att[y] /\ c # d
  <2>1. CASE y = Cur(a)
    BY <1>1, <1>7, <2>1 DEF Creates, Asks, Wrapped
  <2>2. CASE y # Cur(a)
    BY <1>5, <1>6, <1>7, <2>2 DEF Creates
  <2> QED
    BY <2>1, <2>2
<1>8. SameKey'
  BY <1>7 DEF Linking, SameKey
<1>9. NotYet'
  <2>1. SUFFICES ASSUME NEW b \in Agents, agent'[b].pc \in Early
                 PROVE  /\ \A x \in Slots : ~Creates(x, agent[b].call)'
                        /\ \A i \in Nat : ~Made(i, agent[b].call)'
    BY DEF NotYet
  <2>2. b # a
    BY <1>1, <1>4, <2>1 DEF Early
  <2>3. agent'[b] = agent[b] /\ agent[b].call # d
    BY <1>1, <1>4, <2>2 DEF Works, Linking, Distinct
  <2>4. PICK c : c = agent[b].call
    OBVIOUS
  <2>5. (\A x \in Slots : ~Creates(x, c)) /\ (\A i \in Nat : ~Made(i, c))
    BY <2>1, <2>3, <2>4 DEF Linking, NotYet
  <2>6. (\A x \in Slots : ~Creates(x, c)') /\ (\A i \in Nat : ~Made(i, c)')
    BY <1>2, <1>7, <2>3, <2>4, <2>5
  <2> QED
    BY <2>3, <2>4, <2>6
<1>10. Distinct'
  BY <1>1 DEF Linking, Distinct, Works, SameCall
<1>11. LinkBound'
  BY <1>1 DEF Linking, LinkBound
<1>12. ASSUME NEW c \in Calls, c \notin excused
       PROVE  Once(c)'
  <2>1. Once(c)
    BY <1>12 DEF Linking
  <2>2. CASE c = d
    <3>1. \A i \in Nat : ~Made(i, c)'
      BY <1>2, <1>6, <2>2
    <3>2. \A y \in Slots : Creates(y, c)' => y = Cur(a)
      BY <1>7, <2>2
    <3> QED
      BY <3>1, <3>2 DEF Once, OneBusy, OneMade, NoneLeft, Remembered
  <2>3. CASE c # d
    <3>1. \A y \in Slots : Creates(y, c)' => Creates(y, c) /\ att'[y] = att[y]
      BY <1>7, <2>3
    <3>2. \A z \in Slots : Creates(z, c) /\ att[z].pc = "set" =>
            Creates(z, c)' /\ att'[z].pc = "set"
      BY <1>3, <1>5 DEF Creates
    <3> QED
      BY <1>1, <1>2, <2>1, <3>1, <3>2, OnceInPlace
  <2> QED
    BY <2>2, <2>3
<1> QED
  BY <1>1, <1>8, <1>9, <1>10, <1>11, <1>12 DEF Linking

\* A new call has no links and no attempts.
LEMMA CallKeepsLinking ==
  ASSUME Typed, Grows, Linking, NEW a \in Agents, NEW tool \in {"create", "update"},
         NEW l \in Nat \union {None}, NEW b \in Bodies, NEW k \in Keys, ToolCall(a, tool, l, b, k)
  PROVE  Linking' /\ excused \subseteq excused'
<1> DEFINE d == calls + 1
<1>1. /\ Works(a) /\ Asks(a, att'[Cur(a)]) /\ agent[a].pc \in Resting /\ calls' = d
      /\ agent'[a].call = d /\ att'[Cur(a)].op = "presign"
      /\ UNCHANGED <<links, cache, excused>>
  BY CallStep
<1>2. \A i \in Nat : \A c : Made(i, c)' <=> Made(i, c)
  BY <1>1, MadeBefore
<1>3. /\ att[Cur(a)] = Unanswered /\ calls \in Nat
      /\ \A e \in Agents : agent[e].call <= calls /\ agent[e].call \in Nat
  <2>1. \A e \in Agents : agent[e] \in AgentRecs /\ Staged(agent[e]) /\ Asking(e)
    BY DEF Typed
  <2> QED
    BY <1>1, <2>1, Consts DEF Grows, AgentRecs, Staged, Asking, Resting, Ops, Wrapped
<1>4. \A y \in Slots : y # Cur(a) => att'[y] = att[y]
  BY <1>1 DEF Works, Asks
<1>5. \A y \in Slots : \A c : Creates(y, c)' => Creates(y, c) /\ att'[y] = att[y] /\ c # d
  <2>1. ASSUME NEW y \in Slots, NEW c, Creates(y, c)'
        PROVE  Creates(y, c) /\ att'[y] = att[y] /\ c # d
    <3>1. y # Cur(a) /\ Creates(y, c) /\ att'[y] = att[y]
      BY <1>1, <1>4, <2>1 DEF Creates
    <3>2. WellFormed(att[y])
      BY <3>1 DEF Typed, Creates
    <3> QED
      BY <1>3, <3>1, <3>2 DEF WellFormed, Creates
  <2> QED
    BY <2>1
<1>6. \A i \in Nat : ~Made(i, d)
  BY <1>3 DEF Made, Linking, LinkBound
<1>7. SameKey'
  BY <1>5 DEF Linking, SameKey
<1>8. NotYet'
  <2>1. SUFFICES ASSUME NEW e \in Agents, agent'[e].pc \in Early
                 PROVE  /\ \A x \in Slots : ~Creates(x, agent[e].call)'
                        /\ \A i \in Nat : ~Made(i, agent[e].call)'
    BY DEF NotYet
  <2>2. PICK c : c = agent'[e].call
    OBVIOUS
  <2>3. CASE e = a
    BY <1>1, <1>2, <1>5, <1>6, <2>2, <2>3
  <2>4. CASE e # a
    <3>1. agent'[e] = agent[e]
      BY <1>1, <2>4 DEF Works
    <3>2. (\A x \in Slots : ~Creates(x, c)) /\ (\A i \in Nat : ~Made(i, c))
      BY <2>1, <2>2, <3>1 DEF Linking, NotYet
    <3> QED
      BY <1>2, <1>5, <2>2, <3>2
  <2> QED
    BY <2>3, <2>4
<1>9. Distinct'
  BY <1>1, <1>3 DEF Linking, Distinct, Works
<1>10. LinkBound'
  <2>1. \A i \in 1..Len(links) : links[i].call \in Nat
    BY LinkShape
  <2> QED
    BY <1>1, <1>3, <2>1 DEF Linking, LinkBound
<1>11. ASSUME NEW c \in Calls, c \notin excused
       PROVE  Once(c)'
  <2>1. Once(c)
    BY <1>11 DEF Linking
  <2>2. \A z \in Slots : Creates(z, c) /\ att[z].pc = "set" =>
          Creates(z, c)' /\ att'[z].pc = "set"
    BY <1>3, <1>4 DEF Creates
  <2> QED
    BY <1>1, <1>2, <1>5, <2>1, <2>2, OnceInPlace
<1> QED
  BY <1>1, <1>7, <1>8, <1>9, <1>10, <1>11 DEF Linking

LEMMA LinkingStep ==
  ASSUME Typed, Linking, [Next]_vars
  PROVE  Linking' /\ excused \subseteq excused'
<1>1. Grows
  BY TypedStep
<1>2. CASE UNCHANGED <<links, cache, agent, att, calls, excused>>
  BY <1>2 DEF Linking, SameKey, NotYet, Distinct, LinkBound, Once, OneBusy, OneMade, NoneLeft,
              Remembered, Creates, Busy, Made
<1>3. CASE UNCHANGED vars
  BY <1>2, <1>3 DEF vars, bounds, history
<1>4. ASSUME NEW f \in Files, FileMoves(f)
      PROVE  UNCHANGED <<links, cache, agent, att, calls, excused>>
  BY <1>4, MoveStep
<1>5. CASE Next
  BY <1>1, <1>2, <1>4, <1>5, NextSteps, CallKeepsLinking, PollReadyKeepsLinking, ToolKeepsLinking,
     ServerKeepsLinking
<1> QED
  BY <1>3, <1>5

LEMMA LinkingInit ==
  ASSUME Init
  PROVE  Linking
<1>1. /\ \A x \in Slots : att[x] = Unanswered
      /\ Len(links) = 0 /\ \A a \in Agents : agent[a].call = 0 /\ agent[a].pc = "idle"
  BY DEF Init, NoCall
<1>2. (\A x \in Slots : \A c : ~Creates(x, c)) /\ (\A i \in Nat : \A c : ~Made(i, c))
  BY <1>1 DEF Creates, Made
<1> QED
  BY <1>1, <1>2 DEF Linking, SameKey, NotYet, Distinct, LinkBound, Once, OneBusy, OneMade,
                    NoneLeft, Remembered, Early

\* One call makes one link, however often its request is sent, unless its attempts overlapped
\* or its answer was not stored.
THEOREM CallsLinkOnce == Spec => []OneLinkPerCall
<1>1. Init => Typed /\ Linking
  BY TypedInit, LinkingInit
<1>2. Typed /\ Linking /\ [Next]_vars => Typed' /\ Linking'
  BY TypedStep, LinkingStep
<1>3. Typed /\ Linking => OneLinkPerCall
  <2>1. SUFFICES ASSUME Typed, Linking, NEW i \in 1..Len(links), NEW j \in 1..Len(links),
                        links[i].call = links[j].call, i # j
                 PROVE  links[i].call \in excused
    BY DEF OneLinkPerCall
  <2>2. PICK c : c = links[i].call
    OBVIOUS
  <2>3. c \in Calls
    BY <2>1, <2>2, LinkShape
  <2>4. i \in Nat /\ j \in Nat /\ Made(i, c) /\ Made(j, c)
    BY <2>1, <2>2, LinkShape DEF Made
  <2> QED
    BY <2>1, <2>2, <2>3, <2>4 DEF Linking, Once, OneMade
<1> QED
  BY <1>1, <1>2, <1>3, PTL DEF Spec

-----------------------------------------------------------------------------
(***************************************************************************)
(* Whose file it is.                                                        *)
(***************************************************************************)

\* Two calls are one, or both drew a key that another call drew.
Shared(c, d) == c = d \/ (c \in collided /\ d \in collided)

\* The file a request is about; a presign's, once it has an answer.
Names(q, f) == IF q.op = "presign" THEN q.res = f ELSE q.file = f

\* What call c has to do with file f: an attempt of it, its tool, an answer, ...
ByAttempt(c, f) == \E x \in Slots : att[x] # Unanswered /\ att[x].call = c /\ Names(att[x], f)
ByTool(c, f)    == \E a \in Agents : agent[a].file = f /\ agent[a].call = c
ByAnswer(c, f)  == \E r \in answered : r.file = f /\ r.call = c
\* ... a key under which the presign of f is replayed, its bytes, ...
ByKey(c, f)     == \E k \in Keys : /\ cache["presign"][k] # None
                                   /\ cache["presign"][k].res = f /\ drawn[k] = c
ByBytes(c, f)   == content[f] = c /\ c # 0
\* ... or a link made for f that can be answered again.
ByEntry(c, f)   == \E k \in Keys : /\ cache["create"][k] # None
                                   /\ cache["create"][k].hash[2] = f
                                   /\ links[cache["create"][k].res].call = c
ByLink(c, f)    == \E x \in Slots : /\ att[x] # Unanswered /\ att[x].op = "create"
                                    /\ att[x].res # None /\ att[x].file = f
                                    /\ links[att[x].res].call = c

Holds(c, f) == \/ ByAttempt(c, f) \/ ByTool(c, f) \/ ByAnswer(c, f) \/ ByKey(c, f)
               \/ ByBytes(c, f) \/ ByEntry(c, f) \/ ByLink(c, f)

Owned == \A f \in Files : \A c, d \in Calls : Holds(c, f) /\ Holds(d, f) => Shared(c, d)

\* A file that is not there concerns nobody.
Unborn == \A f \in Files : state[f] = "absent" => \A c \in Calls : ~Holds(c, f)

\* Who presigns with a key shares it with who drew it last.
KeyShared == \A x \in Slots : att[x] # Unanswered /\ att[x].op = "presign" =>
               Shared(att[x].call, drawn[att[x].key])

Counted == 0 \notin collided /\ \A k \in Keys : drawn[k] <= calls

\* An answered call's link was made by it, or by a call that shares its key.
Told(r) == /\ r.call \in Calls /\ r.file \in Files /\ r.link \in 1..Len(links)
           /\ content[r.file] # 0
           /\ Shared(r.call, links[r.link].call)
Answered == \A r \in answered : Told(r)

Owning == Owned /\ Unborn /\ KeyShared /\ Counted /\ Answered

\* Whoever has to do with a file afterwards shares a key with someone who had before.
Traced == \A f \in Files : \A c \in Calls :
            Holds(c, f)' => \E d \in Calls : Holds(d, f) /\ Shared(c, d)'

LEMMA TracedOwned ==
  ASSUME Owned, Unborn, collided \subseteq collided', FilesStep, Traced
  PROVE  Owned' /\ Unborn'
<1>1. Owned'
  <2>1. SUFFICES ASSUME NEW f \in Files, NEW c \in Calls, NEW d \in Calls,
                        Holds(c, f)', Holds(d, f)'
                 PROVE  Shared(c, d)'
    BY DEF Owned
  <2>2. PICK e \in Calls : Holds(e, f) /\ Shared(c, e)'
    BY <2>1 DEF Traced
  <2>3. PICK g \in Calls : Holds(g, f) /\ Shared(d, g)'
    BY <2>1 DEF Traced
  <2>4. Shared(e, g)
    BY <2>2, <2>3 DEF Owned
  <2> QED
    BY <2>2, <2>3, <2>4 DEF Shared
<1>2. Unborn'
  BY DEF Unborn, Traced, FilesStep
<1> QED
  BY <1>1, <1>2

\* Links that are answered again are links that exist, and keep their call.
LEMMA LinkNamed ==
  ASSUME Typed, Grows
  PROVE  /\ \A k \in Keys : cache["create"][k] # None =>
              links'[cache["create"][k].res].call = links[cache["create"][k].res].call
         /\ \A x \in Slots : att[x] # Unanswered /\ att[x].op = "create" /\ att[x].res # None =>
              links'[att[x].res].call = links[att[x].res].call
<1>1. ASSUME NEW k \in Keys, cache["create"][k] # None
      PROVE  links'[cache["create"][k].res].call = links[cache["create"][k].res].call
  <2>1. EntryOK("create", k)
    BY DEF Typed, Wrapped
  <2>2. cache["create"][k].res \in 1..Len(links)
    BY <1>1, <2>1 DEF EntryOK
  <2> QED
    BY <2>2 DEF Grows
<1>2. ASSUME NEW x \in Slots, att[x] # Unanswered, att[x].op = "create", att[x].res # None
      PROVE  links'[att[x].res].call = links[att[x].res].call
  <2>1. att[x].res \in 1..Len(links)
    BY <1>2 DEF Typed, WellFormed
  <2> QED
    BY <2>1 DEF Grows
<1> QED
  BY <1>1, <1>2

LEMMA AnsweredKept ==
  ASSUME Typed, Grows, Answered, collided \subseteq collided', UNCHANGED answered
  PROVE  Answered'
<1>1. SUFFICES ASSUME NEW r \in answered, Told(r)
               PROVE  Told(r)'
  BY DEF Answered
<1>2. links'[r.link].call = links[r.link].call /\ r.link \in 1..Len(links')
  BY <1>1 DEF Told, Grows
<1> QED
  BY <1>1, <1>2 DEF Told, Grows, Shared

\* A step of the server: the parts of Holds that could have changed are the attempt, the
\* entry stored for its key, and the link made.
LEMMA ServerTraced ==
  ASSUME Typed, Grows, NEW x \in Slots, NEW w \in Attempts, att[x] \in Attempts, Kept(w, att[x]),
         Becomes(x, w), Aside,
         \A f \in Files : \A k \in Keys :
            cache'["presign"][k] # None /\ cache'["presign"][k].res = f =>
              \E d \in Calls : Holds(d, f) /\ Shared(drawn[k], d),
         \A f \in Files : \A c \in Calls : ByEntry(c, f)' => Holds(c, f),
         \A f \in Files : \A c \in Calls :
            w.op = "create" /\ w.res # None /\ w.file = f /\ links'[w.res].call = c => Holds(c, f)
  PROVE  \A f \in Files : \A c \in Calls : Holds(c, f)' =>
            \/ w.call = c /\ Names(w, f)
            \/ \E d \in Calls : Holds(d, f) /\ Shared(c, d)
<1>1. /\ att'[x] = w /\ \A y \in Slots \ {x} : att'[y] = att[y]
      /\ w # Unanswered
  BY ServerCreates, AttShape
<1>2. SUFFICES ASSUME NEW f \in Files, NEW c \in Calls, Holds(c, f)', ~(w.call = c /\ Names(w, f))
               PROVE  \E d \in Calls : Holds(d, f) /\ Shared(c, d)
  OBVIOUS
<1>3. Shared(c, c)
  BY DEF Shared
<1>4. CASE ByAttempt(c, f)'
  <2>1. PICK y \in Slots : att'[y] # Unanswered /\ att'[y].call = c /\ Names(att[y], f)'
    BY <1>4 DEF ByAttempt
  <2>2. CASE y = x
    <3>1. w.call = c /\ Names(w, f)
      BY <1>1, <2>1, <2>2 DEF Names
    <3> QED
      BY <1>2, <3>1
  <2>3. CASE y # x
    <3>1. att[y] # Unanswered /\ att[y].call = c /\ Names(att[y], f)
      BY <1>1, <2>1, <2>3 DEF Names
    <3> QED
      BY <1>3, <3>1 DEF Holds, ByAttempt
  <2> QED
    BY <2>2, <2>3
<1>5. CASE ByTool(c, f)' \/ ByAnswer(c, f)' \/ ByBytes(c, f)'
  BY <1>3, <1>5 DEF Holds, ByTool, ByAnswer, ByBytes, Aside
<1>6. CASE ByKey(c, f)'
  BY <1>6 DEF ByKey, Aside
<1>7. CASE ByEntry(c, f)'
  BY <1>3, <1>7
<1>8. CASE ByLink(c, f)'
  <2>1. PICK y \in Slots : /\ att'[y] # Unanswered /\ att'[y].op = "create"
                           /\ att'[y].res # None /\ att'[y].file = f
                           /\ links'[att'[y].res].call = c
    BY <1>8 DEF ByLink
  <2>2. CASE y = x
    BY <1>1, <1>3, <2>1, <2>2
  <2>3. CASE y # x
    <3>1. att'[y] = att[y]
      BY <1>1, <2>3
    <3>2. links[att[y].res].call = c
      BY <2>1, <3>1, LinkNamed
    <3> QED
      BY <1>3, <2>1, <3>1, <3>2 DEF Holds, ByLink
  <2> QED
    BY <2>2, <2>3
<1> QED
  BY <1>2, <1>4, <1>5, <1>6, <1>7, <1>8 DEF Holds

\* Nothing else changes if cache does not.
LEMMA CacheRests ==
  ASSUME Typed, Grows, UNCHANGED cache
  PROVE  /\ \A f \in Files : \A k \in Keys :
              cache'["presign"][k] # None /\ cache'["presign"][k].res = f =>
                \E d \in Calls : Holds(d, f) /\ Shared(drawn[k], d)
         /\ \A f \in Files : \A c \in Calls : ByEntry(c, f)' => Holds(c, f)
<1>1. ASSUME NEW f \in Files, NEW k \in Keys, cache["presign"][k] # None,
             cache["presign"][k].res = f
      PROVE  \E d \in Calls : Holds(d, f) /\ Shared(drawn[k], d)
  <2>1. drawn[k] \in Calls
    BY DEF Typed
  <2>2. Holds(drawn[k], f)
    BY <1>1 DEF Holds, ByKey
  <2> QED
    BY <2>1, <2>2 DEF Shared
<1>2. ASSUME NEW f \in Files, NEW c \in Calls, ByEntry(c, f)'
      PROVE  Holds(c, f)
  BY <1>2, LinkNamed DEF ByEntry, Holds
<1> QED
  BY <1>1, <1>2

\* An attempt holds what it names.
LEMMA AttemptHolds ==
  ASSUME Typed, NEW x \in Slots, att[x] \in Attempts, NEW f \in Files, Names(att[x], f)
  PROVE  att[x].call \in Calls /\ Holds(att[x].call, f)
BY Worked DEF Holds, ByAttempt, Attempts

LEMMA ServerOwning ==
  ASSUME Typed, Grows, Owning, FilesStep, Aside, NEW x \in Slots, NEW w \in Attempts,
         att[x] \in Attempts, Kept(w, att[x]), Becomes(x, w), Owned', Unborn'
  PROVE  Owning' /\ collided \subseteq collided'
<1>1. att'[x] = w /\ \A y \in Slots \ {x} : att'[y] = att[y]
  BY ServerCreates
<1>2. att[x] # Unanswered
  BY AttShape
<1>3. KeyShared'
  <2>1. SUFFICES ASSUME NEW y \in Slots, att'[y] # Unanswered, att'[y].op = "presign"
                 PROVE  Shared(att'[y].call, drawn[att'[y].key])
    BY DEF KeyShared, Aside, Shared
  <2>2. /\ att[y] # Unanswered /\ att'[y].call = att[y].call /\ att'[y].key = att[y].key
        /\ att[y].op = "presign"
    BY <1>1, <1>2, <2>1 DEF Kept
  <2> QED
    BY <2>2 DEF Owning, KeyShared
<1>4. Counted'
  BY DEF Owning, Counted, Aside
<1>5. Answered'
  BY AnsweredKept DEF Owning, Aside
<1> QED
  BY <1>3, <1>4, <1>5 DEF Owning, Aside

\* When what the attempt names afterwards was someone's before.
LEMMA ServerOwningTraced ==
  ASSUME Typed, Grows, Owning, FilesStep, Aside, NEW x \in Slots, NEW w \in Attempts,
         att[x] \in Attempts, Kept(w, att[x]), Becomes(x, w),
         \A f \in Files : Names(w, f) => \E d \in Calls : Holds(d, f) /\ Shared(w.call, d),
         \A f \in Files : \A k \in Keys :
            cache'["presign"][k] # None /\ cache'["presign"][k].res = f =>
              \E d \in Calls : Holds(d, f) /\ Shared(drawn[k], d),
         \A f \in Files : \A c \in Calls : ByEntry(c, f)' => Holds(c, f),
         \A f \in Files : \A c \in Calls :
            w.op = "create" /\ w.res # None /\ w.file = f /\ links'[w.res].call = c => Holds(c, f)
  PROVE  Owning' /\ collided \subseteq collided'
<1>1. \A f \in Files : \A c \in Calls : Holds(c, f)' =>
        \/ w.call = c /\ Names(w, f)
        \/ \E d \in Calls : Holds(d, f) /\ Shared(c, d)
  BY ServerTraced
<1>2. Traced
  BY <1>1 DEF Traced, Shared, Aside
<1>3. Owned' /\ Unborn'
  BY <1>2, TracedOwned DEF Owning, Aside
<1> QED
  BY <1>3, ServerOwning

LEMMA ServerKeepsOwning ==
  ASSUME Typed, Grows, FilesStep, Owning, NEW x \in Slots, Server(x) \/ GetFails(x) \/ SetFails(x)
  PROVE  Owning' /\ collided \subseteq collided'
<1> USE SMTT(20)
<1> DEFINE q == att[x]
\* What the attempt named before.
<1>a. ASSUME NEW w, q \in Attempts, Kept(w, q), q.op = "presign" => w.res \in {q.res, None}
      PROVE  \A f \in Files : Names(w, f) => \E d \in Calls : Holds(d, f) /\ Shared(w.call, d)
  <2>1. SUFFICES ASSUME NEW f \in Files, Names(w, f)
                 PROVE  \E d \in Calls : Holds(d, f) /\ Shared(w.call, d)
    OBVIOUS
  <2>2. Names(q, f)
    BY <1>a, <2>1, Consts DEF Names, Kept
  <2>3. q.call \in Calls /\ Holds(q.call, f)
    BY <1>a, <2>2, AttemptHolds
  <2> QED
    BY <1>a, <2>3 DEF Kept, Shared
\* The link that the attempt answered with before.
<1>b. ASSUME NEW w, q \in Attempts, Kept(w, q), q.op = "create" => w.res \in {q.res, None}
      PROVE  \A f \in Files : \A c \in Calls :
               w.op = "create" /\ w.res # None /\ w.file = f /\ links'[w.res].call = c => Holds(c, f)
  <2>1. SUFFICES ASSUME NEW f \in Files, NEW c \in Calls, w.op = "create", w.res # None,
                        w.file = f, links'[w.res].call = c
                 PROVE  ByLink(c, f)
    BY DEF Holds
  <2>2. q # Unanswered /\ q.op = "create" /\ q.res = w.res /\ q.file = f
    BY <1>b, <2>1, AttShape DEF Kept
  <2>3. links[q.res].call = c
    BY <2>1, <2>2, LinkNamed
  <2> QED
    BY <2>1, <2>2, <2>3 DEF ByLink
<1>1. CASE GetFails(x) \/ SetFails(x) \/ CompleteUpload(x) \/ FileByID(x)
  <2>1. PICK w \in Attempts : Quiet(x, w)
    BY <1>1, QuietSteps
  <2>2. /\ q \in Attempts /\ Kept(w, q) /\ Becomes(x, w) /\ Aside /\ UNCHANGED cache
        /\ q.op \in Wrapped => w.res \in {q.res, None}
    BY <2>1 DEF Quiet
  <2>3. \A f \in Files : Names(w, f) => \E d \in Calls : Holds(d, f) /\ Shared(w.call, d)
    BY <2>2, <1>a DEF Wrapped
  <2>4. \A f \in Files : \A c \in Calls :
          w.op = "create" /\ w.res # None /\ w.file = f /\ links'[w.res].call = c => Holds(c, f)
    BY <2>2, <1>b DEF Wrapped
  <2> QED
    BY <2>2, <2>3, <2>4, CacheRests, ServerOwningTraced
<1>2. CASE IdempotencyGet(x)
  <2> DEFINE e == cache[q.op][q.key]
  <2>1. PICK w \in Attempts :
          /\ Moves(x, "get", w) /\ Aside /\ UNCHANGED <<links, cache>>
          /\ \/ w.res = q.res
             \/ w.res = None
             \/ e # None /\ e.hash = bodyHash(q) /\ w.res = e.res
    BY <1>2, GetStep
  <2>2. q \in Attempts /\ Kept(w, q) /\ Becomes(x, w) /\ WellFormed(q) /\ q # Unanswered
    BY <2>1, Worked DEF Moves
  <2>3. q.op \in Wrapped /\ q.key \in Keys
    BY <2>1, <2>2 DEF WellFormed, Moves
  <2>4. CASE w.res \in {q.res, None}
    <3>1. \A f \in Files : Names(w, f) => \E d \in Calls : Holds(d, f) /\ Shared(w.call, d)
      BY <2>2, <2>4, <1>a
    <3>2. \A f \in Files : \A c \in Calls :
            w.op = "create" /\ w.res # None /\ w.file = f /\ links'[w.res].call = c => Holds(c, f)
      BY <2>2, <2>4, <1>b
    <3> QED
      BY <2>1, <2>2, <3>1, <3>2, CacheRests, ServerOwningTraced
  <2>5. CASE e # None /\ e.hash = bodyHash(q) /\ w.res = e.res
    <3>1. ASSUME NEW f \in Files, Names(w, f)
          PROVE  \E d \in Calls : Holds(d, f) /\ Shared(w.call, d)
      <4>1. CASE q.op = "presign"
        <5>1. drawn[q.key] \in Calls
          BY <2>3 DEF Typed
        <5>2. Holds(drawn[q.key], f)
          BY <2>2, <2>3, <2>5, <3>1, <4>1 DEF Holds, ByKey, Names, Kept
        <5>3. Shared(q.call, drawn[q.key])
          BY <2>2, <4>1 DEF Owning, KeyShared
        <5> QED
          BY <2>2, <5>1, <5>2, <5>3 DEF Kept
      <4>2. CASE q.op # "presign"
        BY <2>2, <3>1, <4>2, <1>a
      <4> QED
        BY <4>1, <4>2
    <3>2. ASSUME NEW f \in Files, NEW c \in Calls, w.op = "create", w.file = f,
                 links'[w.res].call = c
          PROVE  Holds(c, f)
      <4>1. q.op = "create" /\ q.file = f
        BY <2>2, <3>2 DEF Kept
      <4>2. e.hash[2] = f
        BY <2>5, <4>1 DEF bodyHash
      <4>3. ByEntry(c, f)
        BY <2>1, <2>3, <2>5, <3>2, <4>1, <4>2 DEF ByEntry
      <4> QED
        BY <4>3 DEF Holds
    <3> QED
      BY <2>1, <2>2, <3>1, <3>2, CacheRests, ServerOwningTraced
  <2> QED
    BY <2>1, <2>4, <2>5
<1>3. CASE Presign(x)
  <2>1. PICK w \in Attempts : \E f \in Files :
          /\ Moves(x, "run", w) /\ q.op = "presign" /\ w.res = f
          /\ state[f] = "absent" /\ state'[f] # "absent"
          /\ \A g \in Files \ {f} : state'[g] = state[g]
          /\ Aside /\ UNCHANGED <<links, cache>>
    BY <1>3, PresignStep
  <2>2. PICK n \in Files :
          /\ Moves(x, "run", w) /\ q.op = "presign" /\ w.res = n
          /\ state[n] = "absent" /\ state'[n] # "absent"
          /\ \A g \in Files \ {n} : state'[g] = state[g]
          /\ Aside /\ UNCHANGED <<links, cache>>
    BY <2>1
  <2>3. q \in Attempts /\ Kept(w, q) /\ Becomes(x, w) /\ w.op = "presign"
    BY <2>2 DEF Moves, Kept
  <2>4. \A f \in Files : \A c \in Calls : Holds(c, f)' =>
          \/ w.call = c /\ Names(w, f)
          \/ \E d \in Calls : Holds(d, f) /\ Shared(c, d)
    BY <2>2, <2>3, CacheRests, ServerTraced
  <2>5. \A c \in Calls : Holds(c, n)' => c = w.call
    BY <2>2, <2>4 DEF Owning, Unborn
  <2>6. \A f \in Files \ {n} : \A c \in Calls : Holds(c, f)' =>
          \E d \in Calls : Holds(d, f) /\ Shared(c, d)
    BY <2>2, <2>3, <2>4 DEF Names
  <2>7. Owned'
    <3>1. SUFFICES ASSUME NEW f \in Files, NEW c \in Calls, NEW d \in Calls,
                          Holds(c, f)', Holds(d, f)'
                   PROVE  Shared(c, d)
      BY <2>2 DEF Owned, Shared, Aside
    <3>2. CASE f = n
      BY <2>5, <3>1, <3>2 DEF Shared
    <3>3. CASE f # n
      <4>1. PICK g \in Calls : Holds(g, f) /\ Shared(c, g)
        BY <2>6, <3>1, <3>3
      <4>2. PICK h \in Calls : Holds(h, f) /\ Shared(d, h)
        BY <2>6, <3>1, <3>3
      <4>3. Shared(g, h)
        BY <4>1, <4>2 DEF Owning, Owned
      <4> QED
        BY <4>1, <4>2, <4>3 DEF Shared
    <3> QED
      BY <3>2, <3>3
  <2>8. Unborn'
    BY <2>2, <2>6 DEF Owning, Unborn
  <2> QED
    BY <2>2, <2>3, <2>7, <2>8, ServerOwning
<1>4. CASE CreateLink(x)
  <2>1. PICK w \in Attempts :
          /\ Moves(x, "insert", w) /\ q.op = "create" /\ w.res = Len(links) + 1
          /\ links' = Append(links, [file |-> q.file, call |-> q.call])
          /\ Aside /\ UNCHANGED cache
    BY <1>4, CreateStep
  <2>2. q \in Attempts /\ Kept(w, q) /\ Becomes(x, w)
    BY <2>1 DEF Moves
  <2>3. \A f \in Files : Names(w, f) => \E d \in Calls : Holds(d, f) /\ Shared(w.call, d)
    BY <2>1, <2>2, <1>a
  <2>4. links'[w.res].call = q.call
    BY <2>1, LinkShape
  <2>5. ASSUME NEW f \in Files, w.file = f
        PROVE  Holds(q.call, f)
    <3>1. Names(q, f)
      BY <2>1, <2>2, <2>5 DEF Names, Kept
    <3> QED
      BY <2>2, <3>1, AttemptHolds
  <2> QED
    BY <2>1, <2>2, <2>3, <2>4, <2>5, CacheRests, ServerOwningTraced
<1>5. CASE UpdateLink(x)
  <2>1. PICK w \in Attempts :
          /\ Moves(x, "insert", w) /\ q.op = "update" /\ Aside /\ UNCHANGED cache
    BY <1>5, UpdateStep
  <2>2. q \in Attempts /\ Kept(w, q) /\ Becomes(x, w)
    BY <2>1 DEF Moves
  <2>3. \A f \in Files : Names(w, f) => \E d \in Calls : Holds(d, f) /\ Shared(w.call, d)
    BY <2>1, <2>2, <1>a
  <2>4. w.op # "create"
    BY <2>1, <2>2 DEF Kept
  <2> QED
    BY <2>1, <2>2, <2>3, <2>4, CacheRests, ServerOwningTraced
<1>6. CASE IdempotencySet(x)
  <2> DEFINE e == [hash |-> bodyHash(q), res |-> q.res]
  <2>1. PICK w \in Attempts :
          /\ Moves(x, "set", w) /\ w.res = q.res
          /\ cache' = [cache EXCEPT ![q.op][q.key] = e]
          /\ Aside /\ UNCHANGED links
    BY <1>6, SetStep
  <2>2. /\ q \in Attempts /\ Kept(w, q) /\ Becomes(x, w) /\ WellFormed(q) /\ q # Unanswered
        /\ q.op \in Wrapped /\ q.key \in Keys /\ q.res # None
    BY <2>1, Worked DEF Moves, WellFormed
  <2>3. \A f \in Files : Names(w, f) => \E d \in Calls : Holds(d, f) /\ Shared(w.call, d)
    BY <2>1, <2>2, <1>a
  <2>4. \A f \in Files : \A c \in Calls :
          w.op = "create" /\ w.res # None /\ w.file = f /\ links'[w.res].call = c => Holds(c, f)
    BY <2>1, <2>2, <1>b
  <2>5. e.res = q.res /\ e.hash[2] = q.file
    BY DEF bodyHash
  <2> HIDE DEF e
  <2>6. /\ cache'[q.op][q.key] = e
        /\ \A o \in Wrapped, k \in Keys : o # q.op \/ k # q.key => cache'[o][k] = cache[o][k]
    BY <2>1, <2>2 DEF Typed
  <2>7. ASSUME NEW f \in Files, NEW k \in Keys, cache'["presign"][k] # None,
               cache'["presign"][k].res = f
        PROVE  \E d \in Calls : Holds(d, f) /\ Shared(drawn[k], d)
    <3>1. CASE q.op = "presign" /\ k = q.key
      <4>1. Names(q, f)
        BY <2>5, <2>6, <2>7, <3>1 DEF Names
      <4>2. q.call \in Calls /\ Holds(q.call, f)
        BY <2>2, <4>1, AttemptHolds
      <4>3. Shared(drawn[k], q.call)
        BY <2>2, <3>1 DEF Owning, KeyShared, Shared
      <4> QED
        BY <4>2, <4>3
    <3>2. CASE ~(q.op = "presign" /\ k = q.key)
      <4>1. cache'["presign"][k] = cache["presign"][k]
        BY <2>6, <3>2 DEF Wrapped
      <4>2. drawn[k] \in Calls
        BY DEF Typed
      <4>3. Holds(drawn[k], f)
        BY <2>7, <4>1 DEF Holds, ByKey
      <4> QED
        BY <4>2, <4>3 DEF Shared
    <3> QED
      BY <3>1, <3>2
  <2>8. ASSUME NEW f \in Files, NEW c \in Calls, ByEntry(c, f)'
        PROVE  Holds(c, f)
    <3>1. PICK k \in Keys : /\ cache'["create"][k] # None
                            /\ cache'["create"][k].hash[2] = f
                            /\ links[cache'["create"][k].res].call = c
      BY <2>1, <2>8 DEF ByEntry
    <3>2. CASE q.op = "create" /\ k = q.key
      BY <2>2, <2>5, <2>6, <3>1, <3>2 DEF Holds, ByLink
    <3>3. CASE ~(q.op = "create" /\ k = q.key)
      <4>1. cache'["create"][k] = cache["create"][k]
        BY <2>6, <3>3 DEF Wrapped
      <4> QED
        BY <3>1, <4>1 DEF Holds, ByEntry
    <3> QED
      BY <3>2, <3>3
  <2> QED
    BY <2>1, <2>2, <2>3, <2>4, <2>7, <2>8, ServerOwningTraced
<1> QED
  BY <1>1, <1>2, <1>3, <1>4, <1>5, <1>6 DEF Server

\* A step of a tool. What the new current request names, and what the tool, the answers and
\* the bytes are about afterwards, was the call's before.
LEMMA ToolTraced ==
  ASSUME Typed, NEW a \in Agents, Works(a), UNCHANGED <<links, cache>>,
         att'[Orphan(a)] \in {att[Orphan(a)], att[Cur(a)], Unanswered},
         \A f \in Files : \A c \in Calls :
           /\ att'[Cur(a)] # Unanswered /\ att'[Cur(a)].call = c /\ Names(att[Cur(a)], f)'
                => Holds(c, f)
           /\ agent'[a].file = f /\ agent'[a].call = c => Holds(c, f)
           /\ ByAnswer(c, f)' => Holds(c, f)
           /\ ByBytes(c, f)' => Holds(c, f),
         att'[Cur(a)] # Unanswered => att'[Cur(a)].res = None \/ att'[Cur(a)] = att[Cur(a)]
  PROVE  \A f \in Files : \A c \in Calls : Holds(c, f)' => Holds(c, f) \/ ByKey(c, f)'
<1>1. SUFFICES ASSUME NEW f \in Files, NEW c \in Calls, Holds(c, f)', ~ByKey(c, f)'
               PROVE  Holds(c, f)
  OBVIOUS
<1>2. Cur(a) \in Slots /\ Orphan(a) \in Slots
  BY SlotFacts
<1>3. \A y \in Slots : y # Cur(a) /\ att'[y] # Unanswered => \E z \in Slots : att'[y] = att[z]
  BY <1>2 DEF Works
<1>4. CASE ByAttempt(c, f)'
  <2>1. PICK y \in Slots : att'[y] # Unanswered /\ att'[y].call = c /\ Names(att[y], f)'
    BY <1>4 DEF ByAttempt
  <2>2. CASE y = Cur(a)
    BY <2>1, <2>2
  <2>3. CASE y # Cur(a)
    <3>1. PICK z \in Slots : att'[y] = att[z]
      BY <1>3, <2>1, <2>3
    <3>2. att[z] # Unanswered /\ att[z].call = c /\ Names(att[z], f)
      BY <2>1, <3>1 DEF Names
    <3> QED
      BY <3>2 DEF Holds, ByAttempt
  <2> QED
    BY <2>2, <2>3
<1>5. CASE ByTool(c, f)'
  <2>1. PICK b \in Agents : agent'[b].file = f /\ agent'[b].call = c
    BY <1>5 DEF ByTool
  <2> QED
    BY <2>1 DEF Holds, ByTool, Works
<1>6. CASE ByEntry(c, f)'
  BY <1>6 DEF Holds, ByEntry
<1>7. CASE ByLink(c, f)'
  <2>1. PICK y \in Slots : /\ att'[y] # Unanswered /\ att'[y].op = "create"
                           /\ att'[y].res # None /\ att'[y].file = f
                           /\ links[att'[y].res].call = c
    BY <1>7 DEF ByLink
  <2>2. PICK z \in Slots : att'[y] = att[z]
    BY <1>2, <1>3, <2>1
  <2> QED
    BY <2>1, <2>2 DEF Holds, ByLink
<1> QED
  BY <1>1, <1>4, <1>5, <1>6, <1>7 DEF Holds

LEMMA ToolOwning ==
  ASSUME Typed, Grows, Owning, FilesStep, UNCHANGED <<cache, calls, drawn, collided>>,
         \A f \in Files : \A c \in Calls : Holds(c, f)' => Holds(c, f) \/ ByKey(c, f)',
         \A y \in Slots : att'[y] # Unanswered /\ att'[y].op = "presign" =>
            \E z \in Slots : /\ att[z] # Unanswered /\ att[z].op = "presign"
                             /\ att'[y].call = att[z].call /\ att'[y].key = att[z].key,
         Answered'
  PROVE  Owning' /\ collided \subseteq collided'
<1>1. \A f \in Files : \A c \in Calls : Holds(c, f)' => Holds(c, f)
  BY DEF Holds, ByKey
<1>2. Traced
  BY <1>1 DEF Traced, Shared
<1>3. Owned' /\ Unborn'
  BY <1>2, TracedOwned DEF Owning
<1>4. KeyShared'
  <2>1. SUFFICES ASSUME NEW y \in Slots, att'[y] # Unanswered, att'[y].op = "presign"
                 PROVE  Shared(att'[y].call, drawn[att'[y].key])
    BY DEF KeyShared, Shared
  <2>2. PICK z \in Slots : /\ att[z] # Unanswered /\ att[z].op = "presign"
                           /\ att'[y].call = att[z].call /\ att'[y].key = att[z].key
    BY <2>1
  <2> QED
    BY <2>2 DEF Owning, KeyShared
<1> QED
  BY <1>3, <1>4 DEF Owning, Counted

\* A tool that has got this far has to do with its file.
LEMMA ToolHolds ==
  ASSUME Typed, NEW a \in Agents, NEW f \in Files, agent[a].file = f
  PROVE  agent[a].call \in Calls /\ Holds(agent[a].call, f)
<1>1. agent[a] \in AgentRecs
  BY DEF Typed
<1> QED
  BY <1>1 DEF AgentRecs, Holds, ByTool

LEMMA ToolKeepsOwning ==
  ASSUME Typed, Grows, FilesStep, Owning, NEW a \in Agents,
         \/ \E k \in Keys : PollReady(a, k)
         \/ Put(a) \/ PollAgain(a) \/ PollFails(a) \/ Receive(a)
         \/ Reconnect(a) \/ GiveUp(a) \/ OrphanEnds(a)
  PROVE  Owning' /\ collided \subseteq collided'
<1> USE SMTT(20)
<1>1. Cur(a) \in Slots /\ Orphan(a) \in Slots /\ Cur(a) # Orphan(a)
  BY SlotFacts
\* What did not change.
<1>a. UNCHANGED answered => \A f \in Files : \A c \in Calls : ByAnswer(c, f)' => Holds(c, f)
  BY DEF ByAnswer, Holds
<1>b. UNCHANGED content => \A f \in Files : \A c \in Calls : ByBytes(c, f)' => Holds(c, f)
  BY DEF ByBytes, Holds
<1>c. \A f \in Files : \A c \in Calls :
        agent[a].file = f /\ agent[a].call = c => Holds(c, f)
  BY ToolHolds
<1>d. UNCHANGED <<answered, collided>> => Answered'
  BY AnsweredKept DEF Owning
<1>2. ASSUME NEW k \in Keys, PollReady(a, k)
      PROVE  Owning' /\ collided \subseteq collided'
  <2>1. /\ Works(a) /\ Asks(a, att'[Cur(a)]) /\ SameCall(agent'[a], agent[a])
        /\ att'[Cur(a)].op = agent[a].tool /\ att'[Cur(a)].file = agent[a].file
        /\ att'[Cur(a)].call = agent[a].call
        /\ UNCHANGED <<content, links, cache, calls, drawn, answered, collided>>
    BY <1>2, PollReadyStep
  <2>2. att'[Cur(a)].op # "presign"
    <3>1. agent[a] \in AgentRecs
      BY DEF Typed
    <3>2. agent[a].tool \in {"create", "update"}
      BY <3>1 DEF AgentRecs
    <3> QED
      BY <2>1, <3>2
  <2>3. \A f \in Files : \A c \in Calls : Holds(c, f)' => Holds(c, f) \/ ByKey(c, f)'
    <3>1. \A f \in Files : \A c \in Calls :
            /\ att'[Cur(a)].call = c /\ Names(att[Cur(a)], f)' => Holds(c, f)
            /\ agent'[a].file = f /\ agent'[a].call = c => Holds(c, f)
      BY <2>1, <2>2, <1>c DEF Names, SameCall
    <3> QED
      BY <2>1, <3>1, <1>a, <1>b, ToolTraced DEF Asks
  <2>4. \A y \in Slots : att'[y] # Unanswered /\ att'[y].op = "presign" => att'[y] = att[y]
    BY <2>1, <2>2 DEF Works, Asks
  <2> QED
    BY <2>1, <2>3, <2>4, <1>d, ToolOwning
<1>3. CASE Put(a)
  <2> DEFINE g == agent[a].file
  <2>1. /\ Works(a) /\ Asks(a, att'[Cur(a)]) /\ SameCall(agent'[a], agent[a]) /\ g \in Files
        /\ att'[Cur(a)].op = "complete" /\ att'[Cur(a)].file = g
        /\ att'[Cur(a)].call = agent[a].call
        /\ content' = [content EXCEPT ![g] = agent[a].call]
        /\ UNCHANGED <<links, cache, calls, drawn, answered, collided>>
    BY <1>3, PutStep
  <2>2. \A f \in Files : \A c \in Calls : ByBytes(c, f)' => Holds(c, f)
    <3>1. SUFFICES ASSUME NEW f \in Files, NEW c \in Calls, ByBytes(c, f)'
                   PROVE  Holds(c, f)
      OBVIOUS
    <3>2. CASE f = g
      <4>1. c = agent[a].call
        BY <2>1, <3>1, <3>2 DEF ByBytes, Typed
      <4> QED
        BY <3>2, <4>1, <1>c
    <3>3. CASE f # g
      BY <2>1, <3>1, <3>3 DEF ByBytes, Holds, Typed
    <3> QED
      BY <3>2, <3>3
  <2>3. \A f \in Files : \A c \in Calls : Holds(c, f)' => Holds(c, f) \/ ByKey(c, f)'
    <3>1. \A f \in Files : \A c \in Calls :
            /\ att'[Cur(a)].call = c /\ Names(att[Cur(a)], f)' => Holds(c, f)
            /\ agent'[a].file = f /\ agent'[a].call = c => Holds(c, f)
      BY <2>1, <1>c DEF Names, SameCall
    <3> QED
      BY <2>1, <2>2, <3>1, <1>a, ToolTraced DEF Asks
  <2>4. \A y \in Slots : att'[y] # Unanswered /\ att'[y].op = "presign" => att'[y] = att[y]
    BY <2>1 DEF Works, Asks
  <2> QED
    BY <2>1, <2>3, <2>4, <1>d, ToolOwning
<1>4. CASE PollAgain(a) \/ PollFails(a)
  <2>1. /\ Works(a)
        /\ \/ agent'[a] = Failed
           \/ SameCall(agent'[a], agent[a])
        /\ UNCHANGED <<content, links, cache, att, calls, drawn, answered, collided>>
    BY <1>4, PollStep
  <2>2. \A f \in Files : \A c \in Calls : Holds(c, f)' => Holds(c, f) \/ ByKey(c, f)'
    <3>1. \A f \in Files : \A c \in Calls :
            /\ att'[Cur(a)] # Unanswered /\ att'[Cur(a)].call = c /\ Names(att[Cur(a)], f)'
                 => Holds(c, f)
            /\ agent'[a].file = f /\ agent'[a].call = c => Holds(c, f)
      BY <1>1, <2>1, <1>c, FailedShape, Consts DEF SameCall, Holds, ByAttempt, Names
    <3> QED
      BY <2>1, <3>1, <1>a, <1>b, ToolTraced
  <2> QED
    BY <2>1, <2>2, <1>d, ToolOwning
<1>5. CASE Receive(a)
  <2> DEFINE h == agent[a]
             q == att[Cur(a)]
             r == [call |-> h.call, file |-> h.file, link |-> q.res]
  <2>1. /\ Works(a) /\ q \in Attempts /\ h.pc = q.op
        /\ att'[Cur(a)] = Unanswered /\ att'[Orphan(a)] = att[Orphan(a)]
        /\ \/ agent'[a] = Failed /\ answered' = answered
           \/ /\ q.res # None /\ agent'[a].call = h.call
              /\ q.op = "presign" => agent'[a].file = q.res
              /\ q.op # "presign" => agent'[a].file = h.file
              /\ q.op = "create" => answered' = answered \union {r}
              /\ q.op # "create" => answered' = answered
        /\ UNCHANGED <<content, links, cache, calls, drawn, collided>>
    BY <1>5, ReceiveStep
  <2>2. /\ WellFormed(q) /\ q # Unanswered /\ q.call = h.call
        /\ q.op = "create" => q.file = h.file
    BY <1>1, <2>1, Worked DEF Typed, Asking, Ops, Wrapped
  <2>3. h.call \in Calls
    BY <2>1, <2>2 DEF Attempts
  <2>4. \A f \in Files : \A c \in Calls :
          agent'[a].file = f /\ agent'[a].call = c => Holds(c, f)
    <3>1. SUFFICES ASSUME NEW f \in Files, NEW c \in Calls, agent'[a].file = f, agent'[a].call = c
                   PROVE  Holds(c, f)
      OBVIOUS
    <3>2. CASE agent'[a] = Failed
      BY <3>1, <3>2, FailedShape, Consts
    <3>3. CASE q.op = "presign" /\ agent'[a] # Failed
      <4>1. Names(q, f) /\ c = q.call
        BY <2>1, <2>2, <3>1, <3>3 DEF Names
      <4> QED
        BY <1>1, <2>1, <4>1, AttemptHolds
    <3>4. CASE q.op # "presign" /\ agent'[a] # Failed
      BY <2>1, <3>1, <3>4, <1>c
    <3> QED
      BY <3>2, <3>3, <3>4
  <2>5. \A f \in Files : \A c \in Calls : ByAnswer(c, f)' => Holds(c, f)
    <3>1. CASE answered' = answered
      BY <3>1, <1>a
    <3>2. CASE answered' = answered \union {r}
      <4>1. \A f \in Files : \A c \in Calls : r.file = f /\ r.call = c => Holds(c, f)
        BY <1>c
      <4> QED
        BY <3>2, <4>1 DEF ByAnswer, Holds
    <3> QED
      BY <2>1, <3>1, <3>2
  <2>6. \A f \in Files : \A c \in Calls : Holds(c, f)' => Holds(c, f) \/ ByKey(c, f)'
    BY <2>1, <2>4, <2>5, <1>b, ToolTraced
  <2>7. Answered'
    <3>1. CASE answered' = answered
      BY <2>1, <3>1, <1>d
    <3>2. CASE answered' = answered \union {r} /\ q.op = "create" /\ q.res # None
      <4>1. r.call \in Calls /\ r.file \in Files /\ content[r.file] # 0
        BY <2>2, <2>3, <3>2 DEF WellFormed
      <4>2. r.link \in 1..Len(links)
        BY <2>2, <3>2 DEF WellFormed
      <4>3. links[r.link].call \in Calls
        BY <4>2, LinkShape
      <4>4. Holds(links[r.link].call, r.file)
        BY <1>1, <2>2, <3>2 DEF Holds, ByLink
      <4>5. Holds(r.call, r.file)
        BY <4>1, <1>c
      <4>6. Shared(r.call, links[r.link].call)
        BY <4>1, <4>3, <4>4, <4>5 DEF Owning, Owned
      <4>7. Told(r)
        BY <4>1, <4>2, <4>6 DEF Told
      <4>8. \A s \in answered' : Told(s)
        BY <3>2, <4>7 DEF Owning, Answered
      <4> HIDE DEF r
      <4>9. \A s : Told(s) => Told(s)'
        BY <2>1 DEF Told, Shared
      <4> QED
        BY <4>8, <4>9 DEF Answered
    <3> QED
      BY <2>1, <3>1, <3>2
  <2>8. \A y \in Slots : att'[y] # Unanswered /\ att'[y].op = "presign" => att'[y] = att[y]
    BY <2>1 DEF Works
  <2> QED
    BY <2>1, <2>6, <2>7, <2>8, ToolOwning
<1>6. CASE Reconnect(a)
  <2> DEFINE q == att[Cur(a)]
             w == att'[Cur(a)]
  <2>1. /\ Works(a) /\ q \in Attempts /\ att'[Orphan(a)] = q
        /\ w \in Attempts /\ Kept(w, q) /\ w.res = None
        /\ UNCHANGED <<content, links, cache, agent, calls, drawn, answered, collided>>
    BY <1>6, ReconnectStep
  <2>2. q # Unanswered /\ w # Unanswered
    BY <2>1, AttShape
  <2>3. \A f \in Files : \A c \in Calls :
          w.call = c /\ Names(att[Cur(a)], f)' => Holds(c, f)
    <3>1. SUFFICES ASSUME NEW f \in Files, NEW c \in Calls, w.call = c, Names(att[Cur(a)], f)'
                   PROVE  Holds(c, f)
      OBVIOUS
    <3>2. Names(q, f) /\ q.call = c
      BY <2>1, <3>1, Consts DEF Names, Kept
    <3> QED
      BY <1>1, <2>1, <3>2, AttemptHolds
  <2>4. \A f \in Files : \A c \in Calls : Holds(c, f)' => Holds(c, f) \/ ByKey(c, f)'
    BY <2>1, <2>3, <1>a, <1>b, <1>c, ToolTraced
  <2>5. ASSUME NEW y \in Slots, att'[y] # Unanswered, att'[y].op = "presign"
        PROVE  \E z \in Slots : /\ att[z] # Unanswered /\ att[z].op = "presign"
                                /\ att'[y].call = att[z].call /\ att'[y].key = att[z].key
    <3>1. CASE y \in {Cur(a), Orphan(a)}
      BY <1>1, <2>1, <2>2, <2>5, <3>1 DEF Kept
    <3>2. CASE y \in Slots \ {Cur(a), Orphan(a)}
      BY <2>1, <2>5, <3>2 DEF Works
    <3> QED
      BY <3>1, <3>2
  <2> QED
    BY <2>1, <2>4, <2>5, <1>d, ToolOwning
<1>7. CASE GiveUp(a)
  <2>1. /\ Works(a) /\ agent'[a] = Failed
        /\ att'[Cur(a)] = Unanswered /\ att'[Orphan(a)] = att[Cur(a)]
        /\ UNCHANGED <<content, links, cache, calls, drawn, answered, collided>>
    BY <1>7, GiveUpStep
  <2>2. \A f \in Files : agent'[a].file # f
    BY <2>1, FailedShape, Consts
  <2>3. \A f \in Files : \A c \in Calls : Holds(c, f)' => Holds(c, f) \/ ByKey(c, f)'
    BY <2>1, <2>2, <1>a, <1>b, ToolTraced
  <2>4. \A y \in Slots : att'[y] # Unanswered => \E z \in Slots : att'[y] = att[z]
    BY <1>1, <2>1 DEF Works
  <2> QED
    BY <2>1, <2>3, <2>4, <1>d, ToolOwning
<1>8. CASE OrphanEnds(a)
  <2>1. /\ Works(a) /\ att'[Cur(a)] = att[Cur(a)] /\ att'[Orphan(a)] = Unanswered
        /\ UNCHANGED <<content, links, cache, agent, calls, drawn, answered, collided>>
    BY <1>8, OrphanStep
  <2>2. \A f \in Files : \A c \in Calls :
          att'[Cur(a)] # Unanswered /\ att'[Cur(a)].call = c /\ Names(att[Cur(a)], f)'
            => Holds(c, f)
    BY <1>1, <2>1 DEF Holds, ByAttempt, Names
  <2>3. \A f \in Files : \A c \in Calls : Holds(c, f)' => Holds(c, f) \/ ByKey(c, f)'
    BY <2>1, <2>2, <1>a, <1>b, <1>c, ToolTraced
  <2>4. \A y \in Slots : att'[y] # Unanswered => att'[y] = att[y]
    BY <2>1 DEF Works
  <2> QED
    BY <2>1, <2>3, <2>4, <1>d, ToolOwning
<1> QED
  BY <1>2, <1>3, <1>4, <1>5, <1>6, <1>7, <1>8

\* A new call holds nothing yet, unless the key it draws was drawn before: then it shares it.
LEMMA CallKeepsOwning ==
  ASSUME Typed, Grows, FilesStep, Owning, NEW a \in Agents, NEW tool \in {"create", "update"},
         NEW l \in Nat \union {None}, NEW b \in Bodies, NEW k \in Keys, ToolCall(a, tool, l, b, k)
  PROVE  Owning' /\ collided \subseteq collided'
<1> DEFINE n == calls + 1
<1>1. /\ Works(a) /\ Asks(a, att'[Cur(a)]) /\ calls' = n /\ n \in Calls
      /\ agent'[a].file = None
      /\ att'[Cur(a)].op = "presign" /\ att'[Cur(a)].key = k /\ att'[Cur(a)].call = n
      /\ UNCHANGED <<content, links, cache, answered>>
      /\ drawn' = [drawn EXCEPT ![k] = n]
      /\ drawn[k] # 0 => collided' = collided \union {n, drawn[k]}
      /\ drawn[k] = 0 => collided' = collided
  BY CallStep
<1>2. /\ drawn \in [Keys -> Calls] /\ calls \in Nat /\ n # 0 /\ drawn[k] \in Calls
      /\ Calls \subseteq Nat
  BY Consts DEF Typed
<1>3. drawn'[k] = n /\ \A j \in Keys \ {k} : drawn'[j] = drawn[j]
  BY <1>1, <1>2
<1>4. collided \subseteq collided'
  BY <1>1
<1>5. \A f \in Files : \A c \in Calls : Holds(c, f)' => Holds(c, f) \/ ByKey(c, f)'
  <2>1. \A f \in Files : ~Names(att[Cur(a)], f)' /\ agent'[a].file # f
    BY <1>1, Consts DEF Names, Asks
  <2>2. \A f \in Files : \A c \in Calls : ByAnswer(c, f)' => Holds(c, f)
    BY <1>1 DEF ByAnswer, Holds
  <2>3. \A f \in Files : \A c \in Calls : ByBytes(c, f)' => Holds(c, f)
    BY <1>1 DEF ByBytes, Holds
  <2> QED
    BY <1>1, <2>1, <2>2, <2>3, ToolTraced DEF Asks
<1>6. Traced
  <2>1. SUFFICES ASSUME NEW f \in Files, NEW c \in Calls, Holds(c, f)'
                 PROVE  \E d \in Calls : Holds(d, f) /\ Shared(c, d)'
    BY DEF Traced
  <2>2. CASE Holds(c, f)
    BY <2>2 DEF Shared
  <2>3. CASE ByKey(c, f)'
    <3>1. PICK j \in Keys : /\ cache["presign"][j] # None
                            /\ cache["presign"][j].res = f /\ drawn'[j] = c
      BY <1>1, <2>3 DEF ByKey
    <3>2. PICK d \in Calls : d = drawn[j]
      BY <1>2
    <3>3. Holds(d, f)
      BY <3>1, <3>2 DEF Holds, ByKey
    <3>4. d # 0
      <4>1. EntryOK("presign", j)
        BY DEF Typed, Wrapped
      <4> QED
        BY <3>1, <3>2, <4>1 DEF EntryOK
    <3>5. Shared(c, d)'
      <4>1. CASE j = k
        BY <1>1, <1>3, <3>1, <3>2, <3>4, <4>1 DEF Shared
      <4>2. CASE j # k
        BY <1>3, <3>1, <3>2, <4>2 DEF Shared
      <4> QED
        BY <4>1, <4>2
    <3> QED
      BY <3>3, <3>5
  <2> QED
    BY <1>5, <2>1, <2>2, <2>3
<1>7. Owned' /\ Unborn'
  BY <1>4, <1>6, TracedOwned DEF Owning
<1>8. KeyShared'
  <2>1. SUFFICES ASSUME NEW y \in Slots, att'[y] # Unanswered, att'[y].op = "presign"
                 PROVE  Shared(att[y].call, drawn[att[y].key])'
    BY DEF KeyShared
  <2>2. CASE y = Cur(a)
    BY <1>1, <1>3, <2>2 DEF Shared
  <2>3. CASE y # Cur(a)
    <3>1. PICK z \in Slots : att'[y] = att[z]
      BY <1>1, <2>1, <2>3, SlotFacts DEF Works, Asks
    <3>2. WellFormed(att[z])
      BY <2>1, <3>1 DEF Typed
    <3>3. att[z].call # 0 /\ att[z].key \in Keys /\ drawn[att[z].key] # 0
      BY <1>2, <2>1, <3>1, <3>2 DEF WellFormed, Wrapped
    <3>4. Shared(att[z].call, drawn[att[z].key])
      BY <2>1, <3>1 DEF Owning, KeyShared
    <3>5. CASE att[z].key = k
      <4>1. att[z].call \in collided'
        BY <1>1, <3>3, <3>4, <3>5 DEF Shared
      <4>2. n \in collided' /\ drawn'[att[z].key] = n
        BY <1>1, <1>3, <3>3, <3>5
      <4> QED
        BY <3>1, <4>1, <4>2 DEF Shared
    <3>6. CASE att[z].key # k
      BY <1>3, <1>4, <3>1, <3>3, <3>4, <3>6 DEF Shared
    <3> QED
      BY <3>5, <3>6
  <2> QED
    BY <2>2, <2>3
<1>9. Counted'
  <2>1. \A j \in Keys : drawn'[j] <= n
    <3>1. \A j \in Keys : drawn[j] \in Nat /\ drawn[j] <= calls
      BY <1>2 DEF Owning, Counted
    <3> QED
      BY <1>2, <1>3, <3>1
  <2>2. 0 \notin collided'
    BY <1>1, <1>2 DEF Owning, Counted
  <2> QED
    BY <1>1, <2>1, <2>2 DEF Counted
<1>10. Answered'
  BY <1>1, <1>4, AnsweredKept DEF Owning
<1> QED
  BY <1>4, <1>7, <1>8, <1>9, <1>10 DEF Owning

LEMMA RestKeepsOwning ==
  ASSUME Typed, Grows, FilesStep, Owning,
         UNCHANGED <<content, links, cache, agent, att, calls, drawn, answered, collided>>
  PROVE  Owning'
<1>1. \A f \in Files : \A c \in Calls : Holds(c, f)' => Holds(c, f)
  BY DEF Holds, ByAttempt, ByTool, ByAnswer, ByKey, ByBytes, ByEntry, ByLink, Names
<1>2. Traced
  BY <1>1 DEF Traced, Shared
<1>3. Owned' /\ Unborn'
  BY <1>2, TracedOwned DEF Owning
<1>4. KeyShared' /\ Counted'
  BY DEF Owning, KeyShared, Counted, Shared
<1>5. Answered'
  BY AnsweredKept DEF Owning
<1> QED
  BY <1>3, <1>4, <1>5 DEF Owning

LEMMA OwningStep ==
  ASSUME Typed, Owning, [Next]_vars
  PROVE  Owning'
<1>1. Grows /\ FilesStep
  BY TypedStep
<1>2. CASE UNCHANGED vars
  BY <1>1, <1>2, RestKeepsOwning DEF vars, files, bounds, history
<1>3. ASSUME NEW f \in Files, FileMoves(f)
      PROVE  Owning'
  BY <1>1, <1>3, MoveStep, RestKeepsOwning
<1>4. CASE Next
  BY <1>1, <1>3, <1>4, NextSteps, CallKeepsOwning, ToolKeepsOwning, ServerKeepsOwning
<1> QED
  BY <1>2, <1>4

LEMMA OwningInit ==
  ASSUME Init
  PROVE  Owning
<1>1. /\ \A x \in Slots : att[x] = Unanswered
      /\ \A a \in Agents : agent[a].file = None
      /\ answered = {} /\ collided = {} /\ calls = 0
      /\ \A f \in Files : content[f] = 0
      /\ \A o \in Wrapped : \A k \in Keys : cache[o][k] = None
      /\ \A k \in Keys : drawn[k] = 0
  BY DEF Init, NoCall
<1>2. \A f \in Files : \A c \in Calls : ~Holds(c, f)
  BY <1>1, Consts DEF Holds, ByAttempt, ByTool, ByAnswer, ByKey, ByBytes, ByEntry, ByLink, Wrapped
<1> QED
  BY <1>1, <1>2 DEF Owning, Owned, Unborn, KeyShared, Counted, Answered

\* A file is linked or shown only to the call that uploaded it: when create_preview_link
\* answers, its link was made by that call and the file holds what that call uploaded, unless
\* two calls presigned with the same Idempotency-Key.
THEOREM LinksAreOwn == Spec => []OwnLink
<1>1. Init => Typed /\ Owning
  BY TypedInit, OwningInit
<1>2. Typed /\ Owning /\ [Next]_vars => Typed' /\ Owning'
  BY TypedStep, OwningStep
<1>3. Typed /\ Owning => OwnLink
  <2>1. SUFFICES ASSUME Typed, Owning, NEW r \in answered, r.call \notin collided
                 PROVE  links[r.link].call = r.call /\ content[r.file] = r.call
    BY DEF OwnLink
  <2>2. Told(r)
    BY <2>1 DEF Owning, Answered
  <2>3. content[r.file] \in Calls /\ r.file \in Files /\ r.call \in Calls
    BY <2>1, <2>2 DEF Told, Typed
  <2>4. Holds(r.call, r.file) /\ Holds(content[r.file], r.file)
    BY <2>1, <2>2 DEF Told, Holds, ByAnswer, ByBytes
  <2>5. Shared(r.call, content[r.file])
    BY <2>1, <2>3, <2>4 DEF Owning, Owned
  <2> QED
    BY <2>1, <2>2, <2>5 DEF Told, Shared
<1> QED
  BY <1>1, <1>2, <1>3, PTL DEF Spec
=============================================================================
