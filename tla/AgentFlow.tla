------------------------------ MODULE AgentFlow ------------------------------
(***************************************************************************)
(* The agent's tools create_preview_link and modify_link, the API calls     *)
(* they are made of, and the Idempotency-Key wrapper that those calls meet  *)
(* on the server. Files behave as FileService says.                         *)
(*                                                                         *)
(* The agents share one instance key, so their Idempotency-Keys, which are  *)
(* clock readings, share one scope. Go's HTTP transport sends a request     *)
(* again, with the same key, when its connection breaks before an answer:   *)
(* the first attempt may still be running, as an orphan whose answer nobody *)
(* reads and whose next statement may fail because its context is           *)
(* cancelled. A key is remembered for 24 hours, longer than any call.       *)
(***************************************************************************)
EXTENDS Integers, Sequences, FiniteSets

CONSTANTS
    Agents,      \* tool calls running at a time
    Keys,        \* clock readings used as Idempotency-Keys
    Files,
    Bodies,      \* what a presign request declares: name, type, size, lifetime
    None,        \* no file, body, key or answer
    MaxPolls,    \* polls before scanReadyTimeout
    MaxCalls,    \* bound: tool calls
    MaxRetries,  \* bound: connections that break
    MaxFaults    \* bound: failed calls to Redis, the database or the API

\* What the cache remembers of an answer: the request's hash and the file or link of the answer.
Entries == [hash : (Bodies \union {None}) \X (Files \union {None}), res : Files \union Nat]

ASSUME AgentAssumption ==
    /\ None \notin Files \union Bodies \union Keys \union Nat \union Entries
    /\ MaxPolls \in Nat /\ MaxCalls \in Nat /\ MaxRetries \in Nat /\ MaxFaults \in Nat

VARIABLES
    state, revived,   \* the files
    content,          \* the call whose bytes each file's object holds
    links,            \* preview_links: file and creating call; the id is the index
    cache,            \* Redis idem:<instance>:<endpoint>:<key>
    agent,            \* the tool calls
    att,              \* API requests: each agent's current one and an orphan
    calls, retries, faults   \* counters behind the bounds

\* History variables: they guard nothing and are only read by properties.
VARIABLES
    drawn,      \* the call that last used each key to presign
    answered,   \* what create_preview_link answered: call, file and link
    collided,   \* calls that presigned with the same key
    excused     \* calls of which a request ran twice for a reason named below

Service == INSTANCE FileService WITH refused <- {}, held <- {}

files   == <<state, revived, content>>
bounds  == <<calls, retries, faults>>
history == <<drawn, answered, collided, excused>>
vars    == <<files, links, cache, agent, att, bounds, history>>

-----------------------------------------------------------------------------
Wrapped == {"presign", "create"}                   \* endpoints inside idempotent()
Ops     == Wrapped \union {"complete", "update"}
Slots   == Agents \X {"cur", "orphan"}
Cur(a)  == <<a, "cur">>
Orphan(a) == <<a, "orphan">>

Unanswered == [pc |-> "none"]
NoCall == [pc |-> "idle", tool |-> "create", call |-> 0, file |-> None, link |-> None,
           polls |-> 0]
Failed == [NoCall EXCEPT !.pc = "failed"]

Init ==
    /\ Service!Init
    /\ content = [f \in Files |-> 0]
    /\ links = <<>>
    /\ cache = [o \in Wrapped |-> [k \in Keys |-> None]]
    /\ agent = [a \in Agents |-> NoCall]
    /\ att = [x \in Slots |-> Unanswered]
    /\ calls = 0 /\ retries = 0 /\ faults = 0
    /\ drawn = [k \in Keys |-> 0] /\ answered = {} /\ collided = {} /\ excused = {}

\* bodyHash: what a replay must agree on.
bodyHash(q) == <<q.body, q.file>>

FirstStep(op) == IF op \in Wrapped THEN "get" ELSE "run"

\* doJSON: a request with a fresh key; k is the clock reading.
Request(a, op, k, body, f, l) ==
    [pc |-> FirstStep(op), op |-> op, key |-> k, body |-> body,
     file |-> f, link |-> l, res |-> None, call |-> agent[a].call]

Draw(c, op, k) ==
    /\ drawn' = IF op = "presign" THEN [drawn EXCEPT ![k] = c] ELSE drawn
    /\ collided' = IF op = "presign" /\ drawn[k] # 0 THEN collided \union {c, drawn[k]}
                   ELSE collided
    /\ UNCHANGED <<answered, excused>>

Fault == faults < MaxFaults /\ faults' = faults + 1 /\ UNCHANGED <<calls, retries>>

-----------------------------------------------------------------------------
(***************************************************************************)
(* The tools.                                                               *)
(***************************************************************************)

\* createPreviewLink, or modifyLink on an existing link: uploadResolved begins with a presign.
ToolCall(a, tool, l, b, k) ==
    /\ agent[a].pc \in {"idle", "done", "failed"} /\ calls < MaxCalls
    /\ calls' = calls + 1
    /\ agent' = [agent EXCEPT ![a] = [NoCall EXCEPT !.pc = "presign", !.tool = tool,
                                                    !.call = calls + 1, !.link = l]]
    /\ att' = [att EXCEPT ![Cur(a)] =
                 [Request(a, "presign", k, b, None, None) EXCEPT !.call = calls + 1]]
    /\ Draw(calls + 1, "presign", k)
    /\ UNCHANGED <<files, links, cache, retries, faults>>

\* uploadFile: the PUT to the presigned URL, then the completion, whose key nobody reads.
Put(a) ==
    /\ agent[a].pc = "put"
    /\ content' = [content EXCEPT ![agent[a].file] = agent[a].call]
    /\ agent' = [agent EXCEPT ![a].pc = "complete"]
    /\ att' = [att EXCEPT ![Cur(a)] = Request(a, "complete", None, None, agent[a].file, None)]
    /\ UNCHANGED <<state, revived, links, cache, bounds, history>>

\* waitReady, one round: a file that is ready is linked, or put behind an existing link.
PollReady(a, k) ==
    /\ agent[a].pc = "poll" /\ state[agent[a].file] = "serving"
    /\ agent' = [agent EXCEPT ![a].pc = agent[a].tool]
    /\ att' = [att EXCEPT ![Cur(a)] =
                 Request(a, agent[a].tool, k, None, agent[a].file, agent[a].link)]
    /\ Draw(agent[a].call, agent[a].tool, k)
    /\ UNCHANGED <<files, links, cache, bounds>>

Over(a) == state[agent[a].file] \in {"ended", "purged"}

\* A file still in the works is looked at again after a while.
PollAgain(a) ==
    /\ agent[a].pc = "poll" /\ state[agent[a].file] # "serving"
    /\ ~Over(a) /\ agent[a].polls < MaxPolls
    /\ agent' = [agent EXCEPT ![a].polls = @ + 1]
    /\ UNCHANGED <<files, links, cache, att, bounds, history>>

\* Mutant of PollFails: the deadline is not looked at.
PollFailsDeadOnly(a) ==
    /\ agent[a].pc = "poll" /\ Over(a)
    /\ agent' = [agent EXCEPT ![a] = Failed]
    /\ UNCHANGED <<files, links, cache, att, bounds, history>>

\* A dead file is an error, and so is the deadline.
PollFails(a) ==
    /\ agent[a].pc = "poll" /\ state[agent[a].file] # "serving"
    /\ Over(a) \/ agent[a].polls = MaxPolls
    /\ agent' = [agent EXCEPT ![a] = Failed]
    /\ UNCHANGED <<files, links, cache, att, bounds, history>>

\* doJSON's answer: the tool goes on with it, or fails on a status of 300 or more.
Receive(a) ==
    /\ att[Cur(a)].pc = "answer"
    /\ LET q == att[Cur(a)]
           next == CASE q.op = "presign"  -> "put"
                     [] q.op = "complete" -> "poll"
                     [] OTHER             -> "done" IN
       agent' = [agent EXCEPT ![a] =
                   IF q.res = None THEN Failed
                   ELSE [@ EXCEPT !.pc = next, !.polls = 0,
                                  !.file = IF q.op = "presign" THEN q.res
                                           ELSE agent[a].file,
                                  !.link = IF q.op = "create" THEN q.res
                                           ELSE agent[a].link]]
    /\ att' = [att EXCEPT ![Cur(a)] = Unanswered]
    /\ answered' = IF att[Cur(a)].op = "create" /\ att[Cur(a)].res # None
                   THEN answered \union {[call |-> agent[a].call, file |-> agent[a].file,
                                          link |-> att[Cur(a)].res]}
                   ELSE answered
    /\ UNCHANGED <<files, links, cache, bounds, drawn, collided, excused>>

\* The connection breaks before an answer: the transport sends the request once more. The
\* model keeps one orphan of each agent.
Reconnect(a) ==
    /\ att[Cur(a)] # Unanswered /\ att[Orphan(a)] = Unanswered
    /\ retries < MaxRetries
    /\ retries' = retries + 1
    /\ att' = [att EXCEPT ![Orphan(a)] = att[Cur(a)],
                          ![Cur(a)] = [@ EXCEPT !.pc = FirstStep(att[Cur(a)].op), !.res = None]]
    /\ UNCHANGED <<files, links, cache, agent, calls, faults, history>>

\* The client's timeout, a refused PUT or an error that is not retried: the tool fails and
\* its request, if any, is left to itself.
GiveUp(a) ==
    /\ Fault
    /\ agent[a].pc \notin {"idle", "done", "failed"} /\ att[Orphan(a)] = Unanswered
    /\ agent' = [agent EXCEPT ![a] = Failed]
    /\ att' = [att EXCEPT ![Orphan(a)] = att[Cur(a)], ![Cur(a)] = Unanswered]
    /\ UNCHANGED <<files, links, cache, history>>

-----------------------------------------------------------------------------
(***************************************************************************)
(* The server: idempotent() around presign and create-link.                 *)
(***************************************************************************)
Answer(x, res) == att' = [att EXCEPT ![x].pc = "answer", ![x].res = res]

\* Another attempt with this key has looked and has not yet stored its answer.
Overlaps(x) ==
    \E y \in Slots \ {x} : /\ att[y].pc \in {"run", "insert", "set"}
                           /\ att[y].op = att[x].op /\ att[y].key = att[x].key

\* Mutant of IdempotencyGet: a replay does not compare the requests.
IdempotencyGetAnyBody(x) ==
    /\ att[x].pc = "get"
    /\ LET hit == cache[att[x].op][att[x].key] IN
       IF hit = None
       THEN /\ att' = [att EXCEPT ![x].pc = "run"]
            /\ excused' = IF Overlaps(x) THEN excused \union {att[x].call} ELSE excused
       ELSE /\ Answer(x, hit.res)
            /\ UNCHANGED excused
    /\ UNCHANGED <<files, links, cache, agent, bounds, drawn, answered, collided>>

\* A miss runs the request, a hit replays the stored answer, and a hit for another request
\* is a conflict.
IdempotencyGet(x) ==
    /\ att[x].pc = "get"
    /\ LET hit == cache[att[x].op][att[x].key] IN
       IF hit = None
       THEN /\ att' = [att EXCEPT ![x].pc = "run"]
            /\ excused' = IF Overlaps(x) THEN excused \union {att[x].call} ELSE excused
       ELSE /\ Answer(x, IF hit.hash = bodyHash(att[x]) THEN hit.res ELSE None)
            /\ UNCHANGED excused
    /\ UNCHANGED <<files, links, cache, agent, bounds, drawn, answered, collided>>

\* The error of IdempotencyGet is ignored and taken for a miss.
GetFails(x) ==
    /\ Fault
    /\ att[x].pc = "get"
    /\ att' = [att EXCEPT ![x].pc = "run"]
    /\ excused' = excused \union {att[x].call}
    /\ UNCHANGED <<files, links, cache, agent, drawn, answered, collided>>

\* id.New draws an id that was never used; which one makes no difference.
Fresh == CHOOSE f \in Files : state[f] = "absent"

\* handlePresign: CreateFile and the URL.
Presign(x) ==
    /\ att[x].pc = "run" /\ att[x].op = "presign"
    /\ \E f \in Files : state[f] = "absent"
    /\ Service!Insert(Fresh) /\ state'[Fresh] = "awaiting"
    /\ att' = [att EXCEPT ![x].pc = "set", ![x].res = Fresh]
    /\ UNCHANGED <<content, links, cache, agent, bounds, history>>

\* handleCompleteUpload: the object is there; the file must be awaiting completion.
CompleteUpload(x) ==
    /\ att[x].pc = "run" /\ att[x].op = "complete"
    /\ IF state[att[x].file] = "awaiting"
       THEN Service!Complete(att[x].file) /\ Answer(x, att[x].file)
       ELSE Answer(x, None) /\ UNCHANGED <<state, revived>>
    /\ UNCHANGED <<content, links, cache, agent, bounds, history>>

\* handleCreateLink and handleUpdateLink: FileByID, only ready files back a link.
FileByID(x) ==
    /\ att[x].pc = "run" /\ att[x].op \in {"create", "update"}
    /\ IF state[att[x].file] = "serving"
       THEN att' = [att EXCEPT ![x].pc = "insert"]
       ELSE Answer(x, None)
    /\ UNCHANGED <<files, links, cache, agent, bounds, history>>

\* CreateLink.
CreateLink(x) ==
    /\ att[x].pc = "insert" /\ att[x].op = "create"
    /\ links' = Append(links, [file |-> att[x].file, call |-> att[x].call])
    /\ att' = [att EXCEPT ![x].pc = "set", ![x].res = Len(links) + 1]
    /\ UNCHANGED <<files, cache, agent, bounds, history>>

\* UpdateLink: the link keeps its URL and gets another file.
UpdateLink(x) ==
    /\ att[x].pc = "insert" /\ att[x].op = "update"
    /\ links' = [links EXCEPT ![att[x].link].file = att[x].file]
    /\ Answer(x, att[x].link)
    /\ UNCHANGED <<files, cache, agent, bounds, history>>

\* Mutant of IdempotencySet: stores only a 200, and a created link answers 201.
IdempotencySetOnly200(x) ==
    /\ att[x].pc = "set"
    /\ cache' = IF att[x].op = "create" THEN cache
                ELSE [cache EXCEPT ![att[x].op][att[x].key] =
                        [hash |-> bodyHash(att[x]), res |-> att[x].res]]
    /\ att' = [att EXCEPT ![x].pc = "answer"]
    /\ UNCHANGED <<files, links, agent, bounds, history>>

\* Mutant of IdempotencySet: the scope leaves out the endpoint.
IdempotencySetShared(x) ==
    /\ att[x].pc = "set"
    /\ cache' = [o \in Wrapped |-> [cache[o] EXCEPT ![att[x].key] =
                   [hash |-> bodyHash(att[x]), res |-> att[x].res]]]
    /\ att' = [att EXCEPT ![x].pc = "answer"]
    /\ UNCHANGED <<files, links, agent, bounds, history>>

\* IdempotencySet of a 2xx answer.
IdempotencySet(x) ==
    /\ att[x].pc = "set"
    /\ cache' = [cache EXCEPT ![att[x].op][att[x].key] =
                   [hash |-> bodyHash(att[x]), res |-> att[x].res]]
    /\ att' = [att EXCEPT ![x].pc = "answer"]
    /\ UNCHANGED <<files, links, agent, bounds, history>>

\* Its error is ignored.
SetFails(x) ==
    /\ Fault
    /\ att[x].pc = "set"
    /\ att' = [att EXCEPT ![x].pc = "answer"]
    /\ excused' = excused \union {att[x].call}
    /\ UNCHANGED <<files, links, cache, agent, drawn, answered, collided>>

\* An orphan ends: it has answered nobody, or its cancelled context stopped it.
OrphanEnds(a) ==
    /\ att[Orphan(a)] # Unanswered
    /\ att' = [att EXCEPT ![Orphan(a)] = Unanswered]
    /\ excused' = IF att[Orphan(a)].pc = "set" THEN excused \union {att[Orphan(a)].call}
                  ELSE excused
    /\ UNCHANGED <<files, links, cache, agent, bounds, drawn, answered, collided>>

\* Some tool or request will look at f again.
Awaited(f) == \/ \E a \in Agents : agent[a].file = f /\ agent[a].pc # "done"
              \/ \E x \in Slots : att[x] # Unanswered /\ att[x].file = f

\* The scan, the sweep, other requests: the file moves on by itself. Moves nobody will look
\* at are left out; to the agent a file that is revived before the next poll has never
\* ended, so Revive and Purge add nothing.
FileMoves(f) ==
    /\ Awaited(f)
    /\ Service!Publish(f) \/ Service!End(f)
    /\ UNCHANGED <<content, links, cache, agent, att, bounds, history>>

Tool(a) ==
    \/ \E k \in Keys : PollReady(a, k)
    \/ Put(a) \/ PollAgain(a) \/ PollFails(a) \/ Receive(a)

Server(x) ==
    \/ IdempotencyGet(x) \/ CompleteUpload(x) \/ FileByID(x)
    \/ CreateLink(x) \/ UpdateLink(x) \/ IdempotencySet(x)
    \/ Presign(x)

Next ==
    \/ \E a \in Agents, b \in Bodies, k \in Keys :
         \/ ToolCall(a, "create", None, b, k)
         \/ \E l \in 1..Len(links) : ToolCall(a, "update", l, b, k)
    \/ \E a \in Agents : Tool(a) \/ Reconnect(a) \/ GiveUp(a) \/ OrphanEnds(a)
    \/ \E x \in Slots : Server(x) \/ GetFails(x) \/ SetFails(x)
    \/ \E f \in Files : FileMoves(f)

Spec == Init /\ [][Next]_vars

\* A tool that runs goes on, and so does the server's handler; files, agents and failures
\* owe nothing.
FairSpec == /\ Spec
            /\ \A a \in Agents : WF_vars(Tool(a)) /\ WF_vars(Server(Cur(a)))

-----------------------------------------------------------------------------
(***************************************************************************)
(* Properties.                                                              *)
(***************************************************************************)
Calls   == 0..MaxCalls
Answers == Files \union Nat \union {None}

\* Every table and every request keeps its shape; an update names a link that exists.
TypeOK ==
    /\ state \in [Files -> Service!Phases] /\ revived \subseteq Files
    /\ content \in [Files -> Calls]
    /\ links \in Seq([file : Files, call : Calls])
    /\ \A o \in Wrapped, k \in Keys :
         cache[o][k] # None => /\ DOMAIN cache[o][k] = {"hash", "res"}
                               /\ cache[o][k].res \in IF o = "presign" THEN Files
                                                      ELSE 1..Len(links)
    /\ agent \in [Agents -> [pc : Ops \union {"idle", "put", "poll", "done", "failed"},
                             tool : {"create", "update"}, call : Calls,
                             file : Files \union {None}, link : Nat \union {None},
                             polls : 0..MaxPolls]]
    /\ \A x \in Slots : att[x] # Unanswered =>
         /\ att[x].pc \in {"get", "run", "insert", "set", "answer"}
         /\ att[x].op \in Ops /\ att[x].call \in Calls /\ att[x].res \in Answers
         /\ att[x].op = "update" => att[x].link \in 1..Len(links)

\* A file is linked or shown only to the call that uploaded it: when create_preview_link
\* answers, its link was made by that call for the file it uploaded, and what the file holds
\* is what it uploaded, unless two calls presigned with the same Idempotency-Key.
OwnLink ==
    \A r \in answered :
        r.call \notin collided => links[r.link].call = r.call /\ content[r.file] = r.call

\* "the same Idempotency-Key returns the cached response": one call makes one link, however
\* often its request is sent, unless the attempts overlapped or the answer was not stored.
OneLinkPerCall ==
    \A i, j \in 1..Len(links) :
        links[i].call = links[j].call /\ i # j => links[i].call \in excused

\* waitReady ends: a tool call answers or fails, whatever becomes of its file.
ToolReturns ==
    \A a \in Agents : agent[a].pc \notin {"idle", "done", "failed"}
                        ~> agent[a].pc \in {"done", "failed"}
=============================================================================
