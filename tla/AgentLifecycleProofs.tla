------------------------ MODULE AgentLifecycleProofs ------------------------
(***************************************************************************)
(* The runner ends agent runs properly, for any number of runs and tasks:  *)
(* what has ended holds nothing, a workspace that admits runs has none of  *)
(* an earlier process, no tasks wait for one another in a circle, no run   *)
(* is forgotten, and every step keeps the contract of agent runs.          *)
(***************************************************************************)
EXTENDS AgentLifecycle, FiniteSetTheorems, WellFoundedInduction, TLAPS

-----------------------------------------------------------------------------
(* Types *)

Statuses == {"NONE", "SPAWNING", "RUNNING", "CANCELLING", "ENDED"}
LaunchSteps == {"prepare", "issue", "box", "begin", "fail"}
CleanupSteps == {"revoke", "remove", "removeFailed", "finish"}
CancelSteps == {"await", "clean", "join", "start"} \union CleanupSteps

Modes == {"idle", "launch", "call", "loose", "close", "stop", "boot"}
Dos == {"none", "next", "rethrow", "closed", "expired", "exit", "admit"} \union LaunchSteps \union CancelSteps
Thens == {"none", "start", "clean", "closed", "exit"}
AgentOrNone == Agents \union {None}
TaskOrNone == Tasks \union {None}

Record ==
    [mode : Modes, do : Dos, of : AgentOrNone, own : AgentOrNone, left : SUBSET Agents,
     then : Thens, by : TaskOrNone, gen : Nat]

TypeOK ==
    /\ status \in [Agents -> Statuses]
    /\ parent \in [Agents -> Agents \union {None}]
    /\ agentGen \in [Agents -> Nat] /\ epoch \in [Agents -> Nat]
    /\ retry \in [Agents -> BOOLEAN]
    /\ ws \in [status : {"ACTIVE", "REAPING", "EXPIRED_RECOVERABLE", "CLOSED"}, gen : Nat]
    /\ gate \in [gen : Nat, open : BOOLEAN]
    /\ lease \in [Agents -> BOOLEAN] /\ box \in [Agents -> BOOLEAN]
    /\ runtime \in [Agents -> {"none", "open", "failed"} \union Tasks]
    /\ task \in [Tasks -> Record]
    /\ up \in {"starting", "up", "stopping"} \union Downs
    /\ faults \in Nat /\ restarts \in Nat

-----------------------------------------------------------------------------
(* Invariants *)

\* What a task is about, by its step.
Shape(r) ==
    /\ r.mode = "idle" <=> r.do = "none"
    /\ r.mode = "idle" => r = Idle
    /\ r.do \in LaunchSteps => r.mode = "launch" /\ r.left = {}
    /\ r.do \in LaunchSteps \union {"start"} => r.of = r.own /\ r.own \in Agents
    /\ r.do \in CancelSteps \union {"rethrow"} => r.of \in Agents
    /\ r.do \in {"await", "clean", "join", "rethrow"} /\ r.mode = "launch" => r.of # r.own
    /\ r.do = "next" /\ r.own \in Agents => r.of # r.own
    /\ (r.do = "closed" => r.mode = "close") /\ (r.do = "exit" => r.mode = "stop") /\ (r.do = "admit" => r.mode = "boot")
    /\ r.do \in {"closed", "exit", "admit"} => r.left = {}
    /\ r.mode = "launch" => r.own \in Agents /\ r.then = "start"
    /\ r.mode \in {"close", "stop", "boot"} => r.own = None
    /\ r.mode = "close" => r.then = "closed"
    /\ r.mode = "stop" => r.then = "exit"
    /\ r.mode = "boot" => r.do \in {"next", "admit"} \union CleanupSteps
    /\ r.mode \in {"call", "loose"} =>
         \/ r.own \in Agents /\ r.then \in {"start", "clean"} /\ r.do \notin {"expired", "exit", "admit"}
         \/ r.do = "expired" /\ r.own = None
    /\ r.own \in Agents /\ r.of = r.own /\ r.do \in CancelSteps => r.left = {}
    /\ r.do \in CancelSteps => r.of \notin r.left

Shapes == \A t \in Tasks : Shape(task[t])

\* Which tasks there are in which state of the process.
Processes ==
    /\ up \in Downs => \A t \in Tasks : task[t] = Idle
    /\ up = "starting" => /\ \A t \in Tasks : task[t].mode \in {"idle", "boot"}
                          /\ \A t, u \in Tasks : task[t].mode = "boot" /\ task[u].mode = "boot" => t = u
    /\ up # "starting" => \A t \in Tasks : task[t].mode # "boot"
    /\ up \in Downs \union {"starting"} => \A a \in Agents : runtime[a] = "none"

\* The runs form a forest.
Forest ==
    /\ \A a \in Agents : parent[a] # None => status[a] # "NONE" /\ status[parent[a]] \notin {"NONE", "SPAWNING"}
    /\ \A a \in Agents : a \notin Descendants(a)

\* A reservation precedes everything else of a run.
Absent ==
    \A a \in Agents : /\ status[a] = "NONE" => ~lease[a] /\ ~box[a]
                      /\ status[a] \in {"NONE", "SPAWNING"} => runtime[a] = "none"

\* What the agents of a task have been through.
AgentsOf(r) ==
    /\ r.do \in LaunchSteps => status[r.own] # "NONE"
    /\ r.own \in Agents /\ r.do \notin LaunchSteps => status[r.own] \in {"CANCELLING", "ENDED"}
    /\ r.do \in CancelSteps \union {"rethrow"} => status[r.of] \in {"CANCELLING", "ENDED"}
    /\ \A a \in r.left : status[a] # "NONE"
    /\ r.own \in Agents => /\ r.left \subseteq Descendants(r.own)
                           /\ r.of # r.own => r.of \in Descendants(r.own)

TaskAgents == \A t \in Tasks : AgentsOf(task[t])

\* What a start has still to repair has not ended.
Repairing == \A t \in Tasks : task[t].mode = "boot" => task[t].left \subseteq ActiveAgents

OneLaunch ==
    \A t, u \in Tasks : task[t].mode = "launch" /\ task[u].mode = "launch" /\ task[t].own = task[u].own => t = u

\* A launch that may still acquire something.
Early(t) == task[t].do \in {"prepare", "issue", "box"}

\* Whoever ends a run waits until its launch has settled.
LaunchFirst ==
    /\ \A t \in Tasks : Early(t) =>
         /\ status[task[t].own] \in {"SPAWNING", "CANCELLING"}
         /\ runtime[task[t].own] = "none" /\ ~retry[task[t].own]
         /\ \A u \in Tasks : /\ task[u].do \in CancelSteps /\ task[u].of = task[t].own => task[u].do = "await"
                             /\ task[u].own = task[t].own /\ u # t => task[u].do = "await" /\ task[u].of = task[u].own
    /\ \A t \in Tasks : task[t].do = "begin" => status[task[t].own] # "SPAWNING"

\* A promise of a cleanup is that of a task that cleans up.
Promises ==
    /\ \A a \in Agents : runtime[a] \in Tasks => task[runtime[a]].do \in CleanupSteps /\ task[runtime[a]].of = a
    /\ \A t \in Tasks : task[t].do = "join" =>
         /\ task[t].by \in Tasks
         /\ task[task[t].by].do \in CleanupSteps /\ task[task[t].by].of = task[t].of

Failures == \A a \in Agents : (runtime[a] = "failed" => retry[a])
                               /\ (retry[a] => status[a] \in {"CANCELLING", "ENDED"})

\* What a cleanup has released stays released.
Released ==
    /\ \A t \in Tasks : /\ task[t].do = "remove" => ~lease[task[t].of]
                        /\ task[t].do = "finish" => ~lease[task[t].of] /\ ~box[task[t].of]
    /\ \A a \in Agents : status[a] = "ENDED" => ~lease[a] /\ ~box[a] /\ runtime[a] = "none"

\* All runs of a workspace have the generation that first admitted one.
Generations ==
    /\ ws.gen # 0 /\ gate.gen <= ws.gen /\ (gate.open => gate.gen # 0)
    /\ ws.status # "ACTIVE" => gate.gen < ws.gen
    /\ \A a \in Agents : status[a] # "NONE" => agentGen[a] = gate.gen /\ gate.gen # 0
    /\ \A t \in Tasks : task[t].gen <= ws.gen

Epochs == up \in {"up", "stopping"} /\ gate.gen = ws.gen => \A a \in ActiveAgents : epoch[a] = restarts

\* A task still has to end a run, or is about to.
Covers(t, a) == a \in task[t].left \/ (task[t].do \in CancelSteps \union {"rethrow"} /\ a = task[t].of)

\* A list of all agents stays one.
Listed(t) == \A a \in ActiveAgents : Covers(t, a)

Lists ==
    \A t \in Tasks :
        /\ task[t].mode = "close" =>
             /\ task[t].do # "closed" => gate.gen # 0 /\ ~gate.open
             /\ task[t].do # "closed" \/ ws = [status |-> "REAPING", gen |-> task[t].gen] => Listed(t)
        /\ task[t].mode = "stop" => up = "stopping" /\ (task[t].do # "exit" => Listed(t))
        /\ task[t].mode = "boot" => IF gate.gen = ws.gen THEN Listed(t) ELSE task[t].left = {}

ClosedIsEmpty == ws.status = "CLOSED" => ActiveAgents = {}

\* A run that ends before a run it started is below one that is being cancelled.
Settled(a) == \A d \in Agents : parent[d] = a => status[d] = "ENDED"
Over(a) == \E x \in Agents : a \in Descendants(x) /\ status[x] \in {"CANCELLING", "ENDED"}

ChildrenFirst ==
    /\ \A t \in Tasks : task[t].do \in CancelSteps => Settled(task[t].of) \/ Over(task[t].of)
                                                      \/ (task[t].do = "await" /\ task[t].of = task[t].own)
    /\ \A t \in Tasks : task[t].own \in Agents /\ task[t].of # task[t].own =>
         \A d \in Agents : parent[d] = task[t].own /\ status[d] \in Active =>
             Covers(t, d)
    /\ \A a \in Agents : retry[a] \/ status[a] = "ENDED" => Settled(a) \/ Over(a)

\* A run of the present process is at somebody's hands.
Here == up = "up" /\ gate.gen = ws.gen

Held(a) == retry[a] \/ runtime[a] = "open" \/ \E t \in Tasks : task[t].do \in CancelSteps /\ task[t].of = a

Hands ==
    Here => \A a \in Agents :
        /\ status[a] = "SPAWNING" => \E t \in Tasks : task[t].do \in LaunchSteps /\ task[t].own = a
        /\ status[a] = "RUNNING" => runtime[a] = "open"
        /\ status[a] = "CANCELLING" => Held(a)
        /\ status[a] \in {"RUNNING", "CANCELLING"} /\ (\E d \in Agents : parent[d] = a) => runtime[a] # "none"

IInv == /\ TypeOK /\ Shapes /\ Processes /\ Forest /\ Absent /\ TaskAgents /\ Repairing /\ OneLaunch /\ LaunchFirst
        /\ Promises /\ Failures /\ Released /\ Generations /\ Epochs /\ Lists
        /\ ClosedIsEmpty /\ ChildrenFirst /\ Hands

-----------------------------------------------------------------------------
(* Tasks *)

\* The fields of a task.
Has(r, m, d, o, w, S, th, b, g) ==
    /\ r \in Record
    /\ r.mode = m /\ r.do = d /\ r.of = o /\ r.own = w /\ r.left = S /\ r.then = th /\ r.by = b /\ r.gen = g

LEMMA IdleIs == Has(Idle, "idle", "none", None, None, {}, "none", None, 0)
BY DEF Has, Idle, Record, Modes, Dos, Thens, AgentOrNone, TaskOrNone

LEMMA AboutIs ==
    ASSUME NEW m \in Modes, NEW a \in AgentOrNone, NEW d \in Dos, NEW th \in Thens
    PROVE  Has(About(m, a, d, th), m, d, a, a, {}, th, None, 0)
<1>1. PICK r \in Record : r = Idle
  BY IdleIs DEF Has
<1>2. About(m, a, d, th) = [r EXCEPT !.mode = m, !.of = a, !.own = a, !.do = d, !.then = th]
  BY <1>1 DEF About
<1> QED
  BY <1>1, <1>2, IdleIs DEF Has, Record

\* A new task about the whole workspace.
LEMMA NewIs ==
    ASSUME NEW m \in Modes
    PROVE  /\ \A th \in Thens : Has([Idle EXCEPT !.mode = m, !.then = th], m, "none", None, None, {}, th, None, 0)
           /\ \A th \in Thens, g \in Nat :
                Has([Idle EXCEPT !.mode = m, !.then = th, !.gen = g], m, "none", None, None, {}, th, None, g)
           /\ \A d \in Dos, S \in SUBSET Agents :
                Has([Idle EXCEPT !.mode = m, !.do = d, !.left = S], m, d, None, None, S, "none", None, 0)
           /\ \A d \in Dos, g \in Nat :
                Has([Idle EXCEPT !.mode = m, !.do = d, !.gen = g], m, d, None, None, {}, "none", None, g)
<1>1. PICK r \in Record : r = Idle
  BY IdleIs DEF Has
<1>2. Has(r, "idle", "none", None, None, {}, "none", None, 0)
  BY <1>1, IdleIs
<1>3. \A th \in Thens, g \in Nat :
        Has([r EXCEPT !.mode = m, !.then = th, !.gen = g], m, "none", None, None, {}, th, None, g)
  BY <1>2 DEF Has, Record
<1>4. \A th \in Thens : Has([r EXCEPT !.mode = m, !.then = th], m, "none", None, None, {}, th, None, 0)
  BY <1>2 DEF Has, Record
<1>5. \A d \in Dos, S \in SUBSET Agents :
        Has([r EXCEPT !.mode = m, !.do = d, !.left = S], m, d, None, None, S, "none", None, 0)
  BY <1>2 DEF Has, Record
<1>6. \A d \in Dos, g \in Nat :
        Has([r EXCEPT !.mode = m, !.do = d, !.gen = g], m, d, None, None, {}, "none", None, g)
  BY <1>2 DEF Has, Record
<1> QED
  BY <1>1, <1>3, <1>4, <1>5, <1>6, Zenon

\* A task at another step.
LEMMA StepIs ==
    ASSUME NEW r \in Record, NEW d \in Dos, NEW o \in AgentOrNone, NEW S \in SUBSET Agents,
           NEW b \in TaskOrNone, NEW m \in Modes
    PROVE  /\ Has([r EXCEPT !.do = d], r.mode, d, r.of, r.own, r.left, r.then, r.by, r.gen)
           /\ Has([r EXCEPT !.do = d, !.of = o, !.left = S], r.mode, d, o, r.own, S, r.then, r.by, r.gen)
           /\ Has([r EXCEPT !.do = d, !.by = b], r.mode, d, r.of, r.own, r.left, r.then, b, r.gen)
           /\ Has([r EXCEPT !.do = d, !.mode = m], m, d, r.of, r.own, r.left, r.then, r.by, r.gen)
BY DEF Has, Record

LEMMA AfterIs ==
    ASSUME NEW t \in Tasks, task[t] \in Record
    PROVE  /\ task[t].of = task[t].own => After(t) = Idle
           /\ task[t].of # task[t].own =>
                Has(After(t), task[t].mode, "next", task[t].of, task[t].own, task[t].left, task[t].then, None, task[t].gen)
<1>1. PICK d \in Dos, b \in TaskOrNone : d = "next" /\ b = None
  BY DEF Dos, TaskOrNone
<1>2. PICK r \in Record : r = task[t]
  OBVIOUS
<1>3. Has([r EXCEPT !.do = d, !.by = b], r.mode, d, r.of, r.own, r.left, r.then, b, r.gen)
  BY DEF Has, Record
<1>4. r.of # r.own => After(t) = [r EXCEPT !.do = d, !.by = b]
  BY <1>1, <1>2 DEF After
<1> QED
  BY <1>1, <1>2, <1>3, <1>4 DEF After

-----------------------------------------------------------------------------
(* What the steps do to the tasks *)

\* One task becomes a record with these fields; the others stay.
Becomes(t, m, d, o, w, S, th, b, g) ==
    /\ task' \in [Tasks -> Record]
    /\ \A u \in Tasks : u # t => task'[u] = task[u]
    /\ Has(task'[t], m, d, o, w, S, th, b, g)

Moves(t, d) == Becomes(t, task[t].mode, d, task[t].of, task[t].own, task[t].left, task[t].then, task[t].by, task[t].gen)

Ends(t) ==
    /\ task' \in [Tasks -> Record]
    /\ \A u \in Tasks : u # t => task'[u] = task[u]
    /\ task'[t] = Idle

LEMMA Become ==
    ASSUME task \in [Tasks -> Record], NEW t \in Tasks, NEW r, NEW m, NEW d, NEW o, NEW w, NEW S, NEW th, NEW b, NEW g,
           Has(r, m, d, o, w, S, th, b, g), task' = [task EXCEPT ![t] = r]
    PROVE  Becomes(t, m, d, o, w, S, th, b, g)
BY DEF Becomes, Has

LEMMA GotoIs ==
    ASSUME task \in [Tasks -> Record], NEW t \in Tasks, NEW d \in Dos, Goto(t, d)
    PROVE  Moves(t, d)
<1>1. PICK r \in Record : r = task[t]
  OBVIOUS
<1>2. Has([r EXCEPT !.do = d], r.mode, d, r.of, r.own, r.left, r.then, r.by, r.gen)
  BY StepIs DEF Has, Record
<1>3. PICK q : q = [r EXCEPT !.do = d]
  OBVIOUS
<1>4. task' = [task EXCEPT ![t] = q]
  BY <1>1, <1>3 DEF Goto
<1>5. Becomes(t, r.mode, d, r.of, r.own, r.left, r.then, r.by, r.gen)
  BY <1>2, <1>3, <1>4, Become
<1> QED
  BY <1>1, <1>5 DEF Moves

LEMMA EndIs ==
    ASSUME task \in [Tasks -> Record], NEW t \in Tasks, End(t)
    PROVE  Ends(t)
BY IdleIs DEF Has, End, Ends

\* A task cancels the agents `S` one by one, then goes on with `th`.
Cancels(t, m, w, th, b, g, S, A) ==
    \/ S = {} /\ status' = Marked(A) /\ Becomes(t, m, th, w, w, {}, th, b, g)
    \/ \E d \in S : /\ \A e \in S : parent[e] # d
                    /\ status' = Marked(A \union {d})
                    /\ Becomes(t, m, "await", d, w, S \ {d}, th, b, g)

LEMMA CancellingIs ==
    ASSUME task \in [Tasks -> Record], NEW t \in Tasks, NEW r \in Record, NEW S \in SUBSET Agents,
           NEW A \in SUBSET Agents, Cancelling(t, r, S, A)
    PROVE  Cancels(t, r.mode, r.own, r.then, r.by, r.gen, S, A)
<1>1. CASE S = {} /\ status' = Marked(A)
           /\ task' = [task EXCEPT ![t] = [r EXCEPT !.do = r.then, !.of = r.own, !.left = {}]]
  <2>1. PICK d \in Dos, o \in AgentOrNone, E \in SUBSET Agents : d = r.then /\ o = r.own /\ E = {}
    BY DEF Record, Thens, Dos, CancelSteps
  <2>2. Has([r EXCEPT !.do = d, !.of = o, !.left = E], r.mode, d, o, r.own, E, r.then, r.by, r.gen)
    BY <2>1 DEF Has, Record
  <2>3. PICK q : q = [r EXCEPT !.do = d, !.of = o, !.left = E]
    OBVIOUS
  <2>4. task' = [task EXCEPT ![t] = q]
    BY <1>1, <2>1, <2>3
  <2>5. Becomes(t, r.mode, d, o, r.own, E, r.then, r.by, r.gen)
    BY <2>2, <2>3, <2>4, Become
  <2>6. Becomes(t, r.mode, r.then, r.own, r.own, {}, r.then, r.by, r.gen)
    BY <2>1, <2>5
  <2> QED
    BY <1>1, <2>6 DEF Cancels
<1>2. ASSUME NEW x \in First(S), status' = Marked(A \union {x}),
             task' = [task EXCEPT ![t] = [r EXCEPT !.do = "await", !.of = x, !.left = S \ {x}]]
      PROVE  \E d \in S : /\ \A e \in S : parent[e] # d
                          /\ status' = Marked(A \union {d})
                          /\ Becomes(t, r.mode, "await", d, r.own, S \ {d}, r.then, r.by, r.gen)
  <2>1. PICK d \in Dos, o \in AgentOrNone, E \in SUBSET Agents : d = "await" /\ o = x /\ E = S \ {x}
    BY DEF Dos, CancelSteps, First, AgentOrNone
  <2>2. Has([r EXCEPT !.do = d, !.of = o, !.left = E], r.mode, d, o, r.own, E, r.then, r.by, r.gen)
    BY <2>1 DEF Has, Record
  <2>3. PICK q : q = [r EXCEPT !.do = d, !.of = o, !.left = E]
    OBVIOUS
  <2>4. task' = [task EXCEPT ![t] = q]
    BY <1>2, <2>1, <2>3
  <2>5. Becomes(t, r.mode, d, o, r.own, E, r.then, r.by, r.gen)
    BY <2>2, <2>3, <2>4, Become
  <2>6. x \in S /\ \A e \in S : parent[e] # x
    BY DEF First
  <2>7. Becomes(t, r.mode, "await", x, r.own, S \ {x}, r.then, r.by, r.gen)
    BY <2>1, <2>5
  <2> QED
    BY <1>2, <2>6, <2>7
<1> QED
  BY <1>1, <1>2 DEF Cancelling, Cancels

\* The process falls.
Falls ==
    /\ task' \in [Tasks -> Record] /\ \A t \in Tasks : task'[t] = Idle
    /\ runtime' = [a \in Agents |-> "none"]
    /\ lease' \in [Agents -> BOOLEAN]
    /\ \A a \in Agents : lease'[a] => lease[a] \/ \E t \in Tasks : task[t].do = "issue" /\ task[t].of = a

LEMMA FallIs ==
    ASSUME TypeOK, NEW why, Fall(why)
    PROVE  up' = why /\ Falls
<1>1. /\ up' = why /\ task' = [t \in Tasks |-> Idle] /\ runtime' = [a \in Agents |-> "none"]
  BY DEF Fall
<1>2. PICK G \in SUBSET {task[t].of : t \in {u \in Tasks : At(u, "issue")}} :
         lease' = [a \in Agents |-> lease[a] \/ a \in G]
  BY DEF Fall
<1>3. lease' \in [Agents -> BOOLEAN]
  BY <1>2
<1>4. \A a \in Agents : lease'[a] => lease[a] \/ \E t \in Tasks : task[t].do = "issue" /\ task[t].of = a
  BY <1>2 DEF At
<1> QED
  BY <1>1, <1>3, <1>4, IdleIs DEF Falls, Has

\* A task throws, and those that await it are to throw.
Throws(t) ==
    /\ task' \in [Tasks -> Record] /\ task'[t] = Idle
    /\ \A v \in Tasks : v # t =>
         /\ Awaits(v, t) => Has(task'[v], task[v].mode, "rethrow", task[v].of, task[v].own, task[v].left,
                                task[v].then, task[v].by, task[v].gen)
         /\ ~Awaits(v, t) => task'[v] = task[v]

\* What follows a throw, with `f` of the runtimes.
Thrown(t, f) ==
    \/ /\ task[t].mode \in {"call", "launch", "close"}
       /\ Throws(t) /\ runtime' = f /\ lease' = lease /\ up' = up
       /\ \/ ws' = ws
          \/ /\ task[t].mode = "close" /\ ws = [status |-> "REAPING", gen |-> task[t].gen]
             /\ ws' = [status |-> "EXPIRED_RECOVERABLE", gen |-> ws.gen]
    \/ task[t].mode \in {"loose", "boot", "stop"} /\ up' \in Downs /\ Falls /\ ws' = ws

LEMMA ThrowIs ==
    ASSUME TypeOK, NEW t \in Tasks, NEW f, Throw(t, f)
    PROVE  Thrown(t, f)
<1>1. CASE task[t].mode \in {"call", "launch", "close"}
  <2>1. PICK d \in Dos : d = "rethrow"
    BY DEF Dos
  <2>2. task' = [v \in Tasks |-> IF v = t THEN Idle
                                 ELSE IF Awaits(v, t) THEN [task[v] EXCEPT !.do = d] ELSE task[v]]
    BY <1>1, <2>1 DEF Throw
  <2>3. \A v \in Tasks : Has([task[v] EXCEPT !.do = d], task[v].mode, d, task[v].of, task[v].own, task[v].left,
                             task[v].then, task[v].by, task[v].gen)
    <3>1. TAKE v \in Tasks
    <3>2. PICK r \in Record : r = task[v]
      BY DEF TypeOK
    <3>3. Has([r EXCEPT !.do = d], r.mode, d, r.of, r.own, r.left, r.then, r.by, r.gen)
      BY DEF Has, Record
    <3> QED
      BY <3>2, <3>3
  <2>4. \A v \in Tasks : task[v] \in Record /\ [task[v] EXCEPT !.do = d] \in Record
    BY <2>3 DEF TypeOK, Has
  <2>5. task' \in [Tasks -> Record]
    BY <2>2, <2>4, IdleIs DEF Has
  <2>6. Throws(t)
    BY <2>1, <2>2, <2>3, <2>5, Zenon DEF Throws
  <2>7. ws = [status |-> "REAPING", gen |-> task[t].gen]
          => [ws EXCEPT !.status = "EXPIRED_RECOVERABLE"] = [status |-> "EXPIRED_RECOVERABLE", gen |-> ws.gen]
    OBVIOUS
  <2> QED
    BY <1>1, <2>6, <2>7 DEF Throw, Thrown
<1>2. CASE task[t].mode \in {"loose", "boot", "stop"}
  <2>1. Fall(EndOf(task[t].mode)) /\ ws' = ws
    BY <1>2 DEF Throw
  <2>2. PICK why : why = EndOf(task[t].mode)
    OBVIOUS
  <2>3. why \in Downs
    BY <1>2, <2>2 DEF EndOf, Downs
  <2>4. Fall(why)
    BY <2>1, <2>2
  <2> QED
    BY <1>2, <2>1, <2>3, <2>4, FallIs DEF Thrown
<1> QED
  BY <1>1, <1>2 DEF Throw

-----------------------------------------------------------------------------
(* Type correctness *)

LEMMA MarkedIs ==
    ASSUME TypeOK, NEW S
    PROVE  /\ Marked(S) \in [Agents -> Statuses]
           /\ \A a \in Agents : Marked(S)[a] = IF a \in S THEN "CANCELLING" ELSE status[a]
BY DEF TypeOK, Marked, Statuses

LEMMA Beginning ==
    ASSUME TypeOK, NEW t \in Tasks, NEW m \in Modes, NEW a \in Agents, NEW d \in Dos, NEW th \in Thens,
           task' = [task EXCEPT ![t] = About(m, a, d, th)]
    PROVE  Becomes(t, m, d, a, a, {}, th, None, 0)
<1>1. PICK q : q = About(m, a, d, th)
  OBVIOUS
<1>2. Has(q, m, d, a, a, {}, th, None, 0)
  BY <1>1, AboutIs DEF AgentOrNone
<1>3. task' = [task EXCEPT ![t] = q]
  BY <1>1
<1> QED
  BY <1>2, <1>3, Become DEF TypeOK

LEMMA RegisteredIs ==
    ASSUME TypeOK, NEW t \in Tasks, NEW a
    PROVE  /\ Registered(t, a) \in [Agents -> {"none", "open", "failed"} \union Tasks]
           /\ \A e \in Agents : Registered(t, a)[e] = IF e = a /\ runtime[e] # "none" THEN t ELSE runtime[e]
BY DEF TypeOK, Registered

LEMMA FailedIs ==
    ASSUME TypeOK, NEW t \in Tasks
    PROVE  /\ Failed(t) \in [Agents -> {"none", "open", "failed"} \union Tasks]
           /\ \A e \in Agents : Failed(t)[e] = IF e = task[t].of /\ runtime[e] = t THEN "failed" ELSE runtime[e]
BY DEF TypeOK, Failed

\* What each step does, a lemma for each.
LEMMA Words ==
    /\ {"none", "next", "rethrow", "closed", "expired", "exit", "admit", "prepare", "issue", "box", "begin", "fail",
        "await", "clean", "join", "start", "revoke", "remove", "removeFailed", "finish"} = Dos
    /\ Modes = {"idle", "launch", "call", "loose", "close", "stop", "boot"}
    /\ Thens = {"none", "start", "clean", "closed", "exit"}
BY DEF Dos, LaunchSteps, CancelSteps, CleanupSteps, Modes, Thens

LEMMA SpawnIs ==
    ASSUME TypeOK, NEW t \in Tasks, NEW a \in Agents, NEW p \in AgentOrNone, Spawn(t, a, p)
    PROVE  /\ task[t].mode = "idle" /\ up = "up" /\ ws.status = "ACTIVE" /\ Admits /\ status[a] = "NONE"
           /\ p # None => p \in Agents /\ status[p] = "RUNNING" /\ agentGen[p] = ws.gen
           /\ status' = [status EXCEPT ![a] = "SPAWNING"] /\ parent' = [parent EXCEPT ![a] = p]
           /\ agentGen' = [agentGen EXCEPT ![a] = ws.gen] /\ epoch' = [epoch EXCEPT ![a] = restarts]
           /\ gate' = [gen |-> ws.gen, open |-> TRUE]
           /\ Becomes(t, "launch", "prepare", a, a, {}, "start", None, 0)
           /\ retry' = retry /\ ws' = ws /\ lease' = lease /\ box' = box /\ runtime' = runtime
           /\ up' = up /\ restarts' = restarts /\ faults' = faults
BY Beginning, Words DEF Spawn, Free, AgentOrNone, world

LEMMA PrepareIs ==
    ASSUME TypeOK, NEW t \in Tasks, Prepare(t)
    PROVE  /\ task[t].do = "prepare"
           /\ \/ status[task[t].of] = "SPAWNING" /\ Moves(t, "issue")
              \/ status[task[t].of] # "SPAWNING" /\ Ends(t)
              \/ Moves(t, "fail")
           /\ UNCHANGED <<rows, world, runtime, up, restarts>> /\ faults' \in Nat
BY GotoIs, EndIs, Words DEF Prepare, At, Fault, TypeOK

LEMMA IssueIs ==
    ASSUME TypeOK, NEW t \in Tasks, Issue(t)
    PROVE  /\ task[t].do = "issue"
           /\ Moves(t, "box") \/ Moves(t, "fail")
           /\ lease' \in [Agents -> BOOLEAN]
           /\ \A a \in Agents : a # task[t].of => lease'[a] = lease[a]
           /\ UNCHANGED <<rows, box, runtime, up, restarts>> /\ faults' \in Nat
<1>1. task[t].do = "issue" /\ UNCHANGED <<rows, box, runtime, up, restarts>> /\ faults' \in Nat
  BY DEF Issue, At, Fault, TypeOK
<1>2. Moves(t, "box") \/ Moves(t, "fail")
  BY GotoIs, Words DEF Issue, TypeOK
<1>3. PICK x \in BOOLEAN : lease' = [lease EXCEPT ![task[t].of] = x]
  BY DEF Issue
<1>4. lease' \in [Agents -> BOOLEAN] /\ \A a \in Agents : a # task[t].of => lease'[a] = lease[a]
  BY <1>3 DEF TypeOK
<1> QED
  BY <1>1, <1>2, <1>4

LEMMA LaunchIs ==
    ASSUME TypeOK, NEW t \in Tasks, Launch(t)
    PROVE  /\ task[t].do = "box"
           /\ \/ /\ status[task[t].of] = "SPAWNING" /\ status' = [status EXCEPT ![task[t].of] = "RUNNING"]
                 /\ runtime' = [runtime EXCEPT ![task[t].of] = "open"]
                 /\ Moves(t, "begin")
              \/ /\ status[task[t].of] # "SPAWNING" /\ status' = status
                 /\ runtime' = [runtime EXCEPT ![task[t].of] = "open"]
                 /\ Moves(t, "fail")
              \/ status' = status /\ runtime' = runtime /\ Moves(t, "fail")
           /\ box' \in [Agents -> BOOLEAN]
           /\ \A a \in Agents : a # task[t].of => box'[a] = box[a]
           /\ UNCHANGED <<parent, agentGen, epoch, retry, ws, gate, lease, up, restarts>> /\ faults' \in Nat
<1>1. /\ task[t].do = "box"
      /\ UNCHANGED <<parent, agentGen, epoch, retry, ws, gate, lease, up, restarts>> /\ faults' \in Nat
  BY DEF Launch, At, Fault, TypeOK
<1>2. \/ /\ status[task[t].of] = "SPAWNING" /\ status' = [status EXCEPT ![task[t].of] = "RUNNING"]
         /\ runtime' = [runtime EXCEPT ![task[t].of] = "open"]
         /\ Goto(t, "begin")
      \/ /\ status[task[t].of] # "SPAWNING" /\ status' = status
         /\ runtime' = [runtime EXCEPT ![task[t].of] = "open"]
         /\ Goto(t, "fail")
      \/ status' = status /\ runtime' = runtime /\ Goto(t, "fail")
  BY DEF Launch
<1>3. task \in [Tasks -> Record] /\ "begin" \in Dos /\ "fail" \in Dos
  BY Words DEF TypeOK
<1>4. PICK x \in BOOLEAN : box' = [box EXCEPT ![task[t].of] = x]
  BY DEF Launch
<1>5. box' \in [Agents -> BOOLEAN] /\ \A a \in Agents : a # task[t].of => box'[a] = box[a]
  BY <1>4 DEF TypeOK
<1> QED
  BY <1>1, <1>2, <1>3, <1>5, GotoIs, Zenon

LEMMA SendStartIs ==
    ASSUME TypeOK, NEW t \in Tasks, SendStart(t)
    PROVE  /\ task[t].do = "begin" /\ (Ends(t) \/ Moves(t, "fail"))
           /\ UNCHANGED <<rows, world, runtime, up, restarts>> /\ faults' \in Nat
BY GotoIs, EndIs, Words DEF SendStart, At, Fault, TypeOK

CancelsAs(t, S, A) == Cancels(t, task[t].mode, task[t].own, task[t].then, task[t].by, task[t].gen, S, A)

LEMMA GoesOnCancelling ==
    ASSUME TypeOK, NEW t \in Tasks, NEW S \in SUBSET Agents, NEW A \in SUBSET Agents,
           Cancelling(t, task[t], S, A)
    PROVE  CancelsAs(t, S, A)
<1>1. PICK r \in Record : r = task[t]
  BY DEF TypeOK
<1>2. Cancels(t, r.mode, r.own, r.then, r.by, r.gen, S, A)
  BY <1>1, CancellingIs DEF TypeOK
<1> QED
  BY <1>1, <1>2 DEF CancelsAs

LEMMA StartsCancelling ==
    ASSUME TypeOK, NEW t \in Tasks, NEW m \in Modes, NEW a \in Agents, NEW S \in SUBSET Agents,
           NEW A \in SUBSET Agents, Cancelling(t, About(m, a, "none", "start"), S, A)
    PROVE  Cancels(t, m, a, "start", None, 0, S, A)
<1>1. PICK r : r = About(m, a, "none", "start")
  OBVIOUS
<1>2. Has(r, m, "none", a, a, {}, "start", None, 0)
  BY <1>1, AboutIs, Words DEF AgentOrNone
<1>3. Cancels(t, r.mode, r.own, r.then, r.by, r.gen, S, A)
  BY <1>1, <1>2, CancellingIs DEF TypeOK, Has
<1> QED
  BY <1>2, <1>3 DEF Has

Below(a) == Descendants(a) \intersect ActiveAgents

LEMMA Belows == \A a : Below(a) \in SUBSET Agents /\ ActiveAgents \in SUBSET Agents
BY DEF Below, ActiveAgents

LEMMA FailLaunchIs ==
    ASSUME TypeOK, Shapes, NEW t \in Tasks, FailLaunch(t)
    PROVE  /\ task[t].do = "fail" /\ task[t].of \in Agents
           /\ \/ status[task[t].of] \in {"CANCELLING", "ENDED"} /\ Ends(t) /\ status' = status
              \/ /\ status[task[t].of] \notin {"CANCELLING", "ENDED"}
                 /\ CancelsAs(t, Below(task[t].of), {task[t].of})
           /\ UNCHANGED <<parent, agentGen, epoch, retry, ws, gate, lease, box, runtime, up, restarts, faults>>
<1>1. /\ task[t].do = "fail" /\ task[t].of \in Agents
      /\ UNCHANGED <<parent, agentGen, epoch, retry, ws, gate, lease, box, runtime, up, restarts, faults>>
  BY DEF FailLaunch, At, Shapes, Shape, LaunchSteps, world
<1>2. CASE status[task[t].of] \in {"CANCELLING", "ENDED"} /\ End(t) /\ status' = status
  BY <1>1, <1>2, EndIs DEF TypeOK
<1>3. CASE status[task[t].of] \notin {"CANCELLING", "ENDED"} /\ Cascade(t, task[t].of, task[t], {task[t].of})
  <2>1. PICK S \in SUBSET Agents, A \in SUBSET Agents : S = Below(task[t].of) /\ A = {task[t].of}
    BY <1>1, Belows
  <2>2. Cancelling(t, task[t], S, A)
    BY <1>3, <2>1 DEF Cascade, Below
  <2> QED
    BY <1>1, <1>3, <2>1, <2>2, GoesOnCancelling
<1> QED
  BY <1>1, <1>2, <1>3 DEF FailLaunch

LEMMA CancelIs ==
    ASSUME TypeOK, NEW t \in Tasks, NEW a \in Agents, NEW m \in {"call", "loose"}, CancelOne(t, a, m)
    PROVE  /\ task[t].mode = "idle" /\ status[a] \in Active
           /\ status' = Marked({a}) /\ Becomes(t, m, "await", a, a, {}, "clean", None, 0)
           /\ UNCHANGED <<parent, agentGen, epoch, retry, ws, gate, lease, box, runtime, up, restarts, faults>>
BY Beginning, Words DEF CancelOne, Free, world

LEMMA AwaitLaunchIs ==
    ASSUME TypeOK, Shapes, NEW t \in Tasks, AwaitLaunch(t)
    PROVE  /\ task[t].do = "await" /\ task[t].of \in Agents /\ ~Launching(task[t].of)
           /\ \/ task[t].of = task[t].own /\ CancelsAs(t, Below(task[t].of), {})
              \/ task[t].of # task[t].own /\ Moves(t, "clean") /\ status' = status
           /\ UNCHANGED <<parent, agentGen, epoch, retry, ws, gate, lease, box, runtime, up, restarts, faults>>
<1>1. /\ task[t].do = "await" /\ task[t].of \in Agents /\ ~Launching(task[t].of)
      /\ UNCHANGED <<parent, agentGen, epoch, retry, ws, gate, lease, box, runtime, up, restarts, faults>>
  BY DEF AwaitLaunch, At, Shapes, Shape, CancelSteps, world
<1>2. CASE task[t].of # task[t].own /\ Goto(t, "clean") /\ status' = status
  BY <1>1, <1>2, GotoIs, Words DEF TypeOK
<1>3. CASE task[t].of = task[t].own /\ Cascade(t, task[t].of, task[t], {})
  <2>1. PICK S \in SUBSET Agents, A \in SUBSET Agents : S = Below(task[t].of) /\ A = {}
    BY <1>1, Belows
  <2>2. Cancelling(t, task[t], S, A)
    BY <1>3, <2>1 DEF Cascade, Below
  <2> QED
    BY <1>1, <1>3, <2>1, <2>2, GoesOnCancelling
<1> QED
  BY <1>1, <1>2, <1>3 DEF AwaitLaunch

LEMMA CancelNextIs ==
    ASSUME TypeOK, NEW t \in Tasks, CancelNext(t)
    PROVE  /\ task[t].do = "next" /\ task[t].mode # "boot"
           /\ CancelsAs(t, task[t].left \intersect ActiveAgents, {})
           /\ UNCHANGED <<parent, agentGen, epoch, retry, ws, gate, lease, box, runtime, up, restarts, faults>>
<1>1. PICK S \in SUBSET Agents, A \in SUBSET Agents : S = task[t].left \intersect ActiveAgents /\ A = {}
  BY DEF ActiveAgents
<1>2. Cancelling(t, task[t], S, A)
  BY <1>1 DEF CancelNext
<1> QED
  BY <1>1, <1>2, GoesOnCancelling DEF CancelNext, At, world

LEMMA InterruptIs ==
    ASSUME TypeOK, NEW t \in Tasks, NEW a \in Agents, Interrupt(t, a)
    PROVE  /\ task[t].mode = "idle" /\ Alive /\ runtime[a] # "none" /\ status[a] = "RUNNING"
           /\ Cancels(t, "loose", a, "start", None, 0, Below(a), {a})
           /\ UNCHANGED <<parent, agentGen, epoch, retry, ws, gate, lease, box, runtime, up, restarts, faults>>
<1>1. PICK S \in SUBSET Agents, A \in SUBSET Agents : S = Below(a) /\ A = {a}
  BY Belows
<1>2. Cancelling(t, About("loose", a, "none", "start"), S, A)
  BY <1>1 DEF Interrupt, Cascade, Below
<1>3. Cancels(t, "loose", a, "start", None, 0, S, A)
  BY <1>2, StartsCancelling, Words
<1> QED
  BY <1>1, <1>3 DEF Interrupt, Free, world

LEMMA FinishTerminalIs ==
    ASSUME TypeOK, NEW t \in Tasks, NEW a \in Agents, FinishTerminal(t, a)
    PROVE  /\ task[t].mode = "idle" /\ Alive /\ runtime[a] = "open" /\ status[a] \in {"RUNNING", "CANCELLING"}
           /\ Cancels(t, "call", a, "start", None, 0, Below(a), {a})
           /\ UNCHANGED <<parent, agentGen, epoch, retry, ws, gate, lease, box, runtime, up, restarts, faults>>
<1>1. PICK S \in SUBSET Agents, A \in SUBSET Agents : S = Below(a) /\ A = {a}
  BY Belows
<1>2. Cancelling(t, About("call", a, "none", "start"), S, A)
  BY <1>1 DEF FinishTerminal, Cascade, Below
<1>3. Cancels(t, "call", a, "start", None, 0, S, A)
  BY <1>2, StartsCancelling, Words
<1> QED
  BY <1>1, <1>3 DEF FinishTerminal, Free, world

\* The cleanup.
LEMMA CleanOrJoinIs ==
    ASSUME TypeOK, Shapes, NEW t \in Tasks, CleanOrJoin(t)
    PROVE  /\ task[t].do = "clean" /\ task[t].of \in Agents
           /\ \/ /\ runtime[task[t].of] \in Tasks
                 /\ Becomes(t, task[t].mode, "join", task[t].of, task[t].own, task[t].left, task[t].then,
                            runtime[task[t].of], task[t].gen)
                 /\ UNCHANGED <<ws, lease, runtime, up>>
              \/ runtime[task[t].of] = "failed" /\ Thrown(t, runtime)
              \/ /\ runtime[task[t].of] \in {"none", "open"} /\ runtime' = Registered(t, task[t].of)
                 /\ Moves(t, "revoke") /\ UNCHANGED <<ws, lease, up>>
           /\ UNCHANGED <<status, parent, agentGen, epoch, retry, gate, box, restarts, faults>>
<1>1. /\ task[t].do = "clean" /\ task[t].of \in Agents
      /\ UNCHANGED <<status, parent, agentGen, epoch, retry, gate, box, restarts, faults>>
  BY DEF CleanOrJoin, At, Shapes, Shape, CancelSteps
<1>2. ASSUME runtime[task[t].of] \in Tasks,
             task' = [task EXCEPT ![t] = [@ EXCEPT !.do = "join", !.by = runtime[task[t].of]]]
      PROVE  Becomes(t, task[t].mode, "join", task[t].of, task[t].own, task[t].left, task[t].then,
                     runtime[task[t].of], task[t].gen)
  <2>1. PICK r \in Record, d \in Dos, b \in TaskOrNone : r = task[t] /\ d = "join" /\ b = runtime[task[t].of]
    BY <1>2, Words DEF TypeOK, TaskOrNone
  <2>2. Has([r EXCEPT !.do = d, !.by = b], r.mode, d, r.of, r.own, r.left, r.then, b, r.gen)
    BY DEF Has, Record
  <2>3. PICK q : q = [r EXCEPT !.do = d, !.by = b]
    OBVIOUS
  <2>4. task' = [task EXCEPT ![t] = q] /\ task \in [Tasks -> Record]
    BY <1>2, <2>1, <2>3 DEF TypeOK
  <2>5. Becomes(t, r.mode, d, r.of, r.own, r.left, r.then, b, r.gen)
    BY <2>2, <2>3, <2>4, Become
  <2> QED
    BY <2>1, <2>5
<1>3. ASSUME Goto(t, "revoke") PROVE Moves(t, "revoke")
  BY <1>3, GotoIs, Words DEF TypeOK
<1>4. ASSUME Throw(t, runtime) PROVE Thrown(t, runtime)
  BY <1>4, ThrowIs
<1> QED
  BY <1>1, <1>2, <1>3, <1>4 DEF CleanOrJoin

LEMMA StartIs ==
    ASSUME TypeOK, Shapes, NEW t \in Tasks, Start(t)
    PROVE  /\ task[t].do = "start" /\ task[t].of \in Agents
           /\ runtime' = Registered(t, task[t].of)
           /\ Becomes(t, IF task[t].mode = "loose" THEN "call" ELSE task[t].mode, "revoke", task[t].of, task[t].own,
                      task[t].left, task[t].then, task[t].by, task[t].gen)
           /\ UNCHANGED <<rows, world, up, restarts, faults>>
<1>1. task[t].do = "start" /\ task[t].of \in Agents /\ runtime' = Registered(t, task[t].of)
      /\ UNCHANGED <<rows, world, up, restarts, faults>>
  BY DEF Start, At, Shapes, Shape
<1>2. PICK r \in Record, d \in Dos, m \in Modes :
        r = task[t] /\ d = "revoke" /\ m = IF task[t].mode = "loose" THEN "call" ELSE task[t].mode
  BY Words DEF TypeOK, Record
<1>3. Has([r EXCEPT !.do = d, !.mode = m], m, d, r.of, r.own, r.left, r.then, r.by, r.gen)
  BY DEF Has, Record
<1>4. PICK q : q = [r EXCEPT !.do = d, !.mode = m]
  OBVIOUS
<1>5. task' = [task EXCEPT ![t] = q] /\ task \in [Tasks -> Record]
  <2>1. task \in [Tasks -> Record]
    BY DEF TypeOK
  <2>2. task' = [task EXCEPT ![t] = [task[t] EXCEPT !.do = "revoke",
                                       !.mode = IF task[t].mode = "loose" THEN "call" ELSE task[t].mode]]
    BY <2>1 DEF Start
  <2> QED
    BY <1>2, <1>4, <2>1, <2>2
<1>6. Becomes(t, m, d, r.of, r.own, r.left, r.then, r.by, r.gen)
  BY <1>3, <1>4, <1>5, Become
<1> QED
  BY <1>1, <1>2, <1>6

LEMMA RevokeIs ==
    ASSUME TypeOK, Shapes, NEW t \in Tasks, Revoke(t)
    PROVE  /\ task[t].do = "revoke" /\ task[t].of \in Agents
           /\ \/ Moves(t, "remove") /\ lease'[task[t].of] = FALSE
              \/ Moves(t, "removeFailed")
           /\ lease' \in [Agents -> BOOLEAN]
           /\ \A a \in Agents : (lease'[a] => lease[a]) /\ (a # task[t].of => lease'[a] = lease[a])
           /\ UNCHANGED <<rows, box, runtime, up, restarts>> /\ faults' \in Nat
<1>1. /\ task[t].do = "revoke" /\ task[t].of \in Agents
      /\ UNCHANGED <<rows, box, runtime, up, restarts>> /\ faults' \in Nat
  BY DEF Revoke, At, Shapes, Shape, CancelSteps, CleanupSteps, Fault, TypeOK
<1>2. task \in [Tasks -> Record] /\ "remove" \in Dos /\ "removeFailed" \in Dos
  BY Words DEF TypeOK
<1>3. \/ Goto(t, "remove") /\ lease' = [lease EXCEPT ![task[t].of] = FALSE]
      \/ Goto(t, "removeFailed") /\ \E kept \in BOOLEAN : lease' = [lease EXCEPT ![task[t].of] = kept /\ @]
  BY DEF Revoke
<1>4. \/ Moves(t, "remove") /\ lease' = [lease EXCEPT ![task[t].of] = FALSE]
      \/ Moves(t, "removeFailed") /\ \E kept \in BOOLEAN : lease' = [lease EXCEPT ![task[t].of] = kept /\ @]
  BY <1>2, <1>3, GotoIs, Zenon
<1>5. /\ lease' \in [Agents -> BOOLEAN]
      /\ \A a \in Agents : (lease'[a] => lease[a]) /\ (a # task[t].of => lease'[a] = lease[a])
      /\ lease' = [lease EXCEPT ![task[t].of] = FALSE] => lease'[task[t].of] = FALSE
  BY <1>1, <1>4 DEF TypeOK
<1> QED
  BY <1>1, <1>4, <1>5

LEMMA RemoveBoxIs ==
    ASSUME TypeOK, Shapes, NEW t \in Tasks, RemoveBox(t)
    PROVE  /\ task[t].do \in {"remove", "removeFailed"} /\ task[t].of \in Agents
           /\ \/ /\ task[t].do = "remove" /\ Moves(t, "finish") /\ box'[task[t].of] = FALSE
                 /\ UNCHANGED <<retry, ws, lease, runtime, up>>
              \/ Thrown(t, Failed(t)) /\ retry' = [retry EXCEPT ![task[t].of] = TRUE]
           /\ box' \in [Agents -> BOOLEAN]
           /\ \A a \in Agents : (box'[a] => box[a]) /\ (a # task[t].of => box'[a] = box[a])
           /\ UNCHANGED <<status, parent, agentGen, epoch, gate, restarts>> /\ faults' \in Nat
<1>1. /\ task[t].do \in {"remove", "removeFailed"} /\ task[t].of \in Agents
      /\ UNCHANGED <<status, parent, agentGen, epoch, gate, restarts>> /\ faults' \in Nat
  BY DEF RemoveBox, At, Shapes, Shape, CancelSteps, CleanupSteps, Fault, TypeOK
<1>2. task \in [Tasks -> Record] /\ "finish" \in Dos
  BY Words DEF TypeOK
<1>3. \/ /\ task[t].do = "remove" /\ Goto(t, "finish") /\ box' = [box EXCEPT ![task[t].of] = FALSE]
         /\ UNCHANGED <<retry, ws, lease, runtime, up>>
      \/ Throw(t, Failed(t)) /\ retry' = [retry EXCEPT ![task[t].of] = TRUE]
  BY DEF RemoveBox, FailCleanup, At
<1>4. \/ /\ task[t].do = "remove" /\ Moves(t, "finish") /\ box' = [box EXCEPT ![task[t].of] = FALSE]
         /\ UNCHANGED <<retry, ws, lease, runtime, up>>
      \/ Thrown(t, Failed(t)) /\ retry' = [retry EXCEPT ![task[t].of] = TRUE]
  BY <1>2, <1>3, GotoIs, ThrowIs, Zenon
<1>5. PICK x \in BOOLEAN : box' = [box EXCEPT ![task[t].of] = x /\ @] \/ box' = [box EXCEPT ![task[t].of] = FALSE]
  BY DEF RemoveBox
<1>6. /\ box' \in [Agents -> BOOLEAN]
      /\ \A a \in Agents : (box'[a] => box[a]) /\ (a # task[t].of => box'[a] = box[a])
      /\ box' = [box EXCEPT ![task[t].of] = FALSE] => box'[task[t].of] = FALSE
  BY <1>1, <1>5 DEF TypeOK
<1> QED
  BY <1>1, <1>4, <1>6

Joined(v, t) == task[v].do = "join" /\ task[v].by = t

\* A task has ended the agent it was at: it is done, or at its list.
Concludes(v) ==
    /\ task[v].of = task[v].own => task'[v] = Idle
    /\ task[v].of # task[v].own => Has(task'[v], task[v].mode, "next", task[v].of, task[v].own, task[v].left,
                                       task[v].then, None, task[v].gen)

LEMMA FinishIs ==
    ASSUME TypeOK, Shapes, NEW t \in Tasks, Finish(t)
    PROVE  /\ task[t].do = "finish" /\ task[t].of \in Agents
           /\ status' = [status EXCEPT ![task[t].of] = "ENDED"]
           /\ runtime' = [runtime EXCEPT ![task[t].of] = "none"]
           /\ retry' = [retry EXCEPT ![task[t].of] = FALSE]
           /\ task' \in [Tasks -> Record]
           /\ \A v \in Tasks : /\ v = t \/ Joined(v, t) => Concludes(v)
                               /\ v # t /\ ~Joined(v, t) => task'[v] = task[v]
           /\ UNCHANGED <<parent, agentGen, epoch, ws, gate, lease, box, up, restarts, faults>>
<1>1. /\ task[t].do = "finish" /\ task[t].of \in Agents
      /\ status' = [status EXCEPT ![task[t].of] = "ENDED"]
      /\ runtime' = [runtime EXCEPT ![task[t].of] = "none"]
      /\ retry' = [retry EXCEPT ![task[t].of] = FALSE]
      /\ UNCHANGED <<parent, agentGen, epoch, ws, gate, lease, box, up, restarts, faults>>
  BY DEF Finish, At, Shapes, Shape, CancelSteps, CleanupSteps, world
<1>2. task' = [v \in Tasks |-> IF v = t \/ Joined(v, t) THEN After(v) ELSE task[v]]
  BY DEF Finish, Joined, At
<1>3. \A v \in Tasks : task[v] \in Record /\ After(v) \in Record
  <2>1. TAKE v \in Tasks
  <2>2. task[v] \in Record
    BY DEF TypeOK
  <2>3. task[v].of = task[v].own => After(v) \in Record
    BY <2>2, AfterIs, IdleIs DEF Has
  <2>4. task[v].of # task[v].own => After(v) \in Record
    BY <2>2, AfterIs DEF Has
  <2> QED
    BY <2>2, <2>3, <2>4
<1>4. task' \in [Tasks -> Record]
  BY <1>2, <1>3
<1>5. \A v \in Tasks : /\ v = t \/ Joined(v, t) => Concludes(v)
                       /\ v # t /\ ~Joined(v, t) => task'[v] = task[v]
  <2>1. TAKE v \in Tasks
  <2>2. ASSUME v = t \/ Joined(v, t) PROVE Concludes(v)
    <3>1. task'[v] = After(v) /\ task[v] \in Record
      BY <1>2, <1>3, <2>2
    <3> QED
      BY <3>1, AfterIs DEF Concludes
  <2> QED
    BY <1>2, <2>2
<1> QED
  BY <1>1, <1>4, <1>5

LEMMA RethrowIs ==
    ASSUME TypeOK, NEW t \in Tasks, Rethrow(t)
    PROVE  /\ task[t].do = "rethrow" /\ Thrown(t, runtime)
           /\ UNCHANGED <<status, parent, agentGen, epoch, retry, gate, box, restarts, faults>>
BY ThrowIs DEF Rethrow, At

LEMMA RetryCleanupIs ==
    ASSUME TypeOK, NEW t \in Tasks, NEW a \in Agents, RetryCleanup(t, a)
    PROVE  /\ task[t].mode = "idle" /\ up = "up" /\ retry[a] /\ status[a] = "CANCELLING"
           /\ Becomes(t, "call", "start", a, a, {}, "start", None, 0)
           /\ UNCHANGED <<rows, world, runtime, up, restarts, faults>>
BY Beginning, Words DEF RetryCleanup, Free

\* The workspace.
LEMMA CloseIs ==
    ASSUME TypeOK, NEW t \in Tasks, Close(t)
    PROVE  /\ task[t].mode = "idle" /\ up = "up" /\ ws.status # "CLOSED"
           /\ ws' = IF ws.status = "REAPING" THEN ws ELSE [status |-> "REAPING", gen |-> ws.gen + 1]
           /\ gate' = [gate EXCEPT !.open = FALSE]
           /\ Cancels(t, "close", None, "closed", None, ws'.gen, ActiveAgents, {})
           /\ UNCHANGED <<parent, agentGen, epoch, retry, lease, box, runtime, up, restarts, faults>>
<1>1. PICK g \in Nat : /\ g = ws'.gen
                       /\ ws' = IF ws.status = "REAPING" THEN ws ELSE [status |-> "REAPING", gen |-> ws.gen + 1]
                       /\ Cancelling(t, [Idle EXCEPT !.mode = "close", !.then = "closed", !.gen = g], ActiveAgents, {})
  <2>1. ws' = IF ws.status = "REAPING" THEN ws ELSE [status |-> "REAPING", gen |-> ws.gen + 1]
    BY DEF Close
  <2>2. ws'.gen \in Nat
    BY <2>1 DEF TypeOK
  <2>3. Cancelling(t, [Idle EXCEPT !.mode = "close", !.then = "closed", !.gen = ws'.gen], ActiveAgents, {})
    BY <2>1 DEF Close
  <2> QED
    BY <2>1, <2>2, <2>3
<1>2. PICK m \in Modes, th \in Thens : m = "close" /\ th = "closed"
  BY Words
<1> DEFINE r == [Idle EXCEPT !.mode = m, !.then = th, !.gen = g]
<1>3. Has(r, m, "none", None, None, {}, th, None, g)
  BY NewIs
<1>4. Cancelling(t, r, ActiveAgents, {})
  BY <1>1, <1>2
<1> HIDE DEF r
<1>5. Cancels(t, r.mode, r.own, r.then, r.by, r.gen, ActiveAgents, {})
  BY <1>3, <1>4, CancellingIs DEF TypeOK, Has, ActiveAgents
<1>6. Cancels(t, "close", None, "closed", None, ws'.gen, ActiveAgents, {})
  BY <1>1, <1>2, <1>3, <1>5 DEF Has
<1> QED
  BY <1>1, <1>6 DEF Close, Free, world

\* The record of a close or an expiry.
Completes(t, S) ==
    \/ ws' = ws /\ ws # [status |-> "REAPING", gen |-> task[t].gen]
    \/ /\ ws = [status |-> "REAPING", gen |-> task[t].gen]
       /\ \E s \in S : ws' = [status |-> s, gen |-> ws.gen]

LEMMA ClosedIs ==
    ASSUME TypeOK, NEW t \in Tasks, Closed(t)
    PROVE  /\ task[t].do = "closed" /\ Ends(t) /\ Completes(t, {"CLOSED", "EXPIRED_RECOVERABLE"})
           /\ UNCHANGED <<status, parent, agentGen, epoch, retry, gate, world, runtime, up, restarts, faults>>
<1>1. \A s : ws = [status |-> "REAPING", gen |-> task[t].gen]
               => [ws EXCEPT !.status = s] = [status |-> s, gen |-> ws.gen]
  OBVIOUS
<1>2. Completes(t, {"CLOSED", "EXPIRED_RECOVERABLE"})
  BY <1>1 DEF Closed, Completes
<1> QED
  BY <1>2, EndIs DEF Closed, At, TypeOK

LEMMA ExpireIs ==
    ASSUME TypeOK, NEW t \in Tasks, Expire(t)
    PROVE  /\ task[t].mode = "idle" /\ up = "up" /\ ws.status = "ACTIVE"
           /\ ws' = [status |-> "REAPING", gen |-> ws.gen + 1]
           /\ Becomes(t, "call", "expired", None, None, {}, "none", None, ws.gen + 1)
           /\ UNCHANGED <<status, parent, agentGen, epoch, retry, gate, world, runtime, up, restarts, faults>>
<1>1. PICK g \in Nat, m \in Modes, d \in Dos : g = ws.gen + 1 /\ m = "call" /\ d = "expired"
  BY Words DEF TypeOK
<1>2. PICK q : q = [Idle EXCEPT !.mode = m, !.do = d, !.gen = g]
  OBVIOUS
<1>3. Has(q, m, d, None, None, {}, "none", None, g)
  BY <1>2, NewIs
<1>4. task' = [task EXCEPT ![t] = q] /\ task \in [Tasks -> Record]
  BY <1>1, <1>2 DEF Expire, TypeOK
<1>5. Becomes(t, m, d, None, None, {}, "none", None, g)
  BY <1>3, <1>4, Become
<1> QED
  BY <1>1, <1>5 DEF Expire, Free

LEMMA ExpiredIs ==
    ASSUME TypeOK, NEW t \in Tasks, Expired(t)
    PROVE  /\ task[t].do = "expired" /\ Ends(t) /\ Completes(t, {"EXPIRED_RECOVERABLE"})
           /\ UNCHANGED <<status, parent, agentGen, epoch, retry, gate, world, runtime, up, restarts, faults>>
<1>1. \A s : ws = [status |-> "REAPING", gen |-> task[t].gen]
               => [ws EXCEPT !.status = s] = [status |-> s, gen |-> ws.gen]
  OBVIOUS
<1>2. Completes(t, {"EXPIRED_RECOVERABLE"})
  BY <1>1 DEF Expired, Completes
<1> QED
  BY <1>2, EndIs DEF Expired, At, TypeOK

LEMMA RecoverIs ==
    ASSUME TypeOK, Recover
    PROVE  /\ up = "up" /\ ws.status = "EXPIRED_RECOVERABLE" /\ ws' = [status |-> "ACTIVE", gen |-> ws.gen]
           /\ UNCHANGED <<status, parent, agentGen, epoch, retry, gate, world, process, faults>>
BY DEF Recover, TypeOK

\* The runner.
LEMMA ShutdownIs ==
    ASSUME TypeOK, NEW t \in Tasks, Shutdown(t)
    PROVE  /\ task[t].mode = "idle" /\ up = "up" /\ up' = "stopping"
           /\ \/ /\ ws.status \in {"ACTIVE", "REAPING"} /\ gate' = [gate EXCEPT !.open = FALSE]
                 /\ Cancels(t, "stop", None, "exit", None, 0, ActiveAgents, {})
              \/ /\ ws.status \notin {"ACTIVE", "REAPING"} /\ gate' = gate
                 /\ Cancels(t, "stop", None, "exit", None, 0, {}, {})
           /\ UNCHANGED <<parent, agentGen, epoch, retry, ws, lease, box, runtime, restarts, faults>>
<1>1. PICK m \in Modes, th \in Thens, E \in SUBSET Agents :
        /\ m = "stop" /\ th = "exit"
        /\ E = IF ws.status \in {"ACTIVE", "REAPING"} THEN ActiveAgents ELSE {}
  BY Words DEF ActiveAgents
<1> DEFINE r == [Idle EXCEPT !.mode = m, !.then = th]
<1>2. Has(r, m, "none", None, None, {}, th, None, 0)
  BY NewIs
<1>3. Cancelling(t, r, E, {})
  BY <1>1 DEF Shutdown
<1> HIDE DEF r
<1>4. Cancels(t, r.mode, r.own, r.then, r.by, r.gen, E, {})
  BY <1>2, <1>3, CancellingIs DEF TypeOK, Has
<1>5. Cancels(t, "stop", None, "exit", None, 0, E, {})
  BY <1>1, <1>2, <1>4 DEF Has
<1>6. ws.status \in {"ACTIVE", "REAPING"} => Cancels(t, "stop", None, "exit", None, 0, ActiveAgents, {})
  BY <1>1, <1>5
<1>7. ws.status \notin {"ACTIVE", "REAPING"} => Cancels(t, "stop", None, "exit", None, 0, {}, {})
  BY <1>1, <1>5
<1> QED
  BY <1>6, <1>7 DEF Shutdown, Free, world

LEMMA ExitIs ==
    ASSUME TypeOK, NEW t \in Tasks, Exit(t)
    PROVE  task[t].do = "exit" /\ up' \in Downs /\ Falls /\ UNCHANGED <<rows, box, restarts, faults>>
BY FallIs DEF Exit, At, Downs

LEMMA CrashIs ==
    ASSUME TypeOK, Crash
    PROVE  up' \in Downs /\ Falls /\ UNCHANGED <<rows, box, restarts, faults>>
BY FallIs DEF Crash, Downs

LEMMA BootIs ==
    ASSUME TypeOK, NEW t \in Tasks, Boot(t)
    PROVE  /\ up \in Downs /\ restarts' = restarts + 1
           /\ \/ /\ up' = "starting" /\ box' = [a \in Agents |-> FALSE]
                 /\ gate' = IF ws.status = "ACTIVE" /\ gate.gen = ws.gen THEN [gate EXCEPT !.open = FALSE] ELSE gate
                 /\ Becomes(t, "boot", "next", None, None, Unreconciled, "none", None, 0)
              \/ up' = "failed start" /\ UNCHANGED <<box, gate, task>>
           /\ UNCHANGED <<status, parent, agentGen, epoch, retry, ws, lease, runtime>> /\ faults' \in Nat
<1>1. PICK U \in SUBSET Agents, m \in Modes, d \in Dos : U = Unreconciled /\ m = "boot" /\ d = "next"
  BY Words DEF Unreconciled, ActiveAgents
<1>2. PICK q : q = [Idle EXCEPT !.mode = m, !.do = d, !.left = U]
  OBVIOUS
<1>3. Has(q, m, d, None, None, U, "none", None, 0)
  BY <1>2, NewIs
<1>4. ASSUME task' = [task EXCEPT ![t] = [Idle EXCEPT !.mode = "boot", !.do = "next", !.left = Unreconciled]]
      PROVE  Becomes(t, "boot", "next", None, None, Unreconciled, "none", None, 0)
  <2>1. task' = [task EXCEPT ![t] = q] /\ task \in [Tasks -> Record]
    BY <1>1, <1>2, <1>4 DEF TypeOK
  <2>2. Becomes(t, m, d, None, None, U, "none", None, 0)
    BY <1>3, <2>1, Become
  <2> QED
    BY <1>1, <2>2
<1>5. up \in Downs /\ restarts' = restarts + 1 /\ UNCHANGED <<status, parent, agentGen, epoch, retry, ws, lease, runtime>>
  BY DEF Boot, Alive
<1>6. \/ /\ up' = "starting" /\ box' = [a \in Agents |-> FALSE]
         /\ gate' = IF ws.status = "ACTIVE" /\ gate.gen = ws.gen THEN [gate EXCEPT !.open = FALSE] ELSE gate
         /\ Becomes(t, "boot", "next", None, None, Unreconciled, "none", None, 0)
         /\ faults' = faults
      \/ up' = "failed start" /\ UNCHANGED <<box, gate, task>> /\ faults' = faults + 1
  BY <1>4, Zenon DEF Boot, Fault
<1>7. faults' \in Nat
  <2>1. faults' = faults \/ faults' = faults + 1
    BY <1>6, Zenon
  <2> QED
    BY <2>1 DEF TypeOK
<1> QED
  BY <1>5, <1>6, <1>7, Zenon

LEMMA RepairIs ==
    ASSUME TypeOK, NEW t \in Tasks, Repair(t)
    PROVE  /\ task[t].do = "next" /\ task[t].mode = "boot"
           /\ \/ task[t].left = {} /\ Moves(t, "admit") /\ status' = status
              \/ \E a \in task[t].left :
                    /\ \A e \in task[t].left : parent[e] # a
                    /\ status' = Marked({a})
                    /\ Becomes(t, "boot", "revoke", a, task[t].own, task[t].left \ {a}, task[t].then, task[t].by, task[t].gen)
           /\ UNCHANGED <<parent, agentGen, epoch, retry, ws, gate, lease, box, runtime, up, restarts, faults>>
<1>1. /\ task[t].do = "next" /\ task[t].mode = "boot"
      /\ UNCHANGED <<parent, agentGen, epoch, retry, ws, gate, lease, box, runtime, up, restarts, faults>>
  BY DEF Repair, At, world
<1>2. CASE task[t].left = {} /\ Goto(t, "admit") /\ status' = status
  BY <1>1, <1>2, GotoIs, Words DEF TypeOK
<1>3. ASSUME NEW x \in First(task[t].left), status' = Marked({x}),
             task' = [task EXCEPT ![t].do = "revoke", ![t].of = x, ![t].left = @ \ {x}]
      PROVE  /\ x \in task[t].left /\ \A e \in task[t].left : parent[e] # x
             /\ Becomes(t, "boot", "revoke", x, task[t].own, task[t].left \ {x}, task[t].then, task[t].by, task[t].gen)
  <2>1. x \in task[t].left /\ \A e \in task[t].left : parent[e] # x
    BY DEF First
  <2>2. PICK r \in Record, d \in Dos, o \in AgentOrNone, E \in SUBSET Agents :
          r = task[t] /\ d = "revoke" /\ o = x /\ E = task[t].left \ {x}
    BY <2>1, Words DEF AgentOrNone, TypeOK, Record
  <2>3. Has([r EXCEPT !.do = d, !.of = o, !.left = E], r.mode, d, o, r.own, E, r.then, r.by, r.gen)
    BY DEF Has, Record
  <2>4. PICK q : q = [r EXCEPT !.do = d, !.of = o, !.left = E]
    OBVIOUS
  <2>5. task' = [task EXCEPT ![t] = q] /\ task \in [Tasks -> Record]
    <3>1. task' = [task EXCEPT ![t] = [task[t] EXCEPT !.do = "revoke", !.of = x, !.left = task[t].left \ {x}]]
      BY <1>3 DEF TypeOK
    <3> QED
      BY <2>2, <2>4, <3>1 DEF TypeOK
  <2>6. Becomes(t, r.mode, d, o, r.own, E, r.then, r.by, r.gen)
    BY <2>3, <2>4, <2>5, Become
  <2> QED
    BY <1>1, <2>1, <2>2, <2>6
<1>4. \/ task[t].left = {} /\ Goto(t, "admit") /\ status' = status
      \/ \E x \in First(task[t].left) :
           /\ status' = Marked({x})
           /\ task' = [task EXCEPT ![t].do = "revoke", ![t].of = x, ![t].left = @ \ {x}]
  BY DEF Repair
<1> QED
  BY <1>1, <1>2, <1>3, <1>4

LEMMA AdmitIs ==
    ASSUME TypeOK, NEW t \in Tasks, Admit(t)
    PROVE  /\ task[t].do = "admit"
           /\ \/ /\ Unreconciled = {} /\ up' = "up" /\ Ends(t) /\ UNCHANGED <<lease, runtime>>
                 /\ gate' = IF ws.status = "ACTIVE" /\ gate.gen = ws.gen THEN [gate EXCEPT !.open = TRUE] ELSE gate
              \/ up' \in Downs /\ Falls /\ gate' = gate
           /\ UNCHANGED <<status, parent, agentGen, epoch, retry, ws, box, restarts, faults>>
BY FallIs, EndIs DEF Admit, At, Downs, TypeOK

\* The types after what several steps do.
LEMMA CancelsTyped ==
    ASSUME TypeOK, NEW t, NEW m, NEW w, NEW th, NEW b, NEW g, NEW S, NEW A, Cancels(t, m, w, th, b, g, S, A)
    PROVE  task' \in [Tasks -> Record] /\ status' \in [Agents -> Statuses]
<1>1. CASE status' = Marked(A) /\ Becomes(t, m, th, w, w, {}, th, b, g)
  BY <1>1, MarkedIs DEF Becomes
<1>2. ASSUME NEW d \in S, status' = Marked(A \union {d}), Becomes(t, m, "await", d, w, S \ {d}, th, b, g)
      PROVE  task' \in [Tasks -> Record] /\ status' \in [Agents -> Statuses]
  BY <1>2, MarkedIs DEF Becomes
<1> QED
  BY <1>1, <1>2 DEF Cancels

LEMMA ThrownTyped ==
    ASSUME TypeOK, NEW t, NEW f \in [Agents -> {"none", "open", "failed"} \union Tasks], Thrown(t, f)
    PROVE  /\ task' \in [Tasks -> Record] /\ runtime' \in [Agents -> {"none", "open", "failed"} \union Tasks]
           /\ lease' \in [Agents -> BOOLEAN] /\ up' \in {"starting", "up", "stopping"} \union Downs
           /\ ws' \in [status : {"ACTIVE", "REAPING", "EXPIRED_RECOVERABLE", "CLOSED"}, gen : Nat]
<1>1. CASE Throws(t) /\ runtime' = f /\ lease' = lease /\ up' = up /\ ws' = ws
  BY <1>1 DEF Throws, TypeOK
<1>2. CASE Throws(t) /\ runtime' = f /\ lease' = lease /\ up' = up
           /\ ws' = [status |-> "EXPIRED_RECOVERABLE", gen |-> ws.gen]
  BY <1>2 DEF Throws, TypeOK
<1>3. CASE up' \in Downs /\ Falls /\ ws' = ws
  BY <1>3 DEF Falls, TypeOK
<1> QED
  BY <1>1, <1>2, <1>3 DEF Thrown

LEMMA TypeInit == ASSUME AgentAssumption, Init PROVE TypeOK
BY IdleIs DEF AgentAssumption, Init, TypeOK, Statuses, Has

LEMMA TypeStep == ASSUME TypeOK, Shapes, [Next]_vars PROVE TypeOK'
<1> USE DEF rows, world, process
<1>1. CASE UNCHANGED vars
  BY <1>1 DEF TypeOK, vars
<1>2. CASE Recover
  BY <1>2, RecoverIs DEF TypeOK
<1>3. CASE Crash
  BY <1>3, CrashIs DEF TypeOK, Falls
<1>4. ASSUME NEW t \in Tasks, Run(t) PROVE TypeOK'
  <2>1. CASE Prepare(t)
    BY <2>1, PrepareIs DEF TypeOK, Moves, Becomes, Ends
  <2>2. CASE Issue(t)
    BY <2>2, IssueIs DEF TypeOK, Moves, Becomes
  <2>3. CASE Launch(t)
    <3>1. status' \in [Agents -> Statuses] /\ runtime' \in [Agents -> {"none", "open", "failed"} \union Tasks]
      BY <2>3, LaunchIs DEF TypeOK, Statuses
    <3> QED
      BY <2>3, <3>1, LaunchIs DEF TypeOK, Moves, Becomes
  <2>4. CASE SendStart(t)
    BY <2>4, SendStartIs DEF TypeOK, Moves, Becomes, Ends
  <2>5. CASE FailLaunch(t)
    <3>1. status' \in [Agents -> Statuses] /\ task' \in [Tasks -> Record]
      BY <2>5, FailLaunchIs, CancelsTyped DEF TypeOK, Ends, CancelsAs
    <3> QED
      BY <2>5, <3>1, FailLaunchIs DEF TypeOK
  <2>6. CASE AwaitLaunch(t)
    <3>1. status' \in [Agents -> Statuses] /\ task' \in [Tasks -> Record]
      BY <2>6, AwaitLaunchIs, CancelsTyped DEF TypeOK, Moves, Becomes, CancelsAs
    <3> QED
      BY <2>6, <3>1, AwaitLaunchIs DEF TypeOK
  <2>7. CASE CancelNext(t)
    <3>1. status' \in [Agents -> Statuses] /\ task' \in [Tasks -> Record]
      BY <2>7, CancelNextIs, CancelsTyped DEF CancelsAs
    <3> QED
      BY <2>7, <3>1, CancelNextIs DEF TypeOK
  <2>8. CASE CleanOrJoin(t)
    <3>1. CASE Thrown(t, runtime)
      BY <2>8, <3>1, CleanOrJoinIs, ThrownTyped DEF TypeOK
    <3>2. CASE /\ task' \in [Tasks -> Record]
               /\ UNCHANGED <<ws, lease, up>> /\ (runtime' = runtime \/ runtime' = Registered(t, task[t].of))
      BY <2>8, <3>2, CleanOrJoinIs, RegisteredIs DEF TypeOK
    <3> QED
      BY <2>8, <3>1, <3>2, CleanOrJoinIs DEF Moves, Becomes
  <2>9. CASE Start(t)
    BY <2>9, StartIs, RegisteredIs DEF TypeOK, Becomes
  <2>10. CASE Revoke(t)
    BY <2>10, RevokeIs DEF TypeOK, Moves, Becomes
  <2>11. CASE RemoveBox(t)
    <3>1. CASE Moves(t, "finish") /\ UNCHANGED <<retry, ws, lease, runtime, up>>
      BY <2>11, <3>1, RemoveBoxIs DEF TypeOK, Moves, Becomes
    <3>2. CASE Thrown(t, Failed(t)) /\ retry' = [retry EXCEPT ![task[t].of] = TRUE]
      <4>1. retry' \in [Agents -> BOOLEAN]
        BY <3>2 DEF TypeOK
      <4>2. /\ task' \in [Tasks -> Record] /\ runtime' \in [Agents -> {"none", "open", "failed"} \union Tasks]
            /\ lease' \in [Agents -> BOOLEAN] /\ up' \in {"starting", "up", "stopping"} \union Downs
            /\ ws' \in [status : {"ACTIVE", "REAPING", "EXPIRED_RECOVERABLE", "CLOSED"}, gen : Nat]
        BY <3>2, FailedIs, ThrownTyped
      <4> QED
        BY <2>11, <3>2, <4>1, <4>2, RemoveBoxIs DEF TypeOK
    <3> QED
      BY <2>11, <3>1, <3>2, RemoveBoxIs
  <2>12. CASE Finish(t)
    <3>1. /\ status' \in [Agents -> Statuses] /\ retry' \in [Agents -> BOOLEAN]
          /\ runtime' \in [Agents -> {"none", "open", "failed"} \union Tasks]
      BY <2>12, FinishIs DEF TypeOK, Statuses
    <3> QED
      BY <2>12, <3>1, FinishIs DEF TypeOK
  <2>13. CASE Rethrow(t)
    BY <2>13, RethrowIs, ThrownTyped DEF TypeOK
  <2>14. CASE Closed(t)
    BY <2>14, ClosedIs DEF TypeOK, Ends, Completes
  <2>15. CASE Expired(t)
    BY <2>15, ExpiredIs DEF TypeOK, Ends, Completes
  <2>16. CASE Exit(t)
    BY <2>16, ExitIs DEF TypeOK, Falls
  <2>17. CASE Repair(t)
    <3>1. status' \in [Agents -> Statuses] /\ task' \in [Tasks -> Record]
      <4>1. CASE Moves(t, "admit") /\ status' = status
        BY <4>1 DEF TypeOK, Moves, Becomes
      <4>2. ASSUME NEW a \in task[t].left, status' = Marked({a}),
                   Becomes(t, "boot", "revoke", a, task[t].own, task[t].left \ {a}, task[t].then, task[t].by, task[t].gen)
            PROVE  status' \in [Agents -> Statuses] /\ task' \in [Tasks -> Record]
        BY <4>2, MarkedIs DEF Becomes
      <4> QED
        BY <2>17, <4>1, <4>2, RepairIs
    <3> QED
      BY <2>17, <3>1, RepairIs DEF TypeOK
  <2>18. CASE Admit(t)
    <3>1. gate' \in [gen : Nat, open : BOOLEAN]
      BY <2>18, AdmitIs DEF TypeOK
    <3> QED
      BY <2>18, <3>1, AdmitIs DEF TypeOK, Falls, Ends
  <2> QED
    BY <1>4, <2>1, <2>2, <2>3, <2>4, <2>5, <2>6, <2>7, <2>8, <2>9, <2>10, <2>11, <2>12, <2>13, <2>14, <2>15, <2>16,
       <2>17, <2>18, Zenon DEF Run
<1>5. ASSUME NEW t \in Tasks, Close(t) PROVE TypeOK'
  <2>1. status' \in [Agents -> Statuses] /\ task' \in [Tasks -> Record]
    BY <1>5, CloseIs, CancelsTyped
  <2>2. /\ gate' \in [gen : Nat, open : BOOLEAN]
        /\ ws' \in [status : {"ACTIVE", "REAPING", "EXPIRED_RECOVERABLE", "CLOSED"}, gen : Nat]
    <3>1. /\ gate' = [gate EXCEPT !.open = FALSE]
          /\ ws' = IF ws.status = "REAPING" THEN ws ELSE [status |-> "REAPING", gen |-> ws.gen + 1]
      BY <1>5, CloseIs, Zenon
    <3>2. gate' \in [gen : Nat, open : BOOLEAN]
      BY <3>1 DEF TypeOK
    <3>3. ws.status = "REAPING" => ws' \in [status : {"ACTIVE", "REAPING", "EXPIRED_RECOVERABLE", "CLOSED"}, gen : Nat]
      BY <3>1 DEF TypeOK
    <3>4. ws.status # "REAPING" => ws' \in [status : {"ACTIVE", "REAPING", "EXPIRED_RECOVERABLE", "CLOSED"}, gen : Nat]
      BY <3>1 DEF TypeOK
    <3> QED
      BY <3>2, <3>3, <3>4
  <2> QED
    BY <1>5, <2>1, <2>2, CloseIs DEF TypeOK
<1>6. ASSUME NEW t \in Tasks, Expire(t) PROVE TypeOK'
  BY <1>6, ExpireIs DEF TypeOK, Becomes
<1>7. ASSUME NEW t \in Tasks, Shutdown(t) PROVE TypeOK'
  <2>1. status' \in [Agents -> Statuses] /\ task' \in [Tasks -> Record]
    BY <1>7, ShutdownIs, CancelsTyped
  <2>2. gate' \in [gen : Nat, open : BOOLEAN]
    BY <1>7, ShutdownIs DEF TypeOK
  <2> QED
    BY <1>7, <2>1, <2>2, ShutdownIs DEF TypeOK
<1>8. ASSUME NEW t \in Tasks, Boot(t) PROVE TypeOK'
  <2>1. gate' \in [gen : Nat, open : BOOLEAN]
    BY <1>8, BootIs DEF TypeOK
  <2>2. box' \in [Agents -> BOOLEAN] /\ task' \in [Tasks -> Record]
    BY <1>8, BootIs DEF TypeOK, Becomes
  <2>3. up' \in {"starting", "up", "stopping"} \union Downs /\ restarts' \in Nat
    <3>1. restarts' = restarts + 1
      BY <1>8, BootIs, Zenon
    <3>2. restarts' \in Nat
      BY <3>1 DEF TypeOK
    <3>3. up' = "starting" \/ up' = "failed start"
      BY <1>8, BootIs, Zenon
    <3> QED
      BY <3>2, <3>3 DEF Downs
  <2>4. UNCHANGED <<status, parent, agentGen, epoch, retry, ws, lease, runtime>> /\ faults' \in Nat
    BY <1>8, BootIs
  <2> QED
    BY <2>1, <2>2, <2>3, <2>4 DEF TypeOK
<1>9. ASSUME NEW t \in Tasks, NEW a \in Agents, NEW p \in AgentOrNone, Spawn(t, a, p) PROVE TypeOK'
  <2>1. /\ status' \in [Agents -> Statuses] /\ parent' \in [Agents -> Agents \union {None}]
        /\ agentGen' \in [Agents -> Nat] /\ epoch' \in [Agents -> Nat] /\ gate' \in [gen : Nat, open : BOOLEAN]
    <3>1. status' = [status EXCEPT ![a] = "SPAWNING"] /\ parent' = [parent EXCEPT ![a] = p]
      BY <1>9, SpawnIs
    <3>2. agentGen' = [agentGen EXCEPT ![a] = ws.gen] /\ epoch' = [epoch EXCEPT ![a] = restarts]
      BY <1>9, SpawnIs
    <3>3. gate' = [gen |-> ws.gen, open |-> TRUE]
      BY <1>9, SpawnIs
    <3>4. /\ status' \in [Agents -> Statuses] /\ parent' \in [Agents -> Agents \union {None}]
      BY <3>1 DEF TypeOK, Statuses, AgentOrNone
    <3>5. agentGen' \in [Agents -> Nat] /\ epoch' \in [Agents -> Nat]
      BY <3>2 DEF TypeOK
    <3>6. gate' \in [gen : Nat, open : BOOLEAN]
      BY <3>3 DEF TypeOK
    <3> QED
      BY <3>4, <3>5, <3>6
  <2> QED
    BY <1>9, <2>1, SpawnIs DEF TypeOK, Becomes, AgentOrNone
<1>10. ASSUME NEW t \in Tasks, NEW a \in Agents, NEW m \in {"call", "loose"}, CancelOne(t, a, m) PROVE TypeOK'
  <2>1. status' = Marked({a}) /\ Becomes(t, m, "await", a, a, {}, "clean", None, 0)
        /\ UNCHANGED <<parent, agentGen, epoch, retry, ws, gate, lease, box, runtime, up, restarts, faults>>
    BY <1>10, CancelIs, Zenon
  <2> QED
    BY <2>1, MarkedIs DEF TypeOK, Becomes
<1>11. ASSUME NEW t \in Tasks, NEW a \in Agents, Interrupt(t, a) PROVE TypeOK'
  <2>1. status' \in [Agents -> Statuses] /\ task' \in [Tasks -> Record]
    BY <1>11, InterruptIs, CancelsTyped
  <2> QED
    BY <1>11, <2>1, InterruptIs DEF TypeOK
<1>12. ASSUME NEW t \in Tasks, NEW a \in Agents, FinishTerminal(t, a) PROVE TypeOK'
  <2>1. status' \in [Agents -> Statuses] /\ task' \in [Tasks -> Record]
    BY <1>12, FinishTerminalIs, CancelsTyped
  <2> QED
    BY <1>12, <2>1, FinishTerminalIs DEF TypeOK
<1>13. ASSUME NEW t \in Tasks, NEW a \in Agents, RetryCleanup(t, a) PROVE TypeOK'
  BY <1>13, RetryCleanupIs DEF TypeOK, Becomes
<1> QED
  BY <1>1, <1>2, <1>3, <1>4, <1>5, <1>6, <1>7, <1>8, <1>9, <1>10, <1>11, <1>12, <1>13, Zenon
  DEF Next, Cancel, CancelLoose, AgentOrNone

-----------------------------------------------------------------------------
(* The shapes of tasks *)

LEMMA IdleShape == AgentAssumption => Shape(Idle)
<1>1. Has(Idle, "idle", "none", None, None, {}, "none", None, 0)
  BY IdleIs
<1> QED
  BY <1>1 DEF Shape, Has, LaunchSteps, CancelSteps, CleanupSteps, AgentAssumption

LEMMA ShapesBecome ==
    ASSUME Shapes, NEW t \in Tasks, NEW m, NEW d, NEW o, NEW w, NEW S, NEW th, NEW b, NEW g,
           Becomes(t, m, d, o, w, S, th, b, g), Shape(task'[t])
    PROVE  Shapes'
BY DEF Shapes, Becomes

LEMMA ShapesEnd == ASSUME AgentAssumption, Shapes, NEW t \in Tasks, Ends(t) PROVE Shapes'
BY IdleShape DEF Shapes, Ends

LEMMA ShapesFall == ASSUME AgentAssumption, Falls PROVE Shapes'
BY IdleShape DEF Shapes, Falls

LEMMA ShapesMove ==
    ASSUME Shapes, NEW t \in Tasks, NEW e \in Dos, Moves(t, e),
           \/ task[t].do \in LaunchSteps /\ e \in LaunchSteps
           \/ /\ task[t].do \in CancelSteps /\ e \in CancelSteps \ {"await", "start"}
              /\ task[t].do \in CleanupSteps \union {"start"} => e \in CleanupSteps
    PROVE  Shapes'
<1>1. Shape(task[t])
  BY DEF Shapes
<1>2. Has(task'[t], task[t].mode, e, task[t].of, task[t].own, task[t].left, task[t].then, task[t].by, task[t].gen)
  BY DEF Moves, Becomes
<1>3. task[t].mode # "idle"
  BY <1>1 DEF Shape, LaunchSteps, CancelSteps, CleanupSteps
<1>4. CASE task[t].do \in LaunchSteps /\ e \in LaunchSteps
  <2>1. task[t].mode = "launch" /\ task[t].left = {} /\ task[t].of = task[t].own /\ task[t].own \in Agents /\ task[t].then = "start"
    BY <1>1, <1>4 DEF Shape
  <2>2. Shape(task'[t])
    BY <1>2, <1>4, <2>1 DEF Shape, Has, LaunchSteps, CancelSteps, CleanupSteps
  <2> QED
    BY <2>2, ShapesBecome DEF Moves
<1>5. CASE /\ task[t].do \in CancelSteps /\ e \in CancelSteps \ {"await", "start"}
           /\ task[t].do \in CleanupSteps \union {"start"} => e \in CleanupSteps
  <2>1. Shape(task'[t])
    BY <1>1, <1>2, <1>3, <1>5 DEF Shape, Has, LaunchSteps, CancelSteps, CleanupSteps
  <2> QED
    BY <2>1, ShapesBecome DEF Moves
<1> QED
  BY <1>4, <1>5

\* What a list may be for.
Purpose(m, w, th, S) ==
    \/ w \in Agents /\ m \in {"launch", "call", "loose"} /\ th \in {"start", "clean"}
       /\ (m = "launch" => th = "start") /\ w \notin S
    \/ w = None /\ m = "close" /\ th = "closed"
    \/ w = None /\ m = "stop" /\ th = "exit"

LEMMA ShapesCancel ==
    ASSUME AgentAssumption, Shapes, NEW t \in Tasks, NEW m, NEW w, NEW th, NEW b, NEW g, NEW S \in SUBSET Agents, NEW A,
           Cancels(t, m, w, th, b, g, S, A), Purpose(m, w, th, S)
    PROVE  Shapes'
<1>1. CASE Becomes(t, m, th, w, w, {}, th, b, g)
  <2>1. Has(task'[t], m, th, w, w, {}, th, b, g)
    BY <1>1 DEF Becomes
  <2>2. Shape(task'[t])
    BY <2>1 DEF Purpose, Shape, Has, LaunchSteps, CancelSteps, CleanupSteps, AgentAssumption
  <2> QED
    BY <1>1, <2>2, ShapesBecome
<1>2. ASSUME NEW d \in S, Becomes(t, m, "await", d, w, S \ {d}, th, b, g)
      PROVE  Shapes'
  <2>1. Has(task'[t], m, "await", d, w, S \ {d}, th, b, g) /\ d \in Agents /\ (w \in Agents => d # w)
    BY <1>2 DEF Becomes, Purpose, AgentAssumption
  <2>2. Shape(task'[t])
    BY <2>1 DEF Purpose, Shape, Has, LaunchSteps, CancelSteps, CleanupSteps, AgentAssumption
  <2> QED
    BY <1>2, <2>2, ShapesBecome
<1> QED
  BY <1>1, <1>2 DEF Cancels

LEMMA ShapesThrow ==
    ASSUME AgentAssumption, Shapes, NEW t \in Tasks, NEW f, Thrown(t, f)
    PROVE  Shapes'
<1>1. CASE Throws(t)
  <2>1. SUFFICES ASSUME NEW v \in Tasks PROVE Shape(task'[v])
    BY DEF Shapes
  <2>2. Shape(task[v])
    BY DEF Shapes
  <2>3. CASE v = t
    BY <1>1, <2>3, IdleShape DEF Throws
  <2>4. CASE v # t /\ ~Awaits(v, t)
    BY <1>1, <2>2, <2>4 DEF Throws
  <2>5. CASE v # t /\ Awaits(v, t)
    <3>1. /\ Has(task'[v], task[v].mode, "rethrow", task[v].of, task[v].own, task[v].left, task[v].then, task[v].by, task[v].gen)
          /\ task[v].do \in {"join", "await"}
      BY <1>1, <2>5 DEF Throws, Awaits, At
    <3> QED
      BY <2>2, <3>1 DEF Shape, Has, LaunchSteps, CancelSteps, CleanupSteps
  <2> QED
    BY <2>3, <2>4, <2>5
<1> QED
  BY <1>1, ShapesFall DEF Thrown

LEMMA NotBelow == ASSUME Forest, NEW a \in Agents PROVE a \notin Below(a)
BY DEF Forest, Below

\* What a task with a list is for.
LEMMA Purposes ==
    ASSUME TypeOK, AgentAssumption, Shapes, Forest, TaskAgents, NEW t \in Tasks, task[t].mode \notin {"idle", "boot"},
           task[t].do \in {"fail", "await", "next"}
    PROVE  /\ task[t].do = "fail" => Purpose(task[t].mode, task[t].own, task[t].then, Below(task[t].of))
           /\ task[t].do = "await" /\ task[t].of = task[t].own
                => Purpose(task[t].mode, task[t].own, task[t].then, Below(task[t].of))
           /\ task[t].do = "next" => Purpose(task[t].mode, task[t].own, task[t].then, task[t].left \intersect ActiveAgents)
<1>1. Shape(task[t]) /\ task[t].mode \in Modes
  BY DEF Shapes, TypeOK, Record
<1>2. ASSUME task[t].do = "fail" PROVE Purpose(task[t].mode, task[t].own, task[t].then, Below(task[t].of))
  <2>1. task[t].mode = "launch" /\ task[t].own \in Agents /\ task[t].of = task[t].own /\ task[t].then = "start"
    BY <1>1, <1>2 DEF Shape, LaunchSteps
  <2> QED
    BY <2>1, NotBelow DEF Purpose
<1>3. ASSUME task[t].do = "await", task[t].of = task[t].own
      PROVE  Purpose(task[t].mode, task[t].own, task[t].then, Below(task[t].of))
  <2>1. task[t].of \in Agents /\ task[t].mode # "launch"
    BY <1>1, <1>3 DEF Shape, CancelSteps
  <2>2. task[t].mode \in {"call", "loose"}
    BY <1>1, <1>3, <2>1 DEF Shape, Modes, AgentAssumption
  <2>3. task[t].then \in {"start", "clean"}
    BY <1>1, <1>3, <2>2 DEF Shape
  <2> QED
    BY <1>3, <2>1, <2>2, <2>3, NotBelow DEF Purpose
<1>4. ASSUME task[t].do = "next"
      PROVE  Purpose(task[t].mode, task[t].own, task[t].then, task[t].left \intersect ActiveAgents)
  <2>1. CASE task[t].mode \in {"launch", "call", "loose"}
    <3>1. /\ task[t].own \in Agents /\ task[t].then \in {"start", "clean"}
          /\ task[t].mode = "launch" => task[t].then = "start"
      BY <1>1, <1>4, <2>1 DEF Shape
    <3>2. task[t].own \notin task[t].left
      <4>1. task[t].left \subseteq Descendants(task[t].own)
        BY <3>1 DEF TaskAgents, AgentsOf
      <4> QED
        BY <3>1, <4>1 DEF Forest
    <3> QED
      BY <2>1, <3>1, <3>2 DEF Purpose
  <2>2. CASE task[t].mode \in {"close", "stop"}
    BY <1>1, <2>2 DEF Shape, Purpose
  <2> QED
    BY <1>1, <2>1, <2>2 DEF Modes
<1> QED
  BY <1>2, <1>3, <1>4

LEMMA ShapesStep ==
    ASSUME AgentAssumption, TypeOK, Shapes, Forest, TaskAgents, [Next]_vars
    PROVE  Shapes'
<1>1. CASE UNCHANGED vars
  BY <1>1 DEF Shapes, vars, process
<1>2. CASE Recover
  BY <1>2, RecoverIs DEF Shapes, process
<1>3. CASE Crash
  BY <1>3, CrashIs, ShapesFall
<1>4. ASSUME NEW t \in Tasks, Run(t) PROVE Shapes'
  <2>0. Shape(task[t]) /\ task[t] \in Record
    BY DEF Shapes, TypeOK
  <2>1. CASE Prepare(t)
    BY <2>1, PrepareIs, ShapesMove, ShapesEnd, Words DEF LaunchSteps
  <2>2. CASE Issue(t)
    BY <2>2, IssueIs, ShapesMove, Words DEF LaunchSteps
  <2>3. CASE Launch(t)
    BY <2>3, LaunchIs, ShapesMove, Words DEF LaunchSteps
  <2>4. CASE SendStart(t)
    BY <2>4, SendStartIs, ShapesMove, ShapesEnd, Words DEF LaunchSteps
  <2>5. CASE FailLaunch(t)
    <3>1. task[t].do = "fail" /\ task[t].mode \notin {"idle", "boot"}
      BY <2>0, <2>5, FailLaunchIs DEF Shape, LaunchSteps
    <3>2. Purpose(task[t].mode, task[t].own, task[t].then, Below(task[t].of))
      BY <3>1, Purposes
    <3> QED
      BY <2>5, <3>2, FailLaunchIs, ShapesEnd, ShapesCancel, Belows DEF CancelsAs
  <2>6. CASE AwaitLaunch(t)
    <3>1. task[t].do = "await" /\ task[t].mode \notin {"idle", "boot"}
      BY <2>0, <2>6, AwaitLaunchIs DEF Shape, CleanupSteps
    <3>2. task[t].of = task[t].own => Purpose(task[t].mode, task[t].own, task[t].then, Below(task[t].of))
      BY <3>1, Purposes
    <3>3. CASE task[t].of = task[t].own /\ CancelsAs(t, Below(task[t].of), {})
      BY <3>2, <3>3, ShapesCancel, Belows DEF CancelsAs
    <3>4. CASE Moves(t, "clean")
      BY <3>1, <3>4, ShapesMove, Words DEF LaunchSteps, CancelSteps, CleanupSteps
    <3> QED
      BY <2>6, <3>3, <3>4, AwaitLaunchIs
  <2>7. CASE CancelNext(t)
    <3>1. task[t].do = "next" /\ task[t].mode \notin {"idle", "boot"}
      BY <2>0, <2>7, CancelNextIs DEF Shape
    <3>2. Purpose(task[t].mode, task[t].own, task[t].then, task[t].left \intersect ActiveAgents)
      BY <3>1, Purposes
    <3>3. task[t].left \intersect ActiveAgents \in SUBSET Agents
      BY DEF ActiveAgents
    <3> QED
      BY <2>7, <3>2, <3>3, CancelNextIs, ShapesCancel DEF CancelsAs
  <2>8. CASE CleanOrJoin(t)
    <3>1. CASE Thrown(t, runtime)
      BY <3>1, ShapesThrow
    <3>2. CASE Moves(t, "revoke")
      BY <2>8, <3>2, CleanOrJoinIs, ShapesMove, Words DEF LaunchSteps, CancelSteps, CleanupSteps
    <3>3. CASE Becomes(t, task[t].mode, "join", task[t].of, task[t].own, task[t].left, task[t].then,
                       runtime[task[t].of], task[t].gen)
      <4>1. Has(task'[t], task[t].mode, "join", task[t].of, task[t].own, task[t].left, task[t].then,
                runtime[task[t].of], task[t].gen)
        BY <3>3 DEF Becomes
      <4>2. task[t].do = "clean"
        BY <2>8, CleanOrJoinIs
      <4>3. Shape(task'[t])
        BY <2>0, <4>1, <4>2 DEF Shape, Has, LaunchSteps, CancelSteps, CleanupSteps
      <4> QED
        BY <3>3, <4>3, ShapesBecome
    <3> QED
      BY <2>8, <3>1, <3>2, <3>3, CleanOrJoinIs
  <2>9. CASE Start(t)
    <3>1. PICK m : m = IF task[t].mode = "loose" THEN "call" ELSE task[t].mode
      OBVIOUS
    <3>2. task[t].do = "start" /\ Becomes(t, m, "revoke", task[t].of, task[t].own, task[t].left, task[t].then, task[t].by, task[t].gen)
      BY <2>9, <3>1, StartIs
    <3>3. Has(task'[t], m, "revoke", task[t].of, task[t].own, task[t].left, task[t].then, task[t].by, task[t].gen)
      BY <3>2 DEF Becomes
    <3>4. Shape(task'[t])
      BY <2>0, <3>1, <3>2, <3>3 DEF Shape, Has, LaunchSteps, CancelSteps, CleanupSteps
    <3> QED
      BY <3>2, <3>4, ShapesBecome
  <2>10. CASE Revoke(t)
    BY <2>10, RevokeIs, ShapesMove, Words DEF LaunchSteps, CancelSteps, CleanupSteps
  <2>11. CASE RemoveBox(t)
    BY <2>11, RemoveBoxIs, ShapesMove, ShapesThrow, Words DEF LaunchSteps, CancelSteps, CleanupSteps
  <2>12. CASE Finish(t)
    <3>1. SUFFICES ASSUME NEW v \in Tasks PROVE Shape(task'[v])
      BY DEF Shapes
    <3>2. Shape(task[v])
      BY DEF Shapes
    <3>3. CASE v # t /\ ~Joined(v, t)
      BY <2>12, <3>2, <3>3, FinishIs
    <3>4. CASE v = t \/ Joined(v, t)
      <4>1. Concludes(v) /\ task[v].do \in {"finish", "join"}
        BY <2>12, <3>4, FinishIs DEF Joined
      <4>2. CASE task[v].of = task[v].own
        BY <4>1, <4>2, IdleShape DEF Concludes
      <4>3. CASE task[v].of # task[v].own
        <5>1. Has(task'[v], task[v].mode, "next", task[v].of, task[v].own, task[v].left, task[v].then, None, task[v].gen)
          BY <4>1, <4>3 DEF Concludes
        <5> QED
          BY <3>2, <4>1, <4>3, <5>1 DEF Shape, Has, LaunchSteps, CancelSteps, CleanupSteps
      <4> QED
        BY <4>2, <4>3
    <3> QED
      BY <3>3, <3>4
  <2>13. CASE Rethrow(t)
    BY <2>13, RethrowIs, ShapesThrow
  <2>14. CASE Closed(t)
    BY <2>14, ClosedIs, ShapesEnd
  <2>15. CASE Expired(t)
    BY <2>15, ExpiredIs, ShapesEnd
  <2>16. CASE Exit(t)
    BY <2>16, ExitIs, ShapesFall
  <2>17. CASE Repair(t)
    <3>0. task[t].do = "next" /\ task[t].mode = "boot" /\ task[t].own = None
      BY <2>0, <2>17, RepairIs DEF Shape
    <3>1. CASE task[t].left = {} /\ Moves(t, "admit")
      <4>1. Has(task'[t], task[t].mode, "admit", task[t].of, task[t].own, task[t].left, task[t].then, task[t].by, task[t].gen)
        BY <3>1 DEF Moves, Becomes
      <4>2. Shape(task'[t])
        BY <2>0, <3>0, <3>1, <4>1 DEF Shape, Has, LaunchSteps, CancelSteps, CleanupSteps
      <4> QED
        BY <3>1, <4>2, ShapesBecome DEF Moves
    <3>2. ASSUME NEW a \in task[t].left,
                 Becomes(t, "boot", "revoke", a, task[t].own, task[t].left \ {a}, task[t].then, task[t].by, task[t].gen)
          PROVE  Shapes'
      <4>1. Has(task'[t], "boot", "revoke", a, task[t].own, task[t].left \ {a}, task[t].then, task[t].by, task[t].gen)
        BY <3>2 DEF Becomes
      <4>2. a \in Agents
        BY <2>0 DEF Record
      <4>3. Shape(task'[t])
        BY <3>0, <4>1, <4>2 DEF Shape, Has, LaunchSteps, CancelSteps, CleanupSteps, AgentAssumption
      <4> QED
        BY <3>2, <4>3, ShapesBecome
    <3> QED
      BY <2>17, <3>1, <3>2, RepairIs
  <2>18. CASE Admit(t)
    BY <2>18, AdmitIs, ShapesEnd, ShapesFall
  <2> QED
    BY <1>4, <2>1, <2>2, <2>3, <2>4, <2>5, <2>6, <2>7, <2>8, <2>9, <2>10, <2>11, <2>12, <2>13, <2>14, <2>15, <2>16,
       <2>17, <2>18, Zenon DEF Run
<1>5. ASSUME NEW t \in Tasks, Close(t) PROVE Shapes'
  <2>1. Cancels(t, "close", None, "closed", None, ws'.gen, ActiveAgents, {})
    BY <1>5, CloseIs
  <2> QED
    BY <2>1, ShapesCancel, Belows DEF Purpose
<1>6. ASSUME NEW t \in Tasks, Expire(t) PROVE Shapes'
  <2>1. Becomes(t, "call", "expired", None, None, {}, "none", None, ws.gen + 1)
    BY <1>6, ExpireIs
  <2>2. Shape(task'[t])
    BY <2>1 DEF Becomes, Shape, Has, LaunchSteps, CancelSteps, CleanupSteps, AgentAssumption
  <2> QED
    BY <2>1, <2>2, ShapesBecome
<1>7. ASSUME NEW t \in Tasks, Shutdown(t) PROVE Shapes'
  <2>1. PICK E \in SUBSET Agents : Cancels(t, "stop", None, "exit", None, 0, E, {})
    BY <1>7, ShutdownIs, Belows
  <2> QED
    BY <2>1, ShapesCancel DEF Purpose
<1>8. ASSUME NEW t \in Tasks, Boot(t) PROVE Shapes'
  <2>1. CASE Becomes(t, "boot", "next", None, None, Unreconciled, "none", None, 0)
    <3>1. Shape(task'[t])
      BY <2>1 DEF Becomes, Shape, Has, LaunchSteps, CancelSteps, CleanupSteps, AgentAssumption
    <3> QED
      BY <2>1, <3>1, ShapesBecome
  <2> QED
    BY <1>8, <2>1, BootIs DEF Shapes
<1>9. ASSUME NEW t \in Tasks, NEW a \in Agents, NEW p \in AgentOrNone, Spawn(t, a, p) PROVE Shapes'
  <2>1. Becomes(t, "launch", "prepare", a, a, {}, "start", None, 0)
    BY <1>9, SpawnIs
  <2>2. Shape(task'[t])
    BY <2>1 DEF Becomes, Shape, Has, LaunchSteps, CancelSteps, CleanupSteps, AgentAssumption
  <2> QED
    BY <2>1, <2>2, ShapesBecome
<1>10. ASSUME NEW t \in Tasks, NEW a \in Agents, NEW m \in {"call", "loose"}, CancelOne(t, a, m) PROVE Shapes'
  <2>1. Becomes(t, m, "await", a, a, {}, "clean", None, 0)
    BY <1>10, CancelIs
  <2>2. Shape(task'[t])
    BY <2>1 DEF Becomes, Shape, Has, LaunchSteps, CancelSteps, CleanupSteps, AgentAssumption
  <2> QED
    BY <2>1, <2>2, ShapesBecome
<1>11. ASSUME NEW t \in Tasks, NEW a \in Agents, Interrupt(t, a) PROVE Shapes'
  <2>1. Cancels(t, "loose", a, "start", None, 0, Below(a), {a}) /\ Purpose("loose", a, "start", Below(a))
    BY <1>11, InterruptIs, NotBelow DEF Purpose
  <2> QED
    BY <2>1, ShapesCancel, Belows
<1>12. ASSUME NEW t \in Tasks, NEW a \in Agents, FinishTerminal(t, a) PROVE Shapes'
  <2>1. Cancels(t, "call", a, "start", None, 0, Below(a), {a}) /\ Purpose("call", a, "start", Below(a))
    BY <1>12, FinishTerminalIs, NotBelow DEF Purpose
  <2> QED
    BY <2>1, ShapesCancel, Belows
<1>13. ASSUME NEW t \in Tasks, NEW a \in Agents, RetryCleanup(t, a) PROVE Shapes'
  <2>1. Becomes(t, "call", "start", a, a, {}, "start", None, 0)
    BY <1>13, RetryCleanupIs
  <2>2. Shape(task'[t])
    BY <2>1 DEF Becomes, Shape, Has, LaunchSteps, CancelSteps, CleanupSteps, AgentAssumption
  <2> QED
    BY <2>1, <2>2, ShapesBecome
<1> QED
  BY <1>1, <1>2, <1>3, <1>4, <1>5, <1>6, <1>7, <1>8, <1>9, <1>10, <1>11, <1>12, <1>13, Zenon
  DEF Next, Cancel, CancelLoose, AgentOrNone

-----------------------------------------------------------------------------
(* The status of a run *)

\* The life of a run, apart from its reservation.
Later(s, u) ==
    \/ u = s
    \/ s = "SPAWNING" /\ u = "RUNNING"
    \/ s \in {"SPAWNING", "RUNNING"} /\ u = "CANCELLING"
    \/ s = "CANCELLING" /\ u = "ENDED"

Progress == \A a \in Agents : Later(status[a], status'[a])

Spawns == \E t \in Tasks, a \in Agents, p \in AgentOrNone : Spawn(t, a, p)

LEMMA ProgressKept == ASSUME status' = status PROVE Progress
BY DEF Progress, Later

LEMMA ProgressMarked ==
    ASSUME TypeOK, NEW S, \A a \in Agents : a \in S => status[a] \in Active, status' = Marked(S)
    PROVE  Progress
<1>1. \A a \in Agents : status'[a] = IF a \in S THEN "CANCELLING" ELSE status[a]
  BY MarkedIs
<1> QED
  BY <1>1 DEF Progress, Later, Active

LEMMA ProgressCancels ==
    ASSUME TypeOK, NEW t, NEW m, NEW w, NEW th, NEW b, NEW g, NEW S, NEW A, Cancels(t, m, w, th, b, g, S, A),
           \A a \in Agents : a \in S \union A => status[a] \in Active
    PROVE  Progress
<1>1. PICK M : status' = Marked(M) /\ \A a \in Agents : a \in M => status[a] \in Active
  BY DEF Cancels
<1> QED
  BY <1>1, ProgressMarked

LEMMA ProgressBelow ==
    ASSUME TypeOK, NEW t, NEW m, NEW w, NEW th, NEW b, NEW g, NEW x, NEW A,
           Cancels(t, m, w, th, b, g, Below(x), A), \A a \in A : status[a] \in Active
    PROVE  Progress
BY ProgressCancels DEF Below, ActiveAgents

LEMMA StatusStep ==
    ASSUME TypeOK, Shapes, TaskAgents, Repairing, [Next]_vars
    PROVE  Spawns \/ (Progress /\ UNCHANGED <<parent, agentGen, epoch>>)
<1> DEFINE Goal == Progress /\ UNCHANGED <<parent, agentGen, epoch>>
<1>1. CASE UNCHANGED vars
  BY <1>1, ProgressKept DEF vars, rows
<1>2. CASE Recover
  BY <1>2, RecoverIs, ProgressKept
<1>3. CASE Crash
  BY <1>3, CrashIs, ProgressKept DEF rows
<1>4. ASSUME NEW t \in Tasks, Run(t) PROVE Goal
  <2>1. CASE Prepare(t)
    BY <2>1, PrepareIs, ProgressKept DEF rows
  <2>2. CASE Issue(t)
    BY <2>2, IssueIs, ProgressKept DEF rows
  <2>3. CASE Launch(t)
    <3>1. UNCHANGED <<parent, agentGen, epoch>>
      BY <2>3, LaunchIs
    <3>2. CASE status' = status
      BY <3>1, <3>2, ProgressKept
    <3>3. CASE status[task[t].of] = "SPAWNING" /\ status' = [status EXCEPT ![task[t].of] = "RUNNING"]
      BY <3>1, <3>3 DEF Progress, Later, TypeOK
    <3> QED
      BY <2>3, <3>2, <3>3, LaunchIs
  <2>4. CASE SendStart(t)
    BY <2>4, SendStartIs, ProgressKept DEF rows
  <2>5. CASE FailLaunch(t)
    <3>1. task[t].do = "fail" /\ task[t].of \in Agents /\ UNCHANGED <<parent, agentGen, epoch>>
      BY <2>5, FailLaunchIs
    <3>2. CASE status' = status
      BY <3>1, <3>2, ProgressKept
    <3>3. CASE status[task[t].of] \notin {"CANCELLING", "ENDED"} /\ CancelsAs(t, Below(task[t].of), {task[t].of})
      <4>1. status[task[t].of] # "NONE" /\ status[task[t].of] \in Statuses
        BY <3>1 DEF TaskAgents, AgentsOf, Shapes, Shape, LaunchSteps, TypeOK
      <4>2. status[task[t].of] \in Active
        BY <3>3, <4>1 DEF Statuses, Active
      <4> QED
        BY <3>1, <3>3, <4>2, ProgressBelow DEF CancelsAs
    <3> QED
      BY <2>5, <3>2, <3>3, FailLaunchIs
  <2>6. CASE AwaitLaunch(t)
    <3>1. CASE status' = status
      BY <2>6, <3>1, AwaitLaunchIs, ProgressKept
    <3>2. CASE CancelsAs(t, Below(task[t].of), {})
      BY <2>6, <3>2, AwaitLaunchIs, ProgressBelow DEF CancelsAs
    <3> QED
      BY <2>6, <3>1, <3>2, AwaitLaunchIs
  <2>7. CASE CancelNext(t)
    <3>1. CancelsAs(t, task[t].left \intersect ActiveAgents, {})
      BY <2>7, CancelNextIs
    <3>2. \A a \in Agents : a \in (task[t].left \intersect ActiveAgents) \union {} => status[a] \in Active
      BY DEF ActiveAgents
    <3>3. Progress
      BY <3>1, <3>2, ProgressCancels DEF CancelsAs
    <3> QED
      BY <2>7, <3>3, CancelNextIs
  <2>8. CASE CleanOrJoin(t)
    BY <2>8, CleanOrJoinIs, ProgressKept
  <2>9. CASE Start(t)
    BY <2>9, StartIs, ProgressKept DEF rows
  <2>10. CASE Revoke(t)
    BY <2>10, RevokeIs, ProgressKept DEF rows
  <2>11. CASE RemoveBox(t)
    BY <2>11, RemoveBoxIs, ProgressKept
  <2>12. CASE Finish(t)
    <3>1. /\ task[t].of \in Agents /\ status' = [status EXCEPT ![task[t].of] = "ENDED"]
          /\ UNCHANGED <<parent, agentGen, epoch>> /\ task[t].do = "finish"
      BY <2>12, FinishIs
    <3>2. status[task[t].of] \in {"CANCELLING", "ENDED"}
      BY <3>1 DEF TaskAgents, AgentsOf, CancelSteps, CleanupSteps
    <3> QED
      BY <3>1, <3>2 DEF Progress, Later, TypeOK
  <2>13. CASE Rethrow(t)
    BY <2>13, RethrowIs, ProgressKept
  <2>14. CASE Closed(t)
    BY <2>14, ClosedIs, ProgressKept
  <2>15. CASE Expired(t)
    BY <2>15, ExpiredIs, ProgressKept
  <2>16. CASE Exit(t)
    BY <2>16, ExitIs, ProgressKept DEF rows
  <2>17. CASE Repair(t)
    <3>1. UNCHANGED <<parent, agentGen, epoch>> /\ task[t].mode = "boot"
      BY <2>17, RepairIs
    <3>2. CASE status' = status
      BY <3>1, <3>2, ProgressKept
    <3>3. ASSUME NEW a \in task[t].left, status' = Marked({a}) PROVE Progress
      <4>1. \A x \in Agents : x \in {a} => status[x] \in Active
        BY <3>1 DEF Repairing, ActiveAgents
      <4> QED
        BY <3>3, <4>1, ProgressMarked
    <3> QED
      BY <2>17, <3>1, <3>2, <3>3, RepairIs
  <2>18. CASE Admit(t)
    BY <2>18, AdmitIs, ProgressKept
  <2> QED
    BY <1>4, <2>1, <2>2, <2>3, <2>4, <2>5, <2>6, <2>7, <2>8, <2>9, <2>10, <2>11, <2>12, <2>13, <2>14, <2>15, <2>16,
       <2>17, <2>18, Zenon DEF Run
<1>5. ASSUME NEW t \in Tasks, Close(t) PROVE Goal
  <2>1. Cancels(t, "close", None, "closed", None, ws'.gen, ActiveAgents, {})
    BY <1>5, CloseIs
  <2>2. \A a \in Agents : a \in ActiveAgents \union {} => status[a] \in Active
    BY DEF ActiveAgents
  <2>3. Progress
    BY <2>1, <2>2, ProgressCancels
  <2> QED
    BY <1>5, <2>3, CloseIs
<1>6. ASSUME NEW t \in Tasks, Expire(t) PROVE Goal
  BY <1>6, ExpireIs, ProgressKept
<1>7. ASSUME NEW t \in Tasks, Shutdown(t) PROVE Goal
  <2>1. PICK E \in SUBSET ActiveAgents : Cancels(t, "stop", None, "exit", None, 0, E, {})
    BY <1>7, ShutdownIs
  <2>2. \A a \in Agents : a \in E \union {} => status[a] \in Active
    BY DEF ActiveAgents
  <2>3. Progress
    BY <2>1, <2>2, ProgressCancels
  <2> QED
    BY <1>7, <2>3, ShutdownIs
<1>8. ASSUME NEW t \in Tasks, Boot(t) PROVE Goal
  BY <1>8, BootIs, ProgressKept
<1>9. ASSUME NEW t \in Tasks, NEW a \in Agents, NEW m \in {"call", "loose"}, CancelOne(t, a, m) PROVE Goal
  <2>1. status[a] \in Active /\ status' = Marked({a}) /\ UNCHANGED <<parent, agentGen, epoch>>
    BY <1>9, CancelIs
  <2>2. \A x \in Agents : x \in {a} => status[x] \in Active
    BY <2>1
  <2> QED
    BY <2>1, <2>2, ProgressMarked
<1>10. ASSUME NEW t \in Tasks, NEW a \in Agents, Interrupt(t, a) PROVE Goal
  <2>1. Cancels(t, "loose", a, "start", None, 0, Below(a), {a}) /\ status[a] = "RUNNING"
    BY <1>10, InterruptIs
  <2> QED
    BY <1>10, <2>1, InterruptIs, ProgressBelow DEF Active
<1>11. ASSUME NEW t \in Tasks, NEW a \in Agents, FinishTerminal(t, a) PROVE Goal
  <2>1. Cancels(t, "call", a, "start", None, 0, Below(a), {a}) /\ status[a] \in {"RUNNING", "CANCELLING"}
    BY <1>11, FinishTerminalIs
  <2> QED
    BY <1>11, <2>1, FinishTerminalIs, ProgressBelow DEF Active
<1>12. ASSUME NEW t \in Tasks, NEW a \in Agents, RetryCleanup(t, a) PROVE Goal
  BY <1>12, RetryCleanupIs, ProgressKept DEF rows
<1> HIDE DEF Goal
<1>13. ASSUME NEW t \in Tasks, NEW a \in Agents, NEW p \in AgentOrNone, Spawn(t, a, p) PROVE Spawns
  BY <1>13 DEF Spawns
<1>14. Spawns \/ Goal
  BY <1>1, <1>2, <1>3, <1>4, <1>5, <1>6, <1>7, <1>8, <1>9, <1>10, <1>11, <1>12, <1>13, Zenon
  DEF Next, Cancel, CancelLoose, AgentOrNone, Goal
<1> QED
  BY <1>14 DEF Goal

-----------------------------------------------------------------------------
(* Descendants *)

LEMMA Children ==
    ASSUME NEW a, NEW d \in Agents, parent[d] = a \/ parent[d] \in Descendants(a)
    PROVE  d \in Descendants(a)
BY DEF Descendants

\* The descendants of a run are in every set that has its children and theirs.
LEMMA Least ==
    ASSUME NEW a, NEW S \in SUBSET Agents, \A e \in Agents : parent[e] \in S \union {a} => e \in S
    PROVE  Descendants(a) \subseteq S
BY DEF Descendants

LEMMA Parentage ==
    ASSUME NEW a, NEW d \in Descendants(a)
    PROVE  d \in Agents /\ (parent[d] = a \/ parent[d] \in Descendants(a))
<1>1. Descendants(a) \subseteq Agents
  BY DEF Descendants
<1> DEFINE S == {e \in Agents : parent[e] \in Descendants(a) \union {a}}
<1>2. S \subseteq Descendants(a)
  BY Children
<1>3. \A e \in Agents : parent[e] \in S \union {a} => e \in S
  BY <1>2
<1>4. Descendants(a) \subseteq S
  BY <1>3, Least
<1> QED
  BY <1>1, <1>4

LEMMA Transitive ==
    ASSUME NEW a, NEW b \in Descendants(a)
    PROVE  Descendants(b) \subseteq Descendants(a)
<1>1. Descendants(a) \in SUBSET Agents
  BY DEF Descendants
<1>2. \A e \in Agents : parent[e] \in Descendants(a) \union {b} => e \in Descendants(a)
  BY Children
<1> QED
  BY <1>1, <1>2, Least

LEMMA SameDescendants == ASSUME parent' = parent PROVE \A x : Descendants(x)' = Descendants(x)
BY DEF Descendants

\* A run that is reserved is a new leaf.
LEMMA SpawnGrows ==
    ASSUME TypeOK, Forest, AgentAssumption, NEW t \in Tasks, NEW a \in Agents, NEW p \in AgentOrNone, Spawn(t, a, p)
    PROVE  /\ parent[a] = None /\ (\A e \in Agents : parent[e] # a) /\ p # a
           /\ parent'[a] = p /\ (\A e \in Agents : e # a => parent'[e] = parent[e])
           /\ \A x \in Agents : Descendants(x) \subseteq Descendants(x)' /\ Descendants(x)' \subseteq Descendants(x) \union {a}
           /\ Descendants(a)' = {}
           /\ \A x \in Agents : a \in Descendants(x)' => p = x \/ p \in Descendants(x)
<1>1. /\ status[a] = "NONE" /\ parent' = [parent EXCEPT ![a] = p]
      /\ p # None => p \in Agents /\ status[p] = "RUNNING"
  BY SpawnIs
<1>2. /\ parent[a] = None /\ p # a /\ parent'[a] = p /\ (\A e \in Agents : e # a => parent'[e] = parent[e])
  BY <1>1 DEF Forest, TypeOK, AgentAssumption
<1>3. \A e \in Agents : parent[e] # a
  BY <1>1 DEF Forest, TypeOK, AgentAssumption
<1>4. ASSUME NEW x \in Agents PROVE Descendants(x) \subseteq Descendants(x)'
  <2>1. SUFFICES ASSUME NEW S \in SUBSET Agents, \A e \in Agents : parent'[e] \in S \union {x} => e \in S
                 PROVE  Descendants(x) \subseteq S
    BY DEF Descendants
  <2>2. \A e \in Agents : parent[e] \in S \union {x} => e \in S
    BY <1>2, <2>1 DEF AgentAssumption
  <2> QED
    BY <2>2, Least
<1>5. ASSUME NEW x \in Agents PROVE Descendants(x)' \subseteq Descendants(x) \union {a}
  <2> DEFINE S == Descendants(x) \union {a}
  <2>1. S \in SUBSET Agents
    BY DEF Descendants
  <2>2. \A e \in Agents : parent'[e] \in S \union {x} => e \in S
    <3>1. SUFFICES ASSUME NEW e \in Agents, parent'[e] \in S \union {x}, e # a PROVE e \in Descendants(x)
      OBVIOUS
    <3>2. parent[e] \in Descendants(x) \union {x}
      BY <1>2, <1>3, <3>1
    <3> QED
      BY <3>2, Children
  <2> HIDE DEF S
  <2>3. Descendants(x)' \subseteq S
    BY <2>1, <2>2 DEF Descendants
  <2> QED
    BY <2>3 DEF S
<1>6. Descendants(a)' = {}
  <2>1. \A e \in Agents : parent'[e] \in {} \union {a} => e \in {}
    BY <1>2, <1>3
  <2> QED
    BY <2>1 DEF Descendants
<1>7. ASSUME NEW x \in Agents, a \in Descendants(x)', p # x PROVE p \in Descendants(x)
  <2>1. ASSUME p \notin Descendants(x) PROVE FALSE
    <3>1. \A e \in Agents : parent'[e] \in Descendants(x) \union {x} => e \in Descendants(x)
      BY <1>2, <1>7, <2>1, Children
    <3>2. Descendants(x) \in SUBSET Agents
      BY DEF Descendants
    <3>3. a \in Descendants(x)
      BY <1>7, <3>1, <3>2 DEF Descendants
    <3> QED
      BY <1>2, <1>7, <2>1, <3>3, Parentage DEF AgentAssumption, Descendants
  <2> QED
    BY <2>1
<1> QED
  BY <1>2, <1>3, <1>4, <1>5, <1>6, <1>7

\* What a step does to the tree of runs.
Grows == \A x \in Agents : Descendants(x) \subseteq Descendants(x)'

LEMMA GrowsStep ==
    ASSUME AgentAssumption, TypeOK, Forest, Spawns \/ UNCHANGED parent
    PROVE  Grows
BY SpawnGrows, SameDescendants, Zenon DEF Spawns, Grows

LEMMA ForestStep ==
    ASSUME AgentAssumption, TypeOK, Forest, Spawns \/ (Progress /\ UNCHANGED parent)
    PROVE  Forest'
<1>1. ASSUME Progress, UNCHANGED parent PROVE Forest'
  <2>1. \A a \in Agents : Descendants(a)' = Descendants(a)
    BY <1>1, SameDescendants
  <2>2. \A a \in Agents : status[a] \notin {"NONE", "SPAWNING"} => status'[a] \notin {"NONE", "SPAWNING"}
    BY <1>1 DEF Progress, Later
  <2>3. \A a \in Agents : status[a] # "NONE" => status'[a] # "NONE"
    BY <1>1 DEF Progress, Later
  <2>4. \A a \in Agents : parent[a] # None => parent[a] \in Agents
    BY DEF TypeOK
  <2> QED
    BY <1>1, <2>1, <2>2, <2>3, <2>4 DEF Forest
<1>2. ASSUME NEW t \in Tasks, NEW a \in Agents, NEW p \in AgentOrNone, Spawn(t, a, p) PROVE Forest'
  <2>1. /\ parent[a] = None /\ (\A e \in Agents : parent[e] # a) /\ p # a
        /\ parent'[a] = p /\ (\A e \in Agents : e # a => parent'[e] = parent[e])
        /\ \A x \in Agents : Descendants(x)' \subseteq Descendants(x) \union {a}
        /\ Descendants(a)' = {}
    BY <1>2, SpawnGrows
  <2>2. /\ status' = [status EXCEPT ![a] = "SPAWNING"]
        /\ p # None => p \in Agents /\ status[p] = "RUNNING"
    BY <1>2, SpawnIs, Zenon
  <2>3. \A x \in Agents : x \notin Descendants(x)'
    BY <2>1 DEF Forest
  <2>4. \A x \in Agents : parent'[x] # None => status'[x] # "NONE" /\ status'[parent'[x]] \notin {"NONE", "SPAWNING"}
    BY <2>1, <2>2 DEF Forest, TypeOK
  <2> QED
    BY <2>3, <2>4 DEF Forest
<1> QED
  BY <1>1, <1>2, Zenon DEF Spawns

-----------------------------------------------------------------------------
(* What the agents of a task have been through *)

\* A step of some task leaves what holds of a record true.
LEMMA AgentsKept ==
    ASSUME AgentAssumption, TypeOK, Forest, Spawns \/ (Progress /\ UNCHANGED parent),
           NEW r \in Record, Shape(r), AgentsOf(r)
    PROVE  AgentsOf(r)'
<1>1. Grows
  BY GrowsStep
<1>2. \A a \in Agents : /\ status[a] # "NONE" => status'[a] # "NONE"
                        /\ status[a] \in {"CANCELLING", "ENDED"} => status'[a] \in {"CANCELLING", "ENDED"}
  <2>1. CASE Progress
    BY <2>1 DEF Progress, Later
  <2>2. CASE Spawns
    <3>1. PICK t \in Tasks, a \in Agents, p \in AgentOrNone : Spawn(t, a, p)
      BY <2>2 DEF Spawns
    <3>2. status' = [status EXCEPT ![a] = "SPAWNING"] /\ status[a] = "NONE"
      BY <3>1, SpawnIs
    <3> QED
      BY <3>2 DEF TypeOK
  <2> QED
    BY <2>1, <2>2
<1>3. /\ r.do \in LaunchSteps => r.own \in Agents
      /\ r.do \in CancelSteps \union {"rethrow"} => r.of \in Agents
      /\ \A a \in r.left : a \in Agents
  BY DEF Shape, Record
<1>4. r.own \in Agents => Descendants(r.own) \subseteq Descendants(r.own)'
  BY <1>1 DEF Grows
<1>5. /\ r.do \in LaunchSteps => status'[r.own] # "NONE"
      /\ r.own \in Agents /\ r.do \notin LaunchSteps => status'[r.own] \in {"CANCELLING", "ENDED"}
      /\ r.do \in CancelSteps \union {"rethrow"} => status'[r.of] \in {"CANCELLING", "ENDED"}
      /\ \A a \in r.left : status'[a] # "NONE"
  BY <1>2, <1>3 DEF AgentsOf
<1>6. r.own \in Agents => /\ r.left \subseteq Descendants(r.own)'
                          /\ r.of # r.own => r.of \in Descendants(r.own)'
  <2>1. r.own \in Agents => /\ r.left \subseteq Descendants(r.own)
                            /\ r.of # r.own => r.of \in Descendants(r.own)
    BY DEF AgentsOf
  <2> QED
    BY <1>4, <2>1
<1> QED
  BY <1>5, <1>6 DEF AgentsOf

\* A task that is further with the same agents.
Carries(r, q) ==
    /\ q.of = r.of /\ q.own = r.own /\ q.left = r.left
    /\ q.do \in LaunchSteps => r.do \in LaunchSteps
    /\ q.do \notin LaunchSteps => r.do \notin LaunchSteps
    /\ q.do \in CancelSteps \union {"rethrow"} => r.do \in CancelSteps \union {"rethrow"}

LEMMA AgentsCarried ==
    ASSUME NEW r, NEW q, Carries(r, q), AgentsOf(r)'
    PROVE  AgentsOf(q)'
BY DEF AgentsOf, Carries

LEMMA IdleAgents == ASSUME AgentAssumption PROVE AgentsOf(Idle)'
<1>1. Has(Idle, "idle", "none", None, None, {}, "none", None, 0)
  BY IdleIs
<1> QED
  BY <1>1 DEF AgentsOf, Has, AgentAssumption, LaunchSteps, CancelSteps, CleanupSteps

\* The facts a step starts from.
Ground == AgentAssumption /\ TypeOK /\ Shapes /\ Forest /\ TaskAgents /\ (Spawns \/ (Progress /\ UNCHANGED parent))

LEMMA TasksKept == ASSUME Ground, NEW v \in Tasks, NEW r, r = task[v] PROVE AgentsOf(r)'
<1>1. r \in Record /\ Shape(r) /\ AgentsOf(r)
  BY DEF Ground, TypeOK, Shapes, TaskAgents
<1> QED
  BY <1>1, AgentsKept DEF Ground

LEMMA AgentsAll == ASSUME \A v \in Tasks : \E q : q = task'[v] /\ AgentsOf(q)' PROVE TaskAgents'
BY DEF TaskAgents, AgentsOf

LEMMA AgentsBecome ==
    ASSUME Ground, NEW t \in Tasks, \A u \in Tasks : u # t => task'[u] = task[u], NEW q, q = task'[t], AgentsOf(q)'
    PROVE  TaskAgents'
<1>1. ASSUME NEW v \in Tasks PROVE \E x : x = task'[v] /\ AgentsOf(x)'
  BY TasksKept
<1> QED
  BY <1>1, AgentsAll

LEMMA AgentsEnd == ASSUME Ground, NEW t \in Tasks, Ends(t) PROVE TaskAgents'
BY IdleAgents, AgentsBecome DEF Ends, Ground

LEMMA AgentsFall == ASSUME Ground, Falls PROVE TaskAgents'
BY IdleAgents, AgentsAll DEF Falls, Ground

\* The task `t` goes on with the same agents.
LEMMA AgentsMove ==
    ASSUME Ground, NEW t \in Tasks, NEW m, NEW e, NEW b,
           Becomes(t, m, e, task[t].of, task[t].own, task[t].left, task[t].then, b, task[t].gen),
           \/ task[t].do \in LaunchSteps /\ e \in LaunchSteps
           \/ task[t].do \in CancelSteps /\ e \in CancelSteps
           \/ task[t].do = "next" /\ e = "admit"
    PROVE  TaskAgents'
<1>1. PICK r, q : r = task[t] /\ q = task'[t]
  OBVIOUS
<1>2. AgentsOf(r)'
  BY <1>1, TasksKept
<1>3. Carries(r, q)
  BY <1>1 DEF Becomes, Has, Carries, LaunchSteps, CancelSteps, CleanupSteps
<1>4. AgentsOf(q)'
  BY <1>2, <1>3, AgentsCarried
<1> QED
  BY <1>1, <1>4, AgentsBecome DEF Becomes

LEMMA AgentsCancel ==
    ASSUME Ground, NEW t \in Tasks, NEW m, NEW w, NEW th, NEW b, NEW g, NEW S \in SUBSET Agents, NEW A,
           Cancels(t, m, w, th, b, g, S, A), Purpose(m, w, th, S),
           \A d \in S : status[d] \in Active,
           w \in Agents => S \subseteq Descendants(w) /\ status'[w] \in {"CANCELLING", "ENDED"}
    PROVE  TaskAgents'
<1>1. PICK q : q = task'[t]
  OBVIOUS
<1>2. \A u \in Tasks : u # t => task'[u] = task[u]
  BY DEF Cancels, Becomes
<1>3. w \in Agents => S \subseteq Descendants(w)'
  BY GrowsStep DEF Ground, Grows
<1>4. CASE Becomes(t, m, th, w, w, {}, th, b, g)
  <2>1. q.do = th /\ q.of = w /\ q.own = w /\ q.left = {}
    BY <1>1, <1>4 DEF Becomes, Has
  <2>2. AgentsOf(q)'
    BY <2>1 DEF Purpose, AgentsOf, LaunchSteps, CancelSteps, CleanupSteps, Ground, AgentAssumption
  <2> QED
    BY <1>1, <1>2, <2>2, AgentsBecome
<1>5. ASSUME NEW d \in S, Becomes(t, m, "await", d, w, S \ {d}, th, b, g), status' = Marked(A \union {d})
      PROVE  TaskAgents'
  <2>1. q.do = "await" /\ q.of = d /\ q.own = w /\ q.left = S \ {d}
    BY <1>1, <1>5 DEF Becomes, Has
  <2>2. status'[d] = "CANCELLING" /\ \A a \in S : status'[a] # "NONE"
    <3>1. TypeOK
      BY DEF Ground
    <3>2. \A a \in Agents : status'[a] = IF a \in A \union {d} THEN "CANCELLING" ELSE status[a]
      BY <1>5, <3>1, MarkedIs
    <3> QED
      BY <3>2 DEF Active
  <2>3. AgentsOf(q)'
    BY <1>3, <2>1, <2>2 DEF Purpose, AgentsOf, LaunchSteps, CancelSteps, CleanupSteps, Ground, AgentAssumption
  <2> QED
    BY <1>1, <1>2, <2>3, AgentsBecome
<1> QED
  BY <1>4, <1>5 DEF Cancels

LEMMA AgentsThrow == ASSUME Ground, NEW t \in Tasks, NEW f, Thrown(t, f) PROVE TaskAgents'
<1>1. CASE Throws(t)
  <2>1. SUFFICES ASSUME NEW v \in Tasks PROVE \E q : q = task'[v] /\ AgentsOf(q)'
    BY AgentsAll
  <2>2. PICK r, q : r = task[v] /\ q = task'[v]
    OBVIOUS
  <2>3. AgentsOf(r)'
    BY <2>2, TasksKept
  <2>4. CASE v = t
    BY <1>1, <2>4, IdleAgents DEF Throws, Ground
  <2>5. CASE v # t /\ ~Awaits(v, t)
    BY <1>1, <2>2, <2>3, <2>5 DEF Throws
  <2>6. CASE v # t /\ Awaits(v, t)
    <3>1. /\ Has(task'[v], task[v].mode, "rethrow", task[v].of, task[v].own, task[v].left, task[v].then, task[v].by, task[v].gen)
          /\ task[v].do \in {"join", "await"}
      BY <1>1, <2>6 DEF Throws, Awaits, At
    <3>2. Carries(r, q)
      BY <2>2, <3>1 DEF Has, Carries, LaunchSteps, CancelSteps, CleanupSteps
    <3> QED
      BY <2>2, <2>3, <3>2, AgentsCarried
  <2> QED
    BY <2>4, <2>5, <2>6
<1> QED
  BY <1>1, AgentsFall DEF Thrown

LEMMA AgentsConclude ==
    ASSUME Ground, NEW t \in Tasks, task[t].do = "finish",
           \A v \in Tasks : /\ v = t \/ Joined(v, t) => Concludes(v)
                            /\ v # t /\ ~Joined(v, t) => task'[v] = task[v]
    PROVE  TaskAgents'
<1>1. SUFFICES ASSUME NEW v \in Tasks PROVE \E q : q = task'[v] /\ AgentsOf(q)'
  BY AgentsAll
<1>2. PICK r, q : r = task[v] /\ q = task'[v]
  OBVIOUS
<1>3. AgentsOf(r)'
  BY <1>2, TasksKept
<1>4. CASE v # t /\ ~Joined(v, t)
  BY <1>2, <1>3, <1>4
<1>5. CASE v = t \/ Joined(v, t)
  <2>1. Concludes(v) /\ task[v].do \in {"finish", "join"}
    BY <1>5 DEF Joined
  <2>2. CASE task[v].of = task[v].own
    BY <2>1, <2>2, IdleAgents DEF Concludes, Ground
  <2>3. CASE task[v].of # task[v].own
    <3>1. Has(task'[v], task[v].mode, "next", task[v].of, task[v].own, task[v].left, task[v].then, None, task[v].gen)
      BY <2>1, <2>3 DEF Concludes
    <3>2. Carries(r, q)
      BY <1>2, <2>1, <3>1 DEF Has, Carries, LaunchSteps, CancelSteps, CleanupSteps
    <3> QED
      BY <1>2, <1>3, <3>2, AgentsCarried
  <2> QED
    BY <2>2, <2>3
<1> QED
  BY <1>4, <1>5

LEMMA MarkedAll ==
    ASSUME TypeOK, NEW t, NEW m, NEW w, NEW th, NEW b, NEW g, NEW S, NEW A, Cancels(t, m, w, th, b, g, S, A),
           NEW a \in A, a \in Agents
    PROVE  status'[a] = "CANCELLING"
<1>1. \/ status' = Marked(A)
      \/ \E d \in S : status' = Marked(A \union {d})
  BY Zenon DEF Cancels
<1> QED
  BY <1>1, MarkedIs

LEMMA StaysEnding ==
    ASSUME Progress, NEW a \in Agents, status[a] \in {"CANCELLING", "ENDED"}
    PROVE  status'[a] \in {"CANCELLING", "ENDED"}
BY DEF Progress, Later

LEMMA TaskAgentsStep ==
    ASSUME AgentAssumption, TypeOK, Shapes, Forest, TaskAgents, Repairing, [Next]_vars
    PROVE  TaskAgents'
<1>0. Ground
  BY StatusStep DEF Ground
<1>1. CASE UNCHANGED vars
  <2>1. UNCHANGED <<task, status, parent>>
    BY <1>1 DEF vars, rows, process
  <2> QED
    BY <1>0, <2>1, TasksKept, AgentsAll
<1>2. CASE Recover
  <2>1. UNCHANGED task
    BY <1>2, RecoverIs DEF process
  <2> QED
    BY <1>0, <2>1, TasksKept, AgentsAll
<1>3. CASE Crash
  BY <1>0, <1>3, CrashIs, AgentsFall
<1>4. ASSUME NEW t \in Tasks, Run(t) PROVE TaskAgents'
  <2>0. Shape(task[t]) /\ task[t] \in Record /\ AgentsOf(task[t])
    BY DEF Shapes, TypeOK, TaskAgents
  <2>1. CASE Prepare(t)
    BY <1>0, <2>1, PrepareIs, AgentsMove, AgentsEnd DEF LaunchSteps, Moves
  <2>2. CASE Issue(t)
    BY <1>0, <2>2, IssueIs, AgentsMove DEF LaunchSteps, Moves
  <2>3. CASE Launch(t)
    BY <1>0, <2>3, LaunchIs, AgentsMove DEF LaunchSteps, Moves
  <2>4. CASE SendStart(t)
    BY <1>0, <2>4, SendStartIs, AgentsMove, AgentsEnd DEF LaunchSteps, Moves
  <2>5. CASE FailLaunch(t)
    <3>1. task[t].do = "fail" /\ task[t].mode = "launch" /\ task[t].own = task[t].of /\ task[t].of \in Agents
      BY <2>0, <2>5, FailLaunchIs DEF Shape, LaunchSteps
    <3>2. Purpose(task[t].mode, task[t].own, task[t].then, Below(task[t].of))
      BY <3>1, Purposes
    <3>3. ASSUME CancelsAs(t, Below(task[t].of), {task[t].of}) PROVE TaskAgents'
      <4>1. status'[task[t].own] = "CANCELLING"
        BY <3>1, <3>3, MarkedAll DEF CancelsAs
      <4>2. Below(task[t].of) \subseteq Descendants(task[t].own) /\ \A d \in Below(task[t].of) : status[d] \in Active
        BY <3>1 DEF Below, ActiveAgents
      <4> QED
        BY <1>0, <3>2, <3>3, <4>1, <4>2, AgentsCancel, Belows DEF CancelsAs
    <3> QED
      BY <1>0, <2>5, <3>3, FailLaunchIs, AgentsEnd
  <2>6. CASE AwaitLaunch(t)
    <3>1. task[t].do = "await" /\ task[t].of \in Agents /\ status'[task[t].of] \in {"CANCELLING", "ENDED"}
      <4>1. task[t].do = "await" /\ task[t].of \in Agents /\ parent' = parent
        BY <2>6, AwaitLaunchIs
      <4>2. status[task[t].of] \in {"CANCELLING", "ENDED"}
        BY <2>0, <4>1 DEF AgentsOf, CancelSteps
      <4>3. Progress
        <5>1. CASE status' = status
          BY <5>1, ProgressKept
        <5>2. CASE CancelsAs(t, Below(task[t].of), {})
          BY <5>2, ProgressBelow DEF CancelsAs
        <5> QED
          BY <2>6, <5>1, <5>2, AwaitLaunchIs
      <4> QED
        BY <4>1, <4>2, <4>3, StaysEnding
    <3>2. CASE task[t].of = task[t].own /\ CancelsAs(t, Below(task[t].of), {})
      <4>1. task[t].mode \notin {"idle", "boot"}
        BY <2>0, <3>1 DEF Shape, CleanupSteps
      <4>2. Purpose(task[t].mode, task[t].own, task[t].then, Below(task[t].of))
        BY <3>1, <3>2, <4>1, Purposes
      <4>3. Below(task[t].of) \subseteq Descendants(task[t].own) /\ \A d \in Below(task[t].of) : status[d] \in Active
        BY <3>2 DEF Below, ActiveAgents
      <4> QED
        BY <1>0, <3>1, <3>2, <4>2, <4>3, AgentsCancel, Belows DEF CancelsAs
    <3>3. CASE Moves(t, "clean")
      BY <1>0, <3>1, <3>3, AgentsMove DEF CancelSteps, Moves
    <3> QED
      BY <2>6, <3>2, <3>3, AwaitLaunchIs
  <2>7. CASE CancelNext(t)
    <3>1. task[t].do = "next" /\ task[t].mode \notin {"idle", "boot"} /\ CancelsAs(t, task[t].left \intersect ActiveAgents, {})
      BY <2>0, <2>7, CancelNextIs DEF Shape
    <3>2. Purpose(task[t].mode, task[t].own, task[t].then, task[t].left \intersect ActiveAgents)
      BY <3>1, Purposes
    <3>3. /\ task[t].left \intersect ActiveAgents \in SUBSET Agents
          /\ \A d \in task[t].left \intersect ActiveAgents : status[d] \in Active
      BY DEF ActiveAgents
    <3>4. ASSUME task[t].own \in Agents
          PROVE  /\ task[t].left \intersect ActiveAgents \subseteq Descendants(task[t].own)
                 /\ status'[task[t].own] \in {"CANCELLING", "ENDED"}
      <4>1. Progress
        BY <3>1, <3>3, ProgressCancels DEF CancelsAs
      <4>2. status[task[t].own] \in {"CANCELLING", "ENDED"} /\ task[t].left \subseteq Descendants(task[t].own)
        BY <2>0, <3>1, <3>4 DEF AgentsOf, LaunchSteps
      <4> QED
        BY <3>4, <4>1, <4>2, StaysEnding
    <3> QED
      BY <1>0, <3>1, <3>2, <3>3, <3>4, AgentsCancel DEF CancelsAs
  <2>8. CASE CleanOrJoin(t)
    <3>1. CASE Thrown(t, runtime)
      BY <1>0, <3>1, AgentsThrow
    <3>2. CASE Moves(t, "revoke")
      BY <1>0, <2>8, <3>2, CleanOrJoinIs, AgentsMove DEF CancelSteps, CleanupSteps, Moves
    <3>3. CASE Becomes(t, task[t].mode, "join", task[t].of, task[t].own, task[t].left, task[t].then,
                       runtime[task[t].of], task[t].gen)
      BY <1>0, <2>8, <3>3, CleanOrJoinIs, AgentsMove DEF CancelSteps
    <3> QED
      BY <2>8, <3>1, <3>2, <3>3, CleanOrJoinIs
  <2>9. CASE Start(t)
    BY <1>0, <2>9, StartIs, AgentsMove DEF CancelSteps, CleanupSteps
  <2>10. CASE Revoke(t)
    BY <1>0, <2>10, RevokeIs, AgentsMove DEF CancelSteps, CleanupSteps, Moves
  <2>11. CASE RemoveBox(t)
    BY <1>0, <2>11, RemoveBoxIs, AgentsMove, AgentsThrow DEF CancelSteps, CleanupSteps, Moves
  <2>12. CASE Finish(t)
    BY <1>0, <2>12, FinishIs, AgentsConclude
  <2>13. CASE Rethrow(t)
    BY <1>0, <2>13, RethrowIs, AgentsThrow
  <2>14. CASE Closed(t)
    BY <1>0, <2>14, ClosedIs, AgentsEnd
  <2>15. CASE Expired(t)
    BY <1>0, <2>15, ExpiredIs, AgentsEnd
  <2>16. CASE Exit(t)
    BY <1>0, <2>16, ExitIs, AgentsFall
  <2>17. CASE Repair(t)
    <3>1. task[t].do = "next" /\ task[t].mode = "boot" /\ task[t].own = None
      BY <2>0, <2>17, RepairIs DEF Shape
    <3>2. CASE Moves(t, "admit")
      BY <1>0, <3>1, <3>2, AgentsMove DEF Moves
    <3>3. ASSUME NEW a \in task[t].left, status' = Marked({a}),
                 Becomes(t, "boot", "revoke", a, task[t].own, task[t].left \ {a}, task[t].then, task[t].by, task[t].gen)
          PROVE  TaskAgents'
      <4>1. PICK q : q = task'[t]
        OBVIOUS
      <4>2. q.do = "revoke" /\ q.of = a /\ q.own = None /\ q.left = task[t].left \ {a}
        BY <3>1, <3>3, <4>1 DEF Becomes, Has
      <4>3. \A e \in Agents : status'[e] = IF e = a THEN "CANCELLING" ELSE status[e]
        BY <3>3, MarkedIs
      <4>4. task[t].left \subseteq Agents /\ \A e \in task[t].left : status[e] # "NONE"
        BY <2>0 DEF Record, AgentsOf
      <4>5. AgentsOf(q)'
        BY <4>2, <4>3, <4>4 DEF AgentsOf, LaunchSteps, CancelSteps, CleanupSteps, AgentAssumption
      <4> QED
        BY <1>0, <3>3, <4>1, <4>5, AgentsBecome DEF Becomes
    <3> QED
      BY <2>17, <3>2, <3>3, RepairIs
  <2>18. CASE Admit(t)
    BY <1>0, <2>18, AdmitIs, AgentsEnd, AgentsFall
  <2> QED
    BY <1>4, <2>1, <2>2, <2>3, <2>4, <2>5, <2>6, <2>7, <2>8, <2>9, <2>10, <2>11, <2>12, <2>13, <2>14, <2>15, <2>16,
       <2>17, <2>18, Zenon DEF Run
<1>5. ASSUME NEW t \in Tasks, Close(t) PROVE TaskAgents'
  <2>1. Cancels(t, "close", None, "closed", None, ws'.gen, ActiveAgents, {})
    BY <1>5, CloseIs
  <2> QED
    BY <1>0, <2>1, AgentsCancel, Belows DEF Purpose, ActiveAgents, AgentAssumption
<1>6. ASSUME NEW t \in Tasks, Expire(t) PROVE TaskAgents'
  <2>1. Becomes(t, "call", "expired", None, None, {}, "none", None, ws.gen + 1)
    BY <1>6, ExpireIs
  <2>2. PICK q : q = task'[t]
    OBVIOUS
  <2>3. AgentsOf(q)'
    BY <2>1, <2>2 DEF Becomes, Has, AgentsOf, LaunchSteps, CancelSteps, CleanupSteps, AgentAssumption
  <2> QED
    BY <1>0, <2>1, <2>2, <2>3, AgentsBecome DEF Becomes
<1>7. ASSUME NEW t \in Tasks, Shutdown(t) PROVE TaskAgents'
  <2>1. PICK E \in SUBSET ActiveAgents : Cancels(t, "stop", None, "exit", None, 0, E, {})
    BY <1>7, ShutdownIs
  <2>2. E \in SUBSET Agents /\ \A d \in E : status[d] \in Active
    BY DEF ActiveAgents
  <2> QED
    BY <1>0, <2>1, <2>2, AgentsCancel DEF Purpose, AgentAssumption
<1>8. ASSUME NEW t \in Tasks, Boot(t) PROVE TaskAgents'
  <2>1. CASE Becomes(t, "boot", "next", None, None, Unreconciled, "none", None, 0)
    <3>1. PICK q : q = task'[t]
      OBVIOUS
    <3>2. q.do = "next" /\ q.own = None /\ q.left = Unreconciled
      BY <2>1, <3>1 DEF Becomes, Has
    <3>3. \A a \in Unreconciled : status'[a] # "NONE"
      <4>1. status' = status
        BY <1>8, BootIs
      <4> QED
        BY <4>1 DEF Unreconciled, ActiveAgents, Active
    <3>4. AgentsOf(q)'
      BY <3>2, <3>3 DEF AgentsOf, LaunchSteps, CancelSteps, CleanupSteps, AgentAssumption
    <3> QED
      BY <1>0, <2>1, <3>1, <3>4, AgentsBecome DEF Becomes
  <2>2. CASE UNCHANGED task
    BY <1>0, <2>2, TasksKept, AgentsAll
  <2> QED
    BY <1>8, <2>1, <2>2, BootIs
<1>9. ASSUME NEW t \in Tasks, NEW a \in Agents, NEW p \in AgentOrNone, Spawn(t, a, p) PROVE TaskAgents'
  <2>1. Becomes(t, "launch", "prepare", a, a, {}, "start", None, 0) /\ status' = [status EXCEPT ![a] = "SPAWNING"]
    BY <1>9, SpawnIs
  <2>2. PICK q : q = task'[t]
    OBVIOUS
  <2>3. q.do = "prepare" /\ q.of = a /\ q.own = a /\ q.left = {} /\ status'[a] # "NONE"
    BY <2>1, <2>2 DEF Becomes, Has, TypeOK
  <2>4. AgentsOf(q)'
    BY <2>3 DEF AgentsOf, LaunchSteps, CancelSteps, CleanupSteps
  <2> QED
    BY <1>0, <2>1, <2>2, <2>4, AgentsBecome DEF Becomes
<1>10. ASSUME NEW t \in Tasks, NEW a \in Agents, NEW m \in {"call", "loose"}, CancelOne(t, a, m) PROVE TaskAgents'
  <2>1. Becomes(t, m, "await", a, a, {}, "clean", None, 0) /\ status' = Marked({a})
    BY <1>10, CancelIs
  <2>2. PICK q : q = task'[t]
    OBVIOUS
  <2>3. q.do = "await" /\ q.of = a /\ q.own = a /\ q.left = {} /\ status'[a] = "CANCELLING"
    BY <2>1, <2>2, MarkedIs DEF Becomes, Has
  <2>4. AgentsOf(q)'
    BY <2>3 DEF AgentsOf, LaunchSteps, CancelSteps, CleanupSteps
  <2> QED
    BY <1>0, <2>1, <2>2, <2>4, AgentsBecome DEF Becomes
<1>11. ASSUME NEW t \in Tasks, NEW a \in Agents, Interrupt(t, a) PROVE TaskAgents'
  <2>1. Cancels(t, "loose", a, "start", None, 0, Below(a), {a}) /\ Purpose("loose", a, "start", Below(a))
    BY <1>11, InterruptIs, NotBelow DEF Purpose
  <2>2. status'[a] = "CANCELLING"
    BY <2>1, MarkedAll
  <2>3. Below(a) \subseteq Descendants(a) /\ \A d \in Below(a) : status[d] \in Active
    BY DEF Below, ActiveAgents
  <2> QED
    BY <1>0, <2>1, <2>2, <2>3, AgentsCancel, Belows
<1>12. ASSUME NEW t \in Tasks, NEW a \in Agents, FinishTerminal(t, a) PROVE TaskAgents'
  <2>1. Cancels(t, "call", a, "start", None, 0, Below(a), {a}) /\ Purpose("call", a, "start", Below(a))
    BY <1>12, FinishTerminalIs, NotBelow DEF Purpose
  <2>2. status'[a] = "CANCELLING"
    BY <2>1, MarkedAll
  <2>3. Below(a) \subseteq Descendants(a) /\ \A d \in Below(a) : status[d] \in Active
    BY DEF Below, ActiveAgents
  <2> QED
    BY <1>0, <2>1, <2>2, <2>3, AgentsCancel, Belows
<1>13. ASSUME NEW t \in Tasks, NEW a \in Agents, RetryCleanup(t, a) PROVE TaskAgents'
  <2>1. Becomes(t, "call", "start", a, a, {}, "start", None, 0) /\ status'[a] = "CANCELLING"
    BY <1>13, RetryCleanupIs DEF rows
  <2>2. PICK q : q = task'[t]
    OBVIOUS
  <2>3. q.do = "start" /\ q.of = a /\ q.own = a /\ q.left = {}
    BY <2>1, <2>2 DEF Becomes, Has
  <2>4. AgentsOf(q)'
    BY <2>1, <2>3 DEF AgentsOf, LaunchSteps, CancelSteps, CleanupSteps
  <2> QED
    BY <1>0, <2>1, <2>2, <2>4, AgentsBecome DEF Becomes
<1> QED
  BY <1>1, <1>2, <1>3, <1>4, <1>5, <1>6, <1>7, <1>8, <1>9, <1>10, <1>11, <1>12, <1>13, Zenon
  DEF Next, Cancel, CancelLoose, AgentOrNone

-----------------------------------------------------------------------------
(* The process and its tasks *)

\* A task goes on, with the same purpose, or is done.
Tame ==
    \A v \in Tasks :
        \/ task'[v] = task[v] \/ task'[v] = Idle
        \/ /\ task[v].mode # "idle"
           /\ task'[v].mode = task[v].mode \/ (task[v].mode = "loose" /\ task'[v].mode = "call")
           /\ task'[v].own = task[v].own /\ task'[v].gen = task[v].gen /\ task'[v].then = task[v].then

LEMMA TameBecome ==
    ASSUME NEW t \in Tasks, task[t].mode # "idle", NEW m, NEW d, NEW o, NEW S, NEW b,
           Becomes(t, m, d, o, task[t].own, S, task[t].then, b, task[t].gen),
           m = task[t].mode \/ (task[t].mode = "loose" /\ m = "call")
    PROVE  Tame
BY DEF Becomes, Has, Tame

LEMMA TameEnd == ASSUME NEW t \in Tasks, Ends(t) PROVE Tame
BY DEF Ends, Tame

LEMMA TameMove == ASSUME NEW t \in Tasks, task[t].mode # "idle", NEW d, Moves(t, d) PROVE Tame
BY TameBecome DEF Moves

LEMMA TameCancel ==
    ASSUME NEW t \in Tasks, task[t].mode # "idle", NEW S, NEW A, CancelsAs(t, S, A)
    PROVE  Tame
BY TameBecome DEF CancelsAs, Cancels

LEMMA TameThrow == ASSUME Shapes, NEW t \in Tasks, NEW f, Thrown(t, f) PROVE (up' = up /\ Tame) \/ (up' \in Downs /\ Falls)
<1>1. ASSUME Throws(t) PROVE Tame
  <2>1. SUFFICES ASSUME NEW v \in Tasks, v # t, Awaits(v, t)
                 PROVE  /\ task[v].mode # "idle" /\ task'[v].mode = task[v].mode
                        /\ task'[v].own = task[v].own /\ task'[v].gen = task[v].gen /\ task'[v].then = task[v].then
    BY <1>1 DEF Throws, Tame
  <2>2. Shape(task[v]) /\ task[v].do \in {"join", "await"}
    BY <2>1 DEF Shapes, Awaits, At
  <2> QED
    BY <1>1, <2>1, <2>2 DEF Throws, Has, Shape
<1> QED
  BY <1>1 DEF Thrown

\* What the steps of a task under way do to the process and to all tasks.
LEMMA RunTame ==
    ASSUME TypeOK, Shapes, NEW t \in Tasks, Run(t)
    PROVE  /\ task[t].mode # "idle"
           /\ \/ up' \in Downs /\ Falls
              \/ Tame /\ (up' = up \/ (task[t].mode = "boot" /\ up' = "up" /\ Ends(t) /\ Admit(t)))
<1>0. Shape(task[t])
  BY DEF Shapes
<1>1. task[t].mode # "idle"
  <2>1. task[t].do # "none"
    BY PrepareIs, IssueIs, LaunchIs, SendStartIs, FailLaunchIs, AwaitLaunchIs, CancelNextIs, CleanOrJoinIs, StartIs,
       RevokeIs, RemoveBoxIs, FinishIs, RethrowIs, ClosedIs, ExpiredIs, ExitIs, RepairIs, AdmitIs DEF Run
  <2> QED
    BY <1>0, <2>1 DEF Shape
<1>2. CASE Prepare(t)
  BY <1>1, <1>2, PrepareIs, TameMove, TameEnd
<1>3. CASE Issue(t)
  BY <1>1, <1>3, IssueIs, TameMove
<1>4. CASE Launch(t)
  BY <1>1, <1>4, LaunchIs, TameMove
<1>5. CASE SendStart(t)
  BY <1>1, <1>5, SendStartIs, TameMove, TameEnd
<1>6. CASE FailLaunch(t)
  BY <1>1, <1>6, FailLaunchIs, TameCancel, TameEnd
<1>7. CASE AwaitLaunch(t)
  BY <1>1, <1>7, AwaitLaunchIs, TameCancel, TameMove
<1>8. CASE CancelNext(t)
  BY <1>1, <1>8, CancelNextIs, TameCancel
<1>9. CASE CleanOrJoin(t)
  BY <1>1, <1>9, CleanOrJoinIs, TameBecome, TameMove, TameThrow
<1>10. CASE Start(t)
  BY <1>1, <1>10, StartIs, TameBecome
<1>11. CASE Revoke(t)
  BY <1>1, <1>11, RevokeIs, TameMove
<1>12. CASE RemoveBox(t)
  BY <1>1, <1>12, RemoveBoxIs, TameMove, TameThrow
<1>13. CASE Finish(t)
  <2>1. Tame
    <3>1. SUFFICES ASSUME NEW v \in Tasks, v = t \/ Joined(v, t)
                   PROVE  \/ task'[v] = Idle
                          \/ /\ task[v].mode # "idle" /\ task'[v].mode = task[v].mode
                             /\ task'[v].own = task[v].own /\ task'[v].gen = task[v].gen /\ task'[v].then = task[v].then
      BY <1>13, FinishIs DEF Tame
    <3>2. Concludes(v) /\ task[v].do \in {"finish", "join"} /\ Shape(task[v])
      BY <1>13, <3>1, FinishIs DEF Joined, Shapes
    <3> QED
      BY <3>2 DEF Concludes, Has, Shape
  <2> QED
    BY <1>1, <1>13, <2>1, FinishIs
<1>14. CASE Rethrow(t)
  BY <1>1, <1>14, RethrowIs, TameThrow
<1>15. CASE Closed(t)
  BY <1>1, <1>15, ClosedIs, TameEnd
<1>16. CASE Expired(t)
  BY <1>1, <1>16, ExpiredIs, TameEnd
<1>17. CASE Exit(t)
  BY <1>1, <1>17, ExitIs
<1>18. CASE Repair(t)
  BY <1>1, <1>18, RepairIs, TameBecome, TameMove
<1>19. CASE Admit(t)
  <2>1. task[t].mode = "boot"
    BY <1>0, <1>19, AdmitIs DEF Shape
  <2> QED
    BY <1>1, <1>19, <2>1, AdmitIs, TameEnd
<1> QED
  BY <1>1, <1>2, <1>3, <1>4, <1>5, <1>6, <1>7, <1>8, <1>9, <1>10, <1>11, <1>12, <1>13, <1>14, <1>15, <1>16, <1>17,
     <1>18, <1>19, Zenon DEF Run

LEMMA AtWork ==
    ASSUME TypeOK, Processes, NEW t \in Tasks
    PROVE  /\ task[t].mode \notin {"idle", "boot"} => up \in {"up", "stopping"}
           /\ task[t].mode = "boot" => up = "starting" /\ \A u \in Tasks : u # t => task[u].mode = "idle"
<1>1. Idle.mode = "idle"
  BY IdleIs DEF Has
<1> QED
  BY <1>1 DEF Processes, TypeOK

\* Nothing but the start itself is at work while the runner starts.
LEMMA Listening ==
    ASSUME TypeOK, Processes
    PROVE  /\ \A a \in Agents : Alive /\ runtime[a] # "none" => up \in {"up", "stopping"}
           /\ up \in {"up", "stopping"} => \A v \in Tasks : task[v].mode # "boot"
BY DEF Processes, TypeOK, Alive

LEMMA BootRuns ==
    ASSUME TypeOK, Shapes, NEW t \in Tasks, Run(t), task[t].mode = "boot"
    PROVE  /\ ws' = ws /\ task'[t].left \subseteq task[t].left
           /\ \/ up' \in Downs /\ Falls
              \/ \A a \in Agents : runtime[a] = "none" => runtime'[a] = "none"
<1>0. Idle.left = {}
  BY IdleIs DEF Has
<1>1. task[t].do \in {"next", "admit", "revoke", "remove", "removeFailed", "finish"}
  BY DEF Shapes, Shape, CleanupSteps
<1>a. Ends(t) \/ Falls \/ (\E d : Moves(t, d)) => task'[t].left \subseteq task[t].left
  BY <1>0 DEF Ends, Falls, Moves, Becomes, Has
<1>2. CASE Revoke(t)
  BY <1>2, <1>a, RevokeIs DEF rows
<1>3. CASE RemoveBox(t)
  BY <1>3, <1>a, RemoveBoxIs DEF Thrown
<1>4. CASE Finish(t)
  BY <1>0, <1>4, FinishIs DEF TypeOK, Concludes, Has
<1>5. CASE Repair(t)
  <2>1. ASSUME NEW a, NEW S,
               Becomes(t, "boot", "revoke", a, task[t].own, task[t].left \ S, task[t].then, task[t].by, task[t].gen)
        PROVE  task'[t].left \subseteq task[t].left
    BY <2>1 DEF Becomes, Has
  <2> QED
    BY <1>5, <1>a, <2>1, RepairIs
<1>6. CASE Admit(t)
  BY <1>6, <1>a, AdmitIs
<1> QED
  BY <1>1, <1>2, <1>3, <1>4, <1>5, <1>6, PrepareIs, IssueIs, LaunchIs, SendStartIs, FailLaunchIs, AwaitLaunchIs,
     CancelNextIs, CleanOrJoinIs, StartIs, RethrowIs, ClosedIs, ExpiredIs, ExitIs DEF Run

LEMMA ProcessesFall == ASSUME up' \in Downs, Falls PROVE Processes'
<1>1. /\ \A t \in Tasks : task'[t] = Idle /\ task'[t].mode = "idle"
      /\ \A a \in Agents : runtime'[a] = "none"
      /\ up' # "starting"
  BY IdleIs DEF Falls, Has, Downs
<1> QED
  BY <1>1 DEF Processes

\* A new task of a runner that is up.
LEMMA ProcessesBegin ==
    ASSUME Processes, TypeOK, up \in {"up", "stopping"}, up' \in {"up", "stopping"}, NEW t \in Tasks,
           \A u \in Tasks : u # t => task'[u] = task[u], task'[t].mode # "boot"
    PROVE  Processes'
BY DEF Processes, Downs

LEMMA ProcessesStep ==
    ASSUME AgentAssumption, TypeOK, Shapes, Processes, [Next]_vars
    PROVE  Processes'
<1>0. Idle.mode = "idle"
  BY IdleIs DEF Has
<1>1. CASE UNCHANGED vars
  BY <1>1 DEF vars, process, Processes
<1>2. CASE Recover
  BY <1>2, RecoverIs DEF process, Processes
<1>3. CASE Crash
  BY <1>3, CrashIs, ProcessesFall
<1>4. ASSUME NEW t \in Tasks, Run(t) PROVE Processes'
  <2>1. CASE up' \in Downs /\ Falls
    BY <2>1, ProcessesFall
  <2>2. CASE Tame /\ task[t].mode # "boot" /\ up' = up
    <3>1. up \in {"up", "stopping"}
      BY <1>4, <2>2, RunTame, AtWork
    <3>2. \A v \in Tasks : task'[v].mode # "boot"
      BY <1>0, <2>2, <3>1, Listening DEF Tame
    <3> QED
      BY <2>2, <3>1, <3>2 DEF Processes, Downs
  <2>3. CASE Tame /\ task[t].mode = "boot" /\ up' = up /\ \A a \in Agents : runtime[a] = "none" => runtime'[a] = "none"
    <3>1. up = "starting" /\ \A u \in Tasks : u # t => task[u].mode = "idle"
      BY <2>3, AtWork
    <3>2. \A u \in Tasks : u # t => task'[u].mode = "idle"
      BY <1>0, <2>3, <3>1 DEF Tame
    <3>3. task'[t].mode \in {"idle", "boot"}
      BY <1>0, <2>3 DEF Tame
    <3> QED
      BY <2>3, <3>1, <3>2, <3>3 DEF Processes, Downs
  <2>4. CASE Tame /\ task[t].mode = "boot" /\ up' = "up" /\ Ends(t)
    <3>1. \A u \in Tasks : u # t => task[u].mode = "idle"
      BY <2>4, AtWork
    <3>2. \A u \in Tasks : task'[u].mode = "idle"
      BY <1>0, <2>4, <3>1 DEF Ends
    <3> QED
      BY <2>4, <3>2 DEF Processes, Downs
  <2> QED
    BY <1>4, <2>1, <2>2, <2>3, <2>4, RunTame, BootRuns
<1>5. ASSUME NEW t \in Tasks, Close(t) PROVE Processes'
  <2>1. Cancels(t, "close", None, "closed", None, ws'.gen, ActiveAgents, {}) /\ up = "up" /\ up' = up
    BY <1>5, CloseIs
  <2>2. (\A u \in Tasks : u # t => task'[u] = task[u]) /\ task'[t].mode # "boot"
    BY <2>1 DEF Cancels, Becomes, Has
  <2> QED
    BY <2>1, <2>2, ProcessesBegin
<1>6. ASSUME NEW t \in Tasks, Expire(t) PROVE Processes'
  BY <1>6, ExpireIs, ProcessesBegin DEF Becomes, Has
<1>7. ASSUME NEW t \in Tasks, Shutdown(t) PROVE Processes'
  <2>1. PICK E : Cancels(t, "stop", None, "exit", None, 0, E, {}) /\ up = "up" /\ up' = "stopping"
    BY <1>7, ShutdownIs
  <2>2. (\A u \in Tasks : u # t => task'[u] = task[u]) /\ task'[t].mode # "boot"
    BY <2>1 DEF Cancels, Becomes, Has
  <2> QED
    BY <2>1, <2>2, ProcessesBegin
<1>8. ASSUME NEW t \in Tasks, Boot(t) PROVE Processes'
  <2>1. up \in Downs /\ \A v \in Tasks : task[v].mode = "idle"
    BY <1>0, <1>8, BootIs DEF Processes
  <2>2. \A a \in Agents : runtime'[a] = "none"
    BY <1>8, <2>1, BootIs DEF Processes
  <2>3. CASE up' = "starting" /\ Becomes(t, "boot", "next", None, None, Unreconciled, "none", None, 0)
    BY <2>1, <2>2, <2>3 DEF Becomes, Has, Processes, Downs
  <2>4. CASE up' = "failed start" /\ UNCHANGED task
    BY <2>1, <2>2, <2>4 DEF Processes, Downs
  <2> QED
    BY <1>8, <2>3, <2>4, BootIs
<1>9. ASSUME NEW t \in Tasks, NEW a \in Agents, NEW p \in AgentOrNone, Spawn(t, a, p) PROVE Processes'
  <2>1. Becomes(t, "launch", "prepare", a, a, {}, "start", None, 0) /\ up = "up" /\ up' = up
    BY <1>9, SpawnIs
  <2> QED
    BY <2>1, ProcessesBegin DEF Becomes, Has
<1>10. ASSUME NEW t \in Tasks, NEW a \in Agents, NEW m \in {"call", "loose"}, CancelOne(t, a, m), up \in {"up", "stopping"}
       PROVE  Processes'
  BY <1>10, CancelIs, ProcessesBegin DEF Becomes, Has
<1>11. ASSUME NEW t \in Tasks, NEW a \in Agents, Interrupt(t, a) PROVE Processes'
  <2>1. Cancels(t, "loose", a, "start", None, 0, Below(a), {a}) /\ up \in {"up", "stopping"} /\ up' = up
    BY <1>11, InterruptIs, Listening
  <2>2. (\A u \in Tasks : u # t => task'[u] = task[u]) /\ task'[t].mode # "boot"
    BY <2>1 DEF Cancels, Becomes, Has
  <2> QED
    BY <2>1, <2>2, ProcessesBegin
<1>12. ASSUME NEW t \in Tasks, NEW a \in Agents, FinishTerminal(t, a) PROVE Processes'
  <2>1. Cancels(t, "call", a, "start", None, 0, Below(a), {a}) /\ up \in {"up", "stopping"} /\ up' = up
    BY <1>12, FinishTerminalIs, Listening
  <2>2. (\A u \in Tasks : u # t => task'[u] = task[u]) /\ task'[t].mode # "boot"
    BY <2>1 DEF Cancels, Becomes, Has
  <2> QED
    BY <2>1, <2>2, ProcessesBegin
<1>13. ASSUME NEW t \in Tasks, NEW a \in Agents, RetryCleanup(t, a) PROVE Processes'
  BY <1>13, RetryCleanupIs, ProcessesBegin DEF Becomes, Has
<1>14. ASSUME NEW t \in Tasks, NEW a \in Agents, Cancel(t, a) \/ CancelLoose(t, a) PROVE Processes'
  <2>1. CancelOne(t, a, "call") \/ CancelOne(t, a, "loose")
    BY <1>14 DEF Cancel, CancelLoose
  <2>2. up \in {"up", "stopping"}
    BY <1>14, Listening DEF Cancel, CancelLoose
  <2> QED
    BY <1>10, <2>1, <2>2
<1> QED
  BY <1>1, <1>2, <1>3, <1>4, <1>5, <1>6, <1>7, <1>8, <1>9, <1>11, <1>12, <1>13, <1>14, Zenon
  DEF Next, AgentOrNone

LEMMA RepairingStep ==
    ASSUME AgentAssumption, TypeOK, Shapes, Processes, TaskAgents, Repairing, [Next]_vars
    PROVE  Repairing'
<1>0. Idle.mode = "idle"
  BY IdleIs DEF Has
<1>a. ASSUME \A v \in Tasks : task'[v].mode # "boot" PROVE Repairing'
  BY <1>a DEF Repairing
<1>b. ASSUME status' = status, \A v \in Tasks : task'[v].mode = "boot" => task[v].mode = "boot" /\ task'[v].left = task[v].left
      PROVE  Repairing'
  BY <1>b DEF Repairing, ActiveAgents
<1>1. CASE UNCHANGED vars
  BY <1>1, <1>b DEF vars, process, rows
<1>2. CASE Recover
  BY <1>2, <1>b, RecoverIs DEF process
<1>3. CASE Crash
  BY <1>0, <1>3, <1>a, CrashIs DEF Falls
<1>4. ASSUME NEW t \in Tasks, Run(t) PROVE Repairing'
  <2>1. CASE task[t].mode # "boot"
    <3>1. \A v \in Tasks : task[v].mode # "boot"
      BY <1>4, <2>1, AtWork, Listening, RunTame
    <3>2. \A v \in Tasks : task'[v].mode # "boot"
      BY <1>0, <1>4, <3>1, RunTame DEF Tame, Falls
    <3> QED
      BY <1>a, <3>2
  <2>2. CASE task[t].mode = "boot"
    <3>0. /\ task[t].do \in {"next", "admit", "revoke", "remove", "removeFailed", "finish"}
          /\ task[t].left \subseteq ActiveAgents
      BY <2>2 DEF Shapes, Shape, CleanupSteps, Repairing
    <3>1. \A u \in Tasks : u # t => task[u].mode = "idle"
      BY <2>2, AtWork
    <3>2. \A u \in Tasks : u # t => task'[u].mode = "idle"
      BY <1>0, <1>4, <3>1, RunTame DEF Tame, Falls
    <3>3. CASE status' = status /\ (Ends(t) \/ Falls \/ \E d : Moves(t, d))
      BY <1>0, <2>2, <3>2, <3>3, <1>b DEF Ends, Falls, Moves, Becomes, Has
    <3>4. CASE Revoke(t)
      BY <3>3, <3>4, RevokeIs DEF rows
    <3>5. CASE RemoveBox(t)
      BY <2>2, <3>3, <3>5, RemoveBoxIs DEF Thrown
    <3>6. CASE Finish(t)
      <4>1. Concludes(t) /\ status' = [status EXCEPT ![task[t].of] = "ENDED"] /\ task[t].do = "finish"
        BY <3>6, FinishIs
      <4>2. task[t].of \notin task[t].left
        BY <4>1 DEF Shapes, Shape, CancelSteps, CleanupSteps
      <4>3. task'[t].mode = "boot" => task'[t].left = task[t].left
        BY <1>0, <4>1 DEF Concludes, Has
      <4> QED
        BY <3>0, <3>2, <4>1, <4>2, <4>3 DEF Repairing, ActiveAgents, TypeOK
    <3>7. CASE Repair(t)
      <4>1. ASSUME NEW a \in task[t].left, status' = Marked({a}),
                   Becomes(t, "boot", "revoke", a, task[t].own, task[t].left \ {a}, task[t].then, task[t].by, task[t].gen)
            PROVE  Repairing'
        <5>1. task'[t].left = task[t].left \ {a}
          BY <4>1 DEF Becomes, Has
        <5>2. \A e \in Agents : e # a => status'[e] = status[e]
          BY <4>1, MarkedIs
        <5> QED
          BY <3>0, <3>2, <5>1, <5>2 DEF Repairing, ActiveAgents
      <4> QED
        BY <3>3, <3>7, <4>1, RepairIs
    <3>8. CASE Admit(t)
      BY <3>3, <3>8, AdmitIs
    <3> QED
      BY <1>4, <3>0, <3>4, <3>5, <3>6, <3>7, <3>8, PrepareIs, IssueIs, LaunchIs, SendStartIs, FailLaunchIs, AwaitLaunchIs,
         <2>2, CancelNextIs, CleanOrJoinIs, StartIs, RethrowIs, ClosedIs, ExpiredIs, ExitIs DEF Run
  <2> QED
    BY <2>1, <2>2
<1>5. ASSUME NEW t \in Tasks, Close(t) \/ Expire(t) \/ Shutdown(t) PROVE Repairing'
  <2>1. up = "up"
    BY <1>5, CloseIs, ExpireIs, ShutdownIs
  <2>2. up' \in {"up", "stopping"}
    BY <1>5, CloseIs, ExpireIs, ShutdownIs
  <2>3. Processes' /\ TypeOK'
    BY ProcessesStep, TypeStep
  <2> QED
    BY <1>a, <2>2, <2>3 DEF Processes
<1>6. ASSUME NEW t \in Tasks, Boot(t) PROVE Repairing'
  <2>1. /\ up \in Downs /\ status' = status /\ \A v \in Tasks : task[v].mode = "idle"
    BY <1>0, <1>6, BootIs DEF Processes
  <2>2. CASE Becomes(t, "boot", "next", None, None, Unreconciled, "none", None, 0)
    BY <2>1, <2>2 DEF Becomes, Has, Repairing, Unreconciled, ActiveAgents
  <2> QED
    BY <1>6, <2>1, <2>2, <1>a, BootIs
<1>7. ASSUME NEW t \in Tasks, NEW a \in Agents, NEW p \in AgentOrNone, 
             Spawn(t, a, p) \/ Cancel(t, a) \/ CancelLoose(t, a) \/ Interrupt(t, a) \/ FinishTerminal(t, a) \/ RetryCleanup(t, a)
      PROVE  Repairing'
  <2>1. up \in {"up", "stopping"} /\ up' = up
    BY <1>7, Listening, SpawnIs, CancelIs, InterruptIs, FinishTerminalIs, RetryCleanupIs DEF Cancel, CancelLoose
  <2>2. Processes'
    BY ProcessesStep
  <2> QED
    BY <1>a, <2>1, <2>2 DEF Processes
<1>8. None \in AgentOrNone
  BY DEF AgentOrNone
<1> QED
  BY <1>1, <1>2, <1>3, <1>4, <1>5, <1>6, <1>7, <1>8, Zenon DEF Next, AgentOrNone

-----------------------------------------------------------------------------
(* Generations *)

Closing == \E t \in Tasks : task[t].do = "closed" /\ ws = [status |-> "REAPING", gen |-> task[t].gen]

\* The workspace leaves "ACTIVE" only with a new generation, enters "REAPING" only so, and is closed
\* only by the claim it has.
Ages ==
    /\ ws.gen <= ws'.gen
    /\ ws'.status = "ACTIVE" \/ ws.status # "ACTIVE" \/ ws.gen < ws'.gen
    /\ ws'.status # "REAPING" \/ ws' = ws \/ ws.gen < ws'.gen
    /\ ws'.status # "CLOSED" \/ ws.status = "CLOSED" \/ Closing

Admitting == \E t \in Tasks : task[t].do = "admit"

\* Apart from a reservation, the row of admission keeps its generation, and opens only when a start
\* ends, for the workspace's own.
Elapses ==
    /\ gate'.gen = gate.gen /\ (gate'.open => gate.open \/ (gate.gen = ws.gen /\ Admitting))
    /\ Ages
    /\ up' = up \/ up' \in Downs \/ up \in Downs \/ (up = "up" /\ up' = "stopping") \/ Admitting
    /\ up' \in {"up", "stopping"} =>
         /\ restarts' = restarts
         /\ up \in {"up", "stopping"} \/ (Unreconciled = {} /\ UNCHANGED <<ws, status>>)

LEMMA WorkspaceKept ==
    ASSUME TypeOK, ws' = ws
    PROVE  Ages
BY DEF TypeOK, Ages

LEMMA WorkspaceCompleted ==
    ASSUME TypeOK, NEW t \in Tasks, NEW S, Completes(t, S), "CLOSED" \notin S \/ task[t].do = "closed"
    PROVE  Ages
<1>1. ws'.gen = ws.gen /\ ws.gen \in Nat
  BY DEF TypeOK, Completes
<1>2. ws'.status = ws.status \/ ws.status = "REAPING"
  BY DEF Completes
<1>3. ws'.status = "REAPING" => ws' = ws
  BY DEF Completes
<1>4. ws'.status # "CLOSED" \/ ws.status = "CLOSED" \/ Closing
  BY DEF Completes, Closing
<1> QED
  BY <1>1, <1>2, <1>3, <1>4 DEF Ages

LEMMA WorkspaceThrown ==
    ASSUME TypeOK, NEW t, NEW f, Thrown(t, f)
    PROVE  Ages
<1>1. ws'.gen = ws.gen /\ ws.gen \in Nat
  BY DEF TypeOK, Thrown
<1>2. ws'.status = ws.status \/ ws.status = "REAPING"
  BY DEF Thrown
<1>3. (ws'.status = "REAPING" => ws' = ws) /\ (ws'.status = "CLOSED" => ws.status = "CLOSED")
  BY DEF Thrown
<1> QED
  BY <1>1, <1>2, <1>3 DEF Ages

\* The workspace claimed for a close or an expiry.
LEMMA WorkspaceClaimed ==
    ASSUME TypeOK,
           \/ ws.status = "REAPING" /\ ws' = ws
           \/ ws' = [status |-> "REAPING", gen |-> ws.gen + 1]
    PROVE  Ages
<1>1. PICK g \in Nat : g = ws.gen
  BY DEF TypeOK
<1>2. ws'.gen = g \/ ws'.gen = g + 1
  BY <1>1
<1>3. (ws'.gen = g => ws' = ws /\ ws.status = "REAPING") /\ ws'.status = "REAPING"
  BY <1>1
<1> QED
  BY <1>1, <1>2, <1>3 DEF Ages

LEMMA ElapsesStep == ASSUME TypeOK, Shapes, [Next]_vars PROVE Spawns \/ Elapses
<1> USE DEF rows, world, process
<1>a. ASSUME UNCHANGED <<gate, restarts>>, up' = up \/ up' \in Downs \/ (up = "up" /\ up' = "stopping"),
             Ages
      PROVE  Elapses
  BY <1>a DEF Elapses, Downs
<1>b. ASSUME UNCHANGED <<gate, restarts>>, up' = up \/ up' \in Downs, ws' = ws PROVE Elapses
  BY <1>a, <1>b, WorkspaceKept
<1>c. ASSUME NEW t \in Tasks, NEW f, Thrown(t, f), UNCHANGED <<gate, restarts>> PROVE Elapses
  <2>1. up' = up \/ up' \in Downs
    BY <1>c DEF Thrown
  <2> QED
    BY <1>a, <1>c, <2>1, WorkspaceThrown
<1>1. CASE UNCHANGED vars
  BY <1>1, <1>b DEF vars
<1>2. CASE Recover
  <2>1. ws'.gen = ws.gen /\ ws'.status = "ACTIVE" /\ ws.gen \in Nat
    BY <1>2, RecoverIs DEF TypeOK
  <2>2. Ages
    BY <2>1 DEF Ages
  <2> QED
    BY <1>2, <2>1, <2>2, <1>a, RecoverIs
<1>3. CASE Crash
  BY <1>3, <1>b, CrashIs
<1>4. ASSUME NEW t \in Tasks, Run(t) PROVE Elapses
  <2>1. CASE CleanOrJoin(t)
    BY <2>1, <1>b, <1>c, CleanOrJoinIs
  <2>2. CASE RemoveBox(t)
    BY <2>2, <1>b, <1>c, RemoveBoxIs
  <2>3. CASE Rethrow(t)
    BY <2>3, <1>c, RethrowIs
  <2>4. CASE Closed(t)
    <3>1. Ages
      BY <2>4, ClosedIs, WorkspaceCompleted
    <3> QED
      BY <2>4, <3>1, <1>a, ClosedIs
  <2>5. CASE Expired(t)
    <3>1. Ages
      BY <2>5, ExpiredIs, WorkspaceCompleted
    <3> QED
      BY <2>5, <3>1, <1>a, ExpiredIs
  <2>6. CASE Admit(t)
    <3>1. CASE /\ Unreconciled = {} /\ UNCHANGED <<ws, status, restarts>>
               /\ gate' = IF ws.status = "ACTIVE" /\ gate.gen = ws.gen THEN [gate EXCEPT !.open = TRUE] ELSE gate
      <4>1. gate'.gen = gate.gen /\ (gate'.open => gate.open \/ gate.gen = ws.gen)
        BY <3>1 DEF TypeOK
      <4>2. Admitting
        BY <2>6, AdmitIs DEF Admitting
      <4> QED
        BY <3>1, <4>1, <4>2, WorkspaceKept DEF Elapses
    <3> QED
      BY <2>6, <3>1, <1>b, AdmitIs
  <2>7. CASE Prepare(t) \/ Issue(t) \/ Launch(t) \/ SendStart(t) \/ FailLaunch(t) \/ AwaitLaunch(t) \/ CancelNext(t)
    BY <2>7, <1>b, PrepareIs, IssueIs, LaunchIs, SendStartIs, FailLaunchIs, AwaitLaunchIs, CancelNextIs
  <2>8. CASE Start(t) \/ Revoke(t) \/ Finish(t) \/ Exit(t) \/ Repair(t)
    BY <2>8, <1>b, StartIs, RevokeIs, FinishIs, ExitIs, RepairIs
  <2> QED
    BY <1>4, <2>1, <2>2, <2>3, <2>4, <2>5, <2>6, <2>7, <2>8, Zenon DEF Run
<1>5. ASSUME NEW t \in Tasks, Close(t) PROVE Elapses
  <2>1. gate'.gen = gate.gen /\ ~gate'.open /\ up = "up" /\ up' = up /\ restarts' = restarts
    BY <1>5, CloseIs DEF TypeOK
  <2>2. Ages
    BY <1>5, CloseIs, WorkspaceClaimed
  <2> QED
    BY <2>1, <2>2 DEF Elapses
<1>6. ASSUME NEW t \in Tasks, Expire(t) PROVE Elapses
  <2>1. Ages
    BY <1>6, ExpireIs, WorkspaceClaimed
  <2> QED
    BY <1>6, <2>1, <1>a, ExpireIs
<1>7. ASSUME NEW t \in Tasks, Shutdown(t) PROVE Elapses
  <2>1. gate'.gen = gate.gen /\ (gate'.open => gate.open) /\ up = "up" /\ up' = "stopping" /\ restarts' = restarts /\ ws' = ws
    BY <1>7, ShutdownIs DEF TypeOK
  <2> QED
    BY <2>1, WorkspaceKept DEF Elapses
<1>8. ASSUME NEW t \in Tasks, Boot(t) PROVE Elapses
  <2>1. /\ gate' = gate \/ (gate' = [gate EXCEPT !.open = FALSE])
        /\ up' = "starting" \/ up' = "failed start"
        /\ ws' = ws
    BY <1>8, BootIs
  <2>2. gate'.gen = gate.gen /\ (gate'.open => gate.open)
    BY <2>1 DEF TypeOK
  <2>3. up \in Downs
    BY <1>8, BootIs
  <2> QED
    BY <2>1, <2>2, <2>3, WorkspaceKept DEF Elapses
<1>9. ASSUME NEW t \in Tasks, NEW a \in Agents, NEW m \in {"call", "loose"}, CancelOne(t, a, m) PROVE Elapses
  BY <1>9, <1>b, CancelIs
<1>10. ASSUME NEW t \in Tasks, NEW a \in Agents, Interrupt(t, a) \/ FinishTerminal(t, a) \/ RetryCleanup(t, a) PROVE Elapses
  BY <1>10, <1>b, InterruptIs, FinishTerminalIs, RetryCleanupIs
<1> QED
  BY <1>1, <1>2, <1>3, <1>4, <1>5, <1>6, <1>7, <1>8, <1>9, <1>10, Zenon
  DEF Next, Cancel, CancelLoose, AgentOrNone, Spawns

\* A task is of no later generation than the workspace.
LEMMA TaskGenerationsStep ==
    ASSUME AgentAssumption, TypeOK, Shapes, [Next]_vars, \A v \in Tasks : task[v].gen <= ws.gen, ws.gen <= ws'.gen
    PROVE  \A v \in Tasks : task'[v].gen <= ws'.gen
<1>0. Idle.gen = 0 /\ ws.gen \in Nat /\ ws'.gen \in Nat /\ \A v \in Tasks : task[v].gen \in Nat
  BY IdleIs, TypeStep DEF Has, TypeOK, Record
<1>a. ASSUME \A v \in Tasks : task'[v].gen = task[v].gen \/ task'[v].gen = 0 \/ task'[v].gen = ws'.gen
      PROVE  \A v \in Tasks : task'[v].gen <= ws'.gen
  BY <1>0, <1>a
<1>b. ASSUME NEW t \in Tasks, NEW m, NEW d, NEW o, NEW w, NEW S, NEW th, NEW b, NEW g, Becomes(t, m, d, o, w, S, th, b, g),
             g = 0 \/ g = ws'.gen
      PROVE  \A v \in Tasks : task'[v].gen <= ws'.gen
  BY <1>a, <1>b DEF Becomes, Has
<1>c. ASSUME NEW t \in Tasks, NEW m, NEW w, NEW th, NEW b, NEW g, NEW S, NEW A, Cancels(t, m, w, th, b, g, S, A),
             g = 0 \/ g = ws'.gen
      PROVE  \A v \in Tasks : task'[v].gen <= ws'.gen
  BY <1>b, <1>c DEF Cancels
<1>1. CASE UNCHANGED vars
  BY <1>1, <1>a DEF vars, process
<1>2. CASE Recover
  BY <1>2, <1>a, RecoverIs DEF process
<1>3. CASE Crash
  BY <1>0, <1>3, <1>a, CrashIs DEF Falls
<1>4. ASSUME NEW t \in Tasks, Run(t) PROVE \A v \in Tasks : task'[v].gen <= ws'.gen
  BY <1>0, <1>4, <1>a, RunTame DEF Falls, Tame
<1>5. ASSUME NEW t \in Tasks, Close(t) PROVE \A v \in Tasks : task'[v].gen <= ws'.gen
  BY <1>5, <1>c, CloseIs
<1>6. ASSUME NEW t \in Tasks, Expire(t) PROVE \A v \in Tasks : task'[v].gen <= ws'.gen
  BY <1>6, <1>b, ExpireIs
<1>7. ASSUME NEW t \in Tasks, Shutdown(t) PROVE \A v \in Tasks : task'[v].gen <= ws'.gen
  BY <1>7, <1>c, ShutdownIs
<1>8. ASSUME NEW t \in Tasks, Boot(t) PROVE \A v \in Tasks : task'[v].gen <= ws'.gen
  BY <1>8, <1>a, <1>b, BootIs
<1>9. ASSUME NEW t \in Tasks, NEW a \in Agents, NEW p \in AgentOrNone, Spawn(t, a, p)
      PROVE  \A v \in Tasks : task'[v].gen <= ws'.gen
  BY <1>9, <1>b, SpawnIs
<1>10. ASSUME NEW t \in Tasks, NEW a \in Agents, NEW m \in {"call", "loose"}, CancelOne(t, a, m)
       PROVE  \A v \in Tasks : task'[v].gen <= ws'.gen
  BY <1>10, <1>b, CancelIs
<1>11. ASSUME NEW t \in Tasks, NEW a \in Agents, Interrupt(t, a) \/ FinishTerminal(t, a)
       PROVE  \A v \in Tasks : task'[v].gen <= ws'.gen
  BY <1>11, <1>c, InterruptIs, FinishTerminalIs
<1>12. ASSUME NEW t \in Tasks, NEW a \in Agents, RetryCleanup(t, a) PROVE \A v \in Tasks : task'[v].gen <= ws'.gen
  BY <1>12, <1>b, RetryCleanupIs
<1> QED
  BY <1>1, <1>2, <1>3, <1>4, <1>5, <1>6, <1>7, <1>8, <1>9, <1>10, <1>11, <1>12, Zenon
  DEF Next, Cancel, CancelLoose, AgentOrNone

LEMMA GenerationsStep ==
    ASSUME AgentAssumption, TypeOK, Shapes, TaskAgents, Repairing, Generations, [Next]_vars
    PROVE  Generations'
<1>0. ws.gen \in Nat /\ ws'.gen \in Nat /\ gate.gen \in Nat
  BY TypeStep DEF TypeOK
<1>1. CASE Elapses /\ Progress /\ agentGen' = agentGen
  <2>1. \A v \in Tasks : task'[v].gen <= ws'.gen
    BY <1>1, TaskGenerationsStep DEF Elapses, Ages, Generations
  <2>2. /\ ws'.gen # 0 /\ gate'.gen <= ws'.gen /\ (gate'.open => gate'.gen # 0)
        /\ ws'.status # "ACTIVE" => gate'.gen < ws'.gen
    BY <1>0, <1>1 DEF Elapses, Ages, Generations
  <2>3. \A a \in Agents : status'[a] # "NONE" => agentGen'[a] = gate'.gen /\ gate'.gen # 0
    <3>1. \A a \in Agents : status'[a] # "NONE" => status[a] # "NONE"
      BY <1>1 DEF Progress, Later
    <3> QED
      BY <1>1, <3>1 DEF Elapses, Generations
  <2> QED
    BY <2>1, <2>2, <2>3 DEF Generations
<1>2. ASSUME NEW t \in Tasks, NEW a \in Agents, NEW p \in AgentOrNone, Spawn(t, a, p) PROVE Generations'
  <2>0. /\ ws.status = "ACTIVE" /\ Admits /\ status[a] = "NONE"
        /\ status' = [status EXCEPT ![a] = "SPAWNING"] /\ agentGen' = [agentGen EXCEPT ![a] = ws.gen]
        /\ gate' = [gen |-> ws.gen, open |-> TRUE] /\ ws' = ws
    BY <1>2, SpawnIs
  <2>1. \A v \in Tasks : task'[v].gen <= ws'.gen
    BY <1>0, <2>0, TaskGenerationsStep DEF Generations
  <2>2. ws'.gen # 0 /\ gate'.gen = ws.gen /\ gate'.gen <= ws'.gen /\ ws'.status = "ACTIVE"
    BY <1>0, <2>0 DEF Generations
  <2>3. \A e \in Agents : status'[e] # "NONE" => agentGen'[e] = ws.gen
    <3>1. TAKE e \in Agents
    <3>2. CASE e = a
      BY <2>0, <3>2 DEF TypeOK
    <3>3. CASE e # a
      <4>1. status'[e] = status[e] /\ agentGen'[e] = agentGen[e]
        BY <2>0, <3>3 DEF TypeOK
      <4>2. status[e] # "NONE" => agentGen[e] = gate.gen /\ gate.gen # 0
        BY DEF Generations
      <4>3. gate.gen # 0 => gate.gen = ws.gen
        BY <2>0 DEF Admits
      <4> QED
        BY <4>1, <4>2, <4>3
    <3> QED
      BY <3>2, <3>3
  <2> QED
    BY <2>1, <2>2, <2>3 DEF Generations
<1> QED
  BY <1>1, <1>2, ElapsesStep, StatusStep DEF Spawns

\* Whatever has not ended in a workspace that may admit runs is of the present process.
LEMMA EpochsStep ==
    ASSUME TypeOK, Shapes, TaskAgents, Repairing, Generations, Epochs, [Next]_vars
    PROVE  Epochs'
<1>1. CASE Elapses /\ Progress /\ epoch' = epoch
  <2>1. SUFFICES ASSUME up' \in {"up", "stopping"}, gate'.gen = ws'.gen, NEW a \in ActiveAgents' PROVE epoch'[a] = restarts'
    BY DEF Epochs
  <2>2. a \in Agents /\ a \in ActiveAgents
    BY <1>1, <2>1 DEF ActiveAgents, Progress, Later, Active
  <2>3. restarts' = restarts /\ (up \in {"up", "stopping"} \/ (Unreconciled = {} /\ UNCHANGED <<ws, status>>))
    BY <1>1, <2>1 DEF Elapses
  <2>4. gate.gen = ws.gen /\ ws.status = "ACTIVE"
    <3>1. gate.gen \in Nat /\ ws.gen \in Nat /\ ws'.gen \in Nat
      BY TypeStep DEF TypeOK
    <3>2. gate.gen <= ws.gen /\ ws.gen <= ws'.gen /\ gate.gen = ws'.gen /\ (ws.status # "ACTIVE" => gate.gen < ws.gen)
      BY <1>1, <2>1 DEF Elapses, Ages, Generations
    <3> QED
      BY <3>1, <3>2
  <2>5. CASE up \in {"up", "stopping"}
    BY <1>1, <2>2, <2>3, <2>4, <2>5 DEF Epochs
  <2>6. CASE Unreconciled = {}
    <3>1. agentGen[a] = gate.gen
      BY <2>2 DEF Generations, ActiveAgents, Active
    <3> QED
      BY <2>2, <2>4, <2>6, <3>1 DEF Unreconciled
  <2> QED
    BY <2>3, <2>5, <2>6
<1>2. ASSUME NEW t \in Tasks, NEW a \in Agents, NEW p \in AgentOrNone, Spawn(t, a, p) PROVE Epochs'
  <2>1. SUFFICES ASSUME NEW e \in ActiveAgents' PROVE epoch'[e] = restarts'
    BY DEF Epochs
  <2>2. /\ up = "up" /\ Admits /\ status' = [status EXCEPT ![a] = "SPAWNING"]
        /\ epoch' = [epoch EXCEPT ![a] = restarts] /\ restarts' = restarts
    BY <1>2, SpawnIs
  <2>3. e \in Agents
    BY DEF ActiveAgents
  <2>4. CASE e = a
    BY <2>2, <2>4 DEF TypeOK
  <2>5. CASE e # a
    <3>1. e \in ActiveAgents /\ epoch'[e] = epoch[e]
      BY <2>2, <2>3, <2>5 DEF TypeOK, ActiveAgents
    <3>2. gate.gen # 0
      BY <2>3, <3>1 DEF ActiveAgents, Active, Generations
    <3> QED
      BY <2>2, <3>1, <3>2 DEF Admits, Epochs
  <2> QED
    BY <2>4, <2>5
<1> QED
  BY <1>1, <1>2, ElapsesStep, StatusStep DEF Spawns

-----------------------------------------------------------------------------
(* Promises *)

\* A task is at a cleanup of this agent after the step.
CleansNext(u, a) == task'[u].do \in CleanupSteps /\ task'[u].of = a

\* The promises that stay are those of cleanups that stay.
LEMMA PromisesKept ==
    ASSUME Promises,
           \A a \in Agents : runtime'[a] \in Tasks => CleansNext(runtime'[a], a),
           \A v \in Tasks : task'[v].do = "join" =>
               /\ task'[v].by \in Tasks
               /\ CleansNext(task'[v].by, task'[v].of)
    PROVE  Promises'
BY DEF Promises, CleansNext

\* One task goes on, no promise is made.
LEMMA PromisesOther ==
    ASSUME TypeOK, Promises, NEW t \in Tasks, \A u \in Tasks : u # t => task'[u] = task[u],
           task[t].do \in CleanupSteps => task'[t].do \in CleanupSteps /\ task'[t].of = task[t].of,
           task'[t].do # "join", \A a \in Agents : runtime'[a] \in Tasks => runtime'[a] = runtime[a]
    PROVE  Promises'
<1>1. ASSUME NEW a \in Agents, runtime'[a] \in Tasks PROVE CleansNext(runtime'[a], a)
  <2>1. PICK u \in Tasks : u = runtime'[a] /\ u = runtime[a]
    BY <1>1
  <2>2. task[u].do \in CleanupSteps /\ task[u].of = a
    BY <2>1 DEF Promises
  <2>3. task'[u].do \in CleanupSteps /\ task'[u].of = a
    BY <2>2
  <2> QED
    BY <2>1, <2>3 DEF CleansNext
<1>2. ASSUME NEW v \in Tasks, task'[v].do = "join" PROVE task'[v].by \in Tasks /\ CleansNext(task'[v].by, task'[v].of)
  <2>1. task'[v] = task[v] /\ v # t
    BY <1>2
  <2>2. PICK u \in Tasks : u = task[v].by
    BY <1>2, <2>1 DEF Promises
  <2>3. task[u].do \in CleanupSteps /\ task[u].of = task[v].of
    BY <1>2, <2>1, <2>2 DEF Promises
  <2>4. task'[u].do \in CleanupSteps /\ task'[u].of = task'[v].of
    BY <2>1, <2>3
  <2> QED
    BY <2>1, <2>2, <2>4 DEF CleansNext
<1> QED
  BY <1>1, <1>2, PromisesKept, Zenon

LEMMA PromisesEnd ==
    ASSUME AgentAssumption, TypeOK, Promises, NEW t \in Tasks, Ends(t), task[t].do \notin CleanupSteps,
           \A a \in Agents : runtime'[a] \in Tasks => runtime'[a] = runtime[a]
    PROVE  Promises'
BY PromisesOther, IdleIs DEF Ends, Has

LEMMA PromisesBecome ==
    ASSUME TypeOK, Promises, NEW t \in Tasks, NEW m, NEW d, NEW o, NEW w, NEW S, NEW th, NEW b, NEW g,
           Becomes(t, m, d, o, w, S, th, b, g), d # "join", task[t].do \notin CleanupSteps,
           \A a \in Agents : runtime'[a] \in Tasks => runtime'[a] = runtime[a]
    PROVE  Promises'
BY PromisesOther DEF Becomes, Has

LEMMA PromisesCancel ==
    ASSUME TypeOK, Promises, NEW t \in Tasks, NEW m, NEW w, NEW th \in Thens, NEW b, NEW g, NEW S, NEW A,
           Cancels(t, m, w, th, b, g, S, A), task[t].do \notin CleanupSteps, runtime' = runtime
    PROVE  Promises'
BY PromisesBecome DEF Cancels, Thens

LEMMA PromisesFall == ASSUME AgentAssumption, Falls PROVE Promises'
<1>1. \A t \in Tasks : task'[t].do # "join"
  BY IdleIs DEF Falls, Has
<1>2. \A a \in Agents : runtime'[a] \notin Tasks
  BY DEF Falls, AgentAssumption
<1> QED
  BY <1>1, <1>2 DEF Promises

\* A throw ends the promise of the task that throws, if it has one.
LEMMA PromisesThrow ==
    ASSUME AgentAssumption, TypeOK, Promises, NEW t \in Tasks,
           \/ task[t].do \notin CleanupSteps /\ Thrown(t, runtime)
           \/ task[t].do \in CleanupSteps /\ Thrown(t, Failed(t))
    PROVE  Promises'
<1>1. CASE Falls
  BY <1>1, PromisesFall
<1>2. CASE /\ Throws(t)
           /\ \/ task[t].do \notin CleanupSteps /\ runtime' = runtime
              \/ task[t].do \in CleanupSteps /\ runtime' = Failed(t)
  <2>1. ASSUME NEW u \in Tasks, task[u].do \in CleanupSteps, u # t PROVE task'[u] = task[u]
    BY <1>2, <2>1 DEF Throws, Awaits, At, CleanupSteps
  <2>2. ASSUME NEW a \in Agents, runtime'[a] \in Tasks PROVE CleansNext(runtime'[a], a)
    <3>1. runtime'[a] = runtime[a]
      BY <1>2, <2>2, FailedIs DEF AgentAssumption
    <3>2. PICK u \in Tasks : u = runtime'[a] /\ u = runtime[a]
      BY <2>2, <3>1
    <3>3. task[u].do \in CleanupSteps /\ task[u].of = a
      BY <3>2 DEF Promises
    <3>4. u # t
      BY <1>2, <2>2, <3>2, <3>3, FailedIs DEF AgentAssumption
    <3>5. task'[u].do \in CleanupSteps /\ task'[u].of = a
      BY <2>1, <3>3, <3>4
    <3> QED
      BY <3>2, <3>5 DEF CleansNext
  <2>3. ASSUME NEW v \in Tasks, task'[v].do = "join" PROVE task'[v].by \in Tasks /\ CleansNext(task'[v].by, task'[v].of)
    <3>1. v # t /\ ~Awaits(v, t) /\ task'[v] = task[v]
      BY <1>2, <2>3, IdleIs DEF Throws, Has
    <3>2. PICK u \in Tasks : u = task[v].by
      BY <2>3, <3>1 DEF Promises
    <3>3. task[u].do \in CleanupSteps /\ task[u].of = task[v].of /\ u # t
      BY <2>3, <3>1, <3>2 DEF Promises, Awaits, At
    <3>4. task'[u].do \in CleanupSteps /\ task'[u].of = task'[v].of
      BY <2>1, <3>1, <3>3
    <3> QED
      BY <3>1, <3>2, <3>4 DEF CleansNext
  <2> QED
    BY <2>2, <2>3, PromisesKept, Zenon
<1> QED
  BY <1>1, <1>2 DEF Thrown

\* A task makes its promise.
LEMMA PromisesMade ==
    ASSUME AgentAssumption, TypeOK, Promises, NEW t \in Tasks, task[t].do \notin CleanupSteps, task[t].of \in Agents,
           \A u \in Tasks : u # t => task'[u] = task[u], task'[t].do = "revoke", task'[t].of = task[t].of,
           runtime' = Registered(t, task[t].of)
    PROVE  Promises'
<1>1. ASSUME NEW u \in Tasks, task[u].do \in CleanupSteps PROVE task'[u] = task[u]
  BY <1>1
<1>2. ASSUME NEW a \in Agents, runtime'[a] \in Tasks PROVE CleansNext(runtime'[a], a)
  <2>1. CASE a = task[t].of /\ runtime'[a] = t
    BY <2>1 DEF CleansNext, CleanupSteps
  <2>2. CASE runtime'[a] = runtime[a]
    <3>1. PICK u \in Tasks : u = runtime'[a] /\ u = runtime[a]
      BY <1>2, <2>2
    <3>2. task[u].do \in CleanupSteps /\ task[u].of = a
      BY <3>1 DEF Promises
    <3> QED
      BY <1>1, <3>1, <3>2 DEF CleansNext
  <2> QED
    BY <2>1, <2>2, RegisteredIs
<1>3. ASSUME NEW v \in Tasks, task'[v].do = "join" PROVE task'[v].by \in Tasks /\ CleansNext(task'[v].by, task'[v].of)
  <2>1. task'[v] = task[v]
    BY <1>3
  <2>2. PICK u \in Tasks : u = task[v].by
    BY <1>3, <2>1 DEF Promises
  <2>3. task[u].do \in CleanupSteps /\ task[u].of = task[v].of
    BY <1>3, <2>1, <2>2 DEF Promises
  <2> QED
    BY <1>1, <2>1, <2>2, <2>3 DEF CleansNext
<1> QED
  BY <1>2, <1>3, PromisesKept, Zenon

\* The promise of a finished cleanup is kept.
LEMMA PromisesFinish ==
    ASSUME AgentAssumption, TypeOK, Shapes, Promises, NEW t \in Tasks, Finish(t)
    PROVE  Promises'
<1>1. /\ task[t].do = "finish" /\ task[t].of \in Agents
      /\ \A a \in Agents : runtime'[a] = IF a = task[t].of THEN "none" ELSE runtime[a]
  BY FinishIs DEF TypeOK
<1>2. ASSUME NEW u \in Tasks, task[u].do \in CleanupSteps, u # t PROVE task'[u] = task[u]
  BY <1>2, FinishIs DEF Joined, CleanupSteps
<1>3. ASSUME NEW a \in Agents, runtime'[a] \in Tasks PROVE CleansNext(runtime'[a], a)
  <2>1. runtime'[a] = runtime[a] /\ a # task[t].of
    BY <1>1, <1>3 DEF AgentAssumption
  <2>2. PICK u \in Tasks : u = runtime'[a] /\ u = runtime[a]
    BY <1>3, <2>1
  <2>3. task[u].do \in CleanupSteps /\ task[u].of = a
    BY <2>2 DEF Promises
  <2> QED
    BY <1>2, <2>1, <2>2, <2>3 DEF CleansNext
<1>4. ASSUME NEW v \in Tasks, task'[v].do = "join" PROVE task'[v].by \in Tasks /\ CleansNext(task'[v].by, task'[v].of)
  <2>1. v # t /\ ~Joined(v, t) /\ task'[v] = task[v]
    <3>1. Concludes(v) => task'[v].do # "join"
      BY IdleIs DEF Concludes, Has
    <3> QED
      BY <1>4, <3>1, FinishIs
  <2>2. PICK u \in Tasks : u = task[v].by
    BY <1>4, <2>1 DEF Promises
  <2>3. task[u].do \in CleanupSteps /\ task[u].of = task[v].of /\ u # t
    BY <1>4, <2>1, <2>2 DEF Promises, Joined
  <2> QED
    BY <1>2, <2>1, <2>2, <2>3 DEF CleansNext
<1> QED
  BY <1>3, <1>4, PromisesKept, Zenon

LEMMA PromisesJoin ==
    ASSUME AgentAssumption, TypeOK, Promises, NEW t \in Tasks, task[t].do = "clean", runtime[task[t].of] \in Tasks, task[t].of \in Agents,
           Becomes(t, task[t].mode, "join", task[t].of, task[t].own, task[t].left, task[t].then, runtime[task[t].of], task[t].gen),
           runtime' = runtime
    PROVE  Promises'
<1>1. ASSUME NEW u \in Tasks, task[u].do \in CleanupSteps PROVE task'[u] = task[u]
  BY <1>1 DEF Becomes, CleanupSteps
<1>2. ASSUME NEW a \in Agents, runtime'[a] \in Tasks PROVE CleansNext(runtime'[a], a)
  <2>1. PICK u \in Tasks : u = runtime'[a] /\ u = runtime[a]
    BY <1>2
  <2>2. task[u].do \in CleanupSteps /\ task[u].of = a
    BY <2>1 DEF Promises
  <2> QED
    BY <1>1, <2>1, <2>2 DEF CleansNext
<1>3. ASSUME NEW v \in Tasks, task'[v].do = "join" PROVE task'[v].by \in Tasks /\ CleansNext(task'[v].by, task'[v].of)
  <2>1. CASE v # t
    <3>1. task'[v] = task[v]
      BY <2>1 DEF Becomes
    <3>2. PICK u \in Tasks : u = task[v].by
      BY <1>3, <3>1 DEF Promises
    <3>3. task[u].do \in CleanupSteps /\ task[u].of = task[v].of
      BY <1>3, <3>1, <3>2 DEF Promises
    <3> QED
      BY <1>1, <3>1, <3>2, <3>3 DEF CleansNext
  <2>2. CASE v = t
    <3>1. PICK u \in Tasks : u = runtime[task[t].of] /\ u = runtime'[task[t].of]
      OBVIOUS
    <3>2. task'[v].by = u /\ task'[v].of = task[t].of
      BY <2>2, <3>1 DEF Becomes, Has
    <3> QED
      BY <1>2, <3>1, <3>2
  <2> QED
    BY <2>1, <2>2
<1> QED
  BY <1>2, <1>3, PromisesKept, Zenon

LEMMA PromisesStep ==
    ASSUME AgentAssumption, TypeOK, Shapes, Processes, Promises, [Next]_vars
    PROVE  Promises'
<1> USE DEF rows, world, process
<1>0. \A v \in Tasks : task[v].mode = "idle" => task[v].do \notin CleanupSteps
  BY IdleIs DEF Shapes, Shape, Has, CleanupSteps
<1>a. ASSUME UNCHANGED <<task, runtime>> PROVE Promises'
  BY <1>a DEF Promises
<1>b. \A v \in Tasks : task[v].then \in Thens
  BY DEF TypeOK, Record
<1>1. CASE UNCHANGED vars
  BY <1>1, <1>a DEF vars
<1>2. CASE Recover
  BY <1>2, <1>a, RecoverIs
<1>3. CASE Crash
  BY <1>3, PromisesFall, CrashIs
<1>4. ASSUME NEW t \in Tasks, Run(t) PROVE Promises'
  <2>a. ASSUME NEW d, Moves(t, d), d # "join", task[t].do \notin CleanupSteps, runtime' = runtime PROVE Promises'
    BY <2>a, PromisesBecome DEF Moves
  <2>b. ASSUME NEW d \in CleanupSteps, Moves(t, d), task[t].do \in CleanupSteps, runtime' = runtime PROVE Promises'
    BY <2>b, PromisesOther DEF Moves, Becomes, Has, CleanupSteps
  <2>1. CASE Prepare(t)
    BY <2>1, <2>a, PrepareIs, PromisesEnd DEF CleanupSteps
  <2>2. CASE Issue(t)
    BY <2>2, <2>a, IssueIs DEF CleanupSteps
  <2>3. CASE Launch(t)
    <3>1. \A a \in Agents : runtime'[a] \in Tasks => runtime'[a] = runtime[a]
      BY <2>3, LaunchIs DEF TypeOK, AgentAssumption
    <3>2. task[t].do \notin CleanupSteps
      BY <2>3, LaunchIs DEF CleanupSteps
    <3> QED
      BY <2>3, <3>1, <3>2, LaunchIs, PromisesBecome DEF Moves
  <2>4. CASE SendStart(t)
    BY <2>4, <2>a, SendStartIs, PromisesEnd DEF CleanupSteps
  <2>5. CASE FailLaunch(t)
    BY <2>5, <1>b, FailLaunchIs, PromisesEnd, PromisesCancel DEF CleanupSteps, CancelsAs
  <2>6. CASE AwaitLaunch(t)
    BY <2>6, <1>b, <2>a, AwaitLaunchIs, PromisesCancel DEF CleanupSteps, CancelsAs
  <2>7. CASE CancelNext(t)
    BY <2>7, <1>b, CancelNextIs, PromisesCancel DEF CleanupSteps, CancelsAs
  <2>8. CASE CleanOrJoin(t)
    <3>0. task[t].do \notin CleanupSteps
      BY <2>8, CleanOrJoinIs DEF CleanupSteps
    <3>1. CASE Thrown(t, runtime)
      BY <3>0, <3>1, PromisesThrow
    <3>2. CASE Moves(t, "revoke") /\ runtime' = Registered(t, task[t].of)
      BY <2>8, <3>0, <3>2, CleanOrJoinIs, PromisesMade DEF Moves, Becomes, Has
    <3> QED
      BY <2>8, <3>1, <3>2, CleanOrJoinIs, PromisesJoin
  <2>9. CASE Start(t)
    <3>1. task[t].do \notin CleanupSteps
      BY <2>9, StartIs DEF CleanupSteps
    <3> QED
      BY <2>9, <3>1, StartIs, PromisesMade DEF Becomes, Has
  <2>10. CASE Revoke(t)
    BY <2>10, <2>b, RevokeIs DEF CleanupSteps
  <2>11. CASE RemoveBox(t)
    BY <2>11, <2>b, RemoveBoxIs, PromisesThrow DEF CleanupSteps
  <2>12. CASE Finish(t)
    BY <2>12, PromisesFinish
  <2>13. CASE Rethrow(t)
    BY <2>13, RethrowIs, PromisesThrow DEF CleanupSteps
  <2>14. CASE Closed(t)
    BY <2>14, ClosedIs, PromisesEnd DEF CleanupSteps
  <2>15. CASE Expired(t)
    BY <2>15, ExpiredIs, PromisesEnd DEF CleanupSteps
  <2>16. CASE Exit(t)
    BY <2>16, ExitIs, PromisesFall
  <2>17. CASE Repair(t)
    BY <2>17, <2>a, RepairIs, PromisesBecome DEF CleanupSteps
  <2>18. CASE Admit(t)
    BY <2>18, AdmitIs, PromisesEnd, PromisesFall DEF CleanupSteps
  <2> QED
    BY <1>4, <2>1, <2>2, <2>3, <2>4, <2>5, <2>6, <2>7, <2>8, <2>9, <2>10, <2>11, <2>12, <2>13, <2>14, <2>15, <2>16, <2>17,
       <2>18, Zenon DEF Run
<1>5. ASSUME NEW t \in Tasks, Close(t) PROVE Promises'
  BY <1>0, <1>5, CloseIs, PromisesCancel, Words
<1>6. ASSUME NEW t \in Tasks, Expire(t) PROVE Promises'
  BY <1>0, <1>6, ExpireIs, PromisesBecome
<1>7. ASSUME NEW t \in Tasks, Shutdown(t) PROVE Promises'
  BY <1>0, <1>7, ShutdownIs, PromisesCancel, Words
<1>8. ASSUME NEW t \in Tasks, Boot(t) PROVE Promises'
  <2>1. CASE Becomes(t, "boot", "next", None, None, Unreconciled, "none", None, 0)
    <3>1. task[t].mode = "idle"
      BY <1>8, BootIs, IdleIs DEF Processes, Has
    <3> QED
      BY <1>0, <1>8, <2>1, <3>1, BootIs, PromisesBecome
  <2> QED
    BY <1>8, <1>a, <2>1, BootIs
<1>9. ASSUME NEW t \in Tasks, NEW a \in Agents, NEW p \in AgentOrNone, Spawn(t, a, p) PROVE Promises'
  BY <1>0, <1>9, SpawnIs, PromisesBecome
<1>10. ASSUME NEW t \in Tasks, NEW a \in Agents, NEW m \in {"call", "loose"}, CancelOne(t, a, m) PROVE Promises'
  BY <1>0, <1>10, CancelIs, PromisesBecome
<1>11. ASSUME NEW t \in Tasks, NEW a \in Agents, Interrupt(t, a) PROVE Promises'
  BY <1>0, <1>11, InterruptIs, PromisesCancel, Words
<1>12. ASSUME NEW t \in Tasks, NEW a \in Agents, FinishTerminal(t, a) PROVE Promises'
  <2>1. Cancels(t, "call", a, "start", None, 0, Below(a), {a}) /\ runtime' = runtime /\ task[t].mode = "idle"
    BY <1>12, FinishTerminalIs
  <2> QED
    BY <1>0, <2>1, PromisesCancel, Words
<1>13. ASSUME NEW t \in Tasks, NEW a \in Agents, RetryCleanup(t, a) PROVE Promises'
  BY <1>0, <1>13, RetryCleanupIs, PromisesBecome
<1> QED
  BY <1>1, <1>2, <1>3, <1>4, <1>5, <1>6, <1>7, <1>8, <1>9, <1>10, <1>11, <1>12, <1>13, Zenon
  DEF Next, Cancel, CancelLoose, AgentOrNone

-----------------------------------------------------------------------------
(* Waiting *)

LEMMA LeastNatural ==
    ASSUME NEW N \in SUBSET Nat, N # {}
    PROVE  \E n \in N : \A m \in N : n <= m
<1> DEFINE R == OpToRel(<, Nat)
<1>1. IsWellFoundedOn(R, Nat)
  BY NatLessThanWellFounded
<1>2. \A m, n \in Nat : m < n => <<m, n>> \in R
  BY DEF OpToRel
<1> HIDE DEF R
<1>3. PICK n \in N : \A m \in N : ~(<<m, n>> \in R)
  BY <1>1, WFMin
<1>4. \A m \in N : ~(m < n)
  BY <1>2, <1>3
<1> QED
  BY <1>4

\* A run below another has fewer runs below it.
LEMMA Fewer ==
    ASSUME AgentAssumption, Forest, NEW a \in Agents, NEW b \in Descendants(a)
    PROVE  Cardinality(Descendants(b)) < Cardinality(Descendants(a))
<1>1. Descendants(a) \in SUBSET Agents /\ b \in Agents /\ IsFiniteSet(Agents)
  BY DEF Descendants, AgentAssumption
<1>2. Descendants(b) \in SUBSET Descendants(a) /\ b \notin Descendants(b)
  BY <1>1, Transitive DEF Forest
<1>3. IsFiniteSet(Descendants(a)) /\ IsFiniteSet(Descendants(b))
  BY <1>1, <1>2, FS_Subset
<1>4. Cardinality(Descendants(a)) \in Nat /\ Cardinality(Descendants(b)) \in Nat
  BY <1>3, FS_CardinalityType
<1>5. Cardinality(Descendants(b)) <= Cardinality(Descendants(a)) /\ Cardinality(Descendants(b)) # Cardinality(Descendants(a))
  BY <1>2, <1>3, FS_Subset
<1> QED
  BY <1>4, <1>5

\* Among runs there is one with none of them below it.
LEMMA Lowest ==
    ASSUME AgentAssumption, Forest, NEW S \in SUBSET Agents, S # {}
    PROVE  \E a \in S : \A b \in S : b \notin Descendants(a)
<1> DEFINE N == {Cardinality(Descendants(a)) : a \in S}
<1>1. \A a \in S : Cardinality(Descendants(a)) \in Nat
  <2>1. TAKE a \in S
  <2>2. Descendants(a) \in SUBSET Agents /\ IsFiniteSet(Agents)
    BY DEF Descendants, AgentAssumption
  <2>3. IsFiniteSet(Descendants(a))
    BY <2>2, FS_Subset
  <2> QED
    BY <2>3, FS_CardinalityType
<1>2. PICK n \in N : \A m \in N : n <= m
  <2>1. N \in SUBSET Nat /\ N # {}
    BY <1>1
  <2> HIDE DEF N
  <2> QED
    BY <2>1, LeastNatural
<1>3. PICK a \in S : n = Cardinality(Descendants(a))
  OBVIOUS
<1>4. ASSUME NEW b \in S, b \in Descendants(a) PROVE FALSE
  <2>1. Cardinality(Descendants(b)) < Cardinality(Descendants(a))
    BY <1>3, <1>4, Fewer
  <2>2. Cardinality(Descendants(a)) <= Cardinality(Descendants(b))
    BY <1>2, <1>3
  <2> QED
    BY <1>1, <1>3, <2>1, <2>2
<1> QED
  BY <1>3, <1>4

\* Only a cleanup is joined, and it waits for nobody; a launch waits for a launch below its own run.
LEMMA NobodyInACircle == ASSUME AgentAssumption, Shapes, Forest, TaskAgents, Promises PROVE NoWaitCycle
<1> SUFFICES ASSUME NEW S \in (SUBSET Tasks) \ {{}} PROVE \E v \in S : \A u \in S : ~WaitsFor(v, u)
  BY DEF NoWaitCycle
<1> SUFFICES ASSUME ~(\E v \in S : \A u \in S : ~WaitsFor(v, u)) PROVE FALSE
  OBVIOUS
<1>1. S \in SUBSET Tasks /\ S # {} /\ \A v \in S : \E u \in S : WaitsFor(v, u)
  OBVIOUS
<1>2. \A v \in S : task[v].do \in {"await", "join"}
  BY <1>1 DEF WaitsFor, At
<1>3. ASSUME NEW v \in S PROVE task[v].do = "await"
  <2>1. ASSUME task[v].do = "join" PROVE FALSE
    <3>1. PICK u \in S : WaitsFor(v, u)
      BY <1>1
    <3>2. task[v].by = u
      BY <2>1, <3>1 DEF WaitsFor, At
    <3>3. task[u].do \in CleanupSteps
      BY <2>1, <3>2 DEF Promises
    <3> QED
      BY <1>2, <3>3 DEF CleanupSteps
  <2> QED
    BY <1>2, <2>1
<1>4. ASSUME NEW v \in S PROVE \E u \in S : task[u].mode = "launch" /\ task[u].own = task[v].of
  <2>1. PICK u \in S : WaitsFor(v, u)
    BY <1>1
  <2> QED
    BY <1>3, <2>1 DEF WaitsFor, At
<1> DEFINE L == {u \in S : task[u].mode = "launch"}
           O == {task[u].own : u \in L}
<1>5. \A u \in L : task[u].own \in Agents /\ task[u].of \in Descendants(task[u].own)
  BY <1>3 DEF Shapes, Shape, TaskAgents, AgentsOf
<1>6. O \in SUBSET Agents /\ O # {}
  <2>1. PICK v \in S, u \in S : task[u].mode = "launch" /\ task[u].own = task[v].of
    BY <1>1, <1>4
  <2>2. task[u].own \in O
    BY <2>1
  <2> QED
    BY <1>5, <2>2
<1>7. PICK a \in O : \A b \in O : b \notin Descendants(a)
  <2> HIDE DEF O
  <2> QED
    BY <1>6, Lowest
<1>8. PICK u \in L : a = task[u].own
  OBVIOUS
<1>9. task[u].of \in Descendants(a) /\ task[u].of \in O
  BY <1>4, <1>5, <1>8
<1> QED
  BY <1>7, <1>9

-----------------------------------------------------------------------------
(* Launches *)

\* The launches after a step were launches before it.
NoLaunch == \A v \in Tasks : task'[v].mode = "launch" => task[v].mode = "launch" /\ task[v].own = task'[v].own

LEMMA NoLaunchBecome ==
    ASSUME NEW t \in Tasks, NEW m, NEW d, NEW o, NEW w, NEW S, NEW th, NEW b, NEW g,
           Becomes(t, m, d, o, w, S, th, b, g), m # "launch"
    PROVE  NoLaunch
BY DEF Becomes, Has, NoLaunch

LEMMA NoLaunchCancel ==
    ASSUME NEW t \in Tasks, NEW m, NEW w, NEW th, NEW b, NEW g, NEW S, NEW A, Cancels(t, m, w, th, b, g, S, A),
           m # "launch"
    PROVE  NoLaunch
BY NoLaunchBecome DEF Cancels

LEMMA LaunchesStep == ASSUME TypeOK, Shapes, [Next]_vars PROVE Spawns \/ NoLaunch
<1>0. Idle.mode = "idle"
  BY IdleIs DEF Has
<1>1. CASE UNCHANGED vars
  BY <1>1 DEF vars, process, NoLaunch
<1>2. CASE Recover
  BY <1>2, RecoverIs DEF process, NoLaunch
<1>3. CASE Crash
  BY <1>0, <1>3, CrashIs DEF Falls, NoLaunch
<1>4. ASSUME NEW t \in Tasks, Run(t) PROVE NoLaunch
  BY <1>0, <1>4, RunTame DEF Tame, Falls, NoLaunch
<1>5. ASSUME NEW t \in Tasks, Close(t) PROVE NoLaunch
  BY <1>5, CloseIs, NoLaunchCancel
<1>6. ASSUME NEW t \in Tasks, Expire(t) PROVE NoLaunch
  BY <1>6, ExpireIs, NoLaunchBecome
<1>7. ASSUME NEW t \in Tasks, Shutdown(t) PROVE NoLaunch
  BY <1>7, ShutdownIs, NoLaunchCancel
<1>8. ASSUME NEW t \in Tasks, Boot(t) PROVE NoLaunch
  <2>1. CASE UNCHANGED task
    BY <2>1 DEF NoLaunch
  <2> QED
    BY <1>8, <2>1, BootIs, NoLaunchBecome
<1>9. ASSUME NEW t \in Tasks, NEW a \in Agents, NEW m \in {"call", "loose"}, CancelOne(t, a, m) PROVE NoLaunch
  BY <1>9, CancelIs, NoLaunchBecome
<1>10. ASSUME NEW t \in Tasks, NEW a \in Agents, Interrupt(t, a) \/ FinishTerminal(t, a) PROVE NoLaunch
  BY <1>10, InterruptIs, FinishTerminalIs, NoLaunchCancel
<1>11. ASSUME NEW t \in Tasks, NEW a \in Agents, RetryCleanup(t, a) PROVE NoLaunch
  BY <1>11, RetryCleanupIs, NoLaunchBecome
<1> QED
  BY <1>1, <1>2, <1>3, <1>4, <1>5, <1>6, <1>7, <1>8, <1>9, <1>10, <1>11, Zenon
  DEF Next, Cancel, CancelLoose, AgentOrNone, Spawns

\* A run is launched once.
LEMMA OneLaunchStep == ASSUME TypeOK, Shapes, TaskAgents, OneLaunch, [Next]_vars PROVE OneLaunch'
<1>1. CASE NoLaunch
  BY <1>1 DEF NoLaunch, OneLaunch
<1>2. ASSUME NEW t \in Tasks, NEW a \in Agents, NEW p \in AgentOrNone, Spawn(t, a, p) PROVE OneLaunch'
  <2>1. status[a] = "NONE" /\ Becomes(t, "launch", "prepare", a, a, {}, "start", None, 0)
    BY <1>2, SpawnIs
  <2>2. ASSUME NEW v \in Tasks, task[v].mode = "launch" PROVE task[v].own # a
    <3>1. Shape(task[v]) /\ AgentsOf(task[v])
      BY DEF Shapes, TaskAgents
    <3> QED
      BY <2>1, <2>2, <3>1 DEF Shape, AgentsOf
  <2> QED
    BY <2>1, <2>2 DEF OneLaunch, Becomes, Has
<1> QED
  BY <1>1, <1>2, LaunchesStep DEF Spawns

-----------------------------------------------------------------------------
(* What runs gain, and where *)

\* A launch leaves the step that builds the container.
Builds(t, a) == task[t].do = "box" /\ task[t].of = a /\ task'[t].do \in {"begin", "fail"}

Gains ==
    \A a \in Agents :
        /\ lease'[a] /\ ~lease[a] => \E t \in Tasks : task[t].do = "issue" /\ task[t].of = a
        /\ box'[a] /\ ~box[a] => \E t \in Tasks : task[t].do = "box" /\ task[t].of = a
        /\ runtime'[a] # "none" /\ runtime[a] = "none" =>
             status'[a] # "SPAWNING" /\ \E t \in Tasks : Builds(t, a)
        /\ runtime'[a] = "failed" => runtime[a] = "failed" \/ retry'[a]
        /\ retry'[a] /\ ~retry[a] => \E t \in Tasks : task[t].do \in CleanupSteps /\ task[t].of = a
        /\ retry[a] /\ ~retry'[a] => runtime'[a] = "none"
        /\ status'[a] = "ENDED" /\ status[a] # "ENDED" =>
             /\ runtime'[a] = "none" /\ lease' = lease /\ box' = box
             /\ \E t \in Tasks : task[t].do = "finish" /\ task[t].of = a
        /\ status'[a] = "RUNNING" /\ status[a] # "RUNNING" =>
             runtime'[a] = "open" /\ \E t \in Tasks : Builds(t, a)

LEMMA GainsNone ==
    ASSUME UNCHANGED <<lease, box, runtime, retry>>,
           \A a \in Agents : status'[a] \in {"ENDED", "RUNNING"} => status'[a] = status[a]
    PROVE  Gains
BY DEF Gains

LEMMA GainsCancel ==
    ASSUME TypeOK, NEW t, NEW m, NEW w, NEW th, NEW b, NEW g, NEW S, NEW A, Cancels(t, m, w, th, b, g, S, A),
           UNCHANGED <<lease, box, runtime, retry>>
    PROVE  Gains
<1>1. PICK M : status' = Marked(M)
  BY DEF Cancels
<1>2. \A a \in Agents : status'[a] \in {"ENDED", "RUNNING"} => status'[a] = status[a]
  BY <1>1, MarkedIs
<1> QED
  BY <1>2, GainsNone

LEMMA GainsFall == ASSUME Falls, UNCHANGED <<box, retry, status>> PROVE Gains
BY DEF Falls, Gains

LEMMA GainsRegistered ==
    ASSUME TypeOK, AgentAssumption, NEW t \in Tasks, NEW a, UNCHANGED <<lease, box, retry, status>>, runtime' = Registered(t, a)
    PROVE  Gains
BY RegisteredIs DEF Gains, AgentAssumption

LEMMA GainsStep == ASSUME AgentAssumption, TypeOK, Shapes, [Next]_vars PROVE Gains
<1> USE DEF rows, world, process
<1>1. CASE UNCHANGED vars
  BY <1>1, GainsNone DEF vars
<1>2. CASE Recover
  BY <1>2, GainsNone, RecoverIs
<1>3. CASE Crash
  BY <1>3, GainsFall, CrashIs
<1>4. ASSUME NEW t \in Tasks, Run(t) PROVE Gains
  <2>1. CASE Prepare(t)
    BY <2>1, PrepareIs, GainsNone
  <2>2. CASE Issue(t)
    BY <2>2, IssueIs DEF Gains
  <2>3. CASE Launch(t)
    <3>0. task[t].do = "box" /\ task[t].of \in Agents /\ task'[t].do \in {"begin", "fail"}
      BY <2>3, LaunchIs DEF Shapes, Shape, LaunchSteps, Moves, Becomes, Has
    <3>1. task[t].do = "box" /\ task[t].of \in Agents /\ \A a \in Agents : a = task[t].of => Builds(t, a)
      BY <3>0 DEF Builds
    <3>2. UNCHANGED <<retry, lease>> /\ \A a \in Agents : a # task[t].of => box'[a] = box[a]
      BY <2>3, LaunchIs
    <3>3. ASSUME NEW a \in Agents, a # task[t].of PROVE runtime'[a] = runtime[a] /\ status'[a] = status[a]
      BY <2>3, <3>3, LaunchIs DEF TypeOK
    <3>4. \/ runtime'[task[t].of] = "open" /\ status'[task[t].of] = "RUNNING"
          \/ runtime'[task[t].of] = "open" /\ status' = status /\ status'[task[t].of] # "SPAWNING"
          \/ runtime' = runtime /\ status' = status
      <4>1. PICK a \in Agents : a = task[t].of
        BY <3>1
      <4>2. \/ status' = [status EXCEPT ![a] = "RUNNING"] /\ runtime' = [runtime EXCEPT ![a] = "open"]
            \/ status[a] # "SPAWNING" /\ status' = status /\ runtime' = [runtime EXCEPT ![a] = "open"]
            \/ status' = status /\ runtime' = runtime
        BY <2>3, <4>1, LaunchIs
      <4> QED
        BY <4>1, <4>2 DEF TypeOK
    <3> QED
      BY <3>1, <3>2, <3>3, <3>4 DEF Gains
  <2>4. CASE SendStart(t)
    BY <2>4, SendStartIs, GainsNone
  <2>5. CASE FailLaunch(t)
    BY <2>5, FailLaunchIs, GainsNone, GainsCancel DEF CancelsAs
  <2>6. CASE AwaitLaunch(t)
    BY <2>6, AwaitLaunchIs, GainsNone, GainsCancel DEF CancelsAs
  <2>7. CASE CancelNext(t)
    BY <2>7, CancelNextIs, GainsCancel DEF CancelsAs
  <2>8. CASE CleanOrJoin(t)
    <3>1. UNCHANGED <<box, retry, status>>
      BY <2>8, CleanOrJoinIs
    <3>2. CASE Thrown(t, runtime)
      BY <3>1, <3>2, GainsFall, GainsNone DEF Thrown
    <3> QED
      BY <2>8, <3>1, <3>2, CleanOrJoinIs, GainsNone, GainsRegistered
  <2>9. CASE Start(t)
    BY <2>9, StartIs, GainsRegistered
  <2>10. CASE Revoke(t)
    BY <2>10, RevokeIs DEF Gains
  <2>11. CASE RemoveBox(t)
    <3>1. /\ task[t].do \in CleanupSteps /\ task[t].of \in Agents /\ status' = status
          /\ \A a \in Agents : box'[a] => box[a]
      BY <2>11, RemoveBoxIs DEF CleanupSteps
    <3>2. CASE UNCHANGED <<retry, lease, runtime>>
      BY <3>1, <3>2 DEF Gains
    <3>3. CASE Thrown(t, Failed(t)) /\ retry' = [retry EXCEPT ![task[t].of] = TRUE]
      <4>1. \A a \in Agents : retry'[a] = (a = task[t].of \/ retry[a])
        BY <3>3 DEF TypeOK
      <4>2. CASE Falls
        BY <3>1, <4>1, <4>2 DEF Falls, Gains
      <4>3. CASE lease' = lease /\ runtime' = Failed(t)
        <5>1. \A a \in Agents : runtime'[a] = IF a = task[t].of /\ runtime[a] = t THEN "failed" ELSE runtime[a]
          BY <4>3, FailedIs
        <5>2. \A a \in Agents : runtime'[a] # "none" => runtime[a] # "none"
          BY <5>1 DEF AgentAssumption
        <5>3. \A a \in Agents : runtime'[a] = "failed" => runtime[a] = "failed" \/ retry'[a]
          BY <4>1, <5>1
        <5> QED
          BY <3>1, <4>1, <4>3, <5>2, <5>3 DEF Gains
      <4> QED
        BY <3>3, <4>2, <4>3 DEF Thrown
    <3> QED
      BY <2>11, <3>2, <3>3, RemoveBoxIs
  <2>12. CASE Finish(t)
    <3>1. /\ task[t].do = "finish" /\ task[t].of \in Agents /\ UNCHANGED <<lease, box>>
          /\ \A a \in Agents : /\ status'[a] = IF a = task[t].of THEN "ENDED" ELSE status[a]
                               /\ runtime'[a] = IF a = task[t].of THEN "none" ELSE runtime[a]
                               /\ retry'[a] = IF a = task[t].of THEN FALSE ELSE retry[a]
      <4>1. PICK a \in Agents : a = task[t].of
        BY <2>12, FinishIs
      <4>2. /\ status' = [status EXCEPT ![a] = "ENDED"] /\ runtime' = [runtime EXCEPT ![a] = "none"]
            /\ retry' = [retry EXCEPT ![a] = FALSE]
        BY <2>12, <4>1, FinishIs
      <4>3. task[t].do = "finish" /\ UNCHANGED <<lease, box>>
        BY <2>12, FinishIs
      <4> QED
        BY <4>1, <4>2, <4>3 DEF TypeOK
    <3> QED
      BY <3>1 DEF Gains
  <2>13. CASE Rethrow(t)
    BY <2>13, RethrowIs, GainsFall, GainsNone DEF Thrown
  <2>14. CASE Closed(t)
    BY <2>14, ClosedIs, GainsNone
  <2>15. CASE Expired(t)
    BY <2>15, ExpiredIs, GainsNone
  <2>16. CASE Exit(t)
    BY <2>16, ExitIs, GainsFall
  <2>17. CASE Repair(t)
    <3>1. /\ UNCHANGED <<lease, box, runtime, retry>> 
          /\ status' = status \/ \E M : status' = Marked(M)
      BY <2>17, RepairIs
    <3>2. \A M : status' = Marked(M) => \A a \in Agents : status'[a] \in {"ENDED", "RUNNING"} => status'[a] = status[a]
      BY MarkedIs
    <3>3. \A a \in Agents : status'[a] \in {"ENDED", "RUNNING"} => status'[a] = status[a]
      BY <3>1, <3>2
    <3> QED
      BY <3>1, <3>3, GainsNone
  <2>18. CASE Admit(t)
    BY <2>18, AdmitIs, GainsFall, GainsNone
  <2> QED
    BY <1>4, <2>1, <2>2, <2>3, <2>4, <2>5, <2>6, <2>7, <2>8, <2>9, <2>10, <2>11, <2>12, <2>13, <2>14, <2>15, <2>16, <2>17,
       <2>18, Zenon DEF Run
<1>5. ASSUME NEW t \in Tasks, Close(t) PROVE Gains
  BY <1>5, CloseIs, GainsCancel
<1>6. ASSUME NEW t \in Tasks, Expire(t) PROVE Gains
  BY <1>6, ExpireIs, GainsNone
<1>7. ASSUME NEW t \in Tasks, Shutdown(t) PROVE Gains
  BY <1>7, ShutdownIs, GainsCancel
<1>8. ASSUME NEW t \in Tasks, Boot(t) PROVE Gains
  <2>1. UNCHANGED <<lease, runtime, retry, status>> /\ \A a \in Agents : box'[a] => box[a]
    BY <1>8, BootIs
  <2> QED
    BY <2>1 DEF Gains
<1>9. ASSUME NEW t \in Tasks, NEW a \in Agents, NEW p \in AgentOrNone, Spawn(t, a, p) PROVE Gains
  <2>1. \A e \in Agents : status'[e] \in {"ENDED", "RUNNING"} => status'[e] = status[e]
    BY <1>9, SpawnIs DEF TypeOK
  <2> QED
    BY <1>9, <2>1, SpawnIs, GainsNone
<1>10. ASSUME NEW t \in Tasks, NEW a \in Agents, NEW m \in {"call", "loose"}, CancelOne(t, a, m) PROVE Gains
  <2>1. \A e \in Agents : status'[e] \in {"ENDED", "RUNNING"} => status'[e] = status[e]
    <3>1. PICK M : status' = Marked(M)
      BY <1>10, CancelIs
    <3> QED
      BY <3>1, MarkedIs
  <2> QED
    BY <1>10, <2>1, CancelIs, GainsNone
<1>11. ASSUME NEW t \in Tasks, NEW a \in Agents, Interrupt(t, a) PROVE Gains
  BY <1>11, InterruptIs, GainsCancel
<1>12. ASSUME NEW t \in Tasks, NEW a \in Agents, FinishTerminal(t, a) PROVE Gains
  BY <1>12, FinishTerminalIs, GainsCancel
<1>13. ASSUME NEW t \in Tasks, NEW a \in Agents, RetryCleanup(t, a) PROVE Gains
  BY <1>13, RetryCleanupIs, GainsNone
<1> QED
  BY <1>1, <1>2, <1>3, <1>4, <1>5, <1>6, <1>7, <1>8, <1>9, <1>10, <1>11, <1>12, <1>13, Zenon
  DEF Next, Cancel, CancelLoose, AgentOrNone

LEMMA LifeStep ==
    ASSUME TypeOK, Shapes, TaskAgents, Repairing, [Next]_vars
    PROVE  \A a \in Agents : Later(status[a], status'[a]) \/ (status[a] = "NONE" /\ status'[a] = "SPAWNING")
<1>1. ASSUME NEW t \in Tasks, NEW a \in Agents, NEW p \in AgentOrNone, Spawn(t, a, p)
      PROVE  \A e \in Agents : Later(status[e], status'[e]) \/ (status[e] = "NONE" /\ status'[e] = "SPAWNING")
  BY <1>1, SpawnIs DEF TypeOK, Later
<1> QED
  BY <1>1, StatusStep DEF Spawns, Progress

\* Who issues a lease or builds a container is a launch of a run that is there.
LEMMA Acquiring ==
    ASSUME Shapes, TaskAgents, NEW t \in Tasks, Early(t)
    PROVE  task[t].of = task[t].own /\ task[t].own \in Agents /\ task[t].mode = "launch" /\ status[task[t].of] # "NONE"
BY DEF Shapes, Shape, TaskAgents, AgentsOf, Early, LaunchSteps

LEMMA AbsentStep ==
    ASSUME AgentAssumption, TypeOK, Shapes, TaskAgents, Repairing, Absent, [Next]_vars
    PROVE  Absent'
<1>1. SUFFICES ASSUME NEW a \in Agents
               PROVE  /\ status'[a] = "NONE" => ~lease'[a] /\ ~box'[a]
                      /\ status'[a] \in {"NONE", "SPAWNING"} => runtime'[a] = "none"
  BY DEF Absent
<1>2. /\ status'[a] = "NONE" => status[a] = "NONE"
      /\ status'[a] = "SPAWNING" => status[a] \in {"NONE", "SPAWNING"}
  BY LifeStep DEF Later
<1>3. /\ lease'[a] /\ ~lease[a] => \E t \in Tasks : task[t].do = "issue" /\ task[t].of = a
      /\ box'[a] /\ ~box[a] => \E t \in Tasks : task[t].do = "box" /\ task[t].of = a
      /\ runtime'[a] # "none" /\ runtime[a] = "none" =>
             status'[a] # "SPAWNING" /\ \E t \in Tasks : task[t].do = "box" /\ task[t].of = a
  BY GainsStep DEF Gains, Builds
<1>4. \A t \in Tasks : task[t].do \in {"issue", "box"} => status[task[t].of] # "NONE"
  BY Acquiring DEF Early
<1> QED
  BY <1>2, <1>3, <1>4 DEF Absent

LEMMA FailuresStep ==
    ASSUME AgentAssumption, TypeOK, Shapes, TaskAgents, Repairing, Failures, [Next]_vars
    PROVE  Failures'
<1>1. SUFFICES ASSUME NEW a \in Agents
               PROVE  /\ runtime'[a] = "failed" => retry'[a]
                      /\ retry'[a] => status'[a] \in {"CANCELLING", "ENDED"}
  BY DEF Failures
<1>2. status[a] \in {"CANCELLING", "ENDED"} => status'[a] \in {"CANCELLING", "ENDED"}
  BY LifeStep DEF Later
<1>3. /\ runtime'[a] = "failed" => runtime[a] = "failed" \/ retry'[a]
      /\ retry'[a] /\ ~retry[a] => \E t \in Tasks : task[t].do \in CleanupSteps /\ task[t].of = a
      /\ retry[a] /\ ~retry'[a] => runtime'[a] = "none"
  BY GainsStep DEF Gains
<1>4. \A t \in Tasks : task[t].do \in CleanupSteps => status[task[t].of] \in {"CANCELLING", "ENDED"}
  BY DEF TaskAgents, AgentsOf, CancelSteps
<1> QED
  BY <1>2, <1>3, <1>4 DEF Failures

-----------------------------------------------------------------------------
(* Launches come first *)

EarlySteps == {"prepare", "issue", "box"}

\* A launch goes through its steps in order; it is running once it has built its container.
Onward ==
    \A v \in Tasks :
        /\ task'[v].do \in EarlySteps => task[v].do \in EarlySteps /\ task'[v].own = task[v].own
        /\ task'[v].do = "begin" => \/ task[v].do = "begin" /\ task'[v].own = task[v].own
                                    \/ task'[v].own \in Agents /\ status'[task'[v].own] = "RUNNING"

LEMMA OnwardOther ==
    ASSUME NEW t \in Tasks, \A v \in Tasks : v # t => task'[v] = task[v], task'[t].do \notin EarlySteps \union {"begin"}
    PROVE  Onward
BY DEF Onward

LEMMA OnwardBecome ==
    ASSUME NEW t \in Tasks, NEW m, NEW d, NEW o, NEW w, NEW S, NEW th, NEW b, NEW g,
           Becomes(t, m, d, o, w, S, th, b, g), d \notin EarlySteps \union {"begin"}
    PROVE  Onward
BY OnwardOther DEF Becomes, Has

LEMMA OnwardEnd == ASSUME NEW t \in Tasks, Ends(t) PROVE Onward
BY OnwardOther, IdleIs DEF Ends, Has, EarlySteps

LEMMA OnwardFall == ASSUME Falls PROVE Onward
BY IdleIs DEF Falls, Has, EarlySteps, Onward

LEMMA OnwardCancel ==
    ASSUME NEW t \in Tasks, NEW m, NEW w, NEW th \in Thens, NEW b, NEW g, NEW S, NEW A, Cancels(t, m, w, th, b, g, S, A)
    PROVE  Onward
BY OnwardBecome DEF Cancels, Thens, EarlySteps

LEMMA OnwardThrow == ASSUME NEW t \in Tasks, NEW f, Thrown(t, f) PROVE Onward
<1>1. CASE Throws(t)
  <2>1. \A v \in Tasks : task'[v] = task[v] \/ task'[v].do \in {"none", "rethrow"}
    BY <1>1, IdleIs DEF Throws, Has
  <2> QED
    BY <2>1 DEF Onward, EarlySteps
<1> QED
  BY <1>1, OnwardFall DEF Thrown

LEMMA OnwardStep == ASSUME AgentAssumption, TypeOK, Shapes, [Next]_vars PROVE Spawns \/ Onward
<1> USE DEF rows, world, process
<1>a. \A v \in Tasks : task[v].then \in Thens
  BY DEF TypeOK, Record
<1>b. ASSUME UNCHANGED task PROVE Onward
  BY <1>b DEF Onward
<1>1. CASE UNCHANGED vars
  BY <1>1, <1>b DEF vars
<1>2. CASE Recover
  BY <1>2, <1>b, RecoverIs
<1>3. CASE Crash
  BY <1>3, OnwardFall, CrashIs
<1>4. ASSUME NEW t \in Tasks, Run(t) PROVE Onward
  <2>a. ASSUME NEW d, Moves(t, d), d \notin EarlySteps \union {"begin"} PROVE Onward
    BY <2>a, OnwardBecome DEF Moves
  <2>b. ASSUME NEW d, Moves(t, d), task[t].do \in EarlySteps, d # "begin" PROVE Onward
    BY <2>b DEF Moves, Becomes, Has, Onward
  <2>1. CASE Prepare(t)
    BY <2>1, <2>b, PrepareIs, OnwardEnd DEF EarlySteps
  <2>2. CASE Issue(t)
    BY <2>2, <2>b, IssueIs DEF EarlySteps
  <2>3. CASE Launch(t)
    <3>1. CASE Moves(t, "fail")
      BY <2>a, <3>1 DEF EarlySteps
    <3>2. CASE Moves(t, "begin") /\ status' = [status EXCEPT ![task[t].of] = "RUNNING"]
      <4>1. task[t].of = task[t].own /\ task[t].own \in Agents
        BY <2>3, LaunchIs DEF Shapes, Shape, LaunchSteps
      <4>2. status'[task[t].own] = "RUNNING"
        BY <3>2, <4>1 DEF TypeOK
      <4> QED
        BY <3>2, <4>1, <4>2 DEF Moves, Becomes, Has, Onward, EarlySteps
    <3> QED
      BY <2>3, <3>1, <3>2, LaunchIs
  <2>4. CASE SendStart(t)
    BY <2>4, <2>a, SendStartIs, OnwardEnd DEF EarlySteps
  <2>5. CASE FailLaunch(t)
    BY <2>5, <1>a, FailLaunchIs, OnwardEnd, OnwardCancel DEF CancelsAs
  <2>6. CASE AwaitLaunch(t)
    BY <2>6, <1>a, <2>a, AwaitLaunchIs, OnwardCancel DEF CancelsAs, EarlySteps
  <2>7. CASE CancelNext(t)
    BY <2>7, <1>a, CancelNextIs, OnwardCancel DEF CancelsAs
  <2>8. CASE CleanOrJoin(t)
    BY <2>8, <2>a, CleanOrJoinIs, OnwardThrow, OnwardBecome DEF EarlySteps
  <2>9. CASE Start(t)
    BY <2>9, StartIs, OnwardBecome DEF EarlySteps
  <2>10. CASE Revoke(t)
    BY <2>10, <2>a, RevokeIs DEF EarlySteps
  <2>11. CASE RemoveBox(t)
    BY <2>11, <2>a, RemoveBoxIs, OnwardThrow DEF EarlySteps
  <2>12. CASE Finish(t)
    <3>1. \A v \in Tasks : task'[v] = task[v] \/ task'[v].do \in {"none", "next"}
      BY <2>12, FinishIs, IdleIs DEF Concludes, Has
    <3> QED
      BY <3>1 DEF Onward, EarlySteps
  <2>13. CASE Rethrow(t)
    BY <2>13, RethrowIs, OnwardThrow
  <2>14. CASE Closed(t)
    BY <2>14, ClosedIs, OnwardEnd
  <2>15. CASE Expired(t)
    BY <2>15, ExpiredIs, OnwardEnd
  <2>16. CASE Exit(t)
    BY <2>16, ExitIs, OnwardFall
  <2>17. CASE Repair(t)
    <3>1. ASSUME NEW a, NEW S,
                 Becomes(t, "boot", "revoke", a, task[t].own, S, task[t].then, task[t].by, task[t].gen)
          PROVE  Onward
      BY <3>1, OnwardBecome DEF EarlySteps
    <3>2. CASE Moves(t, "admit")
      BY <2>a, <3>2 DEF EarlySteps
    <3> QED
      BY <2>17, <3>1, <3>2, RepairIs
  <2>18. CASE Admit(t)
    BY <2>18, AdmitIs, OnwardEnd, OnwardFall
  <2> QED
    BY <1>4, <2>1, <2>2, <2>3, <2>4, <2>5, <2>6, <2>7, <2>8, <2>9, <2>10, <2>11, <2>12, <2>13, <2>14, <2>15, <2>16, <2>17,
       <2>18, Zenon DEF Run
<1>5. ASSUME NEW t \in Tasks, Close(t) PROVE Onward
  BY <1>5, CloseIs, OnwardCancel, Words
<1>6. ASSUME NEW t \in Tasks, Expire(t) PROVE Onward
  BY <1>6, ExpireIs, OnwardBecome DEF EarlySteps
<1>7. ASSUME NEW t \in Tasks, Shutdown(t) PROVE Onward
  BY <1>7, ShutdownIs, OnwardCancel, Words
<1>8. ASSUME NEW t \in Tasks, Boot(t) PROVE Onward
  BY <1>8, <1>b, BootIs, OnwardBecome DEF EarlySteps
<1>9. ASSUME NEW t \in Tasks, NEW a \in Agents, NEW m \in {"call", "loose"}, CancelOne(t, a, m) PROVE Onward
  BY <1>9, CancelIs, OnwardBecome DEF EarlySteps
<1>10. ASSUME NEW t \in Tasks, NEW a \in Agents, Interrupt(t, a) PROVE Onward
  BY <1>10, InterruptIs, OnwardCancel, Words
<1>11. ASSUME NEW t \in Tasks, NEW a \in Agents, FinishTerminal(t, a) PROVE Onward
  BY <1>11, FinishTerminalIs, OnwardCancel, Words
<1>12. ASSUME NEW t \in Tasks, NEW a \in Agents, RetryCleanup(t, a) PROVE Onward
  BY <1>12, RetryCleanupIs, OnwardBecome DEF EarlySteps
<1> QED
  BY <1>1, <1>2, <1>3, <1>4, <1>5, <1>6, <1>7, <1>8, <1>9, <1>10, <1>11, <1>12, Zenon
  DEF Next, Cancel, CancelLoose, AgentOrNone, Spawns

\* A task keeps off the run `a`, whose launch has not settled: it waits for the launch.
Off(r, a) ==
    /\ r.do \in CancelSteps /\ r.of = a => r.do = "await"
    /\ r.own = a => r.do = "await" /\ r.of = r.own

\* Task `t` launches `a`, and the others keep off.
Alone(t, a) ==
    /\ a \in Agents /\ task[t].own = a /\ task[t].of = a /\ task[t].mode = "launch" /\ task[t].do \in EarlySteps
    /\ runtime[a] = "none" /\ ~retry[a]
    /\ \A u \in Tasks : u # t => Off(task[u], a) /\ ~(task[u].mode = "launch" /\ task[u].own = a)

OthersOff(t, a) == \A u \in Tasks : u # t => Off(task'[u], a)

LEMMA OffBecome ==
    ASSUME NEW t \in Tasks, NEW a, Alone(t, a), NEW s \in Tasks, NEW m, NEW d, NEW o, NEW w, NEW S, NEW th, NEW b, NEW g,
           Becomes(s, m, d, o, w, S, th, b, g),
           s = t \/ ((d \in CancelSteps /\ o = a => d = "await") /\ (w = a => d = "await" /\ o = w))
    PROVE  OthersOff(t, a)
BY DEF Becomes, Has, Alone, OthersOff, Off

LEMMA OffIdle == ASSUME AgentAssumption, NEW a \in Agents PROVE Off(Idle, a)
BY IdleIs DEF Has, Off, AgentAssumption, CancelSteps, CleanupSteps

LEMMA OffEnd == ASSUME AgentAssumption, NEW t \in Tasks, NEW a, Alone(t, a), NEW s \in Tasks, Ends(s) PROVE OthersOff(t, a)
BY OffIdle DEF Ends, Alone, OthersOff

LEMMA OffFall == ASSUME AgentAssumption, NEW t, NEW a, Alone(t, a), Falls PROVE OthersOff(t, a)
BY OffIdle DEF Falls, Alone, OthersOff

LEMMA OffCancel ==
    ASSUME NEW t \in Tasks, NEW a, Alone(t, a), NEW s \in Tasks, NEW m, NEW w, NEW th, NEW b, NEW g, NEW S, NEW A,
           Cancels(s, m, w, th, b, g, S, A), w # a
    PROVE  OthersOff(t, a)
BY OffBecome DEF Cancels

LEMMA OffThrow ==
    ASSUME AgentAssumption, NEW t \in Tasks, NEW a, Alone(t, a), NEW s \in Tasks, s # t, NEW f, Thrown(s, f)
    PROVE  OthersOff(t, a)
<1>1. CASE Throws(s)
  <2>1. SUFFICES ASSUME NEW u \in Tasks, u # t PROVE Off(task'[u], a)
    BY DEF OthersOff
  <2>2. CASE u = s
    BY <1>1, <2>2, OffIdle DEF Throws, Alone
  <2>3. CASE u # s /\ ~Awaits(u, s)
    BY <1>1, <2>1, <2>3 DEF Throws, Alone
  <2>4. CASE u # s /\ Awaits(u, s)
    <3>1. Has(task'[u], task[u].mode, "rethrow", task[u].of, task[u].own, task[u].left, task[u].then, task[u].by, task[u].gen)
      BY <1>1, <2>4 DEF Throws
    <3>2. task[u].own # a
      BY <2>1, <2>4 DEF Alone, Off, Awaits, At
    <3> QED
      BY <3>1, <3>2 DEF Has, Off, CancelSteps, CleanupSteps
  <2> QED
    BY <2>2, <2>3, <2>4
<1> QED
  BY <1>1, OffFall DEF Thrown

LEMMA OffRun ==
    ASSUME AgentAssumption, TypeOK, Shapes, Processes, NEW t \in Tasks, NEW a, Alone(t, a), NEW s \in Tasks, Run(s)
    PROVE  OthersOff(t, a)
<1>0. Shape(task[s]) /\ (s # t => Off(task[s], a))
  BY DEF Shapes, Alone
<1>a. ASSUME s = t \/ (task[s].do \in LaunchSteps /\ task[s].own # a), NEW d \in LaunchSteps, Moves(s, d) PROVE OthersOff(t, a)
  BY <1>a, OffBecome DEF Moves, LaunchSteps, CancelSteps, CleanupSteps
<1>b. ASSUME s # t, task[s].do \in CancelSteps \ {"await"}, NEW d, Moves(s, d) PROVE OthersOff(t, a)
  <2>1. task[s].of # a /\ task[s].own # a
    BY <1>0, <1>b DEF Off
  <2> QED
    BY <1>b, <2>1, OffBecome DEF Moves
<1>c. s # t /\ task[s].do \in LaunchSteps => task[s].own # a
  BY <1>0 DEF Off, LaunchSteps
<1>d. s = t => task[s].do \in EarlySteps
  BY DEF Alone
<1>1. CASE Prepare(s)
  BY <1>1, <1>a, <1>c, PrepareIs, OffEnd DEF LaunchSteps
<1>2. CASE Issue(s)
  BY <1>2, <1>a, <1>c, IssueIs DEF LaunchSteps
<1>3. CASE Launch(s)
  BY <1>3, <1>a, <1>c, LaunchIs DEF LaunchSteps
<1>4. CASE SendStart(s)
  BY <1>4, <1>a, <1>c, SendStartIs, OffEnd DEF LaunchSteps
<1>5. CASE FailLaunch(s)
  <2>1. s # t /\ task[s].own # a
    BY <1>5, <1>c, <1>d, FailLaunchIs DEF LaunchSteps, EarlySteps
  <2> QED
    BY <1>5, <2>1, FailLaunchIs, OffEnd, OffCancel DEF CancelsAs
<1>6. CASE AwaitLaunch(s)
  <2>1. s # t /\ task[s].of # a
    BY <1>6, <1>d, AwaitLaunchIs DEF Launching, EarlySteps, Alone
  <2>2. task[s].own # a
    BY <1>0, <2>1 DEF Off
  <2>3. CASE Moves(s, "clean")
    BY <2>1, <2>2, <2>3, OffBecome DEF Moves
  <2> QED
    BY <1>6, <2>2, <2>3, AwaitLaunchIs, OffCancel DEF CancelsAs
<1>7. CASE CancelNext(s)
  <2>1. task[s].own # a
    BY <1>0, <1>7, <1>d, CancelNextIs DEF Off, EarlySteps
  <2> QED
    BY <1>7, <2>1, CancelNextIs, OffCancel DEF CancelsAs
<1>8. CASE CleanOrJoin(s)
  <2>1. s # t /\ task[s].do \in CancelSteps \ {"await"}
    BY <1>8, <1>d, CleanOrJoinIs DEF CancelSteps, EarlySteps
  <2>2. task[s].of # a /\ task[s].own # a
    BY <1>0, <2>1 DEF Off
  <2> QED
    BY <1>8, <1>b, <2>1, <2>2, CleanOrJoinIs, OffThrow, OffBecome
<1>9. CASE Start(s)
  <2>1. s # t /\ task[s].do \in CancelSteps \ {"await"}
    BY <1>9, <1>d, StartIs DEF CancelSteps, EarlySteps
  <2>2. task[s].of # a /\ task[s].own # a
    BY <1>0, <2>1 DEF Off
  <2> QED
    BY <1>9, <2>2, StartIs, OffBecome
<1>10. CASE Revoke(s)
  BY <1>10, <1>b, <1>d, RevokeIs DEF CancelSteps, CleanupSteps, EarlySteps
<1>11. CASE RemoveBox(s)
  BY <1>11, <1>b, <1>d, RemoveBoxIs, OffThrow DEF CancelSteps, CleanupSteps, EarlySteps
<1>12. CASE Finish(s)
  <2>1. SUFFICES ASSUME NEW u \in Tasks, u # t PROVE Off(task'[u], a)
    BY DEF OthersOff
  <2>2. Off(task[u], a)
    BY <2>1 DEF Alone
  <2>3. CASE u # s /\ ~Joined(u, s)
    BY <1>12, <2>2, <2>3, FinishIs
  <2>4. CASE u = s \/ Joined(u, s)
    <3>1. Concludes(u) /\ task[u].do \in {"finish", "join"}
      BY <1>12, <2>4, FinishIs DEF Joined
    <3>2. task[u].own # a
      BY <2>2, <3>1 DEF Off
    <3>3. CASE task'[u] = Idle
      BY <3>3, OffIdle DEF Alone
    <3>4. CASE Has(task'[u], task[u].mode, "next", task[u].of, task[u].own, task[u].left, task[u].then, None, task[u].gen)
      BY <3>2, <3>4 DEF Has, Off, CancelSteps, CleanupSteps
    <3> QED
      BY <3>1, <3>3, <3>4 DEF Concludes
  <2> QED
    BY <2>3, <2>4
<1>13. CASE Rethrow(s)
  BY <1>13, <1>d, RethrowIs, OffThrow DEF EarlySteps
<1>14. CASE Closed(s)
  BY <1>14, ClosedIs, OffEnd
<1>15. CASE Expired(s)
  BY <1>15, ExpiredIs, OffEnd
<1>16. CASE Exit(s)
  BY <1>16, ExitIs, OffFall
<1>17. CASE Repair(s)
  <2>1. task[s].mode = "boot"
    BY <1>17, RepairIs
  <2>2. task[t].mode = "launch" /\ s # t
    BY <2>1 DEF Alone
  <2> QED
    BY <2>1, <2>2, AtWork
<1>18. CASE Admit(s)
  BY <1>18, AdmitIs, OffEnd, OffFall
<1> QED
  BY <1>1, <1>2, <1>3, <1>4, <1>5, <1>6, <1>7, <1>8, <1>9, <1>10, <1>11, <1>12, <1>13, <1>14, <1>15, <1>16, <1>17, <1>18,
     Zenon DEF Run

LEMMA OffStep ==
    ASSUME AgentAssumption, TypeOK, Shapes, Processes, TaskAgents, NEW t \in Tasks, NEW a, Alone(t, a), [Next]_vars
    PROVE  OthersOff(t, a)
<1>0. a # None /\ a \in Agents /\ status[a] # "NONE"
  BY DEF Alone, AgentAssumption, TaskAgents, AgentsOf, LaunchSteps, EarlySteps
<1>a. ASSUME UNCHANGED task PROVE OthersOff(t, a)
  BY <1>a DEF Alone, OthersOff
<1>1. CASE UNCHANGED vars
  BY <1>1, <1>a DEF vars, process
<1>2. CASE Recover
  BY <1>2, <1>a, RecoverIs DEF process
<1>3. CASE Crash
  BY <1>3, CrashIs, OffFall
<1>4. ASSUME NEW s \in Tasks, Run(s) PROVE OthersOff(t, a)
  BY <1>4, OffRun
<1>5. ASSUME NEW s \in Tasks, Close(s) PROVE OthersOff(t, a)
  BY <1>0, <1>5, CloseIs, OffCancel
<1>6. ASSUME NEW s \in Tasks, Expire(s) PROVE OthersOff(t, a)
  BY <1>0, <1>6, ExpireIs, OffBecome
<1>7. ASSUME NEW s \in Tasks, Shutdown(s) PROVE OthersOff(t, a)
  BY <1>0, <1>7, ShutdownIs, OffCancel
<1>8. ASSUME NEW s \in Tasks, Boot(s) PROVE OthersOff(t, a)
  BY <1>0, <1>8, <1>a, BootIs, OffBecome
<1>9. ASSUME NEW s \in Tasks, NEW e \in Agents, NEW p \in AgentOrNone, Spawn(s, e, p) PROVE OthersOff(t, a)
  BY <1>0, <1>9, SpawnIs, OffBecome
<1>10. ASSUME NEW s \in Tasks, NEW e \in Agents, NEW m \in {"call", "loose"}, CancelOne(s, e, m) PROVE OthersOff(t, a)
  <2>1. Becomes(s, m, "await", e, e, {}, "clean", None, 0)
    BY <1>10, CancelIs
  <2> QED
    BY <2>1, OffBecome
<1>11. ASSUME NEW s \in Tasks, NEW e \in Agents, Interrupt(s, e) PROVE OthersOff(t, a)
  <2>1. Cancels(s, "loose", e, "start", None, 0, Below(e), {e}) /\ e # a
    BY <1>11, InterruptIs DEF Alone
  <2> QED
    BY <2>1, OffCancel
<1>12. ASSUME NEW s \in Tasks, NEW e \in Agents, FinishTerminal(s, e) PROVE OthersOff(t, a)
  BY <1>0, <1>12, FinishTerminalIs, OffCancel DEF Alone
<1>13. ASSUME NEW s \in Tasks, NEW e \in Agents, RetryCleanup(s, e) PROVE OthersOff(t, a)
  <2>1. Becomes(s, "call", "start", e, e, {}, "start", None, 0) /\ e # a
    BY <1>13, RetryCleanupIs DEF Alone
  <2> QED
    BY <1>0, <2>1, OffBecome
<1> QED
  BY <1>1, <1>2, <1>3, <1>4, <1>5, <1>6, <1>7, <1>8, <1>9, <1>10, <1>11, <1>12, <1>13, Zenon
  DEF Next, Cancel, CancelLoose, AgentOrNone

\* What LaunchFirst says of one launch after a step.
FirstNext(t) ==
    /\ status'[task'[t].own] \in {"SPAWNING", "CANCELLING"}
    /\ runtime'[task'[t].own] = "none" /\ ~retry'[task'[t].own]
    /\ \A u \in Tasks : /\ task'[u].do \in CancelSteps /\ task'[u].of = task'[t].own => task'[u].do = "await"
                        /\ task'[u].own = task'[t].own /\ u # t => task'[u].do = "await" /\ task'[u].of = task'[u].own

LEMMA LaunchAlone ==
    ASSUME AgentAssumption, TypeOK, Shapes, TaskAgents, OneLaunch, LaunchFirst, NEW t \in Tasks, Early(t)
    PROVE  Alone(t, task[t].own)
<1>1. task[t].of = task[t].own /\ task[t].own \in Agents /\ task[t].mode = "launch"
  BY Acquiring
<1>2. \A u \in Tasks : u # t => ~(task[u].mode = "launch" /\ task[u].own = task[t].own)
  BY <1>1 DEF OneLaunch
<1>3. \A u \in Tasks : u # t => Off(task[u], task[t].own)
  BY DEF LaunchFirst, Off
<1>4. runtime[task[t].own] = "none" /\ ~retry[task[t].own] /\ task[t].do \in EarlySteps
  BY DEF LaunchFirst, Early, EarlySteps
<1> QED
  BY <1>1, <1>2, <1>3, <1>4 DEF Alone

LEMMA FirstKept ==
    ASSUME AgentAssumption, TypeOK, Shapes, Processes, TaskAgents, Repairing, OneLaunch, LaunchFirst, [Next]_vars,
           NEW t \in Tasks, Early(t), task'[t].do \in EarlySteps, task'[t].own = task[t].own
    PROVE  FirstNext(t)
<1>1. PICK a \in Agents : a = task[t].own /\ Alone(t, a)
  BY LaunchAlone, Acquiring
<1>2. OthersOff(t, a)
  BY <1>1, OffStep
<1>3. ASSUME NEW s \in Tasks, task[s].do \in CleanupSteps, task[s].of = a PROVE FALSE
  <2>1. s # t
    BY <1>3 DEF Early, CleanupSteps
  <2>2. Off(task[s], a)
    BY <1>1, <2>1 DEF Alone
  <2> QED
    BY <1>3, <2>2 DEF Off, CancelSteps, CleanupSteps
<1>4. ASSUME NEW s \in Tasks, Builds(s, a) PROVE FALSE
  <2>1. task[s].mode = "launch" /\ task[s].own = a
    BY <1>4, Acquiring DEF Builds, Early
  <2>2. s = t
    BY <1>1, <2>1 DEF Alone
  <2> QED
    BY <1>4, <2>2 DEF Builds, EarlySteps
<1>5. status[a] \in {"SPAWNING", "CANCELLING"} /\ runtime[a] = "none" /\ ~retry[a]
  BY <1>1 DEF LaunchFirst
<1>6. status'[a] \in {"SPAWNING", "CANCELLING"} /\ runtime'[a] = "none" /\ ~retry'[a]
  <2>1. /\ runtime'[a] # "none" /\ runtime[a] = "none" => \E s \in Tasks : Builds(s, a)
        /\ retry'[a] /\ ~retry[a] => \E s \in Tasks : task[s].do \in CleanupSteps /\ task[s].of = a
        /\ status'[a] = "ENDED" /\ status[a] # "ENDED" => \E s \in Tasks : task[s].do = "finish" /\ task[s].of = a
        /\ status'[a] = "RUNNING" /\ status[a] # "RUNNING" => \E s \in Tasks : Builds(s, a)
    BY GainsStep DEF Gains
  <2>2. status'[a] \notin {"ENDED", "RUNNING"} /\ runtime'[a] = "none" /\ ~retry'[a]
    BY <1>3, <1>4, <1>5, <2>1 DEF CleanupSteps
  <2> QED
    BY <1>5, <2>2, LifeStep DEF Later
<1>7. \A u \in Tasks : /\ task'[u].do \in CancelSteps /\ task'[u].of = a => task'[u].do = "await"
                       /\ task'[u].own = a /\ u # t => task'[u].do = "await" /\ task'[u].of = task'[u].own
  BY <1>2 DEF OthersOff, Off, EarlySteps, CancelSteps, CleanupSteps
<1> QED
  BY <1>1, <1>6, <1>7 DEF FirstNext

LEMMA FirstSpawned ==
    ASSUME AgentAssumption, TypeOK, Shapes, TaskAgents, Absent, Failures,
           NEW t \in Tasks, NEW a \in Agents, NEW p \in AgentOrNone, Spawn(t, a, p)
    PROVE  FirstNext(t)
<1>1. /\ status[a] = "NONE" /\ status' = [status EXCEPT ![a] = "SPAWNING"]
      /\ Becomes(t, "launch", "prepare", a, a, {}, "start", None, 0) /\ retry' = retry /\ runtime' = runtime
  BY SpawnIs
<1>2. /\ status'[a] = "SPAWNING" /\ runtime'[a] = "none" /\ ~retry'[a]
      /\ task'[t].own = a /\ task'[t].do = "prepare"
  BY <1>1 DEF TypeOK, Absent, Failures, Becomes, Has
<1>3. ASSUME NEW u \in Tasks, u # t
      PROVE  task'[u] = task[u] /\ ~(task[u].do \in CancelSteps /\ task[u].of = a) /\ task[u].own # a
  <2>1. task'[u] = task[u] /\ AgentsOf(task[u]) /\ Shape(task[u])
    BY <1>1, <1>3 DEF Becomes, TaskAgents, Shapes
  <2> QED
    BY <1>1, <2>1 DEF AgentsOf
<1> QED
  BY <1>2, <1>3 DEF FirstNext, CancelSteps, CleanupSteps

LEMMA LaunchFirstStep ==
    ASSUME AgentAssumption, TypeOK, Shapes, Processes, TaskAgents, Repairing, OneLaunch, Absent, Failures, LaunchFirst,
           [Next]_vars
    PROVE  LaunchFirst'
<1>1. SUFFICES ASSUME NEW t \in Tasks
               PROVE  /\ task'[t].do \in EarlySteps => FirstNext(t)
                      /\ task'[t].do = "begin" => status'[task'[t].own] # "SPAWNING"
  BY DEF LaunchFirst, FirstNext, Early, EarlySteps
<1>2. ASSUME task[t].do \in EarlySteps, task'[t].do \in EarlySteps, task'[t].own = task[t].own PROVE FirstNext(t)
  BY <1>2, FirstKept DEF Early, EarlySteps
<1>3. ASSUME task[t].do = "begin", task'[t].own = task[t].own PROVE status'[task'[t].own] # "SPAWNING"
  <2>1. task[t].own \in Agents /\ status[task[t].own] \notin {"NONE", "SPAWNING"}
    BY <1>3 DEF Shapes, Shape, TaskAgents, AgentsOf, LaunchSteps, LaunchFirst
  <2> QED
    BY <1>3, <2>1, LifeStep DEF Later
<1>4. CASE Onward
  BY <1>2, <1>3, <1>4 DEF Onward
<1>5. ASSUME NEW s \in Tasks, NEW a \in Agents, NEW p \in AgentOrNone, Spawn(s, a, p)
      PROVE  /\ task'[t].do \in EarlySteps => FirstNext(t)
             /\ task'[t].do = "begin" => status'[task'[t].own] # "SPAWNING"
  <2>1. Becomes(s, "launch", "prepare", a, a, {}, "start", None, 0)
    BY <1>5, SpawnIs
  <2>2. CASE t = s
    BY <1>5, <2>1, <2>2, FirstSpawned DEF Becomes, Has
  <2>3. CASE t # s
    BY <1>2, <1>3, <2>1, <2>3 DEF Becomes
  <2> QED
    BY <2>2, <2>3
<1> QED
  BY <1>4, <1>5, OnwardStep DEF Spawns

-----------------------------------------------------------------------------
(* What is released *)

\* A cleanup goes on to its next step once the one before has released what it is for.
Releases ==
    \A v \in Tasks :
        /\ task'[v].do = "remove" => /\ task[v].do \in {"revoke", "remove"} /\ task'[v].of = task[v].of
                                     /\ task[v].do = "revoke" => ~lease'[task[v].of]
        /\ task'[v].do = "finish" => /\ task[v].do \in {"remove", "finish"} /\ task'[v].of = task[v].of
                                     /\ task[v].do = "remove" => ~box'[task[v].of]

LEMMA ReleasesOther ==
    ASSUME NEW t \in Tasks, \A v \in Tasks : v # t => task'[v] = task[v], task'[t].do \notin {"remove", "finish"}
    PROVE  Releases
BY DEF Releases

LEMMA ReleasesBecome ==
    ASSUME NEW t \in Tasks, NEW m, NEW d, NEW o, NEW w, NEW S, NEW th, NEW b, NEW g,
           Becomes(t, m, d, o, w, S, th, b, g), d \notin {"remove", "finish"}
    PROVE  Releases
BY ReleasesOther DEF Becomes, Has

LEMMA ReleasesEnd == ASSUME NEW t \in Tasks, Ends(t) PROVE Releases
BY ReleasesOther, IdleIs DEF Ends, Has

LEMMA ReleasesFall == ASSUME Falls PROVE Releases
BY IdleIs DEF Falls, Has, Releases

LEMMA ReleasesCancel ==
    ASSUME NEW t \in Tasks, NEW m, NEW w, NEW th \in Thens, NEW b, NEW g, NEW S, NEW A, Cancels(t, m, w, th, b, g, S, A)
    PROVE  Releases
<1>1. CASE Becomes(t, m, th, w, w, {}, th, b, g)
  BY <1>1, ReleasesBecome DEF Thens
<1>2. ASSUME NEW d, Becomes(t, m, "await", d, w, S \ {d}, th, b, g) PROVE Releases
  BY <1>2, ReleasesBecome
<1> QED
  BY <1>1, <1>2 DEF Cancels

LEMMA ReleasesThrow == ASSUME NEW t \in Tasks, NEW f, Thrown(t, f) PROVE Releases
<1>1. CASE Throws(t)
  <2>1. \A v \in Tasks : task'[v] = task[v] \/ task'[v].do \in {"none", "rethrow"}
    BY <1>1, IdleIs DEF Throws, Has
  <2> QED
    BY <2>1 DEF Releases
<1> QED
  BY <1>1, ReleasesFall DEF Thrown

LEMMA ReleasesStep == ASSUME AgentAssumption, TypeOK, Shapes, [Next]_vars PROVE Releases
<1> USE DEF rows, world, process
<1>a. \A v \in Tasks : task[v].then \in Thens
  BY DEF TypeOK, Record
<1>b. ASSUME UNCHANGED task PROVE Releases
  BY <1>b DEF Releases
<1>1. CASE UNCHANGED vars
  BY <1>1, <1>b DEF vars
<1>2. CASE Recover
  BY <1>2, <1>b, RecoverIs
<1>3. CASE Crash
  BY <1>3, ReleasesFall, CrashIs
<1>4. ASSUME NEW t \in Tasks, Run(t) PROVE Releases
  <2>a. ASSUME NEW d, Moves(t, d), d \notin {"remove", "finish"} PROVE Releases
    BY <2>a, ReleasesBecome DEF Moves
  <2>1. CASE Prepare(t) \/ Issue(t) \/ Launch(t) \/ SendStart(t)
    BY <2>1, <2>a, PrepareIs, IssueIs, LaunchIs, SendStartIs, ReleasesEnd
  <2>5. CASE FailLaunch(t)
    BY <2>5, <1>a, FailLaunchIs, ReleasesEnd, ReleasesCancel DEF CancelsAs
  <2>6. CASE AwaitLaunch(t)
    BY <2>6, <1>a, <2>a, AwaitLaunchIs, ReleasesCancel DEF CancelsAs
  <2>7. CASE CancelNext(t)
    BY <2>7, <1>a, CancelNextIs, ReleasesCancel DEF CancelsAs
  <2>8. CASE CleanOrJoin(t)
    BY <2>8, <2>a, CleanOrJoinIs, ReleasesThrow, ReleasesBecome
  <2>9. CASE Start(t)
    BY <2>9, StartIs, ReleasesBecome
  <2>10. CASE Revoke(t)
    <3>1. CASE Moves(t, "remove") /\ lease'[task[t].of] = FALSE
      BY <2>10, <3>1, RevokeIs DEF Moves, Becomes, Has, Releases
    <3> QED
      BY <2>10, <2>a, <3>1, RevokeIs
  <2>11. CASE RemoveBox(t)
    <3>1. CASE task[t].do = "remove" /\ Moves(t, "finish") /\ box'[task[t].of] = FALSE
      BY <3>1 DEF Moves, Becomes, Has, Releases
    <3> QED
      BY <2>11, <3>1, RemoveBoxIs, ReleasesThrow
  <2>12. CASE Finish(t)
    <3>1. \A v \in Tasks : task'[v] = task[v] \/ task'[v].do \in {"none", "next"}
      BY <2>12, FinishIs, IdleIs DEF Concludes, Has
    <3> QED
      BY <3>1 DEF Releases
  <2>13. CASE Rethrow(t)
    BY <2>13, RethrowIs, ReleasesThrow
  <2>14. CASE Closed(t) \/ Expired(t) \/ Exit(t)
    BY <2>14, ClosedIs, ExpiredIs, ExitIs, ReleasesEnd, ReleasesFall
  <2>17. CASE Repair(t)
    <3>1. ASSUME NEW a, NEW S,
                 Becomes(t, "boot", "revoke", a, task[t].own, S, task[t].then, task[t].by, task[t].gen)
          PROVE  Releases
      BY <3>1, ReleasesBecome
    <3>2. CASE Moves(t, "admit")
      BY <2>a, <3>2
    <3> QED
      BY <2>17, <3>1, <3>2, RepairIs
  <2>18. CASE Admit(t)
    BY <2>18, AdmitIs, ReleasesEnd, ReleasesFall
  <2> QED
    BY <1>4, <2>1, <2>5, <2>6, <2>7, <2>8, <2>9, <2>10, <2>11, <2>12, <2>13, <2>14, <2>17, <2>18, Zenon DEF Run
<1>5. ASSUME NEW t \in Tasks, Close(t) PROVE Releases
  BY <1>5, CloseIs, ReleasesCancel, Words
<1>6. ASSUME NEW t \in Tasks, Expire(t) PROVE Releases
  BY <1>6, ExpireIs, ReleasesBecome
<1>7. ASSUME NEW t \in Tasks, Shutdown(t) PROVE Releases
  BY <1>7, ShutdownIs, ReleasesCancel, Words
<1>8. ASSUME NEW t \in Tasks, Boot(t) PROVE Releases
  BY <1>8, <1>b, BootIs, ReleasesBecome
<1>9. ASSUME NEW t \in Tasks, NEW a \in Agents, NEW m \in {"call", "loose"}, CancelOne(t, a, m) PROVE Releases
  <2>1. Becomes(t, m, "await", a, a, {}, "clean", None, 0)
    BY <1>9, CancelIs
  <2> QED
    BY <2>1, ReleasesBecome
<1>10. ASSUME NEW t \in Tasks, NEW a \in Agents, Interrupt(t, a) PROVE Releases
  BY <1>10, InterruptIs, ReleasesCancel, Words
<1>11. ASSUME NEW t \in Tasks, NEW a \in Agents, FinishTerminal(t, a) PROVE Releases
  BY <1>11, FinishTerminalIs, ReleasesCancel, Words
<1>12. ASSUME NEW t \in Tasks, NEW a \in Agents, RetryCleanup(t, a) PROVE Releases
  BY <1>12, RetryCleanupIs, ReleasesBecome
<1>13. ASSUME NEW t \in Tasks, NEW a \in Agents, NEW p \in AgentOrNone, Spawn(t, a, p) PROVE Releases
  BY <1>13, SpawnIs, ReleasesBecome
<1> QED
  BY <1>1, <1>2, <1>3, <1>4, <1>5, <1>6, <1>7, <1>8, <1>9, <1>10, <1>11, <1>12, <1>13, Zenon
  DEF Next, Cancel, CancelLoose, AgentOrNone

\* A run that is being cleaned up, or has ended, gains nothing any more.
LEMMA ReleasedStep ==
    ASSUME AgentAssumption, TypeOK, Shapes, TaskAgents, LaunchFirst, Released, [Next]_vars
    PROVE  Released'
<1>1. ASSUME NEW s \in Tasks, task[s].do \in {"issue", "box"}
      PROVE  /\ status[task[s].of] # "ENDED"
             /\ \A t \in Tasks : task[t].do \in CleanupSteps => task[t].of # task[s].of
  <2>1. Early(s) /\ task[s].of = task[s].own
    BY <1>1, Acquiring DEF Early
  <2> QED
    BY <2>1 DEF LaunchFirst, CancelSteps, CleanupSteps
<1>2. ASSUME NEW a \in Agents, status[a] = "ENDED" \/ \E t \in Tasks : task[t].do \in CleanupSteps /\ task[t].of = a
      PROVE  (lease'[a] => lease[a]) /\ (box'[a] => box[a]) /\ (runtime[a] = "none" => runtime'[a] = "none")
  BY <1>1, <1>2, GainsStep DEF Gains, Builds
<1>3. ASSUME NEW t \in Tasks, task'[t].do \in {"remove", "finish"}
      PROVE  /\ task'[t].do = "remove" => ~lease'[task'[t].of]
             /\ task'[t].do = "finish" => ~lease'[task'[t].of] /\ ~box'[task'[t].of]
  <2>1. /\ task[t].do \in {"revoke", "remove", "finish"} /\ task'[t].of = task[t].of
        /\ task[t].do = "revoke" => task'[t].do = "remove" /\ ~lease'[task[t].of]
        /\ task'[t].do = "finish" => task[t].do = "finish" \/ ~box'[task[t].of]
    BY <1>3, ReleasesStep DEF Releases
  <2>2. task[t].of \in Agents /\ task[t].do \in CleanupSteps
    BY <2>1 DEF Shapes, Shape, CancelSteps, CleanupSteps
  <2>3. (lease'[task[t].of] => lease[task[t].of]) /\ (box'[task[t].of] => box[task[t].of])
    BY <1>2, <2>2
  <2> QED
    BY <1>3, <2>1, <2>3 DEF Released
<1>4. ASSUME NEW a \in Agents, status'[a] = "ENDED" PROVE ~lease'[a] /\ ~box'[a] /\ runtime'[a] = "none"
  <2>1. CASE status[a] = "ENDED"
    BY <1>2, <2>1 DEF Released
  <2>2. CASE status[a] # "ENDED"
    <3>1. /\ runtime'[a] = "none" /\ lease' = lease /\ box' = box
          /\ \E t \in Tasks : task[t].do = "finish" /\ task[t].of = a
      BY <1>4, <2>2, GainsStep DEF Gains
    <3> QED
      BY <3>1 DEF Released
  <2> QED
    BY <2>1, <2>2
<1> QED
  BY <1>3, <1>4 DEF Released

-----------------------------------------------------------------------------
(* Lists *)

\* A task goes on with its list: what it still had to end it still has, unless it has ended.
GoesOn(v) ==
    /\ task'[v].mode = task[v].mode \/ (task[v].mode = "loose" /\ task'[v].mode = "call")
    /\ task'[v].own = task[v].own /\ task'[v].gen = task[v].gen
    /\ task[v].do \in {"closed", "exit"} => task'[v].do = task[v].do
    /\ task[v].own \in Agents /\ task[v].of = task[v].own => task'[v].of = task[v].own
    /\ \A a \in Agents : Covers(v, a) /\ status'[a] \in Active => Covers(v, a)'

\* A task begins with a run, or with the list of its descendants.
Renews(v) == \E w \in Agents : task'[v].own = w /\ (task'[v].of # w => \A a \in Below(w) : Covers(v, a)')

ContinuesOne(v) == task'[v].mode = "idle" \/ (task'[v].mode = "call" /\ task'[v].own = None) \/ GoesOn(v) \/ Renews(v)

Continues == \A v \in Tasks : ContinuesOne(v)

LEMMA ContinuesSame == ASSUME NEW v \in Tasks, task'[v] = task[v] PROVE ContinuesOne(v)
BY DEF ContinuesOne, GoesOn, Covers

LEMMA ContinuesIdle == ASSUME NEW v \in Tasks, task'[v] = Idle PROVE ContinuesOne(v)
BY IdleIs DEF ContinuesOne, Has

LEMMA ContinuesOther ==
    ASSUME NEW t \in Tasks, \A v \in Tasks : v # t => task'[v] = task[v], ContinuesOne(t)
    PROVE  Continues
BY ContinuesSame DEF Continues

LEMMA ContinuesEnd == ASSUME NEW t \in Tasks, Ends(t) PROVE Continues
BY ContinuesIdle, ContinuesOther DEF Ends

LEMMA ContinuesFall == ASSUME Falls PROVE Continues
BY ContinuesIdle DEF Falls, Continues

\* A task goes on at the same run, with the same list.
LEMMA ContinuesStay ==
    ASSUME NEW t \in Tasks, NEW m, NEW d, NEW b,
           Becomes(t, m, d, task[t].of, task[t].own, task[t].left, task[t].then, b, task[t].gen),
           m = task[t].mode \/ (task[t].mode = "loose" /\ m = "call"),
           task[t].do \notin {"closed", "exit"},
           task[t].do \in CancelSteps \union {"rethrow"} => d \in CancelSteps \union {"rethrow"}
    PROVE  Continues
<1>1. \A a \in Agents : Covers(t, a) => Covers(t, a)'
  BY DEF Becomes, Has, Covers
<1>2. GoesOn(t)
  BY <1>1 DEF Becomes, Has, GoesOn
<1> QED
  BY <1>2, ContinuesOther DEF Becomes, ContinuesOne

LEMMA ContinuesMove ==
    ASSUME NEW t \in Tasks, NEW d, Moves(t, d), task[t].do \notin {"closed", "exit"},
           task[t].do \in CancelSteps \union {"rethrow"} => d \in CancelSteps \union {"rethrow"}
    PROVE  Continues
BY ContinuesStay DEF Moves

\* A task begins with a run.
LEMMA ContinuesRun ==
    ASSUME NEW t \in Tasks, NEW a \in Agents, NEW m, NEW d, NEW S, NEW th, NEW b, NEW g,
           Becomes(t, m, d, a, a, S, th, b, g)
    PROVE  Continues
BY ContinuesOther DEF Becomes, Has, ContinuesOne, Renews

\* A task begins with a list.
LEMMA ContinuesBelow ==
    ASSUME NEW t \in Tasks, NEW w \in Agents, NEW m, NEW th, NEW b, NEW g, NEW A, Cancels(t, m, w, th, b, g, Below(w), A)
    PROVE  Continues
<1>1. CASE Becomes(t, m, th, w, w, {}, th, b, g)
  BY <1>1, ContinuesRun
<1>2. ASSUME NEW d, Becomes(t, m, "await", d, w, Below(w) \ {d}, th, b, g) PROVE Continues
  <2>1. \A a \in Below(w) : Covers(t, a)'
    BY <1>2 DEF Becomes, Has, Covers, CancelSteps
  <2>2. Renews(t)
    BY <1>2, <2>1 DEF Becomes, Has, Renews
  <2> QED
    BY <1>2, <2>2, ContinuesOther DEF Becomes, ContinuesOne
<1> QED
  BY <1>1, <1>2 DEF Cancels

LEMMA ContinuesNext ==
    ASSUME Shapes, NEW t \in Tasks, task[t].do = "next", Progress, CancelsAs(t, task[t].left \intersect ActiveAgents, {})
    PROVE  Continues
<1>1. \A a \in Agents : Covers(t, a) /\ status'[a] \in Active => a \in task[t].left \intersect ActiveAgents
  BY DEF Covers, CancelSteps, CleanupSteps, Progress, Later, Active, ActiveAgents
<1>2. PICK S : S = task[t].left \intersect ActiveAgents
  OBVIOUS
<1> DEFINE Fits(d, o, L) == /\ Becomes(t, task[t].mode, d, o, task[t].own, L, task[t].then, task[t].by, task[t].gen)
                            /\ S = {} \/ (S = L \union {o} /\ d = "await")
<1>3. PICK d, o, L : Fits(d, o, L)
  <2>1. CASE S = {} /\ Becomes(t, task[t].mode, task[t].then, task[t].own, task[t].own, {}, task[t].then, task[t].by,
                              task[t].gen)
    <3>1. Fits(task[t].then, task[t].own, {})
      BY <2>1
    <3> QED
      BY <3>1
  <2>2. ASSUME NEW d \in S,
               Becomes(t, task[t].mode, "await", d, task[t].own, S \ {d}, task[t].then, task[t].by, task[t].gen)
        PROVE  Fits("await", d, S \ {d})
    BY <2>2
  <2> HIDE DEF Fits
  <2> QED
    BY <1>2, <2>1, <2>2 DEF CancelsAs, Cancels
<1>4. \A a \in Agents : Covers(t, a) /\ status'[a] \in Active => Covers(t, a)'
  BY <1>1, <1>2, <1>3 DEF Becomes, Has, Covers, CancelSteps
<1>5. task[t].own \in Agents => task[t].of # task[t].own
  BY DEF Shapes, Shape
<1>6. GoesOn(t)
  BY <1>3, <1>4, <1>5 DEF Becomes, Has, GoesOn
<1> QED
  BY <1>3, <1>6, ContinuesOther DEF Becomes, ContinuesOne

LEMMA ContinuesThrow == ASSUME NEW t \in Tasks, NEW f, Thrown(t, f) PROVE Continues
<1>1. CASE Throws(t)
  <2>1. ASSUME NEW v \in Tasks, v # t, Awaits(v, t) PROVE ContinuesOne(v)
    <3>1. /\ task[v].do \in {"join", "await"}
          /\ Has(task'[v], task[v].mode, "rethrow", task[v].of, task[v].own, task[v].left, task[v].then, task[v].by, task[v].gen)
      BY <1>1, <2>1 DEF Throws, Awaits, At
    <3>2. GoesOn(v)
      BY <3>1 DEF Has, GoesOn, Covers
    <3> QED
      BY <3>2 DEF ContinuesOne
  <2>2. ASSUME NEW v \in Tasks, v # t, ~Awaits(v, t) PROVE ContinuesOne(v)
    BY <1>1, <2>2, ContinuesSame DEF Throws
  <2>3. ContinuesOne(t)
    BY <1>1, ContinuesIdle DEF Throws
  <2> QED
    BY <2>1, <2>2, <2>3 DEF Continues
<1> QED
  BY <1>1, ContinuesFall DEF Thrown

LEMMA ContinuesFinish ==
    ASSUME TypeOK, Shapes, Promises, NEW t \in Tasks, Finish(t)
    PROVE  Continues
<1>1. SUFFICES ASSUME NEW v \in Tasks PROVE ContinuesOne(v)
  BY DEF Continues
<1>2. task[t].of \in Agents /\ status' = [status EXCEPT ![task[t].of] = "ENDED"]
  BY FinishIs
<1>3. CASE v # t /\ ~Joined(v, t)
  BY <1>3, FinishIs, ContinuesSame
<1>4. CASE v = t \/ Joined(v, t)
  <2>1. Concludes(v) /\ task[v].of = task[t].of /\ task[v].do \in {"finish", "join"}
    BY <1>4, FinishIs DEF Promises, Joined
  <2>2. CASE task[v].of = task[v].own
    BY <2>1, <2>2, ContinuesIdle DEF Concludes
  <2>3. CASE task[v].of # task[v].own
    <3>1. Has(task'[v], task[v].mode, "next", task[v].of, task[v].own, task[v].left, task[v].then, None, task[v].gen)
      BY <2>1, <2>3 DEF Concludes
    <3>2. status'[task[v].of] = "ENDED"
      BY <1>2, <2>1 DEF TypeOK
    <3>3. \A a \in Agents : Covers(v, a) /\ status'[a] \in Active => Covers(v, a)'
      BY <3>1, <3>2 DEF Has, Covers, Active
    <3>4. GoesOn(v)
      BY <2>1, <3>1, <3>3 DEF Has, GoesOn
    <3> QED
      BY <3>4 DEF ContinuesOne
  <2> QED
    BY <2>2, <2>3
<1> QED
  BY <1>3, <1>4

LEMMA ContinuesStep ==
    ASSUME AgentAssumption, TypeOK, Shapes, TaskAgents, Repairing, Promises, [Next]_vars
    PROVE  Continues \/ \E t \in Tasks : Close(t) \/ Shutdown(t) \/ Boot(t)
<1> USE DEF rows, world, process
<1>b. ASSUME UNCHANGED task PROVE Continues
  BY <1>b, ContinuesSame DEF Continues
<1>1. CASE UNCHANGED vars
  BY <1>1, <1>b DEF vars
<1>2. CASE Recover
  BY <1>2, <1>b, RecoverIs
<1>3. CASE Crash
  BY <1>3, ContinuesFall, CrashIs
<1>4. ASSUME NEW t \in Tasks, Run(t) PROVE Continues
  <2>1. CASE Prepare(t) \/ Issue(t) \/ Launch(t) \/ SendStart(t)
    <3>1. task[t].do \in {"prepare", "issue", "box", "begin"}
      BY <2>1, PrepareIs, IssueIs, LaunchIs, SendStartIs
    <3>2. Ends(t) \/ \E d : Moves(t, d)
      BY <2>1, PrepareIs, IssueIs, LaunchIs, SendStartIs
    <3> QED
      BY <3>1, <3>2, ContinuesEnd, ContinuesMove DEF CancelSteps, CleanupSteps
  <2>5. CASE FailLaunch(t)
    <3>1. /\ task[t].do = "fail" /\ task[t].of \in Agents /\ task[t].of = task[t].own
          /\ Ends(t) \/ CancelsAs(t, Below(task[t].of), {task[t].of})
      BY <2>5, FailLaunchIs DEF Shapes, Shape, LaunchSteps
    <3> QED
      BY <3>1, ContinuesEnd, ContinuesBelow DEF CancelsAs
  <2>6. CASE AwaitLaunch(t)
    <3>1. /\ task[t].do = "await" /\ task[t].of \in Agents
          /\ \/ task[t].of = task[t].own /\ CancelsAs(t, Below(task[t].of), {})
             \/ Moves(t, "clean")
      BY <2>6, AwaitLaunchIs
    <3> QED
      BY <3>1, ContinuesBelow, ContinuesMove DEF CancelsAs, CancelSteps
  <2>7. CASE CancelNext(t)
    <3>1. task[t].do = "next" /\ CancelsAs(t, task[t].left \intersect ActiveAgents, {})
      BY <2>7, CancelNextIs
    <3>2. \A a \in Agents : a \in (task[t].left \intersect ActiveAgents) \union {} => status[a] \in Active
      BY DEF ActiveAgents
    <3>3. Progress
      BY <3>1, <3>2, ProgressCancels DEF CancelsAs
    <3> QED
      BY <3>1, <3>3, ContinuesNext
  <2>8. CASE CleanOrJoin(t)
    <3>1. CASE Becomes(t, task[t].mode, "join", task[t].of, task[t].own, task[t].left, task[t].then, runtime[task[t].of],
                       task[t].gen)
      BY <2>8, <3>1, CleanOrJoinIs, ContinuesStay DEF CancelSteps
    <3>2. CASE Moves(t, "revoke")
      BY <2>8, <3>2, CleanOrJoinIs, ContinuesMove DEF CancelSteps, CleanupSteps
    <3> QED
      BY <2>8, <3>1, <3>2, CleanOrJoinIs, ContinuesThrow
  <2>9. CASE Start(t)
    <3>1. PICK m : /\ m = task[t].mode \/ (task[t].mode = "loose" /\ m = "call")
                   /\ task[t].do = "start"
                   /\ Becomes(t, m, "revoke", task[t].of, task[t].own, task[t].left, task[t].then, task[t].by, task[t].gen)
      BY <2>9, StartIs
    <3> QED
      BY <3>1, ContinuesStay DEF CancelSteps, CleanupSteps
  <2>10. CASE Revoke(t)
    BY <2>10, RevokeIs, ContinuesMove DEF CancelSteps, CleanupSteps
  <2>11. CASE RemoveBox(t)
    BY <2>11, RemoveBoxIs, ContinuesMove, ContinuesThrow DEF CancelSteps, CleanupSteps
  <2>12. CASE Finish(t)
    BY <2>12, ContinuesFinish
  <2>13. CASE Rethrow(t)
    BY <2>13, RethrowIs, ContinuesThrow
  <2>14. CASE Closed(t) \/ Expired(t) \/ Exit(t)
    BY <2>14, ClosedIs, ExpiredIs, ExitIs, ContinuesEnd, ContinuesFall
  <2>17. CASE Repair(t)
    <3>1. task[t].do = "next" /\ task[t].mode = "boot" /\ task[t].own \notin Agents
      BY <2>17, RepairIs DEF Shapes, Shape, AgentAssumption
    <3>2. ASSUME NEW a \in task[t].left,
                 Becomes(t, "boot", "revoke", a, task[t].own, task[t].left \ {a}, task[t].then, task[t].by, task[t].gen)
          PROVE  Continues
      <4>1. \A e \in Agents : Covers(t, e) => Covers(t, e)'
        BY <3>1, <3>2 DEF Becomes, Has, Covers, CancelSteps, CleanupSteps
      <4>2. GoesOn(t)
        BY <3>1, <3>2, <4>1 DEF Becomes, Has, GoesOn
      <4> QED
        BY <3>2, <4>2, ContinuesOther DEF Becomes, ContinuesOne
    <3>3. CASE Moves(t, "admit")
      BY <3>1, <3>3, ContinuesMove DEF CancelSteps, CleanupSteps
    <3> QED
      BY <2>17, <3>2, <3>3, RepairIs
  <2>18. CASE Admit(t)
    BY <2>18, AdmitIs, ContinuesEnd, ContinuesFall
  <2> QED
    BY <1>4, <2>1, <2>5, <2>6, <2>7, <2>8, <2>9, <2>10, <2>11, <2>12, <2>13, <2>14, <2>17, <2>18, Zenon DEF Run
<1>6. ASSUME NEW t \in Tasks, Expire(t) PROVE Continues
  <2>1. Becomes(t, "call", "expired", None, None, {}, "none", None, ws.gen + 1)
    BY <1>6, ExpireIs
  <2> QED
    BY <2>1, ContinuesOther DEF Becomes, Has, ContinuesOne
<1>9. ASSUME NEW t \in Tasks, NEW a \in Agents, NEW m \in {"call", "loose"}, CancelOne(t, a, m) PROVE Continues
  <2>1. Becomes(t, m, "await", a, a, {}, "clean", None, 0)
    BY <1>9, CancelIs
  <2> QED
    BY <2>1, ContinuesRun
<1>10. ASSUME NEW t \in Tasks, NEW a \in Agents, Interrupt(t, a) PROVE Continues
  BY <1>10, InterruptIs, ContinuesBelow
<1>11. ASSUME NEW t \in Tasks, NEW a \in Agents, FinishTerminal(t, a) PROVE Continues
  BY <1>11, FinishTerminalIs, ContinuesBelow
<1>12. ASSUME NEW t \in Tasks, NEW a \in Agents, RetryCleanup(t, a) PROVE Continues
  BY <1>12, RetryCleanupIs, ContinuesRun
<1>13. ASSUME NEW t \in Tasks, NEW a \in Agents, NEW p \in AgentOrNone, Spawn(t, a, p) PROVE Continues
  BY <1>13, SpawnIs, ContinuesRun
<1> QED
  BY <1>1, <1>2, <1>3, <1>4, <1>6, <1>9, <1>10, <1>11, <1>12, <1>13, Zenon
  DEF Next, Cancel, CancelLoose, AgentOrNone

\* While a start repairs, nothing else happens.
LEMMA BootQuiet ==
    ASSUME TypeOK, Shapes, Processes, NEW v \in Tasks, task[v].mode = "boot", [Next]_vars
    PROVE  ws' = ws /\ ~Spawns /\ (task'[v].mode = "boot" => task'[v].left \subseteq task[v].left)
<1>0. Idle.mode = "idle" /\ Idle.left = {}
  BY IdleIs DEF Has
<1>1. up = "starting" /\ \A u \in Tasks : u # v => task[u].mode = "idle"
  BY AtWork
<1>2. up # "up" /\ up \notin Downs /\ \A a \in Agents : Alive => runtime[a] = "none"
  BY <1>1 DEF Downs, Processes
<1>3. ~Spawns
  BY <1>2, SpawnIs DEF Spawns
<1>4. CASE UNCHANGED vars
  BY <1>3, <1>4 DEF vars, rows, process
<1>5. CASE Recover
  BY <1>2, <1>5, RecoverIs
<1>6. CASE Crash
  BY <1>0, <1>3, <1>6, CrashIs DEF rows, Falls
<1>7. ASSUME NEW t \in Tasks, Run(t) PROVE ws' = ws /\ (task'[v].mode = "boot" => task'[v].left \subseteq task[v].left)
  <2>1. t = v
    BY <1>1, <1>7, RunTame
  <2> QED
    BY <1>7, <2>1, BootRuns
<1>8. ASSUME NEW t \in Tasks, Close(t) \/ Expire(t) \/ Shutdown(t) \/ Boot(t) PROVE FALSE
  BY <1>2, <1>8, CloseIs, ExpireIs, ShutdownIs, BootIs
<1>9. ASSUME NEW t \in Tasks, NEW a \in Agents,
             Cancel(t, a) \/ CancelLoose(t, a) \/ Interrupt(t, a) \/ FinishTerminal(t, a) \/ RetryCleanup(t, a)
      PROVE  FALSE
  BY <1>2, <1>9, InterruptIs, FinishTerminalIs, RetryCleanupIs DEF Cancel, CancelLoose
<1> QED
  BY <1>3, <1>4, <1>5, <1>6, <1>7, <1>8, <1>9, Zenon DEF Next, Spawns, AgentOrNone

\* What Lists says of one task after a step.
ListsNext(v) ==
    /\ task'[v].mode = "close" =>
         /\ task'[v].do # "closed" => gate'.gen # 0 /\ ~gate'.open
         /\ task'[v].do # "closed" \/ ws' = [status |-> "REAPING", gen |-> task'[v].gen] => Listed(v)'
    /\ task'[v].mode = "stop" => up' = "stopping" /\ (task'[v].do # "exit" => Listed(v)')
    /\ task'[v].mode = "boot" => IF gate'.gen = ws'.gen THEN Listed(v)' ELSE task'[v].left = {}

LEMMA FewerActive == ASSUME Progress PROVE \A a \in ActiveAgents' : a \in Agents /\ a \in ActiveAgents /\ status'[a] \in Active
BY DEF Progress, Later, Active, ActiveAgents

\* A list of all agents goes on.
LEMMA ListsGoesOn ==
    ASSUME AgentAssumption, TypeOK, Shapes, Processes, Generations, Lists, [Next]_vars,
           Elapses, Progress, NEW v \in Tasks, GoesOn(v)
    PROVE  ListsNext(v)
<1>0. ws.gen \in Nat /\ task[v].gen \in Nat /\ task[v].gen <= ws.gen
  BY DEF TypeOK, Generations, Record
<1>1. ASSUME task[v].mode \in {"close", "stop", "boot"}, Listed(v) PROVE Listed(v)'
  BY <1>1, FewerActive DEF GoesOn, Listed
<1>2. ASSUME task[v].mode \in {"close", "stop"} PROVE ~Admitting
  <2>1. SUFFICES ASSUME NEW u \in Tasks, task[u].do = "admit" PROVE FALSE
    BY DEF Admitting
  <2>2. task[u].mode = "boot"
    BY <2>1 DEF Shapes, Shape
  <2> QED
    BY <1>2, <2>2, AtWork
<1>3. CASE task'[v].mode = "close"
  <2>1. task[v].mode = "close" /\ task'[v].gen = task[v].gen /\ (task[v].do = "closed" => task'[v].do = "closed")
    BY <1>3 DEF GoesOn
  <2>2. task[v].do # "closed" => gate.gen # 0 /\ ~gate.open /\ Listed(v)
    BY <2>1 DEF Lists
  <2>3. task[v].do # "closed" => gate'.gen # 0 /\ ~gate'.open
    BY <1>2, <2>1, <2>2 DEF Elapses
  <2>4. ASSUME task[v].do = "closed", ws' = [status |-> "REAPING", gen |-> task[v].gen] PROVE Listed(v)
    <3>1. ws'.status = "REAPING" /\ ws'.gen = task[v].gen
      BY <2>4
    <3>2. ~(ws.gen < ws'.gen)
      BY <1>0, <3>1
    <3>3. ws' = ws
      BY <3>1, <3>2 DEF Elapses, Ages
    <3> QED
      BY <2>1, <2>4, <3>3 DEF Lists
  <2> QED
    BY <1>1, <1>3, <2>1, <2>2, <2>3, <2>4 DEF ListsNext
<1>4. CASE task'[v].mode = "stop"
  <2>1. task[v].mode = "stop" /\ (task[v].do = "exit" => task'[v].do = "exit")
    BY <1>4 DEF GoesOn
  <2>2. up = "stopping" /\ (task[v].do # "exit" => Listed(v))
    BY <2>1 DEF Lists
  <2>3. up' \notin Downs
    <3>1. Idle.mode = "idle" /\ Processes'
      BY IdleIs, ProcessesStep DEF Has
    <3> QED
      BY <1>4, <3>1 DEF Processes
  <2>4. up' = "stopping"
    BY <1>2, <2>1, <2>2, <2>3 DEF Elapses, Downs
  <2> QED
    BY <1>1, <1>4, <2>1, <2>2, <2>4 DEF ListsNext
<1>5. CASE task'[v].mode = "boot"
  <2>1. task[v].mode = "boot"
    BY <1>5 DEF GoesOn
  <2>2. ws' = ws /\ task'[v].left \subseteq task[v].left /\ gate'.gen = gate.gen
    BY <1>5, <2>1, BootQuiet DEF Elapses
  <2>3. IF gate.gen = ws.gen THEN Listed(v) ELSE task[v].left = {}
    BY <2>1 DEF Lists
  <2> QED
    BY <1>1, <1>5, <2>1, <2>2, <2>3 DEF ListsNext
<1> QED
  BY <1>3, <1>4, <1>5 DEF ListsNext

\* A list of all agents is made.
LEMMA ListedAll ==
    ASSUME TypeOK, NEW t \in Tasks, NEW m, NEW w, NEW th, NEW b, NEW g, Cancels(t, m, w, th, b, g, ActiveAgents, {}), Progress
    PROVE  /\ Listed(t)' /\ task'[t].mode = m /\ task'[t].gen = g
           /\ task'[t].do = th \/ ActiveAgents # {}
<1>1. CASE ActiveAgents = {} /\ Becomes(t, m, th, w, w, {}, th, b, g)
  BY <1>1, FewerActive DEF Becomes, Has, Listed
<1>2. ASSUME NEW d \in ActiveAgents, Becomes(t, m, "await", d, w, ActiveAgents \ {d}, th, b, g)
      PROVE  Listed(t)' /\ task'[t].mode = m /\ task'[t].gen = g
  BY <1>2, FewerActive DEF Becomes, Has, Listed, Covers, CancelSteps
<1> QED
  BY <1>1, <1>2 DEF Cancels

LEMMA ListsStep ==
    ASSUME AgentAssumption, TypeOK, Shapes, Processes, Forest, TaskAgents, Repairing, Promises, Generations, Lists, [Next]_vars
    PROVE  Lists'
<1>1. SUFFICES ASSUME NEW v \in Tasks PROVE ListsNext(v)
  BY DEF Lists, ListsNext
<1>2. ASSUME Elapses, Progress, GoesOn(v) PROVE ListsNext(v)
  BY <1>2, ListsGoesOn
<1>3. task'[v] = task[v] => GoesOn(v)
  BY DEF GoesOn, Covers
<1>4. CASE Continues /\ Elapses /\ Progress
  <2>1. Shape(task'[v]) /\ None \notin Agents
    BY ShapesStep DEF Shapes, AgentAssumption
  <2>2. GoesOn(v) \/ task'[v].mode \notin {"close", "stop", "boot"}
    BY <1>4, <2>1 DEF Continues, ContinuesOne, Renews, Shape
  <2> QED
    BY <1>2, <1>4, <2>2 DEF ListsNext
<1>5. ASSUME NEW t \in Tasks, NEW a \in Agents, NEW p \in AgentOrNone, Spawn(t, a, p) PROVE ListsNext(v)
  <2>1. /\ up = "up" /\ ws.status = "ACTIVE" /\ Admits /\ ws' = ws
        /\ Becomes(t, "launch", "prepare", a, a, {}, "start", None, 0)
    BY <1>5, SpawnIs
  <2>2. CASE v = t
    BY <2>1, <2>2 DEF Becomes, Has, ListsNext
  <2>3. CASE v # t
    <3>1. task'[v] = task[v] /\ task[v].mode # "boot" /\ task[v].mode # "stop"
      BY <2>1, <2>3, AtWork DEF Becomes, Lists
    <3>2. task[v].mode = "close" => task[v].do = "closed"
      BY <2>1 DEF Lists, Admits
    <3>3. ws' # [status |-> "REAPING", gen |-> task'[v].gen]
      BY <2>1
    <3> QED
      BY <3>1, <3>2, <3>3 DEF ListsNext
  <2> QED
    BY <2>2, <2>3
<1>6. ASSUME NEW t \in Tasks, Close(t), Elapses, Progress PROVE ListsNext(v)
  <2>1. /\ gate' = [gate EXCEPT !.open = FALSE]
        /\ Cancels(t, "close", None, "closed", None, ws'.gen, ActiveAgents, {})
    BY <1>6, CloseIs
  <2>2. CASE v = t
    <3>1. gate'.gen = gate.gen /\ ~gate'.open
      BY <2>1 DEF TypeOK
    <3>2. ActiveAgents # {} => gate.gen # 0
      BY DEF Generations, ActiveAgents, Active
    <3> QED
      BY <1>6, <2>1, <2>2, <3>1, <3>2, ListedAll DEF ListsNext
  <2>3. CASE v # t
    BY <1>2, <1>3, <1>6, <2>1, <2>3 DEF Cancels, Becomes
  <2> QED
    BY <2>2, <2>3
<1>7. ASSUME NEW t \in Tasks, Shutdown(t), Elapses, Progress PROVE ListsNext(v)
  <2>1. PICK S : /\ up' = "stopping" /\ (S = ActiveAgents \/ S = {})
                 /\ Cancels(t, "stop", None, "exit", None, 0, S, {})
    BY <1>7, ShutdownIs
  <2>2. CASE v = t /\ S = {}
    BY <2>1, <2>2 DEF Cancels, Becomes, Has, ListsNext
  <2>3. CASE v = t /\ S = ActiveAgents
    BY <1>7, <2>1, <2>3, ListedAll DEF ListsNext
  <2>4. CASE v # t
    BY <1>2, <1>3, <1>7, <2>1, <2>4 DEF Cancels, Becomes
  <2> QED
    BY <2>1, <2>2, <2>3, <2>4
<1>8. ASSUME NEW t \in Tasks, Boot(t), Elapses, Progress PROVE ListsNext(v)
  <2>1. /\ up \in Downs /\ ws' = ws
        /\ \/ UNCHANGED task
           \/ Becomes(t, "boot", "next", None, None, Unreconciled, "none", None, 0)
    BY <1>8, BootIs
  <2>2. CASE v # t \/ UNCHANGED task
    BY <1>2, <1>3, <1>8, <2>1, <2>2 DEF Becomes
  <2>3. CASE v = t /\ Becomes(t, "boot", "next", None, None, Unreconciled, "none", None, 0)
    <3>1. gate'.gen = gate.gen /\ task'[v].left = Unreconciled /\ task'[v].mode = "boot"
      BY <1>8, <2>3 DEF Elapses, Becomes, Has
    <3>2. \A a \in ActiveAgents : agentGen[a] = gate.gen
      BY DEF Generations, ActiveAgents, Active
    <3>3. gate.gen = ws.gen => ws.status = "ACTIVE"
      BY DEF Generations, TypeOK
    <3>4. CASE gate.gen = ws.gen
      <4>1. Unreconciled = ActiveAgents
        BY <3>2, <3>3, <3>4 DEF Unreconciled
      <4>2. Listed(v)'
        BY <1>8, <3>1, <4>1, FewerActive DEF Listed, Covers
      <4> QED
        BY <2>1, <3>1, <3>4, <4>2 DEF ListsNext
    <3>5. CASE gate.gen # ws.gen
      <4>1. Unreconciled = {}
        BY <3>2, <3>5 DEF Unreconciled
      <4> QED
        BY <2>1, <3>1, <3>5, <4>1 DEF ListsNext
    <3> QED
      BY <3>4, <3>5
  <2> QED
    BY <2>1, <2>2, <2>3
<1> QED
  BY <1>4, <1>5, <1>6, <1>7, <1>8, ContinuesStep, ElapsesStep, StatusStep DEF Spawns

\* A workspace is closed once all its agents have ended, and admits none.
LEMMA ClosedIsEmptyStep ==
    ASSUME AgentAssumption, TypeOK, Shapes, TaskAgents, Repairing, Lists, ClosedIsEmpty, [Next]_vars
    PROVE  ClosedIsEmpty'
<1>1. SUFFICES ASSUME ws'.status = "CLOSED" PROVE ActiveAgents' = {}
  BY DEF ClosedIsEmpty
<1>2. ASSUME NEW t \in Tasks, NEW a \in Agents, NEW p \in AgentOrNone, Spawn(t, a, p) PROVE FALSE
  BY <1>1, <1>2, SpawnIs
<1>3. Progress
  BY <1>2, StatusStep DEF Spawns
<1>4. CASE ActiveAgents = {}
  BY <1>3, <1>4, FewerActive
<1>5. CASE ActiveAgents # {}
  <2>1. ws.status = "CLOSED" \/ Closing
    BY <1>1, <1>2, ElapsesStep DEF Spawns, Elapses, Ages
  <2>2. PICK t \in Tasks : task[t].do = "closed" /\ ws = [status |-> "REAPING", gen |-> task[t].gen]
    BY <1>5, <2>1 DEF Closing, ClosedIsEmpty
  <2>3. task[t].mode = "close" /\ task[t].left = {} /\ task[t].do \notin CancelSteps \union {"rethrow"}
    BY <2>2 DEF Shapes, Shape, CancelSteps, CleanupSteps
  <2>4. Listed(t)
    BY <2>2, <2>3 DEF Lists
  <2> QED
    BY <1>5, <2>3, <2>4 DEF Listed, Covers
<1> QED
  BY <1>4, <1>5

-----------------------------------------------------------------------------
(* Children come first *)

Ending(a) == status[a] \in {"CANCELLING", "ENDED"}
EndingNext(a) == status'[a] \in {"CANCELLING", "ENDED"}

\* The children of a run that is being ended were there before.
LEMMA OldChildren ==
    ASSUME AgentAssumption, TypeOK, Shapes, Forest, TaskAgents, Repairing, [Next]_vars,
           NEW w \in Agents, EndingNext(w), NEW d \in Agents, parent'[d] = w
    PROVE  parent[d] = w /\ Later(status[d], status'[d])
<1>1. CASE Progress /\ UNCHANGED parent
  BY <1>1 DEF Progress
<1>2. ASSUME NEW t \in Tasks, NEW a \in Agents, NEW p \in AgentOrNone, Spawn(t, a, p)
      PROVE  parent[d] = w /\ Later(status[d], status'[d])
  <2>1. /\ status' = [status EXCEPT ![a] = "SPAWNING"] /\ parent' = [parent EXCEPT ![a] = p]
        /\ p # None => status[p] = "RUNNING"
    BY <1>2, SpawnIs
  <2>2. w # a /\ status'[w] = status[w]
    BY <2>1 DEF EndingNext, TypeOK
  <2>3. d # a
    BY <2>1, <2>2 DEF EndingNext, TypeOK, AgentAssumption
  <2> QED
    BY <2>1, <2>3 DEF TypeOK, Later
<1> QED
  BY <1>1, <1>2, StatusStep DEF Spawns

LEMMA EndingKept ==
    ASSUME TypeOK, Shapes, TaskAgents, Repairing, [Next]_vars, NEW a \in Agents, Ending(a)
    PROVE  EndingNext(a)
BY LifeStep DEF Later, Ending, EndingNext

\* What Settled and Over say after a step.
SettledNext(a) == \A d \in Agents : parent'[d] = a => status'[d] = "ENDED"
OverNext(a) == \E x \in Agents : a \in Descendants(x)' /\ EndingNext(x)

\* A run whose children have ended, or that is below one that ends, stays so.
LEMMA SettledKept ==
    ASSUME AgentAssumption, TypeOK, Shapes, Forest, TaskAgents, Repairing, [Next]_vars,
           NEW a \in Agents, EndingNext(a), Settled(a) \/ Over(a)
    PROVE  SettledNext(a) \/ OverNext(a)
<1>1. CASE Settled(a)
  BY <1>1, OldChildren DEF Settled, SettledNext, Later
<1>2. ASSUME NEW x \in Agents, a \in Descendants(x), Ending(x) PROVE OverNext(a)
  <2>1. Descendants(x) \subseteq Descendants(x)'
    BY GrowsStep, StatusStep DEF Grows
  <2> QED
    BY <1>2, <2>1, EndingKept DEF OverNext
<1> QED
  BY <1>1, <1>2 DEF Over, Ending

LEMMA NoneBelow ==
    ASSUME AgentAssumption, TypeOK, Forest, NEW w \in Agents, \A d \in Agents : parent[d] = w => status[d] \notin Active
    PROVE  Settled(w)
<1>1. SUFFICES ASSUME NEW d \in Agents, parent[d] = w PROVE status[d] = "ENDED"
  BY DEF Settled
<1>2. status[d] # "NONE" /\ status[d] \notin Active /\ status[d] \in Statuses
  BY <1>1 DEF Forest, TypeOK, AgentAssumption
<1> QED
  BY <1>2 DEF Statuses, Active

\* What ChildrenFirst says of the run that a task is at after a step.
FirstOne(v) ==
    \A a \in Agents : task'[v].do \in CancelSteps /\ task'[v].of = a =>
        SettledNext(a) \/ OverNext(a) \/ (task'[v].do = "await" /\ task'[v].own = a)

LEMMA FirstOther == ASSUME NEW v, task'[v].do \notin CancelSteps PROVE FirstOne(v)
BY DEF FirstOne

\* A task goes on at the same run.
LEMMA FirstStays ==
    ASSUME AgentAssumption, TypeOK, Shapes, Forest, TaskAgents, Repairing, ChildrenFirst, [Next]_vars,
           NEW v \in Tasks, task[v].do \in CancelSteps, task'[v].of = task[v].of, task'[v].own = task[v].own,
           task[v].do = "await" /\ task[v].of = task[v].own => task'[v].do = "await"
    PROVE  FirstOne(v)
<1>1. task[v].of \in Agents /\ Ending(task[v].of)
  BY DEF Shapes, Shape, TaskAgents, AgentsOf, Ending
<1>2. PICK a \in Agents : a = task[v].of
  BY <1>1
<1>3. Settled(a) \/ Over(a) \/ (task[v].do = "await" /\ a = task[v].own)
  BY <1>2 DEF ChildrenFirst
<1>4. CASE Settled(a) \/ Over(a)
  BY <1>1, <1>2, <1>4, EndingKept, SettledKept DEF FirstOne
<1>5. CASE task[v].do = "await" /\ a = task[v].own
  BY <1>2, <1>5 DEF FirstOne
<1> QED
  BY <1>3, <1>4, <1>5

LEMMA FirstSame ==
    ASSUME AgentAssumption, TypeOK, Shapes, Forest, TaskAgents, Repairing, ChildrenFirst, [Next]_vars,
           NEW v \in Tasks, task'[v] = task[v]
    PROVE  FirstOne(v)
<1>1. CASE task[v].do \in CancelSteps
  BY <1>1, FirstStays
<1>2. CASE task[v].do \notin CancelSteps
  BY <1>2, FirstOther
<1> QED
  BY <1>1, <1>2

\* A task begins or ends a list of the descendants of a run that is being ended.
LEMMA FirstOfBelow ==
    ASSUME AgentAssumption, TypeOK, Shapes, Forest, TaskAgents, Repairing, [Next]_vars,
           NEW t \in Tasks, NEW w \in Agents, NEW m, NEW th, NEW b, NEW g, NEW S, NEW A,
           Cancels(t, m, w, th, b, g, S, A), EndingNext(w), S \subseteq Descendants(w), S = {} => Settled(w)
    PROVE  FirstOne(t)
<1>1. CASE S = {} /\ Becomes(t, m, th, w, w, {}, th, b, g)
  <2>1. SettledNext(w) \/ OverNext(w)
    BY <1>1, SettledKept
  <2> QED
    BY <1>1, <2>1 DEF Becomes, Has, FirstOne
<1>2. ASSUME NEW d \in S, Becomes(t, m, "await", d, w, S \ {d}, th, b, g) PROVE FirstOne(t)
  <2>1. Descendants(w) \subseteq Descendants(w)'
    BY GrowsStep, StatusStep DEF Grows
  <2>2. OverNext(d)
    BY <2>1 DEF OverNext
  <2> QED
    BY <1>2, <2>2 DEF Becomes, Has, FirstOne
<1> QED
  BY <1>1, <1>2 DEF Cancels

\* A task goes on with a list of all agents.
LEMMA FirstOfAll ==
    ASSUME AgentAssumption, TypeOK, Shapes, Forest, TaskAgents, Repairing, [Next]_vars,
           NEW t \in Tasks, NEW d \in Agents, NEW S, ActiveAgents \subseteq S, \A e \in S : parent[e] # d,
           task'[t].of = d, EndingNext(d)
    PROVE  FirstOne(t)
<1>1. Settled(d)
  BY NoneBelow DEF ActiveAgents
<1>2. SettledNext(d) \/ OverNext(d)
  BY <1>1, SettledKept
<1> QED
  BY <1>2 DEF FirstOne

LEMMA FirstOfAllCancels ==
    ASSUME AgentAssumption, TypeOK, Shapes, Forest, TaskAgents, Repairing, [Next]_vars,
           NEW t \in Tasks, NEW m, NEW w, NEW th \in {"none", "closed", "exit"}, NEW b, NEW g, NEW S, NEW A,
           Cancels(t, m, w, th, b, g, S, A), S \in SUBSET Agents, ActiveAgents \subseteq S \/ S = {}
    PROVE  FirstOne(t)
<1>1. CASE Becomes(t, m, th, w, w, {}, th, b, g)
  BY <1>1, FirstOther DEF Becomes, Has, CancelSteps, CleanupSteps
<1>2. ASSUME NEW d \in S, \A e \in S : parent[e] # d, status' = Marked(A \union {d}),
             Becomes(t, m, "await", d, w, S \ {d}, th, b, g)
      PROVE  FirstOne(t)
  <2>1. EndingNext(d) /\ task'[t].of = d /\ ActiveAgents \subseteq S
    BY <1>2, MarkedIs DEF Becomes, Has, EndingNext
  <2> QED
    BY <1>2, <2>1, FirstOfAll
<1> QED
  BY <1>1, <1>2 DEF Cancels

\* The list of a task at its next run is that of all that is active below, or of all that is active.
LEMMA FirstNextOfList ==
    ASSUME AgentAssumption, TypeOK, Shapes, Forest, TaskAgents, Repairing, Lists, ChildrenFirst, [Next]_vars,
           NEW t \in Tasks, task[t].do = "next", task[t].mode # "boot",
           CancelsAs(t, task[t].left \intersect ActiveAgents, {})
    PROVE  FirstOne(t)
<1>0. PICK S : S = task[t].left \intersect ActiveAgents /\ S \in SUBSET Agents
  BY DEF ActiveAgents
<1>1. Cancels(t, task[t].mode, task[t].own, task[t].then, task[t].by, task[t].gen, S, {})
  BY <1>0 DEF CancelsAs
<1>2. task[t].do \notin CancelSteps \union {"rethrow"} \union LaunchSteps /\ task[t].do \notin {"none", "expired", "closed", "exit"}
  BY DEF CancelSteps, CleanupSteps, LaunchSteps
<1>3. \A a \in Agents : Covers(t, a) <=> a \in task[t].left
  BY <1>2 DEF Covers
<1>4. Shape(task[t]) /\ AgentsOf(task[t])
  BY DEF Shapes, TaskAgents
<1>5. CASE task[t].own \in Agents
  <2>1. PICK w \in Agents : w = task[t].own
    BY <1>5
  <2>2. task[t].of # w /\ S \subseteq Descendants(w) /\ Ending(w)
    BY <1>0, <1>2, <1>4, <2>1 DEF Shape, AgentsOf, Ending
  <2>3. S = {} => Settled(w)
    <3>1. \A d \in Agents : parent[d] = w /\ status[d] \in Active => d \in task[t].left
      BY <1>3, <2>1, <2>2 DEF ChildrenFirst
    <3>2. S = {} => \A d \in Agents : parent[d] = w => status[d] \notin Active
      BY <1>0, <3>1 DEF ActiveAgents
    <3> QED
      BY <3>2, NoneBelow
  <2> QED
    BY <1>1, <2>1, <2>2, <2>3, EndingKept, FirstOfBelow
<1>6. CASE task[t].own \notin Agents
  <2>1. (task[t].mode = "close" /\ task[t].then = "closed") \/ (task[t].mode = "stop" /\ task[t].then = "exit")
    <3>1. task[t].mode \in Modes \ {"idle", "boot", "launch", "call", "loose"}
      BY <1>2, <1>4, <1>6 DEF Shape, TypeOK, Record
    <3> QED
      BY <1>4, <3>1 DEF Shape, Modes
  <2>2. Listed(t)
    BY <1>2, <2>1 DEF Lists
  <2>3. ActiveAgents \subseteq S
    BY <1>0, <1>3, <2>2 DEF Listed, ActiveAgents
  <2> QED
    BY <1>0, <1>1, <2>1, <2>3, FirstOfAllCancels
<1> QED
  BY <1>5, <1>6

LEMMA FirstRun ==
    ASSUME AgentAssumption, TypeOK, Shapes, Forest, TaskAgents, Repairing, Lists, ChildrenFirst, [Next]_vars,
           NEW t \in Tasks, Run(t)
    PROVE  FirstOne(t)
<1> USE DEF rows, world, process
<1>0. Idle.do \notin CancelSteps
  BY IdleIs DEF Has, CancelSteps, CleanupSteps
<1>a. Ends(t) \/ Falls \/ Throws(t) => FirstOne(t)
  BY <1>0, FirstOther DEF Ends, Falls, Throws
<1>b. ASSUME NEW d, Moves(t, d), d \notin CancelSteps PROVE FirstOne(t)
  BY <1>b, FirstOther DEF Moves, Becomes, Has
<1>c. ASSUME NEW d, Moves(t, d), task[t].do \in CancelSteps \ {"await"} PROVE FirstOne(t)
  BY <1>c, FirstStays DEF Moves, Becomes, Has
<1>d. task[t].do \in CancelSteps \union {"rethrow"} => Ending(task[t].of)
  BY DEF TaskAgents, AgentsOf, Ending
<1>e. ASSUME NEW w \in Agents, Below(w) = {} PROVE Settled(w)
  <2>1. \A d \in Agents : parent[d] = w => status[d] \notin Active
    BY <1>e, Children DEF Below, ActiveAgents
  <2> QED
    BY <2>1, NoneBelow
<1>1. CASE Prepare(t) \/ Issue(t) \/ Launch(t) \/ SendStart(t)
  <2>1. Ends(t) \/ \E d \in LaunchSteps : Moves(t, d)
    BY <1>1, PrepareIs, IssueIs, LaunchIs, SendStartIs DEF LaunchSteps
  <2> QED
    BY <1>a, <1>b, <2>1 DEF LaunchSteps, CancelSteps, CleanupSteps
<1>5. CASE FailLaunch(t)
  <2>1. CASE CancelsAs(t, Below(task[t].of), {task[t].of})
    <3>1. PICK w \in Agents : w = task[t].of /\ w = task[t].own
      BY <1>5, FailLaunchIs DEF Shapes, Shape, LaunchSteps
    <3>2. EndingNext(w)
      <4>1. PICK M : status' = Marked(M) /\ w \in M
        BY <2>1, <3>1 DEF CancelsAs, Cancels
      <4> QED
        BY <4>1, MarkedIs DEF EndingNext
    <3>3. Below(w) \subseteq Descendants(w)
      BY DEF Below
    <3>4. Cancels(t, task[t].mode, w, task[t].then, task[t].by, task[t].gen, Below(w), {w})
      BY <2>1, <3>1 DEF CancelsAs
    <3> QED
      BY <1>e, <3>2, <3>3, <3>4, FirstOfBelow
  <2> QED
    BY <1>5, <1>a, <2>1, FailLaunchIs
<1>6. CASE AwaitLaunch(t)
  <2>1. CASE task[t].of = task[t].own /\ CancelsAs(t, Below(task[t].of), {})
    <3>1. PICK w \in Agents : w = task[t].of /\ w = task[t].own /\ Ending(w)
      BY <1>6, <1>d, <2>1, AwaitLaunchIs DEF CancelSteps
    <3>2. Below(w) \subseteq Descendants(w)
      BY DEF Below
    <3>3. Cancels(t, task[t].mode, w, task[t].then, task[t].by, task[t].gen, Below(w), {})
      BY <2>1, <3>1 DEF CancelsAs
    <3> QED
      BY <1>e, <3>1, <3>2, <3>3, EndingKept, FirstOfBelow
  <2>2. CASE task[t].of # task[t].own /\ Moves(t, "clean")
    <3>1. task[t].do = "await"
      BY <1>6, AwaitLaunchIs
    <3> QED
      BY <2>2, <3>1, FirstStays DEF Moves, Becomes, Has, CancelSteps
  <2> QED
    BY <1>6, <2>1, <2>2, AwaitLaunchIs
<1>7. CASE CancelNext(t)
  BY <1>7, CancelNextIs, FirstNextOfList
<1>8. CASE CleanOrJoin(t)
  <2>1. task[t].do \in CancelSteps \ {"await"}
    BY <1>8, CleanOrJoinIs DEF CancelSteps
  <2>2. CASE Becomes(t, task[t].mode, "join", task[t].of, task[t].own, task[t].left, task[t].then, runtime[task[t].of],
                     task[t].gen)
    BY <2>1, <2>2, FirstStays DEF Becomes, Has
  <2> QED
    BY <1>8, <1>a, <1>c, <2>1, <2>2, CleanOrJoinIs DEF Thrown
<1>9. CASE Start(t)
  <2>1. task[t].do \in CancelSteps \ {"await"} /\ task'[t].of = task[t].of /\ task'[t].own = task[t].own
    BY <1>9, StartIs DEF CancelSteps, Becomes, Has
  <2> QED
    BY <2>1, FirstStays
<1>10. CASE Revoke(t) \/ RemoveBox(t)
  <2>1. task[t].do \in CancelSteps \ {"await"}
    BY <1>10, RevokeIs, RemoveBoxIs DEF CancelSteps, CleanupSteps
  <2> QED
    BY <1>10, <1>a, <1>c, <2>1, RevokeIs, RemoveBoxIs DEF Thrown
<1>12. CASE Finish(t)
  <2>1. task'[t].do \in {"none", "next"}
    BY <1>12, FinishIs, IdleIs DEF Concludes, Has
  <2> QED
    BY <2>1, FirstOther DEF CancelSteps, CleanupSteps
<1>13. CASE Rethrow(t)
  BY <1>13, <1>a, RethrowIs DEF Thrown
<1>14. CASE Closed(t) \/ Expired(t) \/ Exit(t) \/ Admit(t)
  BY <1>14, <1>a, ClosedIs, ExpiredIs, ExitIs, AdmitIs
<1>17. CASE Repair(t)
  <2>1. CASE Moves(t, "admit")
    BY <1>b, <2>1 DEF CancelSteps, CleanupSteps
  <2>2. ASSUME NEW a \in task[t].left, \A e \in task[t].left : parent[e] # a, status' = Marked({a}),
               Becomes(t, "boot", "revoke", a, task[t].own, task[t].left \ {a}, task[t].then, task[t].by, task[t].gen)
        PROVE  FirstOne(t)
    <3>1. task[t].do = "next" /\ task[t].mode = "boot" /\ task[t].left \in SUBSET Agents
      BY <1>17, RepairIs DEF TypeOK, Record
    <3>2. Listed(t)
      BY <2>2, <3>1 DEF Lists
    <3>3. ActiveAgents \subseteq task[t].left
      BY <3>1, <3>2 DEF Listed, Covers, CancelSteps, CleanupSteps
    <3>4. PICK S : S = task[t].left
      OBVIOUS
    <3>5. EndingNext(a) /\ task'[t].of = a /\ a \in Agents
      BY <2>2, <3>1, MarkedIs DEF EndingNext, Becomes, Has
    <3> QED
      BY <2>2, <3>3, <3>4, <3>5, FirstOfAll
  <2> QED
    BY <1>17, <2>1, <2>2, RepairIs
<1> QED
  BY <1>1, <1>5, <1>6, <1>7, <1>8, <1>9, <1>10, <1>12, <1>13, <1>14, <1>17, Zenon DEF Run

\* A task that another awaits throws; a cleanup that does is to be tried again.
Disturbs(t, v) ==
    /\ Awaits(v, t) /\ Throws(t)
    /\ task[t].do \in {"clean", "rethrow"} \/ (task[t].do \in CleanupSteps /\ retry'[task[t].of])

\* What a step of one task does to the others.
LEMMA OthersRun ==
    ASSUME TypeOK, Shapes, NEW t \in Tasks, Run(t), NEW v \in Tasks, v # t
    PROVE  \/ task'[v] = task[v]
           \/ up' \in Downs /\ Falls
           \/ /\ task[v].do \in {"await", "join"} /\ task'[v].do \in {"none", "next", "rethrow"}
              /\ (Finish(t) /\ Joined(v, t)) \/ Disturbs(t, v)
<1> DEFINE Goal == \/ task'[v] = task[v]
                   \/ up' \in Downs /\ Falls
                   \/ /\ task[v].do \in {"await", "join"} /\ task'[v].do \in {"none", "next", "rethrow"}
                      /\ (Finish(t) /\ Joined(v, t)) \/ Disturbs(t, v)
<1>0. Idle.do = "none"
  BY IdleIs DEF Has
<1>a. (\E d : Moves(t, d)) \/ Ends(t) => Goal
  BY DEF Moves, Becomes, Ends
<1>b. (\E m, d, o, w, S, th, b, g : Becomes(t, m, d, o, w, S, th, b, g)) => Goal
  BY DEF Becomes
<1>c. (\E S, A : CancelsAs(t, S, A)) => Goal
  BY <1>b DEF CancelsAs, Cancels
<1>d. ASSUME NEW f, Thrown(t, f), task[t].do \in {"clean", "rethrow"} \/ (task[t].do \in CleanupSteps /\ retry'[task[t].of])
      PROVE  Goal
  <2>1. CASE Throws(t) /\ Awaits(v, t)
    <3>1. task[v].do \in {"await", "join"} /\ task'[v].do = "rethrow"
      BY <2>1 DEF Throws, Has, Awaits, At
    <3> QED
      BY <1>d, <2>1, <3>1 DEF Disturbs
  <2>2. CASE Throws(t) /\ ~Awaits(v, t)
    BY <2>2 DEF Throws
  <2> QED
    BY <1>d, <2>1, <2>2 DEF Thrown
<1>1. CASE Prepare(t) \/ Issue(t) \/ Launch(t) \/ SendStart(t)
  BY <1>1, <1>a, PrepareIs, IssueIs, LaunchIs, SendStartIs
<1>2. CASE FailLaunch(t) \/ AwaitLaunch(t) \/ CancelNext(t)
  BY <1>2, <1>a, <1>c, FailLaunchIs, AwaitLaunchIs, CancelNextIs
<1>3. CASE CleanOrJoin(t)
  BY <1>3, <1>a, <1>b, <1>d, CleanOrJoinIs
<1>4. CASE Start(t)
  BY <1>4, <1>b, StartIs
<1>5. CASE Revoke(t) \/ Rethrow(t)
  BY <1>5, <1>a, <1>d, RevokeIs, RethrowIs
<1>9. CASE RemoveBox(t)
  <2>1. CASE Thrown(t, Failed(t)) /\ retry' = [retry EXCEPT ![task[t].of] = TRUE]
    <3>1. task[t].do \in CleanupSteps /\ task[t].of \in Agents
      BY <1>9, RemoveBoxIs DEF CleanupSteps
    <3>2. retry'[task[t].of]
      BY <2>1, <3>1 DEF TypeOK
    <3> QED
      BY <1>d, <2>1, <3>1, <3>2
  <2> QED
    BY <1>9, <1>a, <2>1, RemoveBoxIs
<1>6. CASE Finish(t)
  BY <1>0, <1>6, FinishIs DEF Concludes, Has, Joined
<1>7. CASE Closed(t) \/ Expired(t) \/ Exit(t) \/ Admit(t)
  BY <1>7, <1>a, ClosedIs, ExpiredIs, ExitIs, AdmitIs
<1>8. CASE Repair(t)
  BY <1>8, <1>a, <1>b, RepairIs
<1> QED
  BY <1>1, <1>2, <1>3, <1>4, <1>5, <1>6, <1>7, <1>8, <1>9, Zenon DEF Run

LEMMA FirstStep ==
    ASSUME AgentAssumption, TypeOK, Shapes, Forest, TaskAgents, Repairing, Lists, ChildrenFirst, Failures, [Next]_vars,
           NEW v \in Tasks
    PROVE  FirstOne(v)
<1> USE DEF rows, world, process
<1>a. task'[v] = task[v] => FirstOne(v)
  BY FirstSame
<1>b. ASSUME NEW t \in Tasks, \A u \in Tasks : u # t => task'[u] = task[u], FirstOne(t) PROVE FirstOne(v)
  BY <1>a, <1>b
<1>c. ASSUME NEW t \in Tasks, NEW m, NEW d, NEW o, NEW w, NEW S, NEW th, NEW b, NEW g, Becomes(t, m, d, o, w, S, th, b, g),
             d \notin CancelSteps
      PROVE  FirstOne(v)
  BY <1>b, <1>c, FirstOther DEF Becomes, Has
<1>d. ASSUME NEW w \in Agents, Below(w) = {} PROVE Settled(w)
  <2>1. \A d \in Agents : parent[d] = w => status[d] \notin Active
    BY <1>d, Children DEF Below, ActiveAgents
  <2> QED
    BY <2>1, NoneBelow
<1>e. ASSUME NEW t \in Tasks, NEW a \in Agents, NEW m, Cancels(t, m, a, "start", None, 0, Below(a), {a}) PROVE FirstOne(v)
  <2>1. EndingNext(a)
    <3>1. PICK M : status' = Marked(M) /\ a \in M
      BY <1>e DEF Cancels
    <3> QED
      BY <3>1, MarkedIs DEF EndingNext
  <2>2. Below(a) \subseteq Descendants(a)
    BY DEF Below
  <2>3. FirstOne(t)
    BY <1>d, <1>e, <2>1, <2>2, FirstOfBelow
  <2> QED
    BY <1>b, <1>e, <2>3 DEF Cancels, Becomes
<1>f. ASSUME NEW t \in Tasks, NEW m, NEW th \in {"none", "closed", "exit"}, NEW g, NEW S, S = ActiveAgents \/ S = {},
             Cancels(t, m, None, th, None, g, S, {})
      PROVE  FirstOne(v)
  <2>1. FirstOne(t)
    BY <1>f, FirstOfAllCancels DEF ActiveAgents
  <2> QED
    BY <1>b, <1>f, <2>1 DEF Cancels, Becomes
<1>1. CASE UNCHANGED vars
  BY <1>1, <1>a DEF vars
<1>2. CASE Recover
  BY <1>2, <1>a, RecoverIs
<1>3. CASE Crash
  BY <1>3, CrashIs, IdleIs, FirstOther DEF Falls, Has, CancelSteps, CleanupSteps
<1>4. ASSUME NEW t \in Tasks, Run(t) PROVE FirstOne(v)
  <2>1. CASE v = t
    BY <1>4, <2>1, FirstRun
  <2>2. CASE v # t
    <3>1. Idle.do = "none"
      BY IdleIs DEF Has
    <3>2. task'[v] = task[v] \/ task'[v].do \in {"none", "next", "rethrow"}
      BY <1>4, <2>2, <3>1, OthersRun DEF Falls
    <3> QED
      BY <1>a, <3>2, FirstOther DEF CancelSteps, CleanupSteps
  <2> QED
    BY <2>1, <2>2
<1>5. ASSUME NEW t \in Tasks, Close(t) PROVE FirstOne(v)
  BY <1>5, <1>f, CloseIs
<1>6. ASSUME NEW t \in Tasks, Expire(t) PROVE FirstOne(v)
  BY <1>6, <1>c, ExpireIs DEF CancelSteps, CleanupSteps
<1>7. ASSUME NEW t \in Tasks, Shutdown(t) PROVE FirstOne(v)
  BY <1>7, <1>f, ShutdownIs
<1>8. ASSUME NEW t \in Tasks, Boot(t) PROVE FirstOne(v)
  <2>1. CASE Becomes(t, "boot", "next", None, None, Unreconciled, "none", None, 0)
    BY <1>c, <2>1 DEF CancelSteps, CleanupSteps
  <2> QED
    BY <1>8, <1>a, <2>1, BootIs
<1>9. ASSUME NEW t \in Tasks, NEW a \in Agents, NEW m \in {"call", "loose"}, CancelOne(t, a, m) PROVE FirstOne(v)
  <2>1. Becomes(t, m, "await", a, a, {}, "clean", None, 0)
    BY <1>9, CancelIs
  <2>2. FirstOne(t)
    BY <2>1 DEF Becomes, Has, FirstOne
  <2> QED
    BY <1>b, <2>1, <2>2 DEF Becomes
<1>10. ASSUME NEW t \in Tasks, NEW a \in Agents, Interrupt(t, a) PROVE FirstOne(v)
  BY <1>10, <1>e, InterruptIs
<1>11. ASSUME NEW t \in Tasks, NEW a \in Agents, FinishTerminal(t, a) PROVE FirstOne(v)
  BY <1>11, <1>e, FinishTerminalIs
<1>12. ASSUME NEW t \in Tasks, NEW a \in Agents, RetryCleanup(t, a) PROVE FirstOne(v)
  <2>1. retry[a] /\ Ending(a) /\ Becomes(t, "call", "start", a, a, {}, "start", None, 0)
    BY <1>12, RetryCleanupIs DEF Ending
  <2>2. Settled(a) \/ Over(a)
    BY <2>1 DEF ChildrenFirst
  <2>3. SettledNext(a) \/ OverNext(a)
    BY <2>1, <2>2, EndingKept, SettledKept
  <2>4. FirstOne(t)
    BY <2>1, <2>3 DEF Becomes, Has, FirstOne
  <2> QED
    BY <1>b, <2>1, <2>4 DEF Becomes
<1>13. ASSUME NEW t \in Tasks, NEW a \in Agents, NEW p \in AgentOrNone, Spawn(t, a, p) PROVE FirstOne(v)
  BY <1>13, <1>c, SpawnIs DEF CancelSteps, CleanupSteps
<1> QED
  BY <1>1, <1>2, <1>3, <1>4, <1>5, <1>6, <1>7, <1>8, <1>9, <1>10, <1>11, <1>12, <1>13, Zenon
  DEF Next, Cancel, CancelLoose, AgentOrNone

\* A list of descendants goes on to have all active children of the run it is for.
LEMMA ListKeepsChildren ==
    ASSUME AgentAssumption, TypeOK, Shapes, Forest, TaskAgents, Repairing, Promises, ChildrenFirst, [Next]_vars,
           NEW v \in Tasks, NEW w \in Agents, task'[v].own = w, task'[v].of # w,
           NEW d \in Agents, parent'[d] = w, status'[d] \in Active
    PROVE  Covers(v, d)'
<1>1. Shape(task'[v]) /\ EndingNext(w)
  <2>1. Shapes' /\ TaskAgents'
    BY ShapesStep, TaskAgentsStep
  <2> QED
    BY <2>1 DEF Shapes, TaskAgents, AgentsOf, Shape, EndingNext
<1>2. parent[d] = w /\ status[d] \in Active
  BY <1>1, OldChildren DEF Later, Active
<1>3. d \in Below(w)
  BY <1>2, Children DEF Below, ActiveAgents
<1>4. CASE GoesOn(v)
  <2>1. task[v].own = w /\ task[v].of # w
    BY <1>4 DEF GoesOn
  <2>2. Covers(v, d)
    BY <1>2, <2>1 DEF ChildrenFirst
  <2> QED
    BY <1>4, <2>2 DEF GoesOn
<1>5. CASE Renews(v)
  BY <1>3, <1>5 DEF Renews
<1>6. CASE task'[v].mode \in {"idle", "close", "stop", "boot"} \/ task'[v].own = None
  <2>1. Idle.own = None
    BY IdleIs DEF Has
  <2> QED
    BY <1>1, <1>6, <2>1 DEF Shape, AgentAssumption
<1>7. ASSUME NEW t \in Tasks, Close(t) \/ Shutdown(t) \/ Boot(t) PROVE GoesOn(v) \/ task'[v].own = None
  <2>1. (\E m, d2, o, S, th, b, g : Becomes(t, m, d2, o, None, S, th, b, g)) \/ UNCHANGED task
    <3>1. CASE Close(t)
      BY <3>1, CloseIs DEF Cancels
    <3>2. CASE Shutdown(t)
      BY <3>2, ShutdownIs DEF Cancels
    <3>3. CASE Boot(t)
      BY <3>3, BootIs
    <3> QED
      BY <1>7, <3>1, <3>2, <3>3
  <2>2. task'[v] = task[v] \/ task'[v].own = None
    BY <2>1 DEF Becomes, Has
  <2> QED
    BY <2>2 DEF GoesOn, Covers
<1> QED
  BY <1>4, <1>5, <1>6, <1>7, ContinuesStep DEF Continues, ContinuesOne

LEMMA ChildrenFirstStep ==
    ASSUME AgentAssumption, TypeOK, Shapes, Forest, TaskAgents, Repairing, Promises, Failures, Lists, ChildrenFirst,
           [Next]_vars
    PROVE  ChildrenFirst'
<1>1. ASSUME NEW v \in Tasks, task'[v].do \in CancelSteps
      PROVE  SettledNext(task'[v].of) \/ OverNext(task'[v].of) \/ (task'[v].do = "await" /\ task'[v].of = task'[v].own)
  <2>1. task'[v].of \in Agents
    <3>1. Shapes'
      BY ShapesStep
    <3> QED
      BY <1>1, <3>1 DEF Shapes, Shape
  <2> QED
    BY <1>1, <2>1, FirstStep DEF FirstOne
<1>2. ASSUME NEW a \in Agents, retry'[a] \/ status'[a] = "ENDED" PROVE SettledNext(a) \/ OverNext(a)
  <2>1. /\ retry'[a] /\ ~retry[a] => \E t \in Tasks : task[t].do \in CleanupSteps /\ task[t].of = a
        /\ status'[a] = "ENDED" /\ status[a] # "ENDED" => \E t \in Tasks : task[t].do = "finish" /\ task[t].of = a
    BY GainsStep DEF Gains
  <2>2. CASE retry[a] \/ status[a] = "ENDED"
    BY <2>2, EndingKept, SettledKept DEF ChildrenFirst, Failures, Ending
  <2>3. ASSUME NEW t \in Tasks, task[t].do \in CleanupSteps, task[t].of = a PROVE SettledNext(a) \/ OverNext(a)
    <3>1. task[t].do \in CancelSteps \ {"await"}
      BY <2>3 DEF CancelSteps, CleanupSteps
    <3>2. Ending(a) /\ (Settled(a) \/ Over(a))
      BY <2>3, <3>1 DEF TaskAgents, AgentsOf, Ending, ChildrenFirst
    <3> QED
      BY <3>2, EndingKept, SettledKept
  <2> QED
    BY <1>2, <2>1, <2>2, <2>3 DEF CleanupSteps
<1>3. ASSUME NEW v \in Tasks, task'[v].own \in Agents, task'[v].of # task'[v].own,
             NEW d \in Agents, parent'[d] = task'[v].own, status'[d] \in Active
      PROVE  Covers(v, d)'
  BY <1>3, ListKeepsChildren
<1> QED
  BY <1>1, <1>2, <1>3 DEF ChildrenFirst, Settled, Over, SettledNext, OverNext, EndingNext

-----------------------------------------------------------------------------
(* Nobody is forgotten *)

\* Who loses a runtime or a retry has ended, has somebody at its cleanup, or the process is down.
Loses ==
    \A a \in Agents :
        /\ runtime[a] = "open" /\ runtime'[a] # "open" =>
             \/ up' \in Downs \/ status'[a] = "ENDED"
             \/ \E t \in Tasks : task'[t].do \in CancelSteps /\ task'[t].of = a
        /\ runtime[a] # "none" /\ runtime'[a] = "none" => up' \in Downs \/ status'[a] = "ENDED"
        /\ retry[a] /\ ~retry'[a] => status'[a] = "ENDED"

LEMMA LosesNone == ASSUME UNCHANGED <<runtime, retry>> PROVE Loses
BY DEF Loses

LEMMA LosesFall == ASSUME up' \in Downs, Falls, retry' = retry PROVE Loses
BY DEF Loses

LEMMA LosesRegistered ==
    ASSUME AgentAssumption, TypeOK, NEW t \in Tasks, NEW a \in Agents, retry' = retry, runtime' = Registered(t, a),
           task'[t].do \in CancelSteps, task'[t].of = a
    PROVE  Loses
BY RegisteredIs DEF Loses, AgentAssumption

LEMMA LosesRun == ASSUME AgentAssumption, TypeOK, Shapes, NEW t \in Tasks, Run(t) PROVE Loses
<1> USE DEF rows, world, process
<1>1. CASE Prepare(t) \/ Issue(t) \/ SendStart(t) \/ FailLaunch(t) \/ AwaitLaunch(t) \/ CancelNext(t)
  BY <1>1, LosesNone, PrepareIs, IssueIs, SendStartIs, FailLaunchIs, AwaitLaunchIs, CancelNextIs
<1>2. CASE Launch(t)
  BY <1>2, LaunchIs DEF Loses, TypeOK
<1>3. CASE CleanOrJoin(t)
  <2>1. CASE runtime' = Registered(t, task[t].of) /\ Moves(t, "revoke")
    BY <1>3, <2>1, CleanOrJoinIs, LosesRegistered DEF Moves, Becomes, Has, CancelSteps, CleanupSteps
  <2> QED
    BY <1>3, <2>1, CleanOrJoinIs, LosesNone, LosesFall DEF Thrown
<1>4. CASE Start(t)
  BY <1>4, StartIs, LosesRegistered DEF Becomes, Has, CancelSteps, CleanupSteps
<1>5. CASE RemoveBox(t)
  <2>1. CASE UNCHANGED <<retry, runtime>>
    BY <2>1, LosesNone
  <2>2. CASE retry' = [retry EXCEPT ![task[t].of] = TRUE] /\ runtime' = Failed(t)
    BY <2>2, FailedIs DEF Loses, TypeOK, AgentAssumption
  <2>3. CASE retry' = [retry EXCEPT ![task[t].of] = TRUE] /\ up' \in Downs /\ Falls
    BY <2>3 DEF Loses, TypeOK
  <2> QED
    BY <1>5, <2>1, <2>2, <2>3, RemoveBoxIs DEF Thrown
<1>6. CASE Finish(t)
  BY <1>6, FinishIs DEF Loses, TypeOK
<1>7. CASE Rethrow(t)
  BY <1>7, RethrowIs, LosesNone, LosesFall DEF Thrown
<1>8. CASE Revoke(t) \/ Closed(t) \/ Expired(t) \/ Repair(t)
  BY <1>8, LosesNone, RevokeIs, ClosedIs, ExpiredIs, RepairIs
<1>9. CASE Exit(t) \/ Admit(t)
  BY <1>9, LosesNone, LosesFall, ExitIs, AdmitIs
<1> QED
  BY <1>1, <1>2, <1>3, <1>4, <1>5, <1>6, <1>7, <1>8, <1>9, Zenon DEF Run

LEMMA LosesStep == ASSUME AgentAssumption, TypeOK, Shapes, [Next]_vars PROVE Loses
<1> USE DEF rows, world, process
<1>1. CASE UNCHANGED vars
  BY <1>1, LosesNone DEF vars
<1>2. CASE Recover
  BY <1>2, RecoverIs, LosesNone
<1>3. CASE Crash
  BY <1>3, CrashIs, LosesFall
<1>4. ASSUME NEW t \in Tasks, Run(t) PROVE Loses
  BY <1>4, LosesRun
<1>5. ASSUME NEW t \in Tasks, Close(t) \/ Expire(t) \/ Shutdown(t) \/ Boot(t) PROVE Loses
  BY <1>5, LosesNone, CloseIs, ExpireIs, ShutdownIs, BootIs
<1>6. ASSUME NEW t \in Tasks, NEW a \in Agents, NEW m \in {"call", "loose"}, CancelOne(t, a, m) PROVE Loses
  BY <1>6, CancelIs, LosesNone
<1>7. ASSUME NEW t \in Tasks, NEW a \in Agents, Interrupt(t, a) \/ FinishTerminal(t, a) \/ RetryCleanup(t, a) PROVE Loses
  BY <1>7, InterruptIs, FinishTerminalIs, RetryCleanupIs, LosesNone
<1>8. ASSUME NEW t \in Tasks, NEW a \in Agents, NEW p \in AgentOrNone, Spawn(t, a, p) PROVE Loses
  BY <1>8, SpawnIs, LosesNone
<1> QED
  BY <1>1, <1>2, <1>3, <1>4, <1>5, <1>6, <1>7, <1>8, Zenon DEF Next, Cancel, CancelLoose, AgentOrNone

\* A run that has descendants has its runtime, or its cleanup is under way or to be tried again.
LEMMA Parental ==
    ASSUME AgentAssumption, TypeOK, Promises, Failures, Here, Hands,
           NEW a \in Agents, status[a] \in {"RUNNING", "CANCELLING"}, Descendants(a) # {}
    PROVE  runtime[a] = "open" \/ retry[a] \/ \E u \in Tasks : task[u].do \in CleanupSteps /\ task[u].of = a
<1>1. \E d \in Agents : parent[d] = a
  <2>1. ASSUME \A d \in Agents : parent[d] # a PROVE Descendants(a) = {}
    <3>1. \A e \in Agents : parent[e] \in {} \union {a} => e \in {}
      BY <2>1
    <3> QED
      BY <3>1, Least
  <2> QED
    BY <2>1
<1>2. runtime[a] # "none"
  BY <1>1 DEF Hands
<1>3. runtime[a] \in {"open", "failed"} \union Tasks
  BY <1>2 DEF TypeOK
<1> QED
  BY <1>3 DEF Promises, Failures

\* What Held says after a step.
HeldNext(a) == retry'[a] \/ runtime'[a] = "open" \/ \E t \in Tasks : task'[t].do \in CancelSteps /\ task'[t].of = a

\* A step that leaves the cleanups of a run alone.
LEMMA HeldParent ==
    ASSUME AgentAssumption, TypeOK, Shapes, Promises, Failures, Here, Hands, [Next]_vars, up' = "up",
           NEW a \in Agents, status[a] \in {"RUNNING", "CANCELLING"}, Descendants(a) # {}, status'[a] # "ENDED",
           \A u \in Tasks : task[u].do \in CleanupSteps /\ task[u].of = a => task'[u] = task[u]
    PROVE  HeldNext(a)
<1>1. up' \notin Downs
  BY DEF Downs
<1> QED
  BY <1>1, Parental, LosesStep DEF Loses, HeldNext, CancelSteps

\* A task that is at a run goes on, or leaves it in other hands.
LEMMA HeldRun ==
    ASSUME AgentAssumption, TypeOK, Shapes, TaskAgents, Promises, Failures, Here, Hands, [Next]_vars, up' = "up",
           NEW t \in Tasks, Run(t), NEW a \in Agents, task[t].do \in CancelSteps, task[t].of = a,
           status[a] = "CANCELLING", status'[a] = "CANCELLING"
    PROVE  HeldNext(a)
<1> USE DEF rows, world, process
<1>0. up' \notin Downs /\ Shape(task[t])
  BY DEF Downs, Shapes
<1>a. ASSUME NEW d \in CancelSteps, Moves(t, d) PROVE HeldNext(a)
  BY <1>a DEF Moves, Becomes, Has, HeldNext
<1>b. retry[a] => HeldNext(a)
  BY LosesStep DEF Loses, HeldNext
<1>1. CASE AwaitLaunch(t)
  <2>1. CASE task[t].own = a /\ CancelsAs(t, Below(a), {})
    <3>1. task[t].then \in {"start", "clean"}
      BY <1>0, <2>1 DEF Shape, TypeOK, Record, Modes, AgentAssumption, CancelSteps, CleanupSteps
    <3>2. CASE Becomes(t, task[t].mode, task[t].then, a, a, {}, task[t].then, task[t].by, task[t].gen)
      BY <3>1, <3>2 DEF Becomes, Has, HeldNext, CancelSteps
    <3>3. ASSUME NEW d \in Below(a),
                 Becomes(t, task[t].mode, "await", d, a, Below(a) \ {d}, task[t].then, task[t].by, task[t].gen)
          PROVE  HeldNext(a)
      <4>1. Descendants(a) # {}
        BY <3>3 DEF Below
      <4>2. task[t].do = "await"
        BY <1>1, AwaitLaunchIs
      <4>3. \A u \in Tasks : task[u].do \in CleanupSteps /\ task[u].of = a => task'[u] = task[u]
        BY <3>3, <4>2 DEF Becomes, CleanupSteps
      <4> QED
        BY <4>1, <4>3, HeldParent
    <3> QED
      BY <2>1, <3>2, <3>3 DEF CancelsAs, Cancels
  <2>2. CASE Moves(t, "clean")
    BY <1>a, <2>2 DEF CancelSteps
  <2> QED
    BY <1>1, <2>1, <2>2, AwaitLaunchIs
<1>2. CASE CleanOrJoin(t)
  <2>1. CASE Becomes(t, task[t].mode, "join", task[t].of, task[t].own, task[t].left, task[t].then, runtime[task[t].of],
                     task[t].gen)
    BY <2>1 DEF Becomes, Has, HeldNext, CancelSteps
  <2>2. CASE runtime[a] = "failed"
    BY <1>b, <2>2 DEF Failures
  <2>3. CASE Moves(t, "revoke")
    BY <1>a, <2>3 DEF CancelSteps, CleanupSteps
  <2> QED
    BY <1>2, <2>1, <2>2, <2>3, CleanOrJoinIs
<1>3. CASE Start(t)
  <2>1. task'[t].do = "revoke" /\ task'[t].of = a
    BY <1>3, StartIs DEF Becomes, Has
  <2> QED
    BY <2>1 DEF HeldNext, CancelSteps, CleanupSteps
<1>4. CASE Revoke(t)
  BY <1>4, <1>a, RevokeIs DEF CancelSteps, CleanupSteps
<1>5. CASE RemoveBox(t)
  <2>1. CASE retry' = [retry EXCEPT ![task[t].of] = TRUE]
    BY <2>1 DEF TypeOK, HeldNext
  <2> QED
    BY <1>5, <1>a, <2>1, RemoveBoxIs DEF CancelSteps, CleanupSteps
<1>6. CASE Finish(t)
  BY <1>6, FinishIs DEF TypeOK
<1>7. task[t].do \notin {"prepare", "issue", "box", "begin", "fail", "next", "rethrow", "closed", "expired", "exit", "admit"}
  BY DEF CancelSteps, CleanupSteps
<1> QED
  BY <1>1, <1>2, <1>3, <1>4, <1>5, <1>6, <1>7, PrepareIs, IssueIs, LaunchIs, SendStartIs, FailLaunchIs, CancelNextIs,
     RethrowIs, ClosedIs, ExpiredIs, ExitIs, RepairIs, AdmitIs DEF Run

\* Another task's step leaves a task at its run, or the run in other hands.
LEMMA HeldOthers ==
    ASSUME AgentAssumption, TypeOK, Shapes, TaskAgents, Promises, Failures, Here, Hands, [Next]_vars, up' = "up",
           NEW s \in Tasks, Run(s), NEW t \in Tasks, t # s,
           NEW a \in Agents, task[t].do \in CancelSteps, task[t].of = a,
           status[a] = "CANCELLING", status'[a] = "CANCELLING"
    PROVE  HeldNext(a)
<1>0. up' \notin Downs
  BY DEF Downs
<1>1. CASE task'[t] = task[t]
  BY <1>1 DEF HeldNext
<1>2. CASE Finish(s) /\ Joined(t, s)
  <2>1. task[s].of = a
    BY <1>2 DEF Promises, Joined
  <2> QED
    BY <1>2, <2>1, FinishIs DEF TypeOK
<1>3. CASE Disturbs(s, t)
  <2>1. CASE task[t].do = "join" /\ task[t].by = s
    <3>1. task[s].do \in CleanupSteps /\ task[s].of = a
      BY <2>1 DEF Promises
    <3> QED
      BY <1>3, <3>1 DEF Disturbs, HeldNext, CleanupSteps
  <2>2. CASE task[s].mode = "launch" /\ task[s].own = a
    <3>1. CASE task[s].of = a /\ task[s].do \in CleanupSteps
      BY <1>3, <3>1 DEF Disturbs, HeldNext, CleanupSteps
    <3>2. CASE task[s].of # a \/ task[s].do \in {"clean", "rethrow"}
      <4>1. task[s].of \in Descendants(a)
        BY <2>2, <3>2 DEF Shapes, Shape, TaskAgents, AgentsOf
      <4>2. \A u \in Tasks : task[u].do \in CleanupSteps /\ task[u].of = a => u # s
        BY <3>2 DEF CleanupSteps
      <4>3. \A u \in Tasks : task[u].do \in CleanupSteps => ~Awaits(u, s)
        BY DEF CleanupSteps, Awaits, At
      <4>4. \A u \in Tasks : task[u].do \in CleanupSteps /\ task[u].of = a => task'[u] = task[u]
        BY <1>3, <4>2, <4>3 DEF Disturbs, Throws
      <4> QED
        BY <4>1, <4>4, HeldParent
    <3> QED
      BY <1>3, <3>1, <3>2 DEF Disturbs
  <2> QED
    BY <1>3, <2>1, <2>2 DEF Disturbs, Awaits, At
<1> QED
  BY <1>0, <1>1, <1>2, <1>3, OthersRun

\* A run that is being cancelled stays at somebody's hands.
LEMMA HeldStays ==
    ASSUME AgentAssumption, TypeOK, Shapes, TaskAgents, Promises, Failures, Here, Hands, [Next]_vars, up' = "up",
           NEW a \in Agents, status[a] = "CANCELLING", status'[a] = "CANCELLING"
    PROVE  HeldNext(a)
<1> USE DEF rows, world, process
<1>0. up' \notin Downs /\ Held(a)
  BY DEF Downs, Hands
<1>1. CASE retry[a] \/ runtime[a] = "open"
  BY <1>0, <1>1, LosesStep DEF Loses, HeldNext
<1>2. ASSUME NEW t \in Tasks, task[t].do \in CancelSteps, task[t].of = a PROVE HeldNext(a)
  <2>a. task'[t] = task[t] => HeldNext(a)
    BY <1>2 DEF HeldNext
  <2>b. task[t].mode # "idle"
    BY <1>2 DEF Shapes, Shape, CancelSteps, CleanupSteps
  <2>c. ASSUME NEW s \in Tasks, task[s].mode = "idle", NEW m, NEW d, NEW o, NEW w, NEW S, NEW th, NEW b, NEW g,
               Becomes(s, m, d, o, w, S, th, b, g)
        PROVE  HeldNext(a)
    BY <2>a, <2>b, <2>c DEF Becomes
  <2>d. ASSUME NEW s \in Tasks, task[s].mode = "idle", NEW m, NEW w, NEW S, NEW A, NEW th, NEW b, NEW g,
               Cancels(s, m, w, th, b, g, S, A)
        PROVE  HeldNext(a)
    BY <2>c, <2>d DEF Cancels
  <2>1. CASE UNCHANGED vars
    BY <2>1, <2>a DEF vars
  <2>2. CASE Recover
    BY <2>2, <2>a, RecoverIs
  <2>3. CASE Crash
    BY <1>0, <2>3, CrashIs
  <2>4. ASSUME NEW s \in Tasks, Run(s) PROVE HeldNext(a)
    BY <1>2, <2>4, HeldRun, HeldOthers
  <2>5. ASSUME NEW s \in Tasks, Close(s) PROVE HeldNext(a)
    BY <2>5, <2>d, CloseIs
  <2>6. ASSUME NEW s \in Tasks, Expire(s) PROVE HeldNext(a)
    BY <2>6, <2>c, ExpireIs
  <2>7. ASSUME NEW s \in Tasks, Shutdown(s) PROVE HeldNext(a)
    BY <2>7, <2>d, ShutdownIs
  <2>8. ASSUME NEW s \in Tasks, Boot(s) PROVE HeldNext(a)
    BY <2>8, BootIs DEF Here, Downs
  <2>9. ASSUME NEW s \in Tasks, NEW e \in Agents, NEW m \in {"call", "loose"}, CancelOne(s, e, m) PROVE HeldNext(a)
    <3>1. task[s].mode = "idle" /\ Becomes(s, m, "await", e, e, {}, "clean", None, 0)
      BY <2>9, CancelIs
    <3> QED
      BY <3>1, <2>c
  <2>10. ASSUME NEW s \in Tasks, NEW e \in Agents, Interrupt(s, e) PROVE HeldNext(a)
    BY <2>10, <2>d, InterruptIs
  <2>11. ASSUME NEW s \in Tasks, NEW e \in Agents, FinishTerminal(s, e) PROVE HeldNext(a)
    BY <2>11, <2>d, FinishTerminalIs
  <2>12. ASSUME NEW s \in Tasks, NEW e \in Agents, RetryCleanup(s, e) PROVE HeldNext(a)
    BY <2>12, <2>c, RetryCleanupIs
  <2>13. ASSUME NEW s \in Tasks, NEW e \in Agents, NEW p \in AgentOrNone, Spawn(s, e, p) PROVE HeldNext(a)
    BY <2>13, <2>c, SpawnIs
  <2> QED
    BY <2>1, <2>2, <2>3, <2>4, <2>5, <2>6, <2>7, <2>8, <2>9, <2>10, <2>11, <2>12, <2>13, Zenon
    DEF Next, Cancel, CancelLoose, AgentOrNone
<1> QED
  BY <1>0, <1>1, <1>2 DEF Held

\* A run that a list marks is at the hands of the list.
LEMMA HeldMarked ==
    ASSUME TypeOK, NEW t \in Tasks, NEW m, NEW w, NEW th, NEW b, NEW g, NEW S, NEW A, Cancels(t, m, w, th, b, g, S, A),
           NEW a \in Agents, a \notin A, status[a] # "CANCELLING", status'[a] = "CANCELLING"
    PROVE  HeldNext(a)
<1>1. CASE status' = Marked(A)
  BY <1>1, MarkedIs
<1>2. ASSUME NEW d \in S, status' = Marked(A \union {d}), Becomes(t, m, "await", d, w, S \ {d}, th, b, g) PROVE HeldNext(a)
  <2>1. a = d
    BY <1>2, MarkedIs
  <2> QED
    BY <1>2, <2>1 DEF Becomes, Has, HeldNext, CancelSteps
<1> QED
  BY <1>1, <1>2 DEF Cancels

\* So is the run that the list is for, or it has its runtime.
LEMMA HeldMarking ==
    ASSUME AgentAssumption, TypeOK, Forest, NEW t \in Tasks, NEW m, NEW a \in Agents, NEW b, NEW g,
           Cancels(t, m, a, "start", b, g, Below(a), {a}), status[a] = "SPAWNING" \/ runtime'[a] = "open"
    PROVE  HeldNext(a)
<1>1. CASE Becomes(t, m, "start", a, a, {}, "start", b, g)
  BY <1>1 DEF Becomes, Has, HeldNext, CancelSteps
<1>2. CASE Below(a) # {}
  <2>1. PICK d \in Agents : parent[d] = a
    <3>1. ASSUME \A d \in Agents : parent[d] # a PROVE Descendants(a) = {}
      <4>1. \A e \in Agents : parent[e] \in {} \union {a} => e \in {}
        BY <3>1
      <4> QED
        BY <4>1, Least
    <3> QED
      BY <1>2, <3>1 DEF Below
  <2>2. status[a] # "SPAWNING"
    BY <2>1 DEF Forest, AgentAssumption
  <2> QED
    BY <2>2 DEF HeldNext
<1> QED
  BY <1>1, <1>2 DEF Cancels

LEMMA HeldMade ==
    ASSUME AgentAssumption, TypeOK, Shapes, Processes, Forest, TaskAgents, Here, Hands, [Next]_vars, up' = "up",
           NEW a \in Agents, status[a] # "CANCELLING", status'[a] = "CANCELLING"
    PROVE  HeldNext(a)
<1> USE DEF rows, world, process
<1>0. status' # status /\ \A v \in Tasks : task[v].mode # "boot"
  BY Listening DEF Here
<1>a. ASSUME NEW t \in Tasks, NEW m, NEW w \in Agents, NEW b, NEW g, Cancels(t, m, w, "start", b, g, Below(w), {w}),
             runtime' = runtime, status[w] = "SPAWNING" \/ runtime[w] = "open"
      PROVE  HeldNext(a)
  BY <1>a, HeldMarked, HeldMarking
<1>1. ASSUME NEW t \in Tasks, Run(t) PROVE HeldNext(a)
  <2>1. CASE Launch(t)
    <3>1. status' = [status EXCEPT ![task[t].of] = "RUNNING"] \/ status' = status
      BY <2>1, LaunchIs
    <3> QED
      BY <3>1 DEF TypeOK
  <2>2. CASE FailLaunch(t)
    <3>1. PICK w \in Agents : w = task[t].of /\ task[t].own = w /\ task[t].then = "start" /\ status[w] # "NONE"
      BY <2>2, FailLaunchIs DEF Shapes, Shape, TaskAgents, AgentsOf, LaunchSteps
    <3>2. /\ Cancels(t, task[t].mode, w, "start", task[t].by, task[t].gen, Below(w), {w})
          /\ status[w] \notin {"CANCELLING", "ENDED"} /\ runtime' = runtime
      BY <1>0, <2>2, <3>1, FailLaunchIs DEF CancelsAs
    <3>3. status[w] \in {"SPAWNING", "RUNNING"}
      BY <3>1, <3>2 DEF TypeOK, Statuses
    <3> QED
      BY <1>a, <3>2, <3>3 DEF Hands
  <2>3. CASE AwaitLaunch(t)
    BY <1>0, <2>3, AwaitLaunchIs, HeldMarked DEF CancelsAs
  <2>4. CASE CancelNext(t)
    BY <2>4, CancelNextIs, HeldMarked DEF CancelsAs
  <2>5. CASE Finish(t)
    BY <2>5, FinishIs DEF TypeOK
  <2>6. ~Repair(t)
    BY <1>0, RepairIs
  <2> QED
    BY <1>0, <1>1, <2>1, <2>2, <2>3, <2>4, <2>5, <2>6, PrepareIs, IssueIs, SendStartIs, CleanOrJoinIs, StartIs, RevokeIs,
       RemoveBoxIs, RethrowIs, ClosedIs, ExpiredIs, ExitIs, AdmitIs DEF Run
<1>2. ASSUME NEW t \in Tasks, Close(t) PROVE HeldNext(a)
  BY <1>2, CloseIs, HeldMarked
<1>3. ASSUME NEW t \in Tasks, Shutdown(t) PROVE HeldNext(a)
  BY <1>3, ShutdownIs
<1>4. ASSUME NEW t \in Tasks, NEW e \in Agents, NEW m \in {"call", "loose"}, CancelOne(t, e, m) PROVE HeldNext(a)
  <2>1. status' = Marked({e}) /\ Becomes(t, m, "await", e, e, {}, "clean", None, 0)
    BY <1>4, CancelIs
  <2>2. a = e
    BY <2>1, MarkedIs
  <2> QED
    BY <2>1, <2>2 DEF Becomes, Has, HeldNext, CancelSteps
<1>5. ASSUME NEW t \in Tasks, NEW e \in Agents, Interrupt(t, e) PROVE HeldNext(a)
  <2>1. /\ Cancels(t, "loose", e, "start", None, 0, Below(e), {e}) /\ runtime' = runtime
        /\ status[e] = "RUNNING"
    BY <1>5, InterruptIs
  <2>2. runtime[e] = "open"
    BY <2>1 DEF Hands
  <2> QED
    BY <1>a, <2>1, <2>2
<1>6. ASSUME NEW t \in Tasks, NEW e \in Agents, FinishTerminal(t, e) PROVE HeldNext(a)
  BY <1>6, <1>a, FinishTerminalIs
<1>7. ASSUME NEW t \in Tasks, NEW e \in Agents, NEW p \in AgentOrNone, Spawn(t, e, p) PROVE FALSE
  BY <1>7, SpawnIs DEF TypeOK
<1>8. ASSUME UNCHANGED vars \/ Recover \/ Crash \/ (\E t \in Tasks : Expire(t) \/ Boot(t))
                 \/ (\E t \in Tasks, e \in Agents : RetryCleanup(t, e))
      PROVE  FALSE
  BY <1>0, <1>8, RecoverIs, CrashIs, ExpireIs, BootIs, RetryCleanupIs DEF vars
<1> QED
  BY <1>1, <1>2, <1>3, <1>4, <1>5, <1>6, <1>7, <1>8, Zenon DEF Next, Cancel, CancelLoose, AgentOrNone

\* A launch goes on as long as its run is being spawned.
LEMMA LaunchStays ==
    ASSUME AgentAssumption, TypeOK, Shapes, Processes, LaunchFirst, [Next]_vars, up = "up", up' = "up",
           NEW t \in Tasks, NEW a \in Agents, task[t].do \in LaunchSteps, task[t].own = a,
           status[a] = "SPAWNING", status'[a] = "SPAWNING"
    PROVE  task'[t].do \in LaunchSteps /\ task'[t].own = a
<1> USE DEF rows, world, process
<1>0. task[t].of = a /\ task[t].mode = "launch" /\ up' \notin Downs
  BY DEF Shapes, Shape, Downs
<1>a. ASSUME NEW s \in Tasks, task[s].mode = "idle", \A u \in Tasks : u # s => task'[u] = task[u]
      PROVE  task'[t].do \in LaunchSteps /\ task'[t].own = a
  BY <1>0, <1>a
<1>b. ASSUME NEW s \in Tasks, task[s].mode = "idle", NEW m, NEW w, NEW th, NEW b, NEW g, NEW S, NEW A,
             Cancels(s, m, w, th, b, g, S, A)
      PROVE  task'[t].do \in LaunchSteps /\ task'[t].own = a
  BY <1>a, <1>b DEF Cancels, Becomes
<1>c. ASSUME NEW d \in LaunchSteps, Moves(t, d) PROVE task'[t].do \in LaunchSteps /\ task'[t].own = a
  BY <1>c DEF Moves, Becomes, Has
<1>1. CASE Run(t)
  <2>1. CASE Prepare(t)
    BY <1>0, <1>c, <2>1, PrepareIs DEF LaunchSteps
  <2>2. CASE Issue(t)
    BY <1>c, <2>2, IssueIs DEF LaunchSteps
  <2>3. CASE Launch(t)
    <3>1. status' # [status EXCEPT ![a] = "RUNNING"]
      BY DEF TypeOK
    <3>2. Moves(t, "fail")
      BY <1>0, <2>3, <3>1, LaunchIs
    <3> QED
      BY <1>c, <3>2 DEF LaunchSteps
  <2>4. ~SendStart(t)
    BY SendStartIs DEF LaunchFirst
  <2>5. ~FailLaunch(t)
    <3>1. SUFFICES ASSUME FailLaunch(t) PROVE FALSE
      OBVIOUS
    <3>2. CancelsAs(t, Below(a), {a})
      BY <1>0, <3>1, FailLaunchIs
    <3> QED
      BY <3>2, MarkedAll DEF CancelsAs
  <2> QED
    BY <1>1, <2>1, <2>2, <2>3, <2>4, <2>5, AwaitLaunchIs, CancelNextIs, CleanOrJoinIs, StartIs, RevokeIs, RemoveBoxIs,
       FinishIs, RethrowIs, ClosedIs, ExpiredIs, ExitIs, RepairIs, AdmitIs DEF Run, LaunchSteps
<1>2. ASSUME NEW s \in Tasks, s # t, Run(s) PROVE task'[t].do \in LaunchSteps /\ task'[t].own = a
  <2>1. task'[t] = task[t]
    BY <1>0, <1>2, OthersRun DEF LaunchSteps
  <2> QED
    BY <2>1
<1>3. ASSUME UNCHANGED vars \/ Recover PROVE task'[t].do \in LaunchSteps /\ task'[t].own = a
  BY <1>3, RecoverIs DEF vars
<1>4. ~Crash /\ \A s \in Tasks : ~Boot(s) /\ ~Shutdown(s)
  BY <1>0, CrashIs, BootIs, ShutdownIs
<1>5. ASSUME NEW s \in Tasks, Close(s) PROVE task'[t].do \in LaunchSteps /\ task'[t].own = a
  BY <1>5, <1>b, CloseIs
<1>6. ASSUME NEW s \in Tasks, Expire(s) PROVE task'[t].do \in LaunchSteps /\ task'[t].own = a
  BY <1>6, <1>a, ExpireIs DEF Becomes
<1>7. ASSUME NEW s \in Tasks, NEW e \in Agents, NEW p \in AgentOrNone, Spawn(s, e, p)
      PROVE  task'[t].do \in LaunchSteps /\ task'[t].own = a
  BY <1>7, <1>a, SpawnIs DEF Becomes
<1>8. ASSUME NEW s \in Tasks, NEW e \in Agents, NEW m \in {"call", "loose"}, CancelOne(s, e, m)
      PROVE  task'[t].do \in LaunchSteps /\ task'[t].own = a
  BY <1>8, <1>a, CancelIs DEF Becomes
<1>9. ASSUME NEW s \in Tasks, NEW e \in Agents, Interrupt(s, e) PROVE task'[t].do \in LaunchSteps /\ task'[t].own = a
  BY <1>9, <1>b, InterruptIs
<1>10. ASSUME NEW s \in Tasks, NEW e \in Agents, FinishTerminal(s, e)
       PROVE  task'[t].do \in LaunchSteps /\ task'[t].own = a
  BY <1>10, <1>b, FinishTerminalIs
<1>11. ASSUME NEW s \in Tasks, NEW e \in Agents, RetryCleanup(s, e)
       PROVE  task'[t].do \in LaunchSteps /\ task'[t].own = a
  BY <1>11, <1>a, RetryCleanupIs DEF Becomes
<1> QED
  BY <1>1, <1>2, <1>3, <1>4, <1>5, <1>6, <1>7, <1>8, <1>9, <1>10, <1>11, Zenon DEF Next, Cancel, CancelLoose, AgentOrNone

\* A process that serves a generation did so before, unless none of its runs goes on.
LEMMA HereBefore ==
    ASSUME AgentAssumption, TypeOK, Shapes, Processes, Generations, Elapses, up' = "up", gate'.gen = ws'.gen
    PROVE  Here \/ \A a \in Agents : status'[a] \notin Active
<1>1. gate.gen = ws.gen
  <2>1. gate'.gen = gate.gen /\ ws.gen <= ws'.gen
    BY DEF Elapses, Ages
  <2>2. gate.gen <= ws.gen /\ gate.gen \in Nat /\ ws.gen \in Nat
    BY DEF Generations, TypeOK
  <2> QED
    BY <2>1, <2>2
<1>2. ~Admitting \/ up \notin {"up", "stopping"}
  BY AtWork DEF Admitting, Shapes, Shape
<1>3. CASE up \in {"up", "stopping"}
  BY <1>1, <1>2, <1>3 DEF Elapses, Downs, Here
<1>4. CASE up \notin {"up", "stopping"}
  <2>1. Unreconciled = {} /\ status' = status /\ ws.status = "ACTIVE"
    BY <1>1, <1>4 DEF Elapses, Generations, TypeOK
  <2>2. \A a \in Agents : status[a] \in Active => agentGen[a] = ws.gen
    BY <1>1 DEF Generations, Active
  <2> QED
    BY <2>1, <2>2 DEF Unreconciled, ActiveAgents
<1> QED
  BY <1>3, <1>4

HandsNext(a) ==
    /\ status'[a] = "SPAWNING" => \E t \in Tasks : task'[t].do \in LaunchSteps /\ task'[t].own = a
    /\ status'[a] = "RUNNING" => runtime'[a] = "open"
    /\ status'[a] = "CANCELLING" => HeldNext(a)
    /\ status'[a] \in {"RUNNING", "CANCELLING"} /\ (\E d \in Agents : parent'[d] = a) => runtime'[a] # "none"

LEMMA HandsSpawn ==
    ASSUME AgentAssumption, TypeOK, Shapes, Generations, Hands,
           NEW t \in Tasks, NEW e \in Agents, NEW p \in AgentOrNone, Spawn(t, e, p), NEW a \in Agents
    PROVE  HandsNext(a)
<1>1. /\ task[t].mode = "idle" /\ up = "up" /\ status' = [status EXCEPT ![e] = "SPAWNING"]
      /\ parent' = [parent EXCEPT ![e] = p] /\ (p # None => status[p] = "RUNNING")
      /\ Becomes(t, "launch", "prepare", e, e, {}, "start", None, 0)
      /\ retry' = retry /\ runtime' = runtime /\ Admits
  BY SpawnIs
<1>2. /\ task'[t].do = "prepare" /\ task'[t].own = e /\ \A u \in Tasks : u # t => task'[u] = task[u]
      /\ task[t].do = "none"
  BY <1>1 DEF Becomes, Has, Shapes, Shape
<1>3. CASE a = e
  BY <1>1, <1>2, <1>3 DEF HandsNext, LaunchSteps, TypeOK
<1>4. CASE a # e /\ gate.gen = 0
  <2>1. status'[a] = "NONE"
    BY <1>1, <1>4 DEF Generations, TypeOK
  <2> QED
    BY <2>1 DEF HandsNext
<1>5. CASE a # e /\ Here
  <2>1. status'[a] = status[a] /\ runtime'[a] = runtime[a] /\ retry'[a] = retry[a]
    BY <1>1, <1>5 DEF TypeOK
  <2>2. \A u \in Tasks : task[u].do \in LaunchSteps \union CancelSteps => task'[u] = task[u]
    BY <1>2 DEF LaunchSteps, CancelSteps, CleanupSteps
  <2>3. status[a] = "SPAWNING" => \E u \in Tasks : task'[u].do \in LaunchSteps /\ task'[u].own = a
    BY <1>5, <2>2 DEF Hands
  <2>4. status[a] = "RUNNING" => runtime[a] = "open"
    BY <1>5 DEF Hands
  <2>5. status[a] = "CANCELLING" => HeldNext(a)
    BY <1>5, <2>1, <2>2 DEF Hands, Held, HeldNext
  <2>6. ASSUME NEW d \in Agents, parent'[d] = a, status[a] \in {"RUNNING", "CANCELLING"} PROVE runtime[a] # "none"
    <3>1. CASE d = e
      <4>1. p = a
        BY <1>1, <2>6, <3>1 DEF TypeOK
      <4>2. status[a] = "RUNNING"
        BY <1>1, <4>1 DEF AgentAssumption
      <4> QED
        BY <2>4, <4>2
    <3>2. CASE d # e
      BY <1>1, <1>5, <2>6, <3>2 DEF Hands, TypeOK
    <3> QED
      BY <3>1, <3>2
  <2> QED
    BY <2>1, <2>3, <2>4, <2>5, <2>6 DEF HandsNext
<1> QED
  BY <1>1, <1>3, <1>4, <1>5 DEF Admits, Here

LEMMA HandsStep ==
    ASSUME AgentAssumption, TypeOK, Shapes, Processes, Forest, TaskAgents, Repairing, LaunchFirst, Promises, Failures,
           Generations, Hands, [Next]_vars
    PROVE  Hands'
<1> SUFFICES ASSUME up' = "up", gate'.gen = ws'.gen, NEW a \in Agents PROVE HandsNext(a)
  BY DEF Hands, Here, HandsNext, Held, HeldNext
<1>1. CASE Spawns
  BY <1>1, HandsSpawn DEF Spawns
<1>2. CASE ~Spawns
  <2>1. Elapses /\ Progress /\ parent' = parent /\ Gains /\ Loses /\ TaskAgents'
    BY <1>2, ElapsesStep, StatusStep, GainsStep, LosesStep, TaskAgentsStep
  <2>2. CASE status'[a] \notin Active
    BY <2>2 DEF HandsNext, Active
  <2>3. CASE Here /\ status'[a] \in Active
    <3>1. up = "up" /\ up' \notin Downs /\ Later(status[a], status'[a])
      BY <2>1, <2>3 DEF Here, Progress, Downs
    <3>2. ASSUME status'[a] = "SPAWNING" PROVE \E t \in Tasks : task'[t].do \in LaunchSteps /\ task'[t].own = a
      <4>1. status[a] = "SPAWNING"
        BY <3>1, <3>2 DEF Later
      <4>2. PICK t \in Tasks : task[t].do \in LaunchSteps /\ task[t].own = a
        BY <2>3, <4>1 DEF Hands
      <4> QED
        BY <3>1, <3>2, <4>1, <4>2, LaunchStays
    <3>3. ASSUME status'[a] = "RUNNING" PROVE runtime'[a] = "open"
      <4>1. CASE status[a] # "RUNNING"
        BY <2>1, <3>3, <4>1 DEF Gains
      <4>2. CASE status[a] = "RUNNING"
        <5>1. \A t \in Tasks : ~(task'[t].do \in CancelSteps /\ task'[t].of = a)
          BY <2>1, <3>3 DEF TaskAgents, AgentsOf
        <5>2. runtime[a] = "open"
          BY <2>3, <4>2 DEF Hands
        <5> QED
          BY <2>1, <3>1, <3>3, <5>1, <5>2 DEF Loses
      <4> QED
        BY <4>1, <4>2
    <3>4. ASSUME status'[a] = "CANCELLING" PROVE HeldNext(a)
      BY <2>3, <3>4, HeldStays, HeldMade
    <3>5. ASSUME status'[a] \in {"RUNNING", "CANCELLING"}, NEW d \in Agents, parent'[d] = a PROVE runtime'[a] # "none"
      <4>1. parent[d] = a /\ status[a] \in {"RUNNING", "CANCELLING"}
        BY <2>1, <3>1, <3>5 DEF Forest, AgentAssumption, Later
      <4>2. runtime[a] # "none"
        BY <2>3, <4>1 DEF Hands
      <4> QED
        BY <2>1, <3>1, <3>5, <4>2 DEF Loses
    <3> QED
      BY <3>2, <3>3, <3>4, <3>5 DEF HandsNext
  <2> QED
    BY <2>1, <2>2, <2>3, HereBefore
<1> QED
  BY <1>1, <1>2

-----------------------------------------------------------------------------
(* The invariant and what it says *)

LEMMA InvariantInit == ASSUME AgentAssumption, Init PROVE IInv
<1>1. TypeOK
  BY TypeInit
<1>2. \A t \in Tasks : task[t] = Idle /\ task[t].mode = "idle" /\ task[t].do = "none" /\ task[t].own = None
                       /\ task[t].left = {} /\ task[t].gen = 0
  BY IdleIs DEF Init, Has
<1>3. \A a \in Agents : /\ status[a] = "NONE" /\ parent[a] = None /\ ~retry[a] /\ ~lease[a] /\ ~box[a]
                        /\ runtime[a] = "none"
  BY DEF Init
<1>4. ws.status = "ACTIVE" /\ ws.gen = 1 /\ gate.gen = 0 /\ ~gate.open /\ up = "up"
  BY DEF Init
<1>5. Shapes
  BY <1>2, IdleShape DEF Shapes
<1>6. Processes
  BY <1>2, <1>4 DEF Processes, Downs
<1>7. Forest
  <2>1. ASSUME NEW a \in Agents PROVE Descendants(a) = {}
    <3>1. \A e \in Agents : parent[e] \in {} \union {a} => e \in {}
      BY <1>3 DEF AgentAssumption
    <3> QED
      BY <3>1, Least
  <2> QED
    BY <1>3, <2>1 DEF Forest
<1>8. Absent /\ Failures /\ Released
  BY <1>2, <1>3 DEF Absent, Failures, Released
<1>9. TaskAgents
  BY <1>2 DEF TaskAgents, AgentsOf, LaunchSteps, CancelSteps, CleanupSteps, AgentAssumption
<1>10. Repairing /\ OneLaunch
  BY <1>2 DEF Repairing, OneLaunch
<1>11. LaunchFirst
  BY <1>2 DEF LaunchFirst, Early
<1>12. Promises
  BY <1>2, <1>3 DEF Promises, AgentAssumption
<1>13. Generations
  BY <1>2, <1>3, <1>4 DEF Generations
<1>14. ActiveAgents = {}
  BY <1>3 DEF ActiveAgents, Active
<1>15. Epochs /\ Lists /\ ClosedIsEmpty
  BY <1>2, <1>4, <1>14 DEF Epochs, Lists, ClosedIsEmpty
<1>16. ChildrenFirst
  BY <1>2, <1>3 DEF ChildrenFirst, CancelSteps, CleanupSteps, AgentAssumption
<1>17. Hands
  BY <1>4 DEF Hands, Here
<1> QED
  BY <1>1, <1>5, <1>6, <1>7, <1>8, <1>9, <1>10, <1>11, <1>12, <1>13, <1>15, <1>16, <1>17 DEF IInv

LEMMA InvariantStep == ASSUME AgentAssumption, IInv, [Next]_vars PROVE IInv'
<1> USE DEF IInv
<1>1. TypeOK' /\ Shapes' /\ Processes' /\ TaskAgents' /\ Repairing'
  BY TypeStep, ShapesStep, ProcessesStep, TaskAgentsStep, RepairingStep
<1>2. Forest'
  BY StatusStep, ForestStep
<1>3. Absent' /\ Failures' /\ Released'
  BY AbsentStep, FailuresStep, ReleasedStep
<1>4. OneLaunch' /\ LaunchFirst' /\ Promises'
  BY OneLaunchStep, LaunchFirstStep, PromisesStep
<1>5. Generations' /\ Epochs'
  BY GenerationsStep, EpochsStep
<1>6. Lists' /\ ClosedIsEmpty' /\ ChildrenFirst' /\ Hands'
  BY ListsStep, ClosedIsEmptyStep, ChildrenFirstStep, HandsStep
<1> QED
  BY <1>1, <1>2, <1>3, <1>4, <1>5, <1>6

\* The invariant holds throughout.
THEOREM Invariance == Spec => []IInv
<1>1. Init => IInv
  BY AgentAssumption, InvariantInit
<1>2. IInv /\ [Next]_vars => IInv'
  BY AgentAssumption, InvariantStep
<1> QED
  BY <1>1, <1>2, PTL DEF Spec

\* Every variable keeps its type, through every interleaving, failure and restart of the runner.
THEOREM TypeCorrect == Spec => []TypeOK
<1>1. IInv => TypeOK
  BY DEF IInv
<1> QED
  BY <1>1, Invariance, PTL

\* What has ended holds no lease, no container and no runtime, a run that its parent's end left is
\* below one that is being cancelled or was, and a closed workspace has no run that goes on
\* (cleanup, cancelDescendants, stopWorkspace, closeRecord).
THEOREM EndsProperly == Spec => []NothingOutlivesItsEnd
<1>1. ASSUME IInv PROVE NothingOutlivesItsEnd
  <2>1. EndedIsGone
    BY <1>1 DEF IInv, EndedIsGone, Released, ChildrenFirst, Settled, Over
  <2>2. ClosedHasNoAgents
    <3>1. ASSUME ws.status = "CLOSED", NEW a \in Agents PROVE status[a] \in {"NONE", "ENDED"} /\ ~lease[a] /\ ~box[a]
      <4>1. status[a] \in Statuses /\ status[a] \notin Active
        BY <1>1, <3>1 DEF IInv, TypeOK, ClosedIsEmpty, ActiveAgents
      <4>2. status[a] \in {"NONE", "ENDED"}
        BY <4>1 DEF Statuses, Active
      <4> QED
        BY <1>1, <4>2 DEF IInv, Absent, Released
    <3> QED
      BY <3>1 DEF ClosedHasNoAgents
  <2> QED
    BY <2>1, <2>2 DEF NothingOutlivesItsEnd
<1> QED
  BY <1>1, Invariance, PTL

\* A workspace that admits runs has none of an earlier runner process in its generation
\* (prepareWorkspaceStartupRepair, openWorkspaceAdmission, claimForExpiry).
THEOREM ReconcilesFirst == Spec => []ReconciledBeforeAdmission
<1>1. IInv => ReconciledBeforeAdmission
  BY DEF IInv, Epochs, ReconciledBeforeAdmission
<1> QED
  BY <1>1, Invariance, PTL

\* Tasks that await launches and cleanups never wait for one another in a circle
\* (cancelOne, failLaunch, cancelDescendants).
THEOREM NobodyDeadlocks == Spec => []NoWaitCycle
<1>1. IInv => NoWaitCycle
  BY AgentAssumption, NobodyInACircle DEF IInv
<1> QED
  BY <1>1, Invariance, PTL

\* Every run that goes on in an active workspace is at the hands of a task, of a retry or of its
\* runtime's timer (cancelOne, cancelDescendants, cleanup, reap).
THEOREM EverybodyIsSeenTo == Spec => []NobodyForgotten
<1>1. ASSUME IInv PROVE NobodyForgotten
  <2>1. SUFFICES ASSUME NEW a \in ActiveAgents, up = "up", agentGen[a] = ws.gen
                 PROVE  \/ retry[a] \/ runtime[a] = "open"
                        \/ \E t \in Tasks : a \in {task[t].of, task[t].own} \union task[t].left
    BY DEF NobodyForgotten
  <2>2. a \in Agents /\ status[a] \in {"SPAWNING", "RUNNING", "CANCELLING"}
    BY DEF ActiveAgents, Active
  <2>3. Here
    BY <1>1, <2>1, <2>2 DEF IInv, Generations, Here
  <2>4. CASE status[a] = "SPAWNING"
    BY <1>1, <2>2, <2>3, <2>4 DEF IInv, Hands
  <2>5. CASE status[a] = "RUNNING"
    BY <1>1, <2>2, <2>3, <2>5 DEF IInv, Hands
  <2>6. CASE status[a] = "CANCELLING"
    BY <1>1, <2>2, <2>3, <2>6 DEF IInv, Hands, Held
  <2> QED
    BY <2>2, <2>4, <2>5, <2>6
<1> QED
  BY <1>1, Invariance, PTL

-----------------------------------------------------------------------------
(* The contract *)

\* The mapping of the refinement, of one run.
Phase(s) == CASE s = "NONE" -> "absent" [] s = "CANCELLING" -> "ending" [] s = "ENDED" -> "ended" [] OTHER -> "live"
Holds(l, b) == {h \in {"lease", "container"} : IF h = "lease" THEN l ELSE b}

LEMMA Phases ==
    /\ Phase("NONE") = "absent" /\ Phase("SPAWNING") = "live" /\ Phase("RUNNING") = "live"
    /\ Phase("CANCELLING") = "ending" /\ Phase("ENDED") = "ended"
BY DEF Phase

LEMMA HoldsIs == /\ Holds(FALSE, FALSE) = {}
                 /\ \A l, b \in BOOLEAN : Holds(l, b) \in SUBSET {"lease", "container"}
BY DEF Holds

\* A step of the runner, of one run, in the terms of the contract.
Moved(a) ==
    \/ /\ Phase(status'[a]) = Phase(status[a]) /\ parent'[a] = parent[a]
       /\ Holds(lease'[a], box'[a]) = Holds(lease[a], box[a])
    \/ /\ Phase(status[a]) = "absent" /\ Phase(status'[a]) = "live" /\ Holds(lease'[a], box'[a]) = {}
       /\ parent'[a] # None => parent'[a] \in Agents /\ Phase(status[parent'[a]]) = "live"
    \/ /\ Phase(status'[a]) = Phase(status[a]) /\ parent'[a] = parent[a] /\ Phase(status[a]) \in {"live", "ending"}
    \/ Phase(status[a]) = "live" /\ Phase(status'[a]) = "ending" /\ parent'[a] = parent[a]
    \/ /\ Phase(status[a]) = "ending" /\ Phase(status'[a]) = "ended" /\ parent'[a] = parent[a]
       /\ Holds(lease[a], box[a]) = {} /\ Holds(lease'[a], box'[a]) = {}
       /\ parent[a] = None => \A d \in Agents : parent[d] = a => Phase(status[d]) = "ended"

\* Nobody's descendant but a run that was started by another.
LEMMA Rooted == ASSUME AgentAssumption, NEW a \in Agents, parent[a] = None PROVE ~Over(a)
<1>1. SUFFICES ASSUME NEW x \in Agents, a \in Descendants(x) PROVE FALSE
  BY DEF Over
<1>2. parent[a] = x \/ parent[a] \in Descendants(x)
  BY <1>1, Parentage
<1> QED
  BY <1>1, <1>2 DEF Descendants, AgentAssumption

LEMMA Moving == ASSUME AgentAssumption, IInv, IInv', [Next]_vars, NEW a \in Agents PROVE Moved(a)
<1>1. Later(status[a], status'[a]) \/ (status[a] = "NONE" /\ status'[a] = "SPAWNING")
  BY LifeStep DEF IInv
<1>2. status[a] \in Statuses /\ lease[a] \in BOOLEAN /\ box[a] \in BOOLEAN /\ lease'[a] \in BOOLEAN /\ box'[a] \in BOOLEAN
  BY DEF IInv, TypeOK
<1>3. CASE status[a] = "NONE" /\ status'[a] = "SPAWNING"
  <2>1. Spawns
    BY <1>3, StatusStep DEF IInv, Progress, Later
  <2>2. PICK t \in Tasks, e \in Agents, p \in AgentOrNone : Spawn(t, e, p)
    BY <2>1 DEF Spawns
  <2>3. /\ status' = [status EXCEPT ![e] = "SPAWNING"] /\ parent' = [parent EXCEPT ![e] = p]
        /\ lease' = lease /\ box' = box /\ (p # None => p \in Agents /\ status[p] = "RUNNING")
    BY <2>2, SpawnIs DEF IInv
  <2>4. e = a
    BY <1>3, <2>3 DEF IInv, TypeOK
  <2>5. ~lease'[a] /\ ~box'[a] /\ parent'[a] = p
    BY <1>3, <2>3, <2>4 DEF IInv, TypeOK, Absent
  <2>6. Holds(lease'[a], box'[a]) = {}
    BY <1>2, <2>5, HoldsIs
  <2> QED
    BY <1>3, <2>3, <2>5, <2>6, Phases DEF Moved
<1>4. CASE Later(status[a], status'[a])
  <2>1. parent'[a] = parent[a]
    <3>1. CASE Spawns
      <4>1. PICK t \in Tasks, e \in Agents, p \in AgentOrNone : Spawn(t, e, p)
        BY <3>1 DEF Spawns
      <4>2. /\ status[e] = "NONE" /\ status' = [status EXCEPT ![e] = "SPAWNING"]
            /\ parent' = [parent EXCEPT ![e] = p]
        BY <4>1, SpawnIs DEF IInv
      <4>3. e # a
        BY <1>4, <4>2 DEF IInv, TypeOK, Later
      <4> QED
        BY <4>2, <4>3 DEF IInv, TypeOK
    <3>2. CASE ~Spawns
      BY <3>2, StatusStep DEF IInv
    <3> QED
      BY <3>1, <3>2
  <2>2. CASE status'[a] = status[a]
    <3>1. CASE status[a] \in {"NONE", "ENDED"}
      <4>1. ~lease[a] /\ ~box[a] /\ ~lease'[a] /\ ~box'[a]
        BY <2>2, <3>1 DEF IInv, Absent, Released
      <4>2. lease'[a] = lease[a] /\ box'[a] = box[a]
        BY <1>2, <4>1
      <4> QED
        BY <2>1, <2>2, <4>2 DEF Moved
    <3>2. CASE status[a] \in {"SPAWNING", "RUNNING", "CANCELLING"}
      BY <2>1, <2>2, <3>2, Phases DEF Moved
    <3> QED
      BY <1>2, <3>1, <3>2 DEF Statuses
  <2>3. CASE status[a] = "SPAWNING" /\ status'[a] = "RUNNING"
    BY <2>1, <2>3, Phases DEF Moved
  <2>4. CASE status[a] \in {"SPAWNING", "RUNNING"} /\ status'[a] = "CANCELLING"
    BY <2>1, <2>4, Phases DEF Moved
  <2>5. CASE status[a] = "CANCELLING" /\ status'[a] = "ENDED"
    <3>1. PICK t \in Tasks : task[t].do = "finish" /\ task[t].of = a
      BY <2>5, GainsStep DEF IInv, Gains
    <3>2. ~lease[a] /\ ~box[a] /\ ~lease'[a] /\ ~box'[a]
      BY <2>5, <3>1 DEF IInv, Released
    <3>3. Holds(lease[a], box[a]) = {} /\ Holds(lease'[a], box'[a]) = {}
      BY <1>2, <3>2, HoldsIs
    <3>4. Settled(a) \/ Over(a)
      BY <3>1 DEF IInv, ChildrenFirst, CancelSteps, CleanupSteps
    <3>5. parent[a] = None => Settled(a)
      BY <3>4, Rooted
    <3> QED
      BY <2>1, <2>5, <3>3, <3>5, Phases DEF Moved, Settled
  <2> QED
    BY <1>4, <2>2, <2>3, <2>4, <2>5 DEF Later
<1> QED
  BY <1>1, <1>3, <1>4

\* Every step moves every run as the contract says: a run gains and holds a lease or a container only
\* until its end, its end is recorded when it holds nothing, after the ends of the runs it started if
\* a caller started it, and it never comes back (spawn, launch, cancelOne, cleanup, start).
THEOREM KeepsContract == Spec => ImplementsContract
<1>1. ASSUME Init PROVE Contract!ContractInit
  <2>1. [a \in Agents |-> CASE status[a] = "NONE" -> "absent" [] status[a] = "CANCELLING" -> "ending"
                             [] status[a] = "ENDED" -> "ended" [] OTHER -> "live"] = [a \in Agents |-> "absent"]
    BY <1>1 DEF Init
  <2>2. [a \in Agents |-> {h \in {"lease", "container"} : IF h = "lease" THEN lease[a] ELSE box[a]}]
          = [a \in Agents |-> {}]
    BY <1>1 DEF Init
  <2> QED
    BY <1>1, <2>1, <2>2 DEF Init, Contract!ContractInit
<1>2. ASSUME IInv, IInv', [Next]_vars PROVE [Contract!ContractNext]_(Contract!contractVars)
  <2>1. SUFFICES ASSUME NEW a \in Agents PROVE Contract!Move(a)
    BY DEF Contract!ContractNext
  <2>2. Moved(a)
    BY <1>2, AgentAssumption, Moving
  <2>3. lease'[a] \in BOOLEAN /\ box'[a] \in BOOLEAN
    BY <1>2 DEF IInv, TypeOK
  <2>4. Holds(lease'[a], box'[a]) \in SUBSET {"lease", "container"}
    BY <2>3, HoldsIs
  <2> QED
    BY <2>2, <2>4 DEF Moved, Phase, Holds, Contract!Move, Contract!Same, Contract!Admitted, Contract!Holding,
       Contract!Ending, Contract!Ended, Contract!ChildrenEnded, Contract!Holdings
<1> QED
  BY <1>1, <1>2, Invariance, PTL DEF Spec, ImplementsContract, Contract!ContractSpec

=============================================================================
