------------------------- MODULE DurableTasksProofs -------------------------
(***************************************************************************)
(* Theorems about DurableTasks for every number of tasks, every limit of   *)
(* the map and every number of faults, restarts, failed closes and         *)
(* expiries.                                                               *)
(***************************************************************************)
EXTENDS DurableTasks, FiniteSetTheorems, WellFoundedInduction, TLAPS

-----------------------------------------------------------------------------
(* The inductive invariant *)

Rows ==
    [mem : {"none", "queued", "running", "succeeded", "failed", "cancelled", "blocked"},
     row : {"NONE", "QUEUED", "RUNNING", "SUCCEEDED", "FAILED", "CANCELLED", "BLOCKED"},
     child : {"none", "live", "ok", "err"}, settled : BOOLEAN, deps : SUBSET Tasks,
     start : {"none", "locked", "unlocked", "late"}]

TypeOK ==
    /\ task \in [Tasks -> Rows]
    /\ cancel \subseteq Tasks
    /\ stop \in [of : SUBSET Tasks, waits : SUBSET Tasks]
    /\ locks \in Nat /\ badCloses \in Nat
    /\ ws \in {"ACTIVE", "EXPIRED", "REAPING", "STOPPED", "CLOSED"}

\* The first n tasks have been created, each after those it depends on.
Ordered(T, n) ==
    \A t \in Tasks :
        IF t <= n THEN T[t].row # "NONE" /\ T[t].deps \subseteq 1 .. t - 1 ELSE T[t] = NoTask

\* What the map says of a task agrees with its row, and a task that has ended there is settled.  Only
\* the row of a task that began too late for a stop outlives its entry while it is open.
Recorded(x) ==
    /\ x.mem = "queued" => x.row = "QUEUED"
    /\ x.mem = "running" => x.row = "RUNNING"
    /\ x.row = "QUEUED" => x.mem = "queued" \/ (x.mem = "none" /\ x.start = "late")
    /\ x.row = "RUNNING" => x.mem = "running" \/ (x.mem = "none" /\ x.start = "late")
    /\ x.mem = "succeeded" => x.row = "SUCCEEDED"
    /\ x.mem \notin {"none", "queued", "running"} => x.settled
    /\ x.mem = "running" => x.child # "none"
    /\ x.mem = "queued" => x.child = "none"

Waits(T, t) == T[t].mem = "queued" => \E d \in T[t].deps : T[d].mem \in {"queued", "running"}

\* A stop has found every task that was not over, and leaves none in the map, but those that began
\* after it had looked.
StopInv ==
    /\ ws = "REAPING" => \A t \in ToStop : t \in stop.of \/ task[t].start = "late"
    /\ ws \in {"STOPPED", "CLOSED"} => \A t \in InMap(task) : task[t].start = "late"

\* Without a failed close and without a request that missed its record, every task that is not over
\* has its lock, and what may still settle a task that was forgotten finds it settled.
LocksInv ==
    ws \in {"ACTIVE", "EXPIRED"} /\ badCloses = 0 /\ Unfound = {} =>
        /\ Cardinality(Unsettled) <= locks
        /\ ws = "EXPIRED" => Unsettled = {}
        /\ \A t \in Tasks : task[t].mem = "none" => task[t].settled \/ (task[t].child = "none" /\ t \notin cancel)

TasksInv ==
    /\ TypeOK
    /\ \E n \in 0 .. MaxTasks : Ordered(task, n)
    /\ \A t \in Tasks : Recorded(task[t]) /\ Waits(task, t)
    /\ \A t \in cancel : task[t].row # "NONE"
    /\ StopInv
    /\ LocksInv

-----------------------------------------------------------------------------
(* The pass over the queued tasks *)

LEMMA LeastNatural ==
    ASSUME NEW S \in SUBSET Nat, S # {}
    PROVE  \E n \in S : \A m \in S : n <= m
<1> DEFINE R == OpToRel(<, Nat)
<1>1. IsWellFoundedOn(R, Nat)
  BY NatLessThanWellFounded
<1>2. \A m, n \in Nat : m < n => <<m, n>> \in R
  BY DEF OpToRel
<1> HIDE DEF R
<1>3. PICK n \in S : \A m \in S : ~(<<m, n>> \in R)
  BY <1>1, WFMin
<1>4. \A m \in S : ~(m < n)
  BY <1>2, <1>3
<1>5. \A m \in S : m \in Nat /\ n \in Nat
  BY <1>3
<1>6. \A m \in S : n <= m
  BY <1>4, <1>5
<1> QED
  BY <1>3, <1>6

Backwards(T) == \A t \in Tasks : T[t].deps \subseteq 1 .. t - 1

\* The equation of the recursive function of Reconciled.
MemOf(T, mem, t) ==
    IF T[t].mem # "queued" THEN T[t].mem
    ELSE IF \E d \in T[t].deps : mem[d] \in Failure \union {"none"} THEN "blocked"
    ELSE IF \A d \in T[t].deps : mem[d] = "succeeded" THEN "running" ELSE "queued"

LEMMA SameMemOf ==
    ASSUME NEW T, NEW t, NEW f, NEW g, \A d \in T[t].deps : f[d] = g[d]
    PROVE  MemOf(T, f, t) = MemOf(T, g, t)
  BY DEF MemOf

\* The pass is well defined: what a task depends on was created before it.
LEMMA MemExists ==
    ASSUME NEW T, Backwards(T)
    PROVE  \E g : g = [t \in Tasks |-> MemOf(T, g, t)]
<1> DEFINE Upto(n) == \E g : g = [t \in 1 .. n |-> MemOf(T, g, t)]
           Bad == {n \in 0 .. MaxTasks : ~ Upto(n)}
<1> SUFFICES ASSUME Bad # {} PROVE FALSE
  BY TasksAssumption DEF Tasks
<1>1. MaxTasks \in Nat
  BY TasksAssumption
<1>2. PICK n \in Bad : \A m \in Bad : n <= m
  <2>1. Bad \in SUBSET Nat
    BY <1>1
  <2> HIDE DEF Bad
  <2> QED
    BY <2>1, LeastNatural
<1>3. n \in 0 .. MaxTasks /\ ~ Upto(n)
  OBVIOUS
<1> HIDE DEF Upto
<1>4. n # 0
  <2>1. Upto(0)
    <3> DEFINE e == [t \in {} |-> t]
    <3>1. 1 .. 0 = {}
      OBVIOUS
    <3>2. e = [t \in 1 .. 0 |-> MemOf(T, e, t)]
      BY <3>1
    <3> HIDE DEF e
    <3> QED
      BY <3>2 DEF Upto
  <2> QED
    BY <1>3, <2>1
<1>5. Upto(n - 1)
  <2>1. n - 1 \in 0 .. MaxTasks /\ ~(n <= n - 1)
    BY <1>1, <1>3, <1>4
  <2> QED
    BY <1>2, <2>1
<1>6. PICK g : g = [t \in 1 .. n - 1 |-> MemOf(T, g, t)]
  BY <1>5 DEF Upto
<1> DEFINE h == [t \in 1 .. n |-> IF t = n THEN MemOf(T, g, n) ELSE g[t]]
<1>7. \A t \in 1 .. n - 1 : h[t] = g[t] /\ g[t] = MemOf(T, g, t)
  <2>1. \A t \in 1 .. n - 1 : g[t] = MemOf(T, g, t)
    BY <1>6
  <2>2. \A t \in 1 .. n - 1 : t \in 1 .. n /\ t # n
    BY <1>1, <1>3
  <2> QED
    BY <2>1, <2>2
<1>8. \A t \in 1 .. n : h[t] = MemOf(T, h, t)
  <2> SUFFICES ASSUME NEW t \in 1 .. n PROVE h[t] = MemOf(T, h, t)
    OBVIOUS
  <2>1. T[t].deps \subseteq 1 .. t - 1
    BY <1>1, <1>3 DEF Backwards, Tasks
  <2>2. \A d \in T[t].deps : h[d] = g[d]
    <3>1. \A d \in 1 .. t - 1 : d \in 1 .. n - 1
      BY <1>1, <1>3
    <3> HIDE DEF h
    <3> QED
      BY <1>7, <2>1, <3>1
  <2>3. h[t] = MemOf(T, g, t)
    <3>1. t = n \/ t \in 1 .. n - 1
      BY <1>1, <1>3
    <3>2. t = n => h[t] = MemOf(T, g, t)
      OBVIOUS
    <3> HIDE DEF h
    <3> QED
      BY <1>7, <3>1, <3>2
  <2> HIDE DEF h
  <2> QED
    BY <2>2, <2>3, SameMemOf
<1>9. Upto(n)
  <2>1. h = [t \in 1 .. n |-> h[t]]
    OBVIOUS
  <2> HIDE DEF h
  <2> QED
    BY <1>8, <2>1 DEF Upto
<1> QED
  BY <1>3, <1>9

LEMMA ReconciledIs ==
    ASSUME NEW T, Backwards(T)
    PROVE  \E mem : /\ mem = [t \in Tasks |-> MemOf(T, mem, t)]
                    /\ Reconciled(T) = [t \in Tasks |->
                            IF mem[t] = T[t].mem THEN T[t]
                            ELSE IF mem[t] = "blocked" THEN BlockedTask(T[t])
                            ELSE StartedTask(T[t])]
<1>1. \E g : g = [t \in Tasks |-> MemOf(T, g, t)]
  BY MemExists
<1> QED
  BY <1>1, Zenon DEF Reconciled, MemOf

LEMMA ReconciledEntry ==
    ASSUME NEW x \in Rows
    PROVE  /\ BlockedTask(x) \in Rows /\ StartedTask(x) \in Rows
           /\ BlockedTask(x).mem = "blocked" /\ BlockedTask(x).row = "BLOCKED"
           /\ BlockedTask(x).settled /\ BlockedTask(x).child = x.child
           /\ BlockedTask(x).deps = x.deps /\ BlockedTask(x).start = x.start
           /\ StartedTask(x).mem = "running" /\ StartedTask(x).row = "RUNNING"
           /\ StartedTask(x).child = "live" /\ StartedTask(x).settled = x.settled
           /\ StartedTask(x).deps = x.deps /\ StartedTask(x).start = x.start
  BY DEF Rows, BlockedTask, StartedTask, Row

\* A task is left alone, or it was queued and is blocked, or it was queued and starts
\* after everything it depends on has succeeded.  Whatever stays queued still waits
\* for a task that is not over.
LEMMA ReconciledFacts ==
    ASSUME NEW T \in [Tasks -> Rows], Backwards(T)
    PROVE  LET R == Reconciled(T) IN
           /\ R \in [Tasks -> Rows]
           /\ \A t \in Tasks :
                \/ R[t] = T[t]
                \/ T[t].mem = "queued" /\ R[t] = BlockedTask(T[t])
                \/ /\ T[t].mem = "queued" /\ R[t] = StartedTask(T[t])
                   /\ \A d \in T[t].deps : R[d].mem = "succeeded"
           /\ \A t \in Tasks : Waits(R, t)
<1> DEFINE R == Reconciled(T)
<1>1. PICK mem :
        /\ mem = [t \in Tasks |-> MemOf(T, mem, t)]
        /\ R = [t \in Tasks |->
                    IF mem[t] = T[t].mem THEN T[t]
                    ELSE IF mem[t] = "blocked" THEN BlockedTask(T[t]) ELSE StartedTask(T[t])]
  BY ReconciledIs
<1> HIDE DEF R
<1>2. ASSUME NEW t \in Tasks
      PROVE  /\ mem[t] = MemOf(T, mem, t) /\ T[t] \in Rows
             /\ R[t] = IF mem[t] = T[t].mem THEN T[t]
                       ELSE IF mem[t] = "blocked" THEN BlockedTask(T[t]) ELSE StartedTask(T[t])
             /\ T[t].deps \subseteq Tasks
  BY <1>1 DEF Rows
<1>3. ASSUME NEW t \in Tasks
      PROVE  /\ R[t] \in Rows /\ R[t].mem = mem[t] /\ R[t].deps = T[t].deps
             /\ \/ R[t] = T[t] /\ mem[t] = T[t].mem
                \/ T[t].mem = "queued" /\ mem[t] = "blocked" /\ R[t] = BlockedTask(T[t])
                \/ T[t].mem = "queued" /\ mem[t] = "running" /\ R[t] = StartedTask(T[t])
  <2>1. CASE mem[t] = T[t].mem
    BY <1>2, <2>1
  <2>2. CASE mem[t] # T[t].mem
    <3>1. T[t].mem = "queued" /\ mem[t] \in {"blocked", "running"}
      BY <1>2, <2>2 DEF MemOf
    <3>2. CASE mem[t] = "blocked"
      <4>1. R[t] = BlockedTask(T[t])
        BY <1>2, <2>2, <3>2
      <4> QED
        BY <1>2, <3>1, <3>2, <4>1, ReconciledEntry
    <3>3. CASE mem[t] = "running"
      <4>1. R[t] = StartedTask(T[t])
        BY <1>2, <2>2, <3>3
      <4> QED
        BY <1>2, <3>1, <3>3, <4>1, ReconciledEntry
    <3> QED
      BY <3>1, <3>2, <3>3
  <2> QED
    BY <2>1, <2>2
<1>4. R \in [Tasks -> Rows]
  <2>1. R = [t \in Tasks |-> R[t]]
    BY <1>1
  <2> QED
    BY <1>3, <2>1
<1>5. ASSUME NEW t \in Tasks, T[t].mem = "queued", mem[t] = "running"
      PROVE  \A d \in T[t].deps : R[d].mem = "succeeded"
  <2>1. \A d \in T[t].deps : mem[d] = "succeeded"
    BY <1>2, <1>5 DEF MemOf
  <2> QED
    BY <1>2, <1>3, <2>1
<1>6. ASSUME NEW t \in Tasks
      PROVE  Waits(R, t)
  <2> SUFFICES ASSUME R[t].mem = "queued"
               PROVE  \E d \in R[t].deps : R[d].mem \in {"queued", "running"}
    BY DEF Waits
  <2>1. mem[t] = "queued" /\ R[t].deps = T[t].deps
    BY <1>3
  <2>2. PICK d \in T[t].deps : mem[d] # "succeeded" /\ mem[d] \notin Failure \union {"none"}
    BY <1>2, <2>1 DEF MemOf
  <2>3. d \in Tasks
    BY <1>2
  <2>4. R[d].mem = mem[d] /\ R[d] \in Rows
    BY <1>3, <2>3
  <2>5. mem[d] \in {"queued", "running"}
    BY <2>2, <2>4 DEF Rows, Failure
  <2> QED
    BY <2>1, <2>4, <2>5
<1>7. \A t \in Tasks :
        \/ R[t] = T[t]
        \/ T[t].mem = "queued" /\ R[t] = BlockedTask(T[t])
        \/ /\ T[t].mem = "queued" /\ R[t] = StartedTask(T[t])
           /\ \A d \in T[t].deps : R[d].mem = "succeeded"
  BY <1>3, <1>5
<1> QED
  BY <1>4, <1>6, <1>7 DEF R

-----------------------------------------------------------------------------
(* What the pass preserves *)

LEMMA TasksFinite ==
    /\ MaxTasks \in Nat /\ IsFiniteSet(Tasks) /\ Tasks \subseteq Nat
    /\ \A S \in SUBSET Tasks : IsFiniteSet(S) /\ Cardinality(S) \in Nat
<1>1. MaxTasks \in Nat
  BY TasksAssumption
<1>2. IsFiniteSet(Tasks)
  BY <1>1, FS_Interval DEF Tasks
<1>3. \A S \in SUBSET Tasks : IsFiniteSet(S) /\ Cardinality(S) \in Nat
  BY <1>2, FS_Subset, FS_CardinalityType
<1> QED
  BY <1>1, <1>2, <1>3 DEF Tasks

LEMMA NoTaskIsRow == NoTask \in Rows /\ Recorded(NoTask) /\ NoTask.mem = "none" /\ NoTask.deps = {}
  BY DEF NoTask, Rows, Recorded

LEMMA NoTaskIs ==
    /\ NoTask.mem = "none" /\ NoTask.row = "NONE" /\ NoTask.child = "none"
    /\ NoTask.settled = FALSE /\ NoTask.deps = {} /\ NoTask.start = "none"
    /\ \A x \in Rows : /\ x.mem = "none" /\ x.row = "NONE" /\ x.child = "none"
                        /\ x.settled = FALSE /\ x.deps = {} /\ x.start = "none"
                        => x = NoTask
  BY DEF NoTask, Rows

LEMMA OrderedIsBackwards ==
    ASSUME NEW T, NEW n, Ordered(T, n)
    PROVE  Backwards(T)
<1> SUFFICES ASSUME NEW t \in Tasks PROVE T[t].deps \subseteq 1 .. t - 1
  BY DEF Backwards
<1> QED
  BY NoTaskIsRow DEF Ordered

LEMMA Pass ==
    ASSUME NEW T \in [Tasks -> Rows], NEW n, Ordered(T, n), \A s \in Tasks : Recorded(T[s])
    PROVE  LET R == Reconciled(T) IN
           /\ R \in [Tasks -> Rows] /\ Ordered(R, n)
           /\ \A s \in Tasks :
                /\ Recorded(R[s]) /\ Waits(R, s) /\ R[s].start = T[s].start
                /\ T[s].mem = "none" => R[s] = T[s]
                /\ R[s].mem = "none" => T[s].mem = "none"
                /\ R[s].mem \in {"queued", "running"} => T[s].mem \in {"queued", "running"}
                /\ T[s].settled => R[s].settled
                /\ R[s].settled /\ ~T[s].settled => T[s].mem = "queued"
                /\ R[s].row = "RUNNING" => \/ T[s].row = "RUNNING"
                                           \/ \A d \in R[s].deps : R[d].row = "SUCCEEDED"
<1> DEFINE R == Reconciled(T)
<1>1. /\ R \in [Tasks -> Rows]
      /\ \A t \in Tasks :
            \/ R[t] = T[t]
            \/ T[t].mem = "queued" /\ R[t] = BlockedTask(T[t])
            \/ /\ T[t].mem = "queued" /\ R[t] = StartedTask(T[t])
               /\ \A d \in T[t].deps : R[d].mem = "succeeded"
      /\ \A t \in Tasks : Waits(R, t)
  BY OrderedIsBackwards, ReconciledFacts
<1> HIDE DEF R
<1>2. \A s \in Tasks : T[s] \in Rows /\ R[s] \in Rows /\ Recorded(T[s]) /\ T[s].deps \subseteq Tasks
  BY <1>1 DEF Rows
<1>3. ASSUME NEW s \in Tasks
      PROVE  /\ Recorded(R[s]) /\ R[s].deps = T[s].deps /\ R[s].start = T[s].start
             /\ T[s].row # "NONE" => R[s].row # "NONE"
             /\ T[s].mem = "none" => R[s] = T[s]
             /\ R[s].mem = "none" => T[s].mem = "none"
             /\ R[s].mem \in {"queued", "running"} => T[s].mem \in {"queued", "running"}
             /\ T[s].settled => R[s].settled
             /\ R[s].settled /\ ~T[s].settled => T[s].mem = "queued"
             /\ R[s].row = "RUNNING" => \/ T[s].row = "RUNNING"
                                        \/ \A d \in T[s].deps : R[d].mem = "succeeded"
  <2>1. CASE R[s] = T[s]
    BY <1>2, <2>1
  <2>2. CASE T[s].mem = "queued" /\ R[s] = BlockedTask(T[s])
    BY <1>2, <2>2, ReconciledEntry DEF Recorded
  <2>3. CASE /\ T[s].mem = "queued" /\ R[s] = StartedTask(T[s])
             /\ \A d \in T[s].deps : R[d].mem = "succeeded"
    <3>1. T[s].settled \in BOOLEAN /\ R[s].settled = T[s].settled
      BY <1>2, <2>3, ReconciledEntry DEF Rows
    <3> QED
      BY <1>2, <2>3, <3>1, ReconciledEntry DEF Recorded
  <2> QED
    BY <1>1, <2>1, <2>2, <2>3
<1>4. Ordered(R, n)
  <2> SUFFICES ASSUME NEW t \in Tasks
               PROVE  IF t <= n THEN R[t].row # "NONE" /\ R[t].deps \subseteq 1 .. t - 1
                      ELSE R[t] = NoTask
    BY DEF Ordered
  <2> QED
    BY <1>3, NoTaskIsRow DEF Ordered
<1>5. ASSUME NEW s \in Tasks, R[s].row = "RUNNING", T[s].row # "RUNNING"
      PROVE  \A d \in R[s].deps : R[d].row = "SUCCEEDED"
  <2>1. \A d \in R[s].deps : d \in Tasks /\ R[d].mem = "succeeded"
    BY <1>2, <1>3, <1>5
  <2> QED
    BY <1>3, <2>1 DEF Recorded
<1>6. \A s \in Tasks : R[s].row = "RUNNING" => \/ T[s].row = "RUNNING"
                                               \/ \A d \in R[s].deps : R[d].row = "SUCCEEDED"
  BY <1>5
<1> QED
  BY <1>1, <1>3, <1>4, <1>6 DEF R

\* The locks that are left after those of F have been given back cover what is left.
LEMMA LocksLeft ==
    ASSUME NEW U \in SUBSET Tasks, NEW F \in SUBSET U, NEW V \in SUBSET (U \ F),
           NEW n \in Nat, Cardinality(U) <= n
    PROVE  /\ Cardinality(V) <= n
           /\ Cardinality(V) <= (IF n > Cardinality(F) THEN n - Cardinality(F) ELSE 0)
<1>1. IsFiniteSet(U) /\ IsFiniteSet(F) /\ IsFiniteSet(V) /\ IsFiniteSet(U \ F)
  BY TasksFinite, FS_Subset
<1>2. U \cap F = F
  OBVIOUS
<1>3. Cardinality(U \ F) = Cardinality(U) - Cardinality(F)
  BY <1>1, <1>2, FS_Difference
<1>4. Cardinality(V) <= Cardinality(U \ F)
  BY <1>1, FS_Subset
<1>5. /\ Cardinality(U) \in Nat /\ Cardinality(F) \in Nat /\ Cardinality(V) \in Nat
      /\ Cardinality(U \ F) \in Nat
  BY <1>1, FS_CardinalityType
<1> QED
  BY <1>3, <1>4, <1>5

-----------------------------------------------------------------------------
(* What a step may not do *)

RunsStep ==
    \A t \in Tasks : task[t].row # "RUNNING" /\ task'[t].row = "RUNNING"
        => \A d \in task'[t].deps : task'[d].row = "SUCCEEDED"

NoExpiryStep == ws = "ACTIVE" /\ ws' = "EXPIRED" /\ badCloses = 0 /\ Unfound = {} => Unsettled = {}

Sound == TasksInv' /\ RunsStep /\ NoExpiryStep

\* A step that changes one task, which is over in the map or was not held there, and the pass
\* over those that wait for it.
LEMMA BecomeStep ==
    ASSUME TasksInv, NEW t \in Tasks, NEW x \in Rows, Recorded(x),
           task[t].row # "NONE", x.row # "NONE", x.deps = task[t].deps, x.start = task[t].start,
           x.row = "RUNNING" => task[t].row = "RUNNING",
           x.mem = "none" <=> task[t].mem = "none", x.mem \notin {"queued", "running"},
           task[t].settled => x.settled,
           task[t].mem # "none" \/ task[t].child # "none" \/ t \in cancel,
           Become(t, [task EXCEPT ![t] = x]),
           cancel' \subseteq cancel, UNCHANGED <<stop, ws, badCloses>>
    PROVE  Sound
<1> DEFINE T == [task EXCEPT ![t] = x]
           R == Reconciled(T)
           F == {s \in Tasks : R[s].settled /\ ~task[s].settled}
<1>1. PICK n \in 0 .. MaxTasks : Ordered(task, n)
  BY DEF TasksInv
<1>2. task \in [Tasks -> Rows] /\ (\A s \in Tasks : task[s] \in Rows /\ Recorded(task[s])) /\ locks \in Nat
  BY DEF TasksInv, TypeOK
<1>3. /\ T \in [Tasks -> Rows] /\ T[t] = x /\ \A s \in Tasks : s # t => T[s] = task[s]
      /\ \A s \in Tasks : T[s].start = task[s].start
  BY <1>2
<1>4. task' = R /\ locks' = Without(locks, Cardinality(F))
  BY DEF Become, Freed
<1> HIDE DEF T
<1>5. Ordered(T, n) /\ \A s \in Tasks : Recorded(T[s])
  <2>1. \A s \in Tasks : Recorded(T[s])
    BY <1>2, <1>3
  <2>2. \A s \in Tasks : IF s <= n THEN T[s].row # "NONE" /\ T[s].deps \subseteq 1 .. s - 1 ELSE T[s] = NoTask
    <3>1. t <= n
      BY <1>1 DEF Ordered, NoTask
    <3> QED
      BY <1>1, <1>3, <3>1 DEF Ordered
  <2> QED
    BY <2>1, <2>2 DEF Ordered
<1>6. /\ R \in [Tasks -> Rows] /\ Ordered(R, n)
      /\ \A s \in Tasks :
            /\ Recorded(R[s]) /\ Waits(R, s) /\ R[s].start = T[s].start
            /\ T[s].mem = "none" => R[s] = T[s]
            /\ R[s].mem = "none" => T[s].mem = "none"
            /\ R[s].mem \in {"queued", "running"} => T[s].mem \in {"queued", "running"}
            /\ T[s].settled => R[s].settled
            /\ R[s].settled /\ ~T[s].settled => T[s].mem = "queued"
            /\ R[s].row = "RUNNING" => \/ T[s].row = "RUNNING"
                                       \/ \A d \in R[s].deps : R[d].row = "SUCCEEDED"
  BY <1>3, <1>5, Pass
<1> DEFINE V == {s \in Tasks : R[s].mem # "none" /\ ~R[s].settled}
<1>7. Unsettled' = V /\ Unfound' = Unfound
  BY <1>3, <1>4, <1>6 DEF Unsettled, InMap, Unfound
<1> HIDE DEF R
<1>8. StopInv'
  <2>1. ToStop' \subseteq ToStop
    BY <1>3, <1>4, <1>6 DEF ToStop
  <2>2. InMap(task)' \subseteq InMap(task)
    BY <1>3, <1>4, <1>6 DEF InMap
  <2>3. StopInv /\ ws' = ws /\ stop' = stop
    BY DEF TasksInv
  <2>4. \A s \in Tasks : task'[s].start = task[s].start
    BY <1>3, <1>4, <1>6
  <2>5. ToStop \subseteq Tasks /\ InMap(task) \subseteq Tasks
    BY DEF ToStop, InMap
  <2> QED
    BY <2>1, <2>2, <2>3, <2>4, <2>5 DEF StopInv
<1>9. LocksInv'
  <2> SUFFICES ASSUME ws \in {"ACTIVE", "EXPIRED"}, badCloses = 0, Unfound = {}
               PROVE  /\ Cardinality(V) <= locks'
                      /\ ws = "EXPIRED" => V = {}
                      /\ \A s \in Tasks : R[s].mem = "none" => R[s].settled \/ (R[s].child = "none" /\ s \notin cancel')
    BY <1>4, <1>7 DEF LocksInv
  <2>1. /\ Cardinality(Unsettled) <= locks
        /\ ws = "EXPIRED" => Unsettled = {}
        /\ \A s \in Tasks : task[s].mem = "none" => task[s].settled \/ (task[s].child = "none" /\ s \notin cancel)
    BY DEF TasksInv, LocksInv
  <2>2. task[t].mem = "none" => task[t].settled
    BY <2>1
  <2>3. F \subseteq Unsettled
    <3> SUFFICES ASSUME NEW s \in Tasks, R[s].settled, ~task[s].settled PROVE task[s].mem # "none"
      BY DEF Unsettled, InMap
    <3>1. CASE s = t
      BY <2>2, <3>1
    <3>2. CASE s # t
      BY <1>3, <1>6, <3>2
    <3> QED
      BY <3>1, <3>2
  <2>4. V \subseteq Unsettled \ F
    <3> SUFFICES ASSUME NEW s \in Tasks, R[s].mem # "none", ~R[s].settled
                 PROVE  task[s].mem # "none" /\ ~task[s].settled
      BY DEF Unsettled, InMap
    <3>1. T[s].mem # "none" /\ ~T[s].settled
      BY <1>6
    <3>2. s # t
      BY <1>3, <3>1 DEF Recorded
    <3> QED
      BY <1>3, <3>1, <3>2
  <2>5. Unsettled \subseteq Tasks
    BY DEF Unsettled, InMap
  <2>6. Cardinality(V) <= locks'
    <3>1. /\ Cardinality(V) <= locks
          /\ Cardinality(V) <= (IF locks > Cardinality(F) THEN locks - Cardinality(F) ELSE 0)
      <4> HIDE DEF F, V
      <4> QED
        BY <1>2, <2>1, <2>3, <2>4, <2>5, LocksLeft
    <3> HIDE DEF F, V
    <3> QED
      BY <1>4, <3>1 DEF Without
  <2>7. ws = "EXPIRED" => V = {}
    BY <2>1, <2>4
  <2>8. \A s \in Tasks : R[s].mem = "none" => R[s].settled \/ (R[s].child = "none" /\ s \notin cancel')
    <3> SUFFICES ASSUME NEW s \in Tasks, R[s].mem = "none"
                 PROVE  R[s].settled \/ (R[s].child = "none" /\ s \notin cancel')
      OBVIOUS
    <3>1. R[s] = T[s] /\ T[s].mem = "none"
      BY <1>6
    <3>2. CASE s = t
      BY <1>3, <2>2, <3>1, <3>2
    <3>3. CASE s # t
      BY <1>3, <2>1, <3>1, <3>3
    <3> QED
      BY <3>2, <3>3
  <2> QED
    BY <2>6, <2>7, <2>8
<1>10. TypeOK'
  <2>1. cancel' \subseteq Tasks /\ ws' = ws /\ stop' = stop /\ badCloses' = badCloses
    BY DEF TasksInv, TypeOK
  <2>2. locks' \in Nat
    <3>1. Cardinality(F) \in Nat
      BY TasksFinite
    <3> HIDE DEF F
    <3> QED
      BY <1>2, <1>4, <3>1 DEF Without
  <2> QED
    BY <1>4, <1>6, <2>1, <2>2 DEF TasksInv, TypeOK
<1>11. TasksInv'
  <2>1. \A s \in cancel' : R[s].row # "NONE"
    <3>1. \A s \in cancel' : s \in Tasks /\ task[s].row # "NONE"
      BY DEF TasksInv, TypeOK
    <3> QED
      BY <1>1, <1>6, <3>1, NoTaskIsRow DEF Ordered, NoTask
  <2> QED
    BY <1>1, <1>4, <1>6, <1>8, <1>9, <1>10, <2>1 DEF TasksInv
<1>12. RunsStep
  <2> SUFFICES ASSUME NEW s \in Tasks, task[s].row # "RUNNING", R[s].row = "RUNNING"
               PROVE  \A d \in R[s].deps : R[d].row = "SUCCEEDED"
    BY <1>4 DEF RunsStep
  <2>1. T[s].row # "RUNNING"
    BY <1>3
  <2> QED
    BY <1>6, <2>1
<1>13. NoExpiryStep
  BY DEF NoExpiryStep
<1> QED
  BY <1>11, <1>12, <1>13 DEF Sound

-----------------------------------------------------------------------------
(* The steps that change one task and pass over those that wait *)

LEMMA SettledAsIs ==
    ASSUME NEW x \in Rows, Recorded(x), x.row # "NONE"
    PROVE  \A y \in {SettledAs(x, "cancelled", "CANCELLED"), SettledAs(x, "failed", "FAILED")} :
              /\ y \in Rows /\ Recorded(y) /\ y.row # "NONE" /\ y.deps = x.deps
              /\ y.start = x.start /\ (y.row = "RUNNING" => x.row = "RUNNING")
              /\ y.mem = "none" <=> x.mem = "none"
              /\ y.mem \notin {"queued", "running"} /\ y.settled
<1> SUFFICES ASSUME NEW y \in {SettledAs(x, "cancelled", "CANCELLED"), SettledAs(x, "failed", "FAILED")}
             PROVE  /\ y \in Rows /\ Recorded(y) /\ y.row # "NONE" /\ y.deps = x.deps
                    /\ y.start = x.start /\ (y.row = "RUNNING" => x.row = "RUNNING")
                    /\ y.mem = "none" <=> x.mem = "none"
                    /\ y.mem \notin {"queued", "running"} /\ y.settled
  OBVIOUS
<1> PICK mem, status :
      /\ y = SettledAs(x, mem, status)
      /\ mem \in {"cancelled", "failed"}
      /\ status = IF mem = "cancelled" THEN "CANCELLED" ELSE "FAILED"
  <2>1. CASE y = SettledAs(x, "cancelled", "CANCELLED")
    BY <2>1
  <2>2. CASE y = SettledAs(x, "failed", "FAILED")
    BY <2>2
  <2> QED
    BY <2>1, <2>2
<1>1. CASE x.mem = "none"
  <2>1. y = [x EXCEPT !.mem = "none", !.settled = TRUE]
    BY <1>1 DEF SettledAs, RowIfHeld
  <2> QED
    BY <1>1, <2>1 DEF Rows, Recorded
<1>2. CASE x.mem # "none"
  <2>1. y = [[x EXCEPT !.row = status] EXCEPT !.mem = mem, !.settled = TRUE]
    BY <1>2 DEF SettledAs, RowIfHeld, Row
  <2> QED
    BY <1>2, <2>1 DEF Rows, Recorded
<1> QED
  BY <1>1, <1>2

LEMMA ClosedEntryIs ==
    ASSUME NEW x \in Rows, Recorded(x), x.row # "NONE", x.child \in {"ok", "err"}
    PROVE  LET y == ClosedEntry(x) IN
           /\ y \in Rows /\ Recorded(y) /\ y.row # "NONE" /\ y.deps = x.deps
           /\ y.start = x.start /\ (y.row = "RUNNING" => x.row = "RUNNING")
           /\ y.mem = "none" <=> x.mem = "none"
           /\ y.mem \notin {"queued", "running"} /\ (x.settled => y.settled)
<1> DEFINE y == ClosedEntry(x)
           mem == Ended(x)
           status == IF mem = "succeeded" THEN "SUCCEEDED" ELSE "FAILED"
<1>1. CASE x.mem = "none"
  <2>1. y = [x EXCEPT !.mem = "none", !.child = "none", !.settled = x.settled \/ FALSE]
    BY <1>1 DEF ClosedEntry, RowIfHeld, Ended
  <2>2. x.settled \in BOOLEAN
    BY DEF Rows
  <2> HIDE DEF y
  <2>3. /\ y.mem = "none" /\ y.child = "none" /\ y.row = x.row /\ y.deps = x.deps /\ y.settled = x.settled
        /\ y.start = x.start /\ y \in Rows
    BY <2>1, <2>2 DEF Rows
  <2> QED
    BY <1>1, <2>3 DEF Recorded, y
<1>2. CASE x.mem # "none"
  <2>1. mem # "none" /\ mem \notin {"queued", "running"}
    BY <1>2 DEF Ended, Recorded, Rows
  <2>2. /\ mem \in {"none", "queued", "running", "succeeded", "failed", "cancelled", "blocked"}
        /\ mem = "succeeded" => status = "SUCCEEDED"
        /\ status \in {"SUCCEEDED", "FAILED"}
    BY DEF Ended, Rows
  <2>3. y = [[x EXCEPT !.row = status] EXCEPT !.mem = mem, !.child = "none", !.settled = TRUE]
    BY <1>2, <2>1 DEF ClosedEntry, RowIfHeld, Row
  <2> HIDE DEF y, mem, status
  <2>4. /\ y.mem = mem /\ y.child = "none" /\ y.row = status /\ y.deps = x.deps /\ y.settled = TRUE
        /\ y.start = x.start /\ y \in Rows
    BY <2>2, <2>3 DEF Rows
  <2>5. Recorded(y)
    BY <2>1, <2>2, <2>4 DEF Recorded
  <2> QED
    BY <1>2, <2>1, <2>2, <2>4, <2>5 DEF y
<1> QED
  BY <1>1, <1>2

\* A task that is in the map, or has a child, or whose cancel is under way, was created.
LEMMA WasCreated ==
    ASSUME TasksInv
    PROVE  \A t \in Tasks :
              /\ task[t] \in Rows /\ Recorded(task[t])
              /\ task[t].mem # "none" \/ task[t].child # "none" \/ t \in cancel => task[t].row # "NONE"
<1>1. PICK n \in 0 .. MaxTasks : Ordered(task, n)
  BY DEF TasksInv
<1> QED
  BY <1>1 DEF TasksInv, TypeOK, Ordered, NoTask

LEMMA CancelQueuedIsSound ==
    ASSUME TasksInv, NEW t \in Tasks, CancelQueued(t)
    PROVE  Sound
<1> DEFINE x == SettledAs(task[t], "cancelled", "CANCELLED")
<1>1. /\ task[t] \in Rows /\ Recorded(task[t]) /\ task[t].row # "NONE" /\ task[t].mem # "none"
  BY WasCreated DEF CancelQueued
<1>2. /\ x \in Rows /\ Recorded(x) /\ x.row # "NONE" /\ x.deps = task[t].deps
      /\ x.start = task[t].start /\ (x.row = "RUNNING" => task[t].row = "RUNNING")
      /\ x.mem = "none" <=> task[t].mem = "none"
      /\ x.mem \notin {"queued", "running"} /\ x.settled
  BY <1>1, SettledAsIs
<1>3. Become(t, [task EXCEPT ![t] = x]) /\ cancel' = cancel /\ UNCHANGED <<stop, ws, badCloses>>
  BY DEF CancelQueued, bounds
<1> HIDE DEF x
<1> QED
  BY <1>1, <1>2, <1>3, BecomeStep

LEMMA CancelledIsSound ==
    ASSUME TasksInv, NEW t \in Tasks, Cancelled(t)
    PROVE  Sound
<1> DEFINE x == SettledAs(task[t], "cancelled", "CANCELLED")
<1>1. /\ task[t] \in Rows /\ Recorded(task[t]) /\ task[t].row # "NONE" /\ t \in cancel
  BY WasCreated DEF Cancelled
<1>2. /\ x \in Rows /\ Recorded(x) /\ x.row # "NONE" /\ x.deps = task[t].deps
      /\ x.start = task[t].start /\ (x.row = "RUNNING" => task[t].row = "RUNNING")
      /\ x.mem = "none" <=> task[t].mem = "none"
      /\ x.mem \notin {"queued", "running"} /\ x.settled
  BY <1>1, SettledAsIs
<1>3. /\ Become(t, [task EXCEPT ![t] = x]) /\ cancel' = cancel \ {t} /\ UNCHANGED <<stop, ws, badCloses>>
  BY DEF Cancelled, bounds
<1>4. cancel' \subseteq cancel
  BY <1>3
<1> HIDE DEF x
<1> QED
  BY <1>1, <1>2, <1>3, <1>4, BecomeStep

LEMMA CloseIsSound ==
    ASSUME TasksInv, NEW t \in Tasks, Close(t)
    PROVE  Sound
<1> DEFINE x == ClosedEntry(task[t])
<1>1. /\ task[t] \in Rows /\ Recorded(task[t]) /\ task[t].row # "NONE" /\ task[t].child \in {"ok", "err"}
  BY WasCreated DEF Close
<1>2. /\ x \in Rows /\ Recorded(x) /\ x.row # "NONE" /\ x.deps = task[t].deps
      /\ x.start = task[t].start /\ (x.row = "RUNNING" => task[t].row = "RUNNING")
      /\ x.mem = "none" <=> task[t].mem = "none"
      /\ x.mem \notin {"queued", "running"} /\ (task[t].settled => x.settled)
  BY <1>1, ClosedEntryIs
<1>3. Become(t, [task EXCEPT ![t] = x]) /\ cancel' = cancel /\ UNCHANGED <<stop, ws, badCloses>>
  BY DEF Close, bounds
<1> HIDE DEF x
<1> QED
  BY <1>1, <1>2, <1>3, BecomeStep

LEMMA LogFailsIsSound ==
    ASSUME TasksInv, NEW t \in Tasks, LogFails(t)
    PROVE  Sound
<1> DEFINE x == SettledAs(task[t], "failed", "FAILED")
<1>1. /\ task[t] \in Rows /\ Recorded(task[t]) /\ task[t].row # "NONE" /\ task[t].child = "live"
  BY WasCreated DEF LogFails
<1>2. /\ x \in Rows /\ Recorded(x) /\ x.row # "NONE" /\ x.deps = task[t].deps
      /\ x.start = task[t].start /\ (x.row = "RUNNING" => task[t].row = "RUNNING")
      /\ x.mem = "none" <=> task[t].mem = "none"
      /\ x.mem \notin {"queued", "running"} /\ x.settled
  BY <1>1, SettledAsIs
<1>3. Become(t, [task EXCEPT ![t] = x]) /\ cancel' = cancel /\ UNCHANGED <<stop, ws, badCloses>>
  BY DEF LogFails
<1> HIDE DEF x
<1> QED
  BY <1>1, <1>2, <1>3, BecomeStep

-----------------------------------------------------------------------------
(* The steps that end or forget children, and those of the workspace *)

\* The children have changed, and no more.
OnlyChildren(T) ==
    /\ T \in [Tasks -> Rows]
    /\ \A t \in Tasks :
          /\ T[t].mem = task[t].mem /\ T[t].row = task[t].row
          /\ T[t].settled = task[t].settled /\ T[t].deps = task[t].deps
          /\ T[t].start = task[t].start
          /\ T[t].child = "none" <=> task[t].child = "none"

LEMMA OnlyChildrenKeeps ==
    ASSUME TasksInv, NEW T, OnlyChildren(T)
    PROVE  /\ \E n \in 0 .. MaxTasks : Ordered(T, n)
           /\ \A t \in Tasks : Recorded(T[t]) /\ Waits(T, t)
           /\ \A t \in cancel : T[t].row # "NONE"
           /\ InMap(T) = InMap(task)
           /\ {t \in Tasks : T[t].mem \in {"running", "queued"}} = ToStop
           /\ {t \in InMap(T) : ~T[t].settled} = Unsettled
           /\ {t \in Tasks : T[t].start \in {"unlocked", "late"}} = Unfound
           /\ \A t \in Tasks : T[t].start = task[t].start
           /\ (\A t \in Tasks : task[t].mem = "none" => task[t].settled \/ (task[t].child = "none" /\ t \notin cancel))
              => (\A t \in Tasks : T[t].mem = "none" => T[t].settled \/ (T[t].child = "none" /\ t \notin cancel))
<1>1. PICK n \in 0 .. MaxTasks : Ordered(task, n)
  BY DEF TasksInv
<1>2. \A t \in Tasks : T[t] \in Rows /\ task[t] \in Rows /\ task[t].deps \subseteq Tasks
  BY DEF TasksInv, TypeOK, OnlyChildren, Rows
<1>3. Ordered(T, n)
  <2> SUFFICES ASSUME NEW t \in Tasks
               PROVE  IF t <= n THEN T[t].row # "NONE" /\ T[t].deps \subseteq 1 .. t - 1 ELSE T[t] = NoTask
    BY DEF Ordered
  <2>1. CASE t <= n
    BY <1>1, <2>1 DEF Ordered, OnlyChildren
  <2>2. CASE ~(t <= n)
    <3>1. task[t] = NoTask
      BY <1>1, <2>2 DEF Ordered
    <3>2. T[t].mem = "none" /\ T[t].row = "NONE" /\ T[t].child = "none" /\ T[t].deps = {}
          /\ T[t].start = "none"
      BY <3>1 DEF OnlyChildren, NoTask
    <3>3. T[t].settled = FALSE
      BY <3>1 DEF OnlyChildren, NoTask
    <3> QED
      BY <1>2, <2>2, <3>2, <3>3, NoTaskIs
  <2> QED
    BY <2>1, <2>2
<1>4. \A t \in Tasks : Recorded(T[t])
  BY <1>2 DEF TasksInv, Recorded, OnlyChildren
<1>5. \A t \in Tasks : Waits(T, t)
  BY <1>2 DEF TasksInv, Waits, OnlyChildren
<1>6. \A t \in cancel : T[t].row # "NONE"
  BY DEF TasksInv, TypeOK, OnlyChildren
<1>7. InMap(T) = InMap(task) /\ {t \in InMap(T) : ~T[t].settled} = Unsettled
  BY DEF InMap, Unsettled, OnlyChildren
<1>8. /\ {t \in Tasks : T[t].mem \in {"running", "queued"}} = ToStop
      /\ {t \in Tasks : T[t].start \in {"unlocked", "late"}} = Unfound
      /\ \A t \in Tasks : T[t].start = task[t].start
  BY DEF ToStop, Unfound, OnlyChildren
<1>9. (\A t \in Tasks : task[t].mem = "none" => task[t].settled \/ (task[t].child = "none" /\ t \notin cancel))
      => (\A t \in Tasks : T[t].mem = "none" => T[t].settled \/ (T[t].child = "none" /\ t \notin cancel))
  BY DEF OnlyChildren
<1> QED
  BY <1>1, <1>3, <1>4, <1>5, <1>6, <1>7, <1>8, <1>9

LEMMA ExitIsSound ==
    ASSUME TasksInv, NEW t \in Tasks, Exit(t)
    PROVE  Sound
<1>1. PICK code \in {"ok", "err"} : task' = [task EXCEPT ![t].child = code]
  BY DEF Exit
<1>2. task[t].child = "live" /\ UNCHANGED <<cancel, stop, locks, ws, badCloses>>
  BY DEF Exit, bounds
<1>3. task \in [Tasks -> Rows]
  BY DEF TasksInv, TypeOK
<1>4. OnlyChildren(task')
  BY <1>1, <1>2, <1>3 DEF OnlyChildren, Rows
<1>5. TasksInv'
  <2>1. ToStop' = ToStop /\ Unsettled' = Unsettled /\ InMap(task)' = InMap(task) /\ Unfound' = Unfound
    BY <1>4, OnlyChildrenKeeps DEF ToStop, Unsettled, InMap, Unfound
  <2>2. TypeOK'
    BY <1>2, <1>4 DEF TasksInv, TypeOK, OnlyChildren
  <2>3. StopInv'
    BY <1>2, <1>4, <2>1 DEF TasksInv, StopInv, ToStop, InMap, OnlyChildren
  <2>4. LocksInv'
    BY <1>2, <1>4, <2>1, OnlyChildrenKeeps DEF TasksInv, LocksInv
  <2> QED
    BY <1>2, <1>4, <2>2, <2>3, <2>4, OnlyChildrenKeeps DEF TasksInv
<1>6. RunsStep /\ NoExpiryStep
  BY <1>2, <1>4 DEF RunsStep, NoExpiryStep, OnlyChildren
<1> QED
  BY <1>5, <1>6 DEF Sound

\* The executor is gone: what was alive in it has ended.
LEMMA AllEnd ==
    ASSUME TasksInv,
           task' = [t \in Tasks |-> [task[t] EXCEPT !.child = IF task[t].child = "live" THEN "err" ELSE task[t].child]]
    PROVE  OnlyChildren(task')
<1>1. task \in [Tasks -> Rows]
  BY DEF TasksInv, TypeOK
<1> QED
  BY <1>1 DEF OnlyChildren, Rows

LEMMA ClosedIsSound ==
    ASSUME TasksInv, Closed
    PROVE  Sound
<1>1. ws = "STOPPED" /\ ws' = "CLOSED" /\ UNCHANGED <<cancel, stop, locks, badCloses>>
  BY DEF Closed, bounds
<1>2. OnlyChildren(task')
  BY AllEnd DEF Closed
<1>3. TasksInv'
  <2>1. StopInv'
    BY <1>1, <1>2 DEF TasksInv, StopInv, InMap, OnlyChildren
  <2> QED
    BY <1>1, <1>2, <2>1, OnlyChildrenKeeps DEF TasksInv, TypeOK, OnlyChildren, LocksInv
<1>4. RunsStep /\ NoExpiryStep
  BY <1>1, <1>2 DEF RunsStep, NoExpiryStep, OnlyChildren
<1> QED
  BY <1>3, <1>4 DEF Sound

LEMMA NoneUnsettled ==
    ASSUME TasksInv, ws = "ACTIVE", badCloses = 0, Unfound = {}, locks = 0
    PROVE  Unsettled = {}
<1>1. Cardinality(Unsettled) <= 0
  BY DEF TasksInv, LocksInv
<1>2. IsFiniteSet(Unsettled) /\ Cardinality(Unsettled) \in Nat
  <2>1. Unsettled \subseteq Tasks
    BY DEF Unsettled, InMap
  <2> QED
    BY <2>1, TasksFinite
<1>3. Cardinality(Unsettled) = 0
  BY <1>1, <1>2
<1> QED
  BY <1>2, <1>3, FS_EmptySet

LEMMA ExpireIsSound ==
    ASSUME TasksInv, Expire
    PROVE  Sound
<1>1. /\ ws = "ACTIVE" /\ ws' = "EXPIRED" /\ locks' = 0 /\ UNCHANGED <<cancel, stop, badCloses>>
      /\ locks = 0 \/ Unsettled = {}
  BY DEF Expire
<1>2. OnlyChildren(task')
  BY AllEnd DEF Expire
<1>3. badCloses = 0 /\ Unfound = {} => Unsettled = {}
  BY <1>1, NoneUnsettled
<1>4. LocksInv'
  <2>1. Unsettled' = Unsettled /\ Unfound' = Unfound
    BY <1>2, OnlyChildrenKeeps DEF Unsettled, Unfound
  <2>2. badCloses = 0 /\ Unfound = {} => Cardinality(Unsettled') <= locks'
    BY <1>1, <1>3, <2>1, FS_EmptySet
  <2>3. badCloses = 0 /\ Unfound = {} => \A t \in Tasks : task[t].mem = "none" => task[t].settled \/ (task[t].child = "none" /\ t \notin cancel)
    BY <1>1 DEF TasksInv, LocksInv
  <2>4. badCloses = 0 /\ Unfound = {} => \A t \in Tasks : task'[t].mem = "none" => task'[t].settled \/ (task'[t].child = "none" /\ t \notin cancel)
    BY <1>2, <2>3, OnlyChildrenKeeps
  <2> QED
    BY <1>1, <1>3, <2>1, <2>2, <2>4 DEF LocksInv
<1>5. TasksInv'
  BY <1>1, <1>2, <1>4, OnlyChildrenKeeps DEF TasksInv, TypeOK, OnlyChildren, StopInv
<1>6. RunsStep /\ NoExpiryStep
  BY <1>1, <1>2, <1>3 DEF RunsStep, NoExpiryStep, OnlyChildren
<1> QED
  BY <1>5, <1>6 DEF Sound

LEMMA CancelRunningIsSound ==
    ASSUME TasksInv, NEW t \in Tasks, CancelRunning(t)
    PROVE  Sound
<1>1. /\ ws = "ACTIVE" /\ task[t].mem = "running" /\ cancel' = cancel \union {t}
      /\ UNCHANGED <<task, stop, locks, ws, badCloses>>
  BY DEF CancelRunning, bounds
<1>2. task[t].row # "NONE"
  BY <1>1, WasCreated
<1>3. TypeOK' /\ StopInv'
  BY <1>1 DEF TasksInv, TypeOK, StopInv, ToStop, InMap
<1>4. LocksInv'
  BY <1>1 DEF TasksInv, LocksInv, Unsettled, InMap, Unfound
<1>5. TasksInv'
  BY <1>1, <1>2, <1>3, <1>4 DEF TasksInv
<1> QED
  BY <1>1, <1>5 DEF Sound, RunsStep, NoExpiryStep

LEMMA CancelFailsIsSound ==
    ASSUME TasksInv, NEW t \in Tasks, CancelFails(t)
    PROVE  Sound
<1>1. cancel' = cancel \ {t} /\ UNCHANGED <<task, stop, locks, ws, badCloses>>
  BY DEF CancelFails, bounds
<1>2. TypeOK' /\ StopInv'
  BY <1>1 DEF TasksInv, TypeOK, StopInv, ToStop, InMap
<1>3. LocksInv'
  BY <1>1 DEF TasksInv, LocksInv, Unsettled, InMap, Unfound
<1>4. TasksInv'
  BY <1>1, <1>2, <1>3 DEF TasksInv
<1> QED
  BY <1>1, <1>4 DEF Sound, RunsStep, NoExpiryStep

LEMMA StopBeginIsSound ==
    ASSUME TasksInv, StopBegin
    PROVE  Sound
<1>1. /\ ws' = "REAPING" /\ locks' = 0 /\ UNCHANGED <<task, cancel, badCloses>>
      /\ stop' = [of |-> ToStop, waits |-> {t \in ToStop : task[t].child = "live"}]
  BY DEF StopBegin, bounds
<1>2. ToStop' = ToStop /\ ToStop \subseteq Tasks
  BY <1>1 DEF ToStop
<1>3. TypeOK'
  BY <1>1, <1>2 DEF TasksInv, TypeOK
<1>4. StopInv' /\ LocksInv'
  BY <1>1, <1>2 DEF StopInv, LocksInv
<1>5. TasksInv'
  BY <1>1, <1>3, <1>4 DEF TasksInv
<1> QED
  BY <1>1, <1>5 DEF Sound, RunsStep, NoExpiryStep

LEMMA CloseFailsIsSound ==
    ASSUME TasksInv, CloseFails
    PROVE  Sound
<1>1. ws' = "EXPIRED" /\ stop' = NoStop /\ badCloses' = badCloses + 1 /\ UNCHANGED <<task, cancel, locks>>
  BY DEF CloseFails
<1>2. ws # "ACTIVE" /\ badCloses \in Nat
  BY DEF CloseFails, TasksInv, TypeOK
<1>3. TypeOK'
  BY <1>1, <1>2 DEF TasksInv, TypeOK, NoStop
<1>4. StopInv' /\ LocksInv'
  BY <1>1, <1>2 DEF StopInv, LocksInv
<1>5. TasksInv'
  BY <1>1, <1>3, <1>4 DEF TasksInv
<1> QED
  BY <1>1, <1>2, <1>5 DEF Sound, RunsStep, NoExpiryStep

LEMMA RecoverIsSound ==
    ASSUME TasksInv, Recover
    PROVE  Sound
<1>1. ws = "EXPIRED" /\ ws' = "ACTIVE" /\ UNCHANGED <<task, cancel, stop, locks, badCloses>>
  BY DEF Recover, bounds
<1>2. TypeOK' /\ StopInv'
  BY <1>1 DEF TasksInv, TypeOK, StopInv
<1>3. LocksInv'
  BY <1>1 DEF TasksInv, LocksInv, Unsettled, InMap, Unfound
<1>4. TasksInv'
  BY <1>1, <1>2, <1>3 DEF TasksInv
<1> QED
  BY <1>1, <1>4 DEF Sound, RunsStep, NoExpiryStep

\* The map is emptied, and no row is left that says a task waits or runs.
LEMMA Emptied ==
    ASSUME TasksInv, task' \in [Tasks -> Rows],
           \A t \in Tasks : /\ task'[t].mem = "none"
                            /\ task'[t].row \in {"QUEUED", "RUNNING"} => task'[t].start = "late"
                            /\ task'[t].row = "RUNNING" => task[t].row = "RUNNING"
                            /\ task'[t].deps = task[t].deps
                            /\ task[t].row # "NONE" => task'[t].row # "NONE"
                            /\ task[t] = NoTask => task'[t] = NoTask,
           cancel' \subseteq cancel
    PROVE  /\ \E n \in 0 .. MaxTasks : Ordered(task', n)
           /\ \A t \in Tasks : Recorded(task'[t]) /\ Waits(task', t)
           /\ \A t \in cancel' : task'[t].row # "NONE"
           /\ InMap(task)' = {} /\ Unsettled' = {} /\ RunsStep
<1>1. PICK n \in 0 .. MaxTasks : Ordered(task, n)
  BY DEF TasksInv
<1>2. Ordered(task', n)
  BY <1>1, NoTaskIsRow DEF Ordered
<1>3. \A t \in Tasks : Recorded(task'[t]) /\ Waits(task', t)
  BY DEF Recorded, Waits
<1>4. \A t \in cancel' : task'[t].row # "NONE"
  BY DEF TasksInv, TypeOK
<1>5. InMap(task)' = {} /\ Unsettled' = {} /\ RunsStep
  BY DEF InMap, Unsettled, RunsStep
<1> QED
  BY <1>1, <1>2, <1>3, <1>4, <1>5

LEMMA StopFinishIsSound ==
    ASSUME TasksInv, StopFinish
    PROVE  Sound
<1>1. ws = "REAPING" /\ ws' = "STOPPED" /\ stop' = NoStop /\ UNCHANGED <<cancel, locks, badCloses>>
  BY DEF StopFinish, bounds
<1>2. task' = [t \in Tasks |-> [(IF t \in stop.of THEN RowIfHeld(task[t], "CANCELLED") ELSE task[t])
                                    EXCEPT !.mem = "none"]]
  BY DEF StopFinish
<1>3. \A t \in Tasks : task[t] \in Rows /\ Recorded(task[t])
  BY DEF TasksInv, TypeOK
<1>4. ASSUME NEW t \in Tasks
      PROVE  /\ task'[t] \in Rows /\ task'[t].mem = "none" /\ task'[t].deps = task[t].deps
             /\ task'[t].row \in {"QUEUED", "RUNNING"} => task'[t].start = "late"
             /\ task'[t].row = "RUNNING" => task[t].row = "RUNNING"
             /\ task[t].row # "NONE" => task'[t].row # "NONE"
             /\ task[t] = NoTask => task'[t] = NoTask
  <2>1. CASE t \in stop.of /\ task[t].mem # "none"
    <3>1. task'[t] = [[task[t] EXCEPT !.row = "CANCELLED"] EXCEPT !.mem = "none"]
      BY <1>2, <2>1 DEF RowIfHeld, Row
    <3> QED
      BY <1>3, <2>1, <3>1, NoTaskIsRow DEF Rows
  <2>2. CASE ~(t \in stop.of /\ task[t].mem # "none")
    <3>1. task'[t] = [task[t] EXCEPT !.mem = "none"]
      BY <1>2, <2>2 DEF RowIfHeld
    <3>2. task[t].mem \notin {"queued", "running"} \/ task[t].start = "late"
      <4>1. t \in ToStop => t \in stop.of \/ task[t].start = "late"
        BY <1>1 DEF TasksInv, StopInv
      <4> QED
        BY <2>2, <4>1 DEF ToStop
    <3>3. task[t] = NoTask => task'[t] = NoTask
      BY <3>1 DEF NoTask
    <3> QED
      BY <1>3, <3>1, <3>2, <3>3 DEF Rows, Recorded
  <2> QED
    BY <2>1, <2>2
<1>5. task' \in [Tasks -> Rows]
  BY <1>2, <1>4
<1>6. /\ \E n \in 0 .. MaxTasks : Ordered(task', n)
      /\ \A t \in Tasks : Recorded(task'[t]) /\ Waits(task', t)
      /\ \A t \in cancel' : task'[t].row # "NONE"
      /\ InMap(task)' = {} /\ Unsettled' = {} /\ RunsStep
  BY <1>1, <1>4, <1>5, Emptied
<1>7. TypeOK'
  BY <1>1, <1>5 DEF TasksInv, TypeOK, NoStop
<1>8. StopInv' /\ LocksInv'
  BY <1>1, <1>6 DEF StopInv, LocksInv
<1>9. TasksInv'
  BY <1>6, <1>7, <1>8 DEF TasksInv
<1> QED
  BY <1>1, <1>6, <1>9 DEF Sound, NoExpiryStep

LEMMA RestartIsSound ==
    ASSUME TasksInv, Restart
    PROVE  Sound
<1>1. /\ cancel' = {} /\ stop' = NoStop /\ UNCHANGED <<locks, badCloses>>
      /\ ws' = IF ws \in {"REAPING", "STOPPED"} THEN "CLOSED" ELSE ws
  BY DEF Restart
<1>2. task' = [t \in Tasks |-> [(IF task[t].row \in {"QUEUED", "RUNNING"} THEN Row(task[t], "FAILED") ELSE task[t])
                                    EXCEPT !.mem = "none", !.child = "none"]]
  BY DEF Restart
<1>3. \A t \in Tasks : task[t] \in Rows
  BY DEF TasksInv, TypeOK
<1>4. ASSUME NEW t \in Tasks
      PROVE  /\ task'[t] \in Rows /\ task'[t].mem = "none" /\ task'[t].deps = task[t].deps
             /\ task'[t].row \notin {"QUEUED", "RUNNING"} /\ task'[t].child = "none"
             /\ task'[t].start = task[t].start
             /\ task[t].row # "NONE" => task'[t].row # "NONE"
             /\ task[t] = NoTask => task'[t] = NoTask
  <2>1. CASE task[t].row \in {"QUEUED", "RUNNING"}
    <3>1. task'[t] = [[task[t] EXCEPT !.row = "FAILED"] EXCEPT !.mem = "none", !.child = "none"]
      BY <1>2, <2>1 DEF Row
    <3>2. task[t] # NoTask
      BY <2>1 DEF NoTask
    <3> QED
      BY <1>3, <3>1, <3>2 DEF Rows
  <2>2. CASE task[t].row \notin {"QUEUED", "RUNNING"}
    <3>1. task'[t] = [task[t] EXCEPT !.mem = "none", !.child = "none"]
      BY <1>2, <2>2
    <3>2. task[t] = NoTask => task'[t] = NoTask
      <4>1. task'[t] \in Rows
        BY <1>3, <3>1 DEF Rows
      <4>2. task'[t].mem = "none" /\ task'[t].child = "none"
        BY <1>3, <3>1 DEF Rows
      <4>3. /\ task'[t].row = task[t].row /\ task'[t].settled = task[t].settled
            /\ task'[t].deps = task[t].deps /\ task'[t].start = task[t].start
        BY <1>3, <3>1 DEF Rows
      <4> QED
        BY <4>1, <4>2, <4>3, NoTaskIs
    <3> QED
      BY <1>3, <2>2, <3>1, <3>2 DEF Rows
  <2> QED
    BY <2>1, <2>2
<1>5. task' \in [Tasks -> Rows]
  BY <1>2, <1>4
<1>6. /\ \E n \in 0 .. MaxTasks : Ordered(task', n)
      /\ \A t \in Tasks : Recorded(task'[t]) /\ Waits(task', t)
      /\ \A t \in cancel' : task'[t].row # "NONE"
      /\ InMap(task)' = {} /\ Unsettled' = {} /\ RunsStep
  BY <1>1, <1>4, <1>5, Emptied
<1>7. TypeOK'
  BY <1>1, <1>5 DEF TasksInv, TypeOK, NoStop
<1>8. StopInv'
  BY <1>1, <1>6 DEF StopInv
<1>9. LocksInv'
  <2>1. Cardinality(Unsettled') <= locks'
    BY <1>1, <1>6, FS_EmptySet DEF TasksInv, TypeOK
  <2>2. \A t \in Tasks : t \notin cancel' /\ task'[t].child = "none"
    BY <1>1, <1>4
  <2> QED
    BY <1>6, <2>1, <2>2 DEF LocksInv
<1>10. TasksInv'
  BY <1>6, <1>7, <1>8, <1>9 DEF TasksInv
<1> QED
  BY <1>1, <1>6, <1>10 DEF Sound, NoExpiryStep

-----------------------------------------------------------------------------
(* A new task *)

\* A task is numbered after those there are.
LEMMA NextNumber ==
    ASSUME NEW n \in 0 .. MaxTasks, Ordered(task, n)
    PROVE  Created = 1 .. n /\ Cardinality(Created) + 1 = n + 1
<1>1. MaxTasks \in Nat /\ n \in Nat
  BY TasksAssumption
<1>2. Created = 1 .. n
  BY <1>1 DEF Created, Tasks, Ordered, NoTask
<1>3. Cardinality(1 .. n) = n
  <2>1. Cardinality(1 .. n) = IF 1 > n THEN 0 ELSE n - 1 + 1
    BY <1>1, FS_Interval
  <2> QED
    BY <1>1, <2>1
<1> QED
  BY <1>2, <1>3

LEMMA OldestIsEvictable ==
    ASSUME NEW S \in SUBSET Tasks, S # {}
    PROVE  Min(S) \in S
<1>1. S \in SUBSET Nat
  BY TasksFinite
<1>2. \E n \in S : \A m \in S : n <= m
  BY <1>1, LeastNatural
<1> QED
  BY <1>2 DEF Min

LEMMA RunTaskIsSound ==
    ASSUME TasksInv, NEW found \in BOOLEAN, NEW D \in SUBSET Tasks, RunTask(found, D)
    PROVE  Sound
<1>1. PICK n \in 0 .. MaxTasks : Ordered(task, n)
  BY DEF TasksInv
<1> DEFINE t == n + 1
           e == Min(Evictable(task))
           room == IF Roomy(task) THEN task ELSE [task EXCEPT ![e].mem = "none"]
           x == [[NoTask EXCEPT !.row = "QUEUED"] EXCEPT !.mem = "queued", !.deps = D, !.start = Start(found)]
           k == IF found THEN locks + 1 ELSE locks
           T == [room EXCEPT ![t] = x]
           R == Reconciled(T)
           F == {s \in Tasks : R[s].settled /\ ~task[s].settled}
           V == {s \in Tasks : R[s].mem # "none" /\ ~R[s].settled}
<1>2. Created = 1 .. n /\ Cardinality(Created) + 1 = t
  BY <1>1, NextNumber
<1>3. /\ found => ws = "ACTIVE"
      /\ t \in Tasks /\ D \subseteq 1 .. n
      /\ Roomy(task) \/ Evictable(task) # {}
      /\ UNCHANGED <<cancel, stop, ws, badCloses>>
      /\ task' = R /\ locks' = Without(k, Cardinality(F))
  <2>1. /\ found => ws = "ACTIVE"
        /\ Cardinality(Created) + 1 \in Tasks /\ D \subseteq Created
        /\ Roomy(task) \/ Evictable(task) # {}
        /\ UNCHANGED <<cancel, stop, ws, bounds>>
    BY DEF RunTask
  <2>2. task' = R /\ locks' = Without(k, Freed(R))
    BY <1>2 DEF RunTask, Row
  <2> HIDE DEF R
  <2> QED
    BY <1>2, <2>1, <2>2 DEF Freed, bounds
<1>4. /\ task \in [Tasks -> Rows] /\ locks \in Nat
      /\ \A s \in Tasks : task[s] \in Rows /\ Recorded(task[s])
      /\ MaxTasks \in Nat /\ n \in Nat
  BY TasksFinite DEF TasksInv, TypeOK
<1>5. ~Roomy(task) => /\ e \in Tasks /\ task[e].mem \notin {"none", "queued", "running"}
                      /\ e <= n
  <2> SUFFICES ASSUME ~Roomy(task)
               PROVE  /\ e \in Tasks /\ task[e].mem \notin {"none", "queued", "running"} /\ e <= n
    OBVIOUS
  <2>1. Evictable(task) # {} /\ Evictable(task) \subseteq Tasks
    BY <1>3 DEF Evictable, InMap
  <2>2. e \in Evictable(task)
    BY <2>1, OldestIsEvictable
  <2> HIDE DEF e
  <2> QED
    BY <1>1, <2>2 DEF Evictable, InMap, Ordered, NoTask
<1> HIDE DEF e
<1>6. /\ room \in [Tasks -> Rows]
      /\ \A s \in Tasks :
            /\ room[s] \in Rows /\ Recorded(room[s])
            /\ room[s] = task[s] \/ (~Roomy(task) /\ s = e /\ room[s] = [task[s] EXCEPT !.mem = "none"])
  <2>1. CASE Roomy(task)
    BY <1>4, <2>1
  <2>2. CASE ~Roomy(task)
    <3>1. room = [task EXCEPT ![e] = [task[e] EXCEPT !.mem = "none"]]
      BY <2>2
    <3> DEFINE y == [task[e] EXCEPT !.mem = "none"]
    <3>2. y \in Rows /\ Recorded(y)
      BY <1>4, <1>5, <2>2 DEF Rows, Recorded
    <3> HIDE DEF room, y
    <3>3. room = [task EXCEPT ![e] = y]
      BY <3>1 DEF y
    <3>4. room \in [Tasks -> Rows] /\ \A s \in Tasks : room[s] = IF s = e THEN y ELSE task[s]
      BY <1>4, <3>2, <3>3
    <3> QED
      BY <1>4, <2>2, <3>2, <3>4 DEF y
  <2> QED
    BY <2>1, <2>2
<1> HIDE DEF room
<1>7. /\ x \in Rows /\ Recorded(x) /\ x.mem = "queued" /\ x.row = "QUEUED" /\ x.deps = D /\ x.settled = FALSE
      /\ x.start = Start(found) /\ (~found => x.start \in {"unlocked", "late"})
      /\ (ws \in {"REAPING", "STOPPED", "CLOSED"} => x.start = "late")
  <2>1. Start(found) \in {"locked", "unlocked", "late"} /\ (~found => Start(found) \in {"unlocked", "late"})
    BY DEF Start
  <2>2. ws \in {"REAPING", "STOPPED", "CLOSED"} => Start(found) = "late"
    BY <1>3 DEF Start
  <2> QED
    BY <2>1, <2>2 DEF Rows, Recorded, NoTask
<1> HIDE DEF x
<1>8. /\ T \in [Tasks -> Rows] /\ T[t] = x
      /\ \A s \in Tasks : s # t => T[s] = room[s]
  BY <1>3, <1>6, <1>7
<1> HIDE DEF T
<1>9. /\ \A s \in Tasks : Recorded(T[s])
      /\ \A s \in Tasks : /\ s # t => /\ T[s].settled = task[s].settled /\ T[s].row = task[s].row
                                      /\ T[s].deps = task[s].deps /\ T[s].child = task[s].child
                                      /\ T[s].start = task[s].start
                                      /\ T[s].mem = task[s].mem \/ (T[s].mem = "none" /\ task[s].settled)
                          /\ task[t] = NoTask
  <2>1. task[t] = NoTask
    BY <1>1, <1>3, <1>4 DEF Ordered
  <2>2. ~Roomy(task) => task[e].settled
    BY <1>4, <1>5 DEF Recorded
  <2>3. ASSUME NEW s \in Tasks, s # t
        PROVE  /\ T[s].settled = task[s].settled /\ T[s].row = task[s].row
               /\ T[s].deps = task[s].deps /\ T[s].child = task[s].child
               /\ T[s].start = task[s].start
               /\ T[s].mem = task[s].mem \/ (T[s].mem = "none" /\ task[s].settled)
    <3>1. CASE room[s] = task[s]
      BY <1>8, <2>3, <3>1
    <3>2. CASE ~Roomy(task) /\ s = e /\ room[s] = [task[s] EXCEPT !.mem = "none"]
      BY <1>4, <1>8, <2>2, <2>3, <3>2 DEF Rows
    <3> QED
      BY <1>6, <3>1, <3>2
  <2>4. \A s \in Tasks : Recorded(T[s])
    BY <1>6, <1>7, <1>8
  <2> QED
    BY <2>1, <2>3, <2>4
<1>10. t \in 0 .. MaxTasks /\ Ordered(T, t)
  <2>1. t \in 0 .. MaxTasks /\ t - 1 = n
    BY <1>3, <1>4 DEF Tasks
  <2>2. ASSUME NEW s \in Tasks
        PROVE  IF s <= t THEN T[s].row # "NONE" /\ T[s].deps \subseteq 1 .. s - 1 ELSE T[s] = NoTask
    <3>1. CASE s = t
      <4>1. s <= t /\ s - 1 = n
        BY <1>4, <2>1, <3>1
      <4>2. T[s].row = "QUEUED" /\ T[s].deps = D
        BY <1>7, <1>8, <3>1
      <4> QED
        BY <1>3, <4>1, <4>2
    <3>2. CASE s <= n
      <4>1. s # t /\ s <= t
        BY <1>4, <3>2 DEF Tasks
      <4> QED
        BY <1>1, <1>9, <3>2, <4>1 DEF Ordered
    <3>3. CASE ~(s <= n) /\ s # t
      <4>1. ~(s <= t) /\ task[s] = NoTask
        BY <1>1, <1>4, <3>3 DEF Ordered, Tasks
      <4>2. T[s] = room[s] /\ room[s] = task[s]
        BY <1>5, <1>6, <1>8, <3>3
      <4> QED
        BY <4>1, <4>2
    <3> QED
      BY <3>1, <3>2, <3>3
  <2> QED
    BY <2>1, <2>2 DEF Ordered
<1>11. /\ R \in [Tasks -> Rows] /\ Ordered(R, t)
       /\ \A s \in Tasks :
            /\ Recorded(R[s]) /\ Waits(R, s) /\ R[s].start = T[s].start
            /\ T[s].mem = "none" => R[s] = T[s]
            /\ R[s].mem = "none" => T[s].mem = "none"
            /\ R[s].mem \in {"queued", "running"} => T[s].mem \in {"queued", "running"}
            /\ T[s].settled => R[s].settled
            /\ R[s].settled /\ ~T[s].settled => T[s].mem = "queued"
            /\ R[s].row = "RUNNING" => \/ T[s].row = "RUNNING"
                                       \/ \A d \in R[s].deps : R[d].row = "SUCCEEDED"
  BY <1>8, <1>9, <1>10, Pass
<1>12. Unsettled' = V /\ (Unfound' = {} => found /\ Unfound = {})
  <2>1. Unsettled' = V
    BY <1>3 DEF Unsettled, InMap
  <2>2. ~found => t \in Unfound'
    BY <1>3, <1>7, <1>8, <1>11 DEF Unfound
  <2>3. Unfound \subseteq Unfound'
    <3>1. \A s \in Unfound : s \in Tasks /\ s # t /\ task[s].start \in {"unlocked", "late"}
      BY <1>9, NoTaskIs DEF Unfound
    <3>2. \A s \in Tasks : s # t => R[s].start = task[s].start
      BY <1>9, <1>11
    <3> QED
      BY <1>3, <3>1, <3>2 DEF Unfound
  <2> QED
    BY <2>1, <2>2, <2>3
<1> HIDE DEF R, t
<1>13. badCloses = 0 /\ found /\ Unfound = {} =>
          /\ Cardinality(V) <= locks'
          /\ \A s \in Tasks : R[s].mem = "none" => R[s].settled \/ (R[s].child = "none" /\ s \notin cancel)
  <2> SUFFICES ASSUME badCloses = 0, found, Unfound = {}
               PROVE  /\ Cardinality(V) <= locks'
                      /\ \A s \in Tasks : R[s].mem = "none" => R[s].settled \/ (R[s].child = "none" /\ s \notin cancel)
    OBVIOUS
  <2>1. /\ Cardinality(Unsettled) <= locks
        /\ \A s \in Tasks : task[s].mem = "none" => task[s].settled \/ (task[s].child = "none" /\ s \notin cancel)
    BY <1>3 DEF TasksInv, LocksInv
  <2> DEFINE U == Unsettled \union {t}
  <2>2. U \subseteq Tasks /\ Cardinality(U) <= locks + 1
    <3>1. Unsettled \subseteq Tasks
      BY DEF Unsettled, InMap
    <3>2. IsFiniteSet(Unsettled) /\ Cardinality(Unsettled) \in Nat
      BY <3>1, TasksFinite
    <3>3. Cardinality(U) = IF t \in Unsettled THEN Cardinality(Unsettled) ELSE Cardinality(Unsettled) + 1
      BY <3>2, FS_AddElement
    <3> HIDE DEF U
    <3>4. Cardinality(U) <= locks + 1
      BY <1>4, <2>1, <3>2, <3>3
    <3> QED
      BY <1>3, <3>1, <3>4 DEF U
  <2>3. F \subseteq U
    <3> SUFFICES ASSUME NEW s \in Tasks, s # t, R[s].settled, ~task[s].settled PROVE task[s].mem # "none"
      BY DEF Unsettled, InMap
    <3> QED
      BY <1>9, <1>11
  <2>4. V \subseteq U \ F
    <3> SUFFICES ASSUME NEW s \in Tasks, s # t, R[s].mem # "none", ~R[s].settled
                 PROVE  task[s].mem # "none" /\ ~task[s].settled
      BY DEF Unsettled, InMap
    <3>1. T[s].mem # "none" /\ ~T[s].settled
      BY <1>11
    <3> QED
      BY <1>9, <3>1
  <2>5. Cardinality(V) <= (IF locks + 1 > Cardinality(F) THEN locks + 1 - Cardinality(F) ELSE 0)
    <3>1. PICK m \in Nat : m = locks + 1
      BY <1>4
    <3> HIDE DEF U, V, F
    <3>2. Cardinality(V) <= (IF m > Cardinality(F) THEN m - Cardinality(F) ELSE 0)
      BY <2>2, <2>3, <2>4, <3>1, LocksLeft
    <3>3. Cardinality(F) \in Nat /\ Cardinality(V) \in Nat
      BY <2>3, <2>4, <2>2, TasksFinite
    <3> QED
      BY <1>4, <3>1, <3>2, <3>3
  <2>6. locks' = IF locks + 1 > Cardinality(F) THEN locks + 1 - Cardinality(F) ELSE 0
    <3>1. Cardinality(F) \in Nat
      BY TasksFinite
    <3> HIDE DEF F
    <3>2. ws = "ACTIVE" /\ locks' = Without(locks + 1, Cardinality(F))
      BY <1>3
    <3> QED
      BY <1>4, <3>1, <3>2 DEF Without
  <2>7. \A s \in Tasks : R[s].mem = "none" => R[s].settled \/ (R[s].child = "none" /\ s \notin cancel)
    <3> SUFFICES ASSUME NEW s \in Tasks, R[s].mem = "none"
                 PROVE  R[s].settled \/ (R[s].child = "none" /\ s \notin cancel)
      OBVIOUS
    <3>1. R[s] = T[s] /\ T[s].mem = "none" /\ s # t
      BY <1>7, <1>8, <1>11
    <3>2. CASE task[s].mem = "none"
      BY <1>9, <2>1, <3>1, <3>2
    <3>3. CASE task[s].mem # "none"
      BY <1>9, <3>1, <3>3
    <3> QED
      BY <3>2, <3>3
  <2> QED
    BY <2>5, <2>6, <2>7
<1>14. TypeOK'
  <2>1. Cardinality(F) \in Nat
    BY TasksFinite
  <2>2. locks' \in Nat
    <3> HIDE DEF F
    <3> QED
      BY <1>3, <1>4, <2>1 DEF Without
  <2> QED
    BY <1>3, <1>11, <2>2 DEF TasksInv, TypeOK
<1>15. StopInv' /\ LocksInv'
  <2>1. \A s \in Tasks : R[s].mem # "none" => s = t \/ task[s].mem # "none"
    BY <1>9, <1>11
  <2>2. \A s \in Tasks : R[s].mem \in {"queued", "running"} => s = t \/ task[s].mem \in {"queued", "running"}
    BY <1>9, <1>11
  <2>3. \A s \in Tasks : R[s].start = IF s = t THEN x.start ELSE task[s].start
    BY <1>8, <1>9, <1>11
  <2>4. ws \in {"STOPPED", "CLOSED"} => \A s \in Tasks : R[s].mem # "none" => R[s].start = "late"
    BY <1>7, <2>1, <2>3 DEF TasksInv, StopInv, InMap
  <2>5. ws = "REAPING" => \A s \in Tasks : R[s].mem \in {"queued", "running"} => s \in stop.of \/ R[s].start = "late"
    BY <1>7, <2>2, <2>3 DEF TasksInv, StopInv, ToStop
  <2>6. StopInv'
    BY <1>3, <2>4, <2>5 DEF StopInv, InMap, ToStop
  <2>7. LocksInv'
    <3> SUFFICES ASSUME ws' \in {"ACTIVE", "EXPIRED"}, badCloses' = 0, Unfound' = {}
                 PROVE  /\ Cardinality(V) <= locks' /\ ws' # "EXPIRED"
                        /\ \A s \in Tasks : R[s].mem = "none" => R[s].settled \/ (R[s].child = "none" /\ s \notin cancel')
      BY <1>3, <1>12 DEF LocksInv
    <3> QED
      BY <1>3, <1>12, <1>13
  <2> QED
    BY <2>6, <2>7
<1>16. \A s \in cancel' : R[s].row # "NONE"
  <2>1. \A s \in cancel' : s \in Tasks /\ task[s].row # "NONE"
    BY <1>3 DEF TasksInv, TypeOK
  <2>2. \A s \in cancel' : T[s].row # "NONE"
    BY <1>9, <2>1 DEF NoTask
  <2> QED
    BY <1>10, <1>11, <2>1, <2>2, NoTaskIsRow DEF Ordered, NoTask
<1>17. TasksInv'
  BY <1>3, <1>10, <1>11, <1>14, <1>15, <1>16 DEF TasksInv
<1>18. RunsStep
  <2> SUFFICES ASSUME NEW s \in Tasks, task[s].row # "RUNNING", R[s].row = "RUNNING"
               PROVE  \A d \in R[s].deps : R[d].row = "SUCCEEDED"
    BY <1>3 DEF RunsStep
  <2>1. T[s].row # "RUNNING"
    BY <1>7, <1>8, <1>9
  <2> QED
    BY <1>11, <2>1
<1>19. NoExpiryStep
  BY <1>3 DEF NoExpiryStep
<1> QED
  BY <1>17, <1>18, <1>19 DEF Sound

-----------------------------------------------------------------------------
(* The theorems *)

LEMMA InitIsSound == Init => TasksInv
<1> SUFFICES ASSUME Init PROVE TasksInv
  OBVIOUS
<1>1. /\ task = [t \in Tasks |-> NoTask] /\ cancel = {} /\ stop = NoStop
      /\ locks = 0 /\ ws = "ACTIVE" /\ badCloses = 0
  BY DEF Init
<1>2. \A t \in Tasks : task[t] = NoTask
  BY <1>1
<1>3. TypeOK
  BY <1>1, NoTaskIsRow DEF TypeOK, NoStop
<1>4. 0 \in 0 .. MaxTasks /\ Ordered(task, 0)
  <2>1. MaxTasks \in Nat /\ \A t \in Tasks : ~(t <= 0)
    BY TasksAssumption DEF Tasks
  <2> QED
    BY <1>2, <2>1 DEF Ordered
<1>5. \A t \in Tasks : Recorded(task[t]) /\ Waits(task, t)
  BY <1>2, NoTaskIsRow DEF Waits
<1>6. Unsettled = {}
  BY <1>2, NoTaskIsRow DEF Unsettled, InMap
<1>7. LocksInv
  BY <1>1, <1>2, <1>6, NoTaskIs, FS_EmptySet DEF LocksInv
<1>8. StopInv
  BY <1>1 DEF StopInv
<1> QED
  BY <1>1, <1>3, <1>4, <1>5, <1>7, <1>8 DEF TasksInv

LEMMA StepIsSound ==
    ASSUME TasksInv, [Next]_vars
    PROVE  TasksInv' /\ [RunsStep]_vars /\ [NoExpiryStep]_vars
<1>1. ASSUME NEW found \in BOOLEAN, NEW D \in SUBSET Tasks, RunTask(found, D) PROVE Sound
  BY <1>1, RunTaskIsSound
<1>2. ASSUME NEW t \in Tasks, CancelQueued(t) PROVE Sound
  BY <1>2, CancelQueuedIsSound
<1>3. ASSUME NEW t \in Tasks, CancelRunning(t) PROVE Sound
  BY <1>3, CancelRunningIsSound
<1>4. ASSUME NEW t \in Tasks, Cancelled(t) PROVE Sound
  BY <1>4, CancelledIsSound
<1>5. ASSUME NEW t \in Tasks, CancelFails(t) PROVE Sound
  BY <1>5, CancelFailsIsSound
<1>6. ASSUME NEW t \in Tasks, Exit(t) PROVE Sound
  BY <1>6, ExitIsSound
<1>7. ASSUME NEW t \in Tasks, Close(t) PROVE Sound
  BY <1>7, CloseIsSound
<1>8. ASSUME NEW t \in Tasks, LogFails(t) PROVE Sound
  BY <1>8, LogFailsIsSound
<1>9. (StopBegin \/ StopFinish \/ CloseFails) => Sound
  BY StopBeginIsSound, StopFinishIsSound, CloseFailsIsSound
<1>10. (Closed \/ Expire \/ Recover \/ Restart) => Sound
  BY ClosedIsSound, ExpireIsSound, RecoverIsSound, RestartIsSound
<1>11. CASE UNCHANGED vars
  <2>1. UNCHANGED <<task, cancel, stop, locks, ws, badCloses>>
    BY <1>11 DEF vars, bounds
  <2>2. TypeOK' /\ StopInv' /\ LocksInv'
    BY <2>1 DEF TasksInv, TypeOK, StopInv, LocksInv, ToStop, InMap, Unsettled, Unfound
  <2> QED
    BY <1>11, <2>1, <2>2 DEF TasksInv
<1>12. CASE Next
  <2>1. Sound
    BY <1>1, <1>2, <1>3, <1>4, <1>5, <1>6, <1>7, <1>8, <1>9, <1>10, <1>12 DEF Next
  <2> QED
    BY <2>1 DEF Sound
<1> QED
  BY <1>11, <1>12

LEMMA Invariance == Spec => [](TasksInv) /\ [][RunsStep]_vars /\ [][NoExpiryStep]_vars
<1>1. Init => TasksInv
  BY InitIsSound
<1>2. TasksInv /\ [Next]_vars => TasksInv' /\ [RunsStep]_vars /\ [NoExpiryStep]_vars
  BY StepIsSound
<1> QED
  BY <1>1, <1>2, PTL DEF Spec

\* Whatever the requests, the children, the crashes and the closes do, a workspace that is stopped
\* has no row that says a task waits or runs, but those of tasks whose request had seen the workspace
\* ACTIVE and began only after the close had claimed it (stopWorkspace, reconcileRunningTasks).
THEOREM StoppedForGood == Spec => []StoppedIsFinal
<1>1. TasksInv => StoppedIsFinal
  <2> SUFFICES ASSUME TasksInv, ws \in {"STOPPED", "CLOSED"}, NEW t \in Tasks,
                      task[t].row \in {"QUEUED", "RUNNING"}
               PROVE  task[t].start = "late"
    BY DEF StoppedIsFinal
  <2>1. task[t].mem = "none" \/ task[t].start = "late"
    BY DEF TasksInv, StopInv, InMap
  <2> QED
    BY <2>1 DEF TasksInv, Recorded
<1> QED
  BY <1>1, Invariance, PTL

\* No task is left waiting for one that is over or forgotten, and none is said to run whose child is
\* gone (reconcileQueued, reserve, track).
THEOREM NoneIsForgotten == Spec => []NobodyForgotten
<1>1. TasksInv => NobodyForgotten
  BY DEF TasksInv, Waits, Recorded, NobodyForgotten
<1> QED
  BY <1>1, Invariance, PTL

\* What a task depends on has succeeded when it starts (reconcileQueued).
THEOREM StartsInOrder == Spec => RunsAfterDependencies
<1>1. RunsStep => \A t \in Tasks : task[t].row # "RUNNING" /\ task'[t].row = "RUNNING"
                      => \A d \in task'[t].deps : task'[d].row = "SUCCEEDED"
  BY DEF RunsStep
<1> QED
  BY <1>1, Invariance, PTL DEF RunsAfterDependencies

\* A workspace whose closes have not failed, and all of whose tasks found the record they lock, expires
\* only when every task in the map is over: each of them holds its lock until then (onTaskSettle,
\* claimForExpiry).
THEOREM ExpiresWhenIdle == Spec => NoExpiryUnderTask
<1>1. NoExpiryStep => (ws = "ACTIVE" /\ ws' = "EXPIRED" /\ badCloses = 0 /\ Unfound = {} => Unsettled = {})
  BY DEF NoExpiryStep
<1> QED
  BY <1>1, Invariance, PTL DEF NoExpiryUnderTask

=============================================================================
