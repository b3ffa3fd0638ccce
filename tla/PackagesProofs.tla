--------------------------- MODULE PackagesProofs ---------------------------
(***************************************************************************)
(* What Packages promises, for any number of plans, bindings, workspaces   *)
(* and launches, whatever goes wrong and however often.                    *)
(*                                                                         *)
(* The invariant has four parts.  PlansInv follows a plan from its         *)
(* resolution to the end of its apply and relates it to its binding.       *)
(* NoCollision is inductive given the types.  TreesInv relates the trees   *)
(* to the rows and to the passes that collect.  MountsInv relates what is  *)
(* mounted to the recorded profiles.                                       *)
(***************************************************************************)
EXTENDS Packages, TLAPS

Maybe == Plans \cup {None}
PlanRows == [status : {"NONE", "PENDING_APPROVAL", "APPROVED", "CONSUMED"}, id : Maybe, gen : Nat,
             base : Maybe, collides : BOOLEAN]
BindingRows == [id : Maybe, release : Maybe, gen : Nat, fence : Maybe]
Passes == [at : {"idle", "restore", "collect", "remove"}, todo : SUBSET Plans, of : Maybe]
LaunchRows == [w : Workspaces \cup {None}, at : {"idle", "profile", "create"}, mounts : SUBSET Plans]

Typed ==
    /\ plan \in [Plans -> PlanRows]
    /\ apply \in [Plans -> {"NONE", "SUCCEEDED", "FAILED"} \cup InFlight]
    /\ release \in [Plans -> {"NONE", "COLLECTED"} \cup Live]
    /\ binding \in [Keys -> BindingRows]
    /\ history \in [Keys -> Seq(Plans)]
    /\ profile \in [Workspaces -> SUBSET Plans]
    /\ retained \subseteq Workspaces
    /\ tree \in [Plans -> {"here", "away", "none"}]
    /\ job \in [Plans -> {"none", "waiting", "building", "publishing", "unmoving", "failing"}]
    /\ launch \in [Launches -> LaunchRows]
    /\ executor \in [Workspaces -> (SUBSET Plans) \cup {None}]
    /\ toolbox \in (SUBSET Plans) \cup {None}
    /\ sweep \in Passes /\ removal \in Passes

\* A plan is consumed by one apply, whose release is nobody's before it is published.
PlanInv(p) ==
    /\ plan[p].status # "CONSUMED" => job[p] = "none" /\ release[p] = "NONE"
    /\ job[p] # "none" => release[p] = "NONE"
    /\ plan[p].id = None => plan[p].gen = 0
    /\ plan[p].gen = 0 => plan[p].base = None
    /\ plan[p].id # None =>
          /\ plan[plan[p].id].status = "CONSUMED"
          /\ plan[p].id = binding[Of[p]].id =>
                /\ plan[p].gen <= binding[Of[p]].gen
                /\ plan[p].gen = binding[Of[p]].gen => plan[p].base = binding[Of[p]].release

\* A binding bears the id of the plan that created it, which none does twice.
BindingInv(k) ==
    /\ binding[k].id = None => binding[k].gen = 0 /\ binding[k].fence = None
    /\ binding[k].gen = 0 => binding[k].release = None
    /\ binding[k].id # None => plan[binding[k].id].status = "CONSUMED"
    /\ binding[k].fence # None =>
          /\ Of[binding[k].fence] = k
          /\ apply[binding[k].fence] \in InFlight
          /\ "database" \notin troubles => job[binding[k].fence] # "none"

\* What a fenced binding has is what the plan was made against, until its job fails.
FenceInv(p) ==
    job[p] \in {"waiting", "building", "publishing"} /\ binding[Of[p]].fence = p
        => plan[p].base = binding[Of[p]].release

PlansInv ==
    /\ \A p \in Plans : PlanInv(p) /\ FenceInv(p)
    /\ \A k \in Keys : BindingInv(k)

PassInv(pass) ==
    /\ pass.at # "remove" => pass.of = None
    /\ pass.at = "remove" => pass.of \in Plans /\ release[pass.of] = "COLLECTED"

TreesInv ==
    /\ TreesHaveRows
    /\ \A r \in Plans : tree[r] = "away" => "storage" \in troubles
    /\ PassInv(sweep) /\ PassInv(removal)

\* A launch that is under way is for a workspace, and mounts nothing before it has a profile.
LaunchInv ==
    \A l \in Launches : /\ launch[l].at # "idle" => launch[l].w \in Workspaces
                        /\ launch[l].at # "create" => launch[l].mounts = {}

\* An executor, and one about to be created, mounts no more than the profile of its workspace, and
\* nothing that is gone.
MountsOf(w) ==
    /\ executor[w] # None => executor[w] \subseteq profile[w] /\ \A r \in executor[w] : Kept(r)
    /\ \A l \in Launches : launch[l].w = w =>
          launch[l].mounts \subseteq profile[w] /\ \A r \in launch[l].mounts : Kept(r)

MountsInv ==
    /\ toolbox # None => \A r \in toolbox : Kept(r)
    /\ \A w \in retained \ tangled : MountsOf(w)
    /\ LaunchInv

PackagesInv == Typed /\ PlansInv /\ NoCollision /\ TreesInv /\ MountsInv

-----------------------------------------------------------------------------
(* Lemmas about values *)

LEMMA Put ==
    ASSUME NEW S, NEW T, NEW f \in [S -> T], NEW x \in S, NEW y \in T
    PROVE  /\ [f EXCEPT ![x] = y] \in [S -> T]
           /\ [f EXCEPT ![x] = y][x] = y
           /\ \A z \in S \ {x} : [f EXCEPT ![x] = y][z] = f[z]
OBVIOUS

LEMMA Values ==
    /\ \A p \in Plans : p # None /\ Of[p] \in Keys
    /\ \A w \in Workspaces : w # None
    /\ NoPlan \in PlanRows /\ NoBinding \in BindingRows /\ NoPass \in Passes /\ NoLaunch \in LaunchRows
    /\ NoPlan.status = "NONE" /\ NoPlan.id = None /\ NoPlan.gen = 0 /\ NoPlan.base = None
    /\ NoBinding.id = None /\ NoBinding.release = None /\ NoBinding.gen = 0 /\ NoBinding.fence = None
    /\ NoPass.at = "idle" /\ NoPass.of = None /\ NoPass.todo = {}
    /\ NoLaunch.w = None /\ NoLaunch.at = "idle" /\ NoLaunch.mounts = {}
BY PackagesAssumption DEF Keys, NoPlan, NoBinding, NoPass, NoLaunch, PlanRows, BindingRows, Passes, LaunchRows, Maybe

\* A look for releases mounts those that are present, and notes those that are not.
LEMMA Mounted ==
    ASSUME Typed, NEW w
    PROVE  /\ Mounts(w) \subseteq {r \in Plans : Present(r)}
           /\ FoundMissing(w) \in [Plans -> {"NONE", "COLLECTED"} \cup Live]
           /\ \A r \in Plans : FoundMissing(w)[r] = release[r] \/ (release[r] = "VERIFIED" /\ FoundMissing(w)[r] = "MISSING")
<1>1. /\ binding \in [Keys -> BindingRows] /\ release \in [Plans -> {"NONE", "COLLECTED"} \cup Live]
  BY DEF Typed
<1>2. Wanted(w) \subseteq Plans
  BY <1>1 DEF Wanted, Effective, Published, BindingRows, Maybe
<1>3. Mounts(w) \subseteq {r \in Plans : Present(r)}
  BY <1>2 DEF Mounts
<1>4. ASSUME NEW r \in Plans
      PROVE  /\ FoundMissing(w)[r] \in {"NONE", "COLLECTED"} \cup Live
             /\ FoundMissing(w)[r] = release[r] \/ (release[r] = "VERIFIED" /\ FoundMissing(w)[r] = "MISSING")
  BY <1>1 DEF FoundMissing, Live
<1>5. FoundMissing(w) \in [Plans -> {"NONE", "COLLECTED"} \cup Live]
  BY <1>4 DEF FoundMissing
<1> QED
  BY <1>3, <1>4, <1>5

LEMMA LatestIsHistory ==
    ASSUME Typed, NEW k \in Keys, NEW r \in Plans
    PROVE  Latest(k, r) \in Seq(Plans)
<1>1. history[k] \in Seq(Plans)
  BY DEF Typed
<1> DEFINE all == <<r>> \o history[k]
           n == IF Len(all) < HistoryDepth THEN Len(all) ELSE HistoryDepth
<1>2. all \in Seq(Plans) /\ Len(all) \in Nat
  BY <1>1
<1>3. n \in Nat /\ n <= Len(all)
  BY <1>2, PackagesAssumption
<1> HIDE DEF all, n
<1>4. SubSeq(all, 1, n) \in Seq(Plans)
  BY <1>2, <1>3
<1> QED
  BY <1>4 DEF Latest, all, n

-----------------------------------------------------------------------------
(* Plans, applies and bindings *)

\* What the plans, applies and bindings are not told of.
Aside == UNCHANGED <<history, profile, mounts, passes, tree>>

LEMMA AsideTyped ==
    ASSUME Typed, Aside,
           plan' \in [Plans -> PlanRows],
           apply' \in [Plans -> {"NONE", "SUCCEEDED", "FAILED"} \cup InFlight],
           release' \in [Plans -> {"NONE", "COLLECTED"} \cup Live],
           binding' \in [Keys -> BindingRows],
           job' \in [Plans -> {"none", "waiting", "building", "publishing", "unmoving", "failing"}]
    PROVE  Typed'
BY DEF Typed, Aside, mounts, passes

\* A plan that was not consumed yet is put in another state.
LEMMA PlanMoves ==
    ASSUME Typed, PlansInv, NEW p \in Plans, NEW q \in PlanRows,
           plan[p].status # "CONSUMED", q.status # "CONSUMED",
           q.id = None => q.gen = 0, q.gen = 0 => q.base = None,
           q.id # None => /\ plan[q.id].status = "CONSUMED"
                          /\ q.id = binding[Of[p]].id =>
                                /\ q.gen <= binding[Of[p]].gen
                                /\ q.gen = binding[Of[p]].gen => q.base = binding[Of[p]].release,
           plan' = [plan EXCEPT ![p] = q],
           UNCHANGED <<apply, release, binding, job, troubles>>
    PROVE  plan' \in [Plans -> PlanRows] /\ PlansInv'
<1>1. plan \in [Plans -> PlanRows] /\ binding \in [Keys -> BindingRows]
  BY DEF Typed
<1>2. plan' \in [Plans -> PlanRows] /\ plan'[p] = q /\ \A r \in Plans \ {p} : plan'[r] = plan[r]
  BY <1>1, Put
<1>3. ASSUME NEW r \in Plans, plan[r].status = "CONSUMED" PROVE plan'[r].status = "CONSUMED"
  BY <1>2, <1>3
<1>4. ASSUME NEW r \in Plans PROVE PlanInv(r)'
  <2>1. PlanInv(r) /\ plan[r] \in PlanRows
    BY <1>1 DEF PlansInv
  <2>2. CASE r = p
    <3>1. q.id # None => q.id \in Plans
      BY DEF PlanRows, Maybe
    <3> QED
      BY <1>2, <1>3, <2>1, <2>2, <3>1 DEF PlanInv
  <2>3. CASE r # p
    <3>1. plan[r].id # None => plan[r].id \in Plans
      BY <2>1 DEF PlanRows, Maybe
    <3> QED
      BY <1>2, <1>3, <2>1, <2>3, <3>1 DEF PlanInv
  <2> QED
    BY <2>2, <2>3
<1>5. ASSUME NEW r \in Plans PROVE FenceInv(r)'
  <2>1. FenceInv(r) /\ (r = p => job[r] = "none")
    BY DEF PlansInv, PlanInv
  <2> QED
    BY <1>2, <2>1 DEF FenceInv
<1>6. ASSUME NEW k \in Keys PROVE BindingInv(k)'
  <2>1. BindingInv(k) /\ (binding[k].id # None => binding[k].id \in Plans)
    BY <1>1 DEF PlansInv, BindingRows, Maybe
  <2> QED
    BY <1>3, <2>1 DEF BindingInv
<1> QED
  BY <1>2, <1>4, <1>5, <1>6 DEF PlansInv

LEMMA ResolveKeeps ==
    ASSUME Typed, PlansInv, NEW p \in Plans, Resolve(p)
    PROVE  Typed' /\ PlansInv'
<1> DEFINE k == Of[p]
           b == binding[k]
           status == IF p \in Reviewed THEN "PENDING_APPROVAL" ELSE "APPROVED"
           collides == Collides(k, Names[p])
           q == [status |-> status, id |-> b.id, gen |-> b.gen, base |-> b.release, collides |-> collides]
<1>1. /\ plan[p].status = "NONE" /\ plan' = [plan EXCEPT ![p] = q] /\ Aside
      /\ UNCHANGED <<apply, release, binding, job, troubles>>
  BY DEF Resolve, Aside
<1>2. b \in BindingRows /\ BindingInv(k) /\ status \in {"PENDING_APPROVAL", "APPROVED"} /\ collides \in BOOLEAN
  BY Values DEF Typed, PlansInv, Collides
<1>3. /\ q \in PlanRows /\ q.status = status /\ q.id = b.id /\ q.gen = b.gen /\ q.base = b.release
  <2> HIDE DEF k, b, status, collides
  <2> QED
    BY <1>2 DEF PlanRows, BindingRows
<1> HIDE DEF q
<1>4. plan' \in [Plans -> PlanRows] /\ PlansInv'
  <2>1. /\ q.status # "CONSUMED" /\ (q.id = None => q.gen = 0) /\ (q.gen = 0 => q.base = None)
        /\ q.id # None => plan[q.id].status = "CONSUMED"
    BY <1>2, <1>3 DEF BindingInv
  <2>2. /\ q.gen <= binding[Of[p]].gen
        /\ q.gen = binding[Of[p]].gen => q.base = binding[Of[p]].release
    BY <1>2, <1>3 DEF BindingRows
  <2> QED
    BY <1>1, <1>3, <2>1, <2>2, PlanMoves
<1> QED
  BY <1>1, <1>4, AsideTyped DEF Typed

LEMMA DecideKeeps ==
    ASSUME Typed, PlansInv, NEW p \in Plans, Decide(p)
    PROVE  Typed' /\ PlansInv'
<1>1. Aside /\ UNCHANGED <<apply, release, binding, job, troubles>>
  BY DEF Decide, Aside
<1>2. plan[p] \in PlanRows /\ PlanInv(p)
  BY DEF Typed, PlansInv
<1>3. CASE plan[p].status = "PENDING_APPROVAL" /\ plan' = [plan EXCEPT ![p] = [@ EXCEPT !.status = "APPROVED"]]
  <2> DEFINE q == [plan[p] EXCEPT !.status = "APPROVED"]
  <2>1. /\ q \in PlanRows /\ q.status = "APPROVED" /\ q.id = plan[p].id /\ q.gen = plan[p].gen
        /\ q.base = plan[p].base /\ plan' = [plan EXCEPT ![p] = q]
    BY <1>2, <1>3 DEF PlanRows
  <2> HIDE DEF q
  <2>2. /\ plan[p].status # "CONSUMED" /\ q.status # "CONSUMED"
        /\ q.id = None => q.gen = 0
        /\ q.gen = 0 => q.base = None
        /\ q.id # None => /\ plan[q.id].status = "CONSUMED"
                          /\ q.id = binding[Of[p]].id =>
                                /\ q.gen <= binding[Of[p]].gen
                                /\ q.gen = binding[Of[p]].gen => q.base = binding[Of[p]].release
    BY <1>2, <1>3, <2>1 DEF PlanInv
  <2>3. plan' \in [Plans -> PlanRows] /\ PlansInv'
    BY <1>1, <2>1, <2>2, PlanMoves
  <2> QED
    BY <1>1, <2>3, AsideTyped DEF Typed
<1>4. CASE /\ plan[p].status \in {"PENDING_APPROVAL", "APPROVED"}
           /\ plan' = [plan EXCEPT ![p] = NoPlan]
  BY <1>1, <1>4, Values, PlanMoves, AsideTyped DEF Typed
<1> QED
  BY <1>3, <1>4 DEF Decide

\* What concerns neither a plan nor a binding.
LEMMA PlansKeep ==
    ASSUME PlansInv, UNCHANGED <<plan, apply, binding, job>>, troubles \subseteq troubles',
           \A r \in Plans : release[r] = "NONE" => release'[r] = "NONE"
    PROVE  PlansInv'
<1>1. ASSUME NEW r \in Plans PROVE PlanInv(r)' /\ FenceInv(r)'
  BY DEF PlansInv, PlanInv, FenceInv
<1>2. ASSUME NEW k \in Keys PROVE BindingInv(k)'
  <2>1. BindingInv(k) /\ ("database" \notin troubles' => "database" \notin troubles)
    BY DEF PlansInv
  <2> QED
    BY <2>1 DEF BindingInv
<1> QED
  BY <1>1, <1>2 DEF PlansInv

LEMMA ApplyStartsKeeps ==
    ASSUME Typed, PlansInv, NEW p \in Plans, ApplyStarts(p)
    PROVE  Typed' /\ PlansInv'
<1> DEFINE k == Of[p]
           id == IF binding[k].id = None THEN p ELSE binding[k].id
<1>1. Aside /\ UNCHANGED <<release, troubles>>
  BY DEF ApplyStarts, Aside
<1>2. /\ plan \in [Plans -> PlanRows] /\ plan[p] \in PlanRows /\ binding \in [Keys -> BindingRows]
      /\ k \in Keys /\ binding[k] \in BindingRows /\ PlanInv(p) /\ BindingInv(k)
      /\ p # None /\ job \in [Plans -> {"none", "waiting", "building", "publishing", "unmoving", "failing"}]
      /\ apply \in [Plans -> {"NONE", "SUCCEEDED", "FAILED"} \cup InFlight]
      /\ release \in [Plans -> {"NONE", "COLLECTED"} \cup Live]
  BY Values DEF Typed, PlansInv
<1>3. CASE UNCHANGED <<plan, apply, binding, job>>
  <2>1. PlansInv'
    BY <1>1, <1>3, PlansKeep
  <2> QED
    BY <1>1, <1>2, <1>3, <2>1, AsideTyped
<1>4. CASE /\ plan[p].status = "APPROVED" /\ Current(p) /\ binding[k].fence = None
           /\ plan' = [plan EXCEPT ![p] = [@ EXCEPT !.status = "CONSUMED"]]
           /\ apply' = [apply EXCEPT ![p] = "QUEUED"]
           /\ binding' = [binding EXCEPT ![k] = [@ EXCEPT !.id = id, !.fence = p]]
           /\ job' = [job EXCEPT ![p] = "waiting"]
  <2> DEFINE q == [plan[p] EXCEPT !.status = "CONSUMED"]
             b == [binding[k] EXCEPT !.id = id, !.fence = p]
  <2>1. /\ q \in PlanRows /\ q.status = "CONSUMED" /\ q.id = plan[p].id /\ q.gen = plan[p].gen
        /\ q.base = plan[p].base /\ plan' = [plan EXCEPT ![p] = q]
    BY <1>2, <1>4 DEF PlanRows
  <2>2. id \in Plans /\ id # None
    BY <1>2, Values DEF BindingRows, Maybe
  <2>3. binding' = [binding EXCEPT ![k] = b]
    BY <1>4
  <2>4. /\ b \in BindingRows /\ b.fence = p /\ b.id = id /\ b.gen = binding[k].gen
        /\ b.release = binding[k].release
    <3> HIDE DEF id
    <3> QED
      BY <1>2, <2>2 DEF BindingRows, Maybe
  <2> HIDE DEF q, b
  <2>5. plan' \in [Plans -> PlanRows] /\ plan'[p] = q /\ \A r \in Plans \ {p} : plan'[r] = plan[r]
    BY <1>2, <2>1, Put
  <2>6. binding' \in [Keys -> BindingRows] /\ binding'[k] = b /\ \A j \in Keys \ {k} : binding'[j] = binding[j]
    BY <1>2, <2>3, <2>4, Put
  <2>7. /\ job' \in [Plans -> {"none", "waiting", "building", "publishing", "unmoving", "failing"}]
        /\ job'[p] = "waiting" /\ \A r \in Plans \ {p} : job'[r] = job[r]
    BY <1>2, <1>4
  <2>8. /\ apply' \in [Plans -> {"NONE", "SUCCEEDED", "FAILED"} \cup InFlight]
        /\ apply'[p] = "QUEUED" /\ \A r \in Plans \ {p} : apply'[r] = apply[r]
    BY <1>2, <1>4 DEF InFlight
  <2>9. \A r \in Plans : plan[r].status = "CONSUMED" => plan'[r].status = "CONSUMED"
    BY <2>1, <2>5
  <2>10. \A r \in Plans : plan[r].id # p
    <3> SUFFICES ASSUME NEW r \in Plans PROVE plan[r].id # p
      OBVIOUS
    <3>1. PlanInv(r)
      BY DEF PlansInv
    <3> QED
      BY <1>2, <1>4, <3>1 DEF PlanInv
  <2>11. ASSUME NEW r \in Plans PROVE PlanInv(r)'
    <3>1. /\ PlanInv(r) /\ plan[r] \in PlanRows /\ Of[r] \in Keys
          /\ plan'[r].id = plan[r].id /\ plan'[r].gen = plan[r].gen /\ plan'[r].base = plan[r].base
          /\ plan[r].id # None => plan[r].id \in Plans
      BY <1>2, <2>1, <2>5, Values DEF PlansInv, PlanRows, Maybe
    <3>2. /\ plan'[r].status # "CONSUMED" => job'[r] = "none" /\ release'[r] = "NONE"
          /\ job'[r] # "none" => release'[r] = "NONE"
      BY <1>1, <1>2, <1>4, <2>1, <2>5, <2>7, <3>1 DEF PlanInv
    <3>3. plan[r].id # None /\ plan[r].id = binding'[Of[r]].id =>
             /\ plan[r].gen <= binding'[Of[r]].gen
             /\ plan[r].gen = binding'[Of[r]].gen => plan[r].base = binding'[Of[r]].release
      BY <2>4, <2>6, <2>10, <3>1 DEF PlanInv
    <3> QED
      BY <2>9, <3>1, <3>2, <3>3 DEF PlanInv
  <2>12. ASSUME NEW r \in Plans PROVE FenceInv(r)'
    <3>1. FenceInv(r) /\ Of[r] \in Keys
      BY Values DEF PlansInv
    <3>2. plan[p].base = binding[k].release
      BY <1>2, <1>4 DEF Current, PlanInv, BindingInv
    <3> QED
      BY <2>1, <2>4, <2>5, <2>6, <2>7, <3>1, <3>2 DEF FenceInv
  <2>13. ASSUME NEW j \in Keys PROVE BindingInv(j)'
    <3>1. BindingInv(j) /\ binding[j] \in BindingRows
      BY <1>2 DEF PlansInv
    <3>2. CASE j = k
      <4>1. plan'[id].status = "CONSUMED"
        BY <1>2, <2>1, <2>2, <2>5, <2>9 DEF BindingInv
      <4> HIDE DEF id
      <4> QED
        BY <1>2, <2>2, <2>4, <2>6, <2>7, <2>8, <3>2, <4>1 DEF BindingInv, InFlight
    <3>3. CASE j # k
      <4>1. binding[j].fence # None => binding[j].fence \in Plans \ {p}
        BY <3>1, <3>3 DEF BindingInv, BindingRows, Maybe
      <4>2. binding[j].id # None => plan'[binding[j].id].status = "CONSUMED"
        BY <2>9, <3>1 DEF BindingInv, BindingRows, Maybe
      <4> QED
        BY <1>1, <2>6, <2>7, <2>8, <3>1, <3>3, <4>1, <4>2 DEF BindingInv
    <3> QED
      BY <3>2, <3>3
  <2>14. PlansInv'
    BY <2>11, <2>12, <2>13 DEF PlansInv
  <2> QED
    BY <1>1, <1>2, <2>5, <2>6, <2>7, <2>8, <2>14, AsideTyped
<1> QED
  BY <1>3, <1>4 DEF ApplyStarts

\* A job goes on: it builds or publishes what it was made for, or fails.
LEMMA JobMoves ==
    ASSUME Typed, PlansInv, NEW p \in Plans, job[p] # "none",
           NEW at \in {"waiting", "building", "publishing", "unmoving", "failing"},
           at \in {"building", "publishing"} => job[p] \in {"waiting", "building"}, at # "waiting",
           job' = [job EXCEPT ![p] = at],
           NEW state \in InFlight, apply' = apply \/ apply' = [apply EXCEPT ![p] = state],
           UNCHANGED <<plan, binding, release>>, troubles \subseteq troubles'
    PROVE  /\ apply' \in [Plans -> {"NONE", "SUCCEEDED", "FAILED"} \cup InFlight]
           /\ job' \in [Plans -> {"none", "waiting", "building", "publishing", "unmoving", "failing"}]
           /\ PlansInv'
<1>1. /\ apply \in [Plans -> {"NONE", "SUCCEEDED", "FAILED"} \cup InFlight]
      /\ job \in [Plans -> {"none", "waiting", "building", "publishing", "unmoving", "failing"}]
      /\ binding \in [Keys -> BindingRows]
  BY DEF Typed
<1>2. /\ apply' \in [Plans -> {"NONE", "SUCCEEDED", "FAILED"} \cup InFlight]
      /\ \A r \in Plans : apply'[r] = apply[r] \/ (r = p /\ apply'[r] = state)
  BY <1>1
<1>3. /\ job' \in [Plans -> {"none", "waiting", "building", "publishing", "unmoving", "failing"}]
      /\ job'[p] = at /\ \A r \in Plans \ {p} : job'[r] = job[r]
  BY <1>1
<1>4. ASSUME NEW r \in Plans PROVE PlanInv(r)' /\ FenceInv(r)'
  <2>1. PlanInv(r) /\ FenceInv(r)
    BY DEF PlansInv
  <2>2. PlanInv(r)'
    BY <1>3, <2>1 DEF PlanInv
  <2>3. FenceInv(r)'
    BY <1>3, <2>1 DEF FenceInv
  <2> QED
    BY <2>2, <2>3
<1>5. ASSUME NEW k \in Keys PROVE BindingInv(k)'
  <2>1. /\ BindingInv(k) /\ ("database" \notin troubles' => "database" \notin troubles)
        /\ binding[k].fence # None => binding[k].fence \in Plans
    BY <1>1 DEF PlansInv, BindingRows, Maybe
  <2>2. binding[k].fence # None =>
          /\ apply'[binding[k].fence] \in InFlight
          /\ "database" \notin troubles' => job'[binding[k].fence] # "none"
    BY <1>2, <1>3, <2>1 DEF BindingInv
  <2>3. /\ binding'[k].id = None => binding'[k].gen = 0 /\ binding'[k].fence = None
        /\ binding'[k].gen = 0 => binding'[k].release = None
        /\ binding'[k].id # None => plan'[binding'[k].id].status = "CONSUMED"
        /\ binding'[k].fence # None => Of[binding'[k].fence] = k
    BY <2>1 DEF BindingInv
  <2> QED
    BY <2>2, <2>3 DEF BindingInv
<1> QED
  BY <1>2, <1>3, <1>4, <1>5 DEF PlansInv

LEMMA BuildsKeep ==
    ASSUME Typed, PlansInv, NEW p \in Plans, BuildBegins(p) \/ BuildEnds(p) \/ Unmoves(p)
    PROVE  Typed' /\ PlansInv'
<1>1. tree \in [Plans -> {"here", "away", "none"}]
  BY DEF Typed
<1>2. CASE BuildBegins(p)
  <2>1. /\ job[p] = "waiting" /\ job' = [job EXCEPT ![p] = "building"]
        /\ apply' = [apply EXCEPT ![p] = "BUILDING"] /\ Aside /\ UNCHANGED <<plan, binding, release, troubles>>
    BY <1>2 DEF BuildBegins, JobGoes, Aside
  <2>2. "BUILDING" \in InFlight
    BY DEF InFlight
  <2>3. /\ apply' \in [Plans -> {"NONE", "SUCCEEDED", "FAILED"} \cup InFlight]
        /\ job' \in [Plans -> {"none", "waiting", "building", "publishing", "unmoving", "failing"}]
        /\ PlansInv'
    BY <2>1, <2>2, JobMoves
  <2> QED
    BY <2>1, <2>3, AsideTyped DEF Typed
<1>3. CASE BuildEnds(p)
  <2>1. /\ job[p] = "building" /\ UNCHANGED <<plan, binding, release, history, profile, mounts, passes>>
        /\ troubles \subseteq troubles'
        /\ \/ job' = [job EXCEPT ![p] = "publishing"] /\ apply' = [apply EXCEPT ![p] = "PUBLISHING"]
           \/ job' = [job EXCEPT ![p] = "failing"] /\ apply' = apply
        /\ tree' = tree \/ tree' = [tree EXCEPT ![p] = "here"]
    BY <1>3 DEF BuildEnds, JobGoes, Trouble
  <2>2. "PUBLISHING" \in InFlight
    BY DEF InFlight
  <2>3. /\ apply' \in [Plans -> {"NONE", "SUCCEEDED", "FAILED"} \cup InFlight]
        /\ job' \in [Plans -> {"none", "waiting", "building", "publishing", "unmoving", "failing"}]
        /\ PlansInv'
    BY <2>1, <2>2, JobMoves
  <2>4. tree' \in [Plans -> {"here", "away", "none"}]
    BY <1>1, <2>1
  <2> QED
    BY <2>1, <2>3, <2>4 DEF Typed, mounts, passes
<1>4. CASE Unmoves(p)
  <2>1. /\ job[p] = "unmoving" /\ UNCHANGED <<plan, apply, binding, release, history, profile, mounts, passes>>
        /\ troubles \subseteq troubles' /\ job' = [job EXCEPT ![p] = "failing"]
        /\ tree' = tree \/ tree' = [tree EXCEPT ![p] = "none"]
    BY <1>4 DEF Unmoves, JobGoes, Trouble, database
  <2>2. "PUBLISHING" \in InFlight
    BY DEF InFlight
  <2>3. /\ apply' \in [Plans -> {"NONE", "SUCCEEDED", "FAILED"} \cup InFlight]
        /\ job' \in [Plans -> {"none", "waiting", "building", "publishing", "unmoving", "failing"}]
        /\ PlansInv'
    BY <2>1, <2>2, JobMoves
  <2>4. tree' \in [Plans -> {"here", "away", "none"}]
    BY <1>1, <2>1
  <2> QED
    BY <2>1, <2>3, <2>4 DEF Typed, mounts, passes
<1> QED
  BY <1>2, <1>3, <1>4

\* A plan that has nothing to do any more.
Spent(row) == row.status = "CONSUMED" /\ row.id = None /\ row.gen = 0 /\ row.base = None

\* Applies end, bindings move on, go or lose their fence.
LEMMA PlansStep ==
    ASSUME Typed, PlansInv, binding' \in [Keys -> BindingRows], troubles \subseteq troubles',
           \A p \in Plans : plan'[p] = plan[p] \/ (Spent(plan'[p]) /\ job'[p] = "none"),
           \A p \in Plans : job'[p] = job[p] \/ job'[p] = "none" \/ (job[p] # "none" /\ job'[p] = "unmoving"),
           \A p \in Plans : release[p] = "NONE" /\ release'[p] # "NONE"
                               => plan'[p].status = "CONSUMED" /\ job'[p] = "none",
           \A k \in Keys :
              \/ binding'[k] = NoBinding
              \/ /\ binding'[k].id = binding[k].id
                 /\ \/ /\ binding'[k].id # None /\ binding'[k].fence = None
                       /\ binding'[k].gen > binding[k].gen
                    \/ /\ binding'[k].gen = binding[k].gen /\ binding'[k].release = binding[k].release
                       /\ binding'[k].fence \in {binding[k].fence, None},
           \A k \in Keys : binding'[k].fence # None =>
              /\ apply'[binding[k].fence] = apply[binding[k].fence]
              /\ "database" \notin troubles' /\ job[binding[k].fence] # "none" => job'[binding[k].fence] # "none"
    PROVE  PlansInv'
<1>1. plan \in [Plans -> PlanRows] /\ binding \in [Keys -> BindingRows]
  BY DEF Typed
<1>2. \A p \in Plans : plan[p].status = "CONSUMED" => plan'[p].status = "CONSUMED"
  BY DEF Spent
<1>3. ASSUME NEW p \in Plans PROVE PlanInv(p)'
  <2>1. PlanInv(p) /\ plan[p] \in PlanRows /\ Of[p] \in Keys
    BY <1>1, Values DEF PlansInv
  <2>2. /\ plan'[p].status # "CONSUMED" => job'[p] = "none" /\ release'[p] = "NONE"
        /\ job'[p] # "none" => release'[p] = "NONE"
    BY <2>1 DEF PlanInv, Spent
  <2>3. CASE plan'[p] = plan[p]
    <3>1. plan[p].id # None => plan[p].id \in Plans
      BY <2>1 DEF PlanRows, Maybe
    <3>2. plan[p].id # None /\ plan[p].id = binding'[Of[p]].id =>
             /\ plan[p].gen <= binding'[Of[p]].gen
             /\ plan[p].gen = binding'[Of[p]].gen => plan[p].base = binding'[Of[p]].release
      <4> DEFINE b == binding[Of[p]]
                 c == binding'[Of[p]]
      <4>1. plan[p].gen \in Nat /\ b.gen \in Nat /\ c.gen \in Nat
        BY <1>1, <2>1 DEF PlanRows, BindingRows
      <4>2. plan[p].id # None /\ plan[p].id = c.id => c.id = b.id
        BY <2>1, Values
      <4>3. plan[p].id # None /\ plan[p].id = b.id =>
              plan[p].gen <= b.gen /\ (plan[p].gen = b.gen => plan[p].base = b.release)
        BY <2>1 DEF PlanInv
      <4>4. plan[p].id # None /\ plan[p].id = c.id => c.gen > b.gen \/ (c.gen = b.gen /\ c.release = b.release)
        BY <2>1, Values
      <4> HIDE DEF b, c
      <4>5. plan[p].id # None /\ plan[p].id = c.id =>
              plan[p].gen <= c.gen /\ (plan[p].gen = c.gen => plan[p].base = c.release)
        BY <4>1, <4>2, <4>3, <4>4
      <4> QED
        BY <4>5 DEF c
    <3> QED
      BY <1>2, <2>1, <2>2, <2>3, <3>1, <3>2 DEF PlanInv
  <2>4. CASE Spent(plan'[p])
    BY <2>2, <2>4 DEF PlanInv, Spent
  <2> QED
    BY <2>3, <2>4
<1>4. ASSUME NEW p \in Plans PROVE FenceInv(p)'
  <2>1. FenceInv(p) /\ p # None /\ Of[p] \in Keys
    BY Values DEF PlansInv
  <2>2. SUFFICES ASSUME job'[p] \in {"waiting", "building", "publishing"}, binding'[Of[p]].fence = p
                 PROVE  plan'[p].base = binding'[Of[p]].release
    BY DEF FenceInv
  <2>3. job[p] = job'[p] /\ plan'[p] = plan[p]
    BY <2>2
  <2>4. binding[Of[p]].fence = p /\ binding'[Of[p]].release = binding[Of[p]].release
    BY <2>1, <2>2, Values
  <2> QED
    BY <2>1, <2>2, <2>3, <2>4 DEF FenceInv
<1>5. ASSUME NEW k \in Keys PROVE BindingInv(k)'
  <2>1. BindingInv(k) /\ binding[k] \in BindingRows /\ binding'[k] \in BindingRows
    BY <1>1 DEF PlansInv
  <2>2. CASE binding'[k] = NoBinding
    BY <2>2, Values DEF BindingInv
  <2>3. CASE binding'[k].id = binding[k].id /\ binding'[k] # NoBinding
    <3>1. binding'[k].id # None => plan'[binding'[k].id].status = "CONSUMED"
      BY <1>2, <2>1, <2>3 DEF BindingInv, BindingRows, Maybe
    <3>2. binding'[k].fence # None => binding'[k].fence = binding[k].fence /\ binding[k].fence # None
      BY <2>3
    <3>3. binding'[k].fence # None =>
             /\ Of[binding'[k].fence] = k
             /\ apply'[binding'[k].fence] \in InFlight
             /\ "database" \notin troubles' => job'[binding'[k].fence] # "none"
      <4>1. binding[k].fence # None =>
              /\ Of[binding[k].fence] = k /\ apply[binding[k].fence] \in InFlight
              /\ "database" \notin troubles => job[binding[k].fence] # "none"
        BY <2>1 DEF BindingInv
      <4>2. "database" \notin troubles' => "database" \notin troubles
        OBVIOUS
      <4> QED
        BY <3>2, <4>1, <4>2
    <3>4. /\ binding'[k].id = None => binding'[k].gen = 0 /\ binding'[k].fence = None
          /\ binding'[k].gen = 0 => binding'[k].release = None
      <4>1. /\ binding[k].id = None => binding[k].gen = 0 /\ binding[k].fence = None
            /\ binding[k].gen = 0 => binding[k].release = None
            /\ binding[k].gen \in Nat /\ binding'[k].gen \in Nat
        BY <2>1 DEF BindingInv, BindingRows
      <4>2. \/ binding'[k].id # None /\ binding'[k].gen > binding[k].gen
            \/ /\ binding'[k].gen = binding[k].gen /\ binding'[k].release = binding[k].release
               /\ binding'[k].fence \in {binding[k].fence, None}
        BY <2>3
      <4> QED
        BY <2>3, <4>1, <4>2
    <3> QED
      BY <3>1, <3>3, <3>4 DEF BindingInv
  <2> QED
    BY <2>2, <2>3
<1> QED
  BY <1>3, <1>4, <1>5 DEF PlansInv

LEMMA OverIsSpent ==
    ASSUME Typed, NEW p \in Plans, Over(p)
    PROVE  /\ plan' \in [Plans -> PlanRows] /\ Spent(plan'[p])
           /\ \A r \in Plans \ {p} : plan'[r] = plan[r]
<1> DEFINE q == [NoPlan EXCEPT !.status = "CONSUMED"]
<1>1. q \in PlanRows /\ q.status = "CONSUMED" /\ q.id = None /\ q.gen = 0 /\ q.base = None
  BY Values DEF NoPlan, PlanRows
<1> HIDE DEF q
<1>2. plan' = [plan EXCEPT ![p] = q] /\ plan \in [Plans -> PlanRows]
  BY DEF Over, q, Typed
<1> QED
  BY <1>1, <1>2 DEF Spent

LEMMA PublishesKeep ==
    ASSUME Typed, PlansInv, NEW p \in Plans, Publishes(p)
    PROVE  Typed' /\ PlansInv'
<1> DEFINE k == Of[p]
<1>1. /\ job[p] = "publishing" /\ UNCHANGED <<profile, mounts, passes, tree>>
      /\ k \in Keys /\ p # None /\ troubles \subseteq troubles'
  BY Values DEF Publishes, Trouble
<1>2. CASE /\ MayPublish(p) /\ Over(p)
           /\ release' = [release EXCEPT ![p] = "VERIFIED"]
           /\ binding' = [binding EXCEPT ![k] = [@ EXCEPT !.release = p, !.gen = binding[k].gen + 1, !.fence = None]]
           /\ history' = [history EXCEPT ![k] = Latest(k, p)]
           /\ apply' = [apply EXCEPT ![p] = "SUCCEEDED"] /\ job' = [job EXCEPT ![p] = "none"]
  <2> DEFINE b == [binding[k] EXCEPT !.release = p, !.gen = binding[k].gen + 1, !.fence = None]
  <2>1. binding[k] \in BindingRows /\ binding[k].fence = p /\ BindingInv(k) /\ binding' = [binding EXCEPT ![k] = b]
    BY <1>1, <1>2 DEF Typed, PlansInv, MayPublish
  <2>2. /\ b \in BindingRows /\ b.id = binding[k].id /\ b.release = p
        /\ b.gen > binding[k].gen /\ b.fence = None /\ b.id # None
    <3>1. binding[k].id # None
      BY <1>1, <2>1 DEF BindingInv
    <3> DEFINE gen == binding[k].gen + 1
    <3>2. binding[k].gen \in Nat /\ gen \in Nat /\ gen > binding[k].gen /\ p \in Maybe
      BY <2>1 DEF BindingRows, Maybe
    <3> HIDE DEF k, gen
    <3>3. b = [binding[k] EXCEPT !.release = p, !.gen = gen, !.fence = None]
      BY DEF gen
    <3> HIDE DEF b
    <3> QED
      BY <2>1, <3>1, <3>2, <3>3 DEF BindingRows, Maybe
  <2> HIDE DEF b
  <2>3. /\ binding' \in [Keys -> BindingRows] /\ binding'[k] = b
        /\ \A j \in Keys \ {k} : binding'[j] = binding[j]
    BY <1>1, <2>1, <2>2, Put DEF Typed
  <2>4. /\ plan' \in [Plans -> PlanRows] /\ Spent(plan'[p]) /\ \A r \in Plans \ {p} : plan'[r] = plan[r]
    BY <1>2, OverIsSpent
  <2>5. /\ job' \in [Plans -> {"none", "waiting", "building", "publishing", "unmoving", "failing"}]
        /\ job'[p] = "none" /\ \A r \in Plans \ {p} : job'[r] = job[r]
    BY <1>2 DEF Typed
  <2>6. /\ release' \in [Plans -> {"NONE", "COLLECTED"} \cup Live] /\ \A r \in Plans \ {p} : release'[r] = release[r]
    BY <1>2 DEF Typed, Live
  <2>7. /\ apply' \in [Plans -> {"NONE", "SUCCEEDED", "FAILED"} \cup InFlight]
        /\ \A r \in Plans \ {p} : apply'[r] = apply[r]
    BY <1>2 DEF Typed
  <2>8. history' \in [Keys -> Seq(Plans)]
    BY <1>1, <1>2, LatestIsHistory, Put DEF Typed
  <2>9. \A j \in Keys \ {k} : binding[j].fence # None => binding[j].fence \in Plans \ {p}
    BY <1>1 DEF Typed, PlansInv, BindingInv, BindingRows, Maybe
  <2>10. PlansInv'
    <3>1. \A r \in Plans : plan'[r] = plan[r] \/ (Spent(plan'[r]) /\ job'[r] = "none")
      BY <2>4, <2>5
    <3>2. \A r \in Plans : job'[r] = job[r] \/ job'[r] = "none" \/ (job[r] # "none" /\ job'[r] = "unmoving")
      BY <2>5
    <3>3. \A r \in Plans : release[r] = "NONE" /\ release'[r] # "NONE"
                               => plan'[r].status = "CONSUMED" /\ job'[r] = "none"
      BY <2>4, <2>5, <2>6 DEF Spent
    <3>4. \A j \in Keys :
              \/ binding'[j] = NoBinding
              \/ /\ binding'[j].id = binding[j].id
                 /\ \/ /\ binding'[j].id # None /\ binding'[j].fence = None
                       /\ binding'[j].gen > binding[j].gen
                    \/ /\ binding'[j].gen = binding[j].gen /\ binding'[j].release = binding[j].release
                       /\ binding'[j].fence \in {binding[j].fence, None}
      BY <2>2, <2>3
    <3>5. \A j \in Keys : binding'[j].fence # None =>
              /\ apply'[binding[j].fence] = apply[binding[j].fence]
              /\ "database" \notin troubles' /\ job[binding[j].fence] # "none" => job'[binding[j].fence] # "none"
      BY <2>2, <2>3, <2>5, <2>7, <2>9
    <3> QED
      BY <1>1, <2>3, <3>1, <3>2, <3>3, <3>4, <3>5, PlansStep
  <2> QED
    BY <1>1, <2>3, <2>4, <2>5, <2>6, <2>7, <2>8, <2>10 DEF Typed, mounts, passes
<1>3. CASE UNCHANGED <<plan, release, binding, history, apply>> /\ job' = [job EXCEPT ![p] = "unmoving"]
  <2>1. "PUBLISHING" \in InFlight
    BY DEF InFlight
  <2>2. /\ job' \in [Plans -> {"none", "waiting", "building", "publishing", "unmoving", "failing"}] /\ PlansInv'
    BY <1>1, <1>3, <2>1, JobMoves
  <2> QED
    BY <1>1, <1>3, <2>2 DEF Typed, mounts, passes
<1> QED
  BY <1>2, <1>3 DEF Publishes, JobGoes

LEMMA RecordsFailureKeeps ==
    ASSUME Typed, PlansInv, NEW p \in Plans, RecordsFailure(p)
    PROVE  Typed' /\ PlansInv'
<1> DEFINE k == Of[p]
<1>1. /\ job[p] = "failing" /\ job' = [job EXCEPT ![p] = "none"] /\ Over(p) /\ Aside /\ release' = release
      /\ troubles \subseteq troubles' /\ k \in Keys /\ p # None /\ binding[k] \in BindingRows
  BY Values DEF RecordsFailure, JobGoes, Aside, Trouble, Typed
<1>2. /\ plan' \in [Plans -> PlanRows] /\ Spent(plan'[p]) /\ \A r \in Plans \ {p} : plan'[r] = plan[r]
  BY <1>1, OverIsSpent
<1>3. /\ job' \in [Plans -> {"none", "waiting", "building", "publishing", "unmoving", "failing"}]
      /\ job'[p] = "none" /\ \A r \in Plans \ {p} : job'[r] = job[r]
  BY <1>1 DEF Typed
<1>4. ASSUME binding' \in [Keys -> BindingRows],
             apply' \in [Plans -> {"NONE", "SUCCEEDED", "FAILED"} \cup InFlight],
             \A j \in Keys : \/ binding'[j] = binding[j]
                             \/ /\ binding'[j].id = binding[j].id /\ binding'[j].gen = binding[j].gen
                                /\ binding'[j].release = binding[j].release /\ binding'[j].fence = None,
             \A j \in Keys : binding'[j].fence # None =>
                /\ apply'[binding[j].fence] = apply[binding[j].fence]
                /\ "database" \notin troubles' /\ job[binding[j].fence] # "none" => job'[binding[j].fence] # "none"
      PROVE  Typed' /\ PlansInv'
  <2>1. \A r \in Plans : plan'[r] = plan[r] \/ (Spent(plan'[r]) /\ job'[r] = "none")
    BY <1>2, <1>3
  <2>2. \A r \in Plans : job'[r] = job[r] \/ job'[r] = "none" \/ (job[r] # "none" /\ job'[r] = "unmoving")
    BY <1>3
  <2>3. \A j \in Keys :
              \/ binding'[j] = NoBinding
              \/ /\ binding'[j].id = binding[j].id
                 /\ \/ /\ binding'[j].id # None /\ binding'[j].fence = None
                       /\ binding'[j].gen > binding[j].gen
                    \/ /\ binding'[j].gen = binding[j].gen /\ binding'[j].release = binding[j].release
                       /\ binding'[j].fence \in {binding[j].fence, None}
    BY <1>4
  <2>4. \A r \in Plans : release[r] = "NONE" /\ release'[r] # "NONE"
                               => plan'[r].status = "CONSUMED" /\ job'[r] = "none"
    BY <1>1
  <2>5. PlansInv'
    BY <1>1, <1>4, <2>1, <2>2, <2>3, <2>4, PlansStep
  <2> QED
    BY <1>1, <1>2, <1>3, <1>4, <2>5, AsideTyped DEF Typed
<1>5. CASE /\ apply' = [apply EXCEPT ![p] = "FAILED"]
           /\ binding' = [binding EXCEPT ![k] = Unfenced(@, {p})]
  <2> DEFINE b == Unfenced(binding[k], {p})
  <2>1. /\ b \in BindingRows /\ b.id = binding[k].id /\ b.gen = binding[k].gen /\ b.release = binding[k].release
        /\ (b.fence = None \/ b = binding[k]) /\ b.fence # p
    BY <1>1 DEF Unfenced, BindingRows, Maybe
  <2>2. binding' = [binding EXCEPT ![k] = b]
    BY <1>5
  <2> HIDE DEF b
  <2>3. /\ binding' \in [Keys -> BindingRows] /\ binding'[k] = b
        /\ \A j \in Keys \ {k} : binding'[j] = binding[j]
    BY <1>1, <2>1, <2>2, Put DEF Typed
  <2>4. \A j \in Keys : binding'[j].fence # None => binding[j].fence \in Plans \ {p}
    <3>1. \A j \in Keys : binding[j].fence # None => binding[j].fence \in Plans /\ Of[binding[j].fence] = j
      BY DEF Typed, PlansInv, BindingInv, BindingRows, Maybe
    <3> QED
      BY <2>1, <2>3, <3>1
  <2>5. /\ apply' \in [Plans -> {"NONE", "SUCCEEDED", "FAILED"} \cup InFlight]
        /\ \A r \in Plans \ {p} : apply'[r] = apply[r]
    BY <1>5 DEF Typed
  <2>6. \A j \in Keys : \/ binding'[j] = binding[j]
                        \/ /\ binding'[j].id = binding[j].id /\ binding'[j].gen = binding[j].gen
                           /\ binding'[j].release = binding[j].release /\ binding'[j].fence = None
    BY <2>1, <2>3
  <2>7. \A j \in Keys : binding'[j].fence # None =>
                /\ apply'[binding[j].fence] = apply[binding[j].fence]
                /\ "database" \notin troubles' /\ job[binding[j].fence] # "none" => job'[binding[j].fence] # "none"
    BY <1>3, <2>4, <2>5
  <2> QED
    BY <1>4, <2>3, <2>5, <2>6, <2>7
<1>6. CASE "database" \in troubles' /\ UNCHANGED <<apply, binding>>
  BY <1>4, <1>6 DEF Typed
<1> QED
  BY <1>5, <1>6 DEF RecordsFailure, Failed, Trouble

\* Bindings move on, go or lose the fence of an apply that is over; nothing is applied.
LEMMA BindingsMove ==
    ASSUME Typed, PlansInv, binding' \in [Keys -> BindingRows], UNCHANGED <<plan, apply, job>>,
           troubles \subseteq troubles', \A r \in Plans : release[r] = "NONE" => release'[r] = "NONE",
           \A k \in Keys :
              \/ binding'[k] = NoBinding \/ binding'[k] = binding[k]
              \/ /\ binding'[k].id = binding[k].id /\ binding'[k].id # None /\ binding'[k].fence = None
                 /\ binding'[k].gen > binding[k].gen
    PROVE  PlansInv'
<1>1. \A k \in Keys : binding'[k] = NoBinding => binding'[k].fence = None
  BY Values
<1>2. \A k \in Keys : binding'[k].fence # None =>
              /\ apply'[binding[k].fence] = apply[binding[k].fence]
              /\ "database" \notin troubles' /\ job[binding[k].fence] # "none" => job'[binding[k].fence] # "none"
  OBVIOUS
<1>3. \A k \in Keys :
              \/ binding'[k] = NoBinding
              \/ /\ binding'[k].id = binding[k].id
                 /\ \/ /\ binding'[k].id # None /\ binding'[k].fence = None
                       /\ binding'[k].gen > binding[k].gen
                    \/ /\ binding'[k].gen = binding[k].gen /\ binding'[k].release = binding[k].release
                       /\ binding'[k].fence \in {binding[k].fence, None}
  OBVIOUS
<1>4. /\ \A p \in Plans : plan'[p] = plan[p] \/ (Spent(plan'[p]) /\ job'[p] = "none")
      /\ \A p \in Plans : job'[p] = job[p] \/ job'[p] = "none" \/ (job[p] # "none" /\ job'[p] = "unmoving")
      /\ \A p \in Plans : release[p] = "NONE" /\ release'[p] # "NONE"
                               => plan'[p].status = "CONSUMED" /\ job'[p] = "none"
  OBVIOUS
<1> QED
  BY <1>2, <1>3, <1>4, PlansStep

LEMMA RollbackKeeps ==
    ASSUME Typed, PlansInv, NEW k \in Keys, NEW r \in Plans, Rollback(k, r)
    PROVE  Typed' /\ PlansInv'
<1> DEFINE gen == binding[k].gen + 1
           b == [binding[k] EXCEPT !.release = r, !.gen = gen]
<1>1. /\ binding[k] \in BindingRows /\ binding[k].id # None /\ binding[k].fence = None
      /\ binding' = [binding EXCEPT ![k] = b] /\ history' = [history EXCEPT ![k] = Latest(k, r)]
      /\ UNCHANGED <<plan, apply, release, profile, mounts, passes, troubles, tree, job>>
  BY DEF Typed, Rollback, Free
<1>2. gen \in Nat /\ gen > binding[k].gen /\ r \in Maybe
  BY <1>1 DEF BindingRows, Maybe
<1>3. b \in BindingRows /\ b.id = binding[k].id /\ b.gen = gen /\ b.fence = None
  <2> HIDE DEF gen
  <2> QED
    BY <1>1, <1>2 DEF BindingRows
<1> HIDE DEF b
<1>4. /\ binding' \in [Keys -> BindingRows] /\ binding'[k] = b
      /\ \A j \in Keys \ {k} : binding'[j] = binding[j]
  BY <1>1, <1>3, Put DEF Typed
<1>5. history' \in [Keys -> Seq(Plans)]
  BY <1>1, LatestIsHistory, Put DEF Typed
<1>6. PlansInv'
  <2>1. \A j \in Keys :
              \/ binding'[j] = NoBinding \/ binding'[j] = binding[j]
              \/ /\ binding'[j].id = binding[j].id /\ binding'[j].id # None /\ binding'[j].fence = None
                 /\ binding'[j].gen > binding[j].gen
    BY <1>1, <1>2, <1>3, <1>4
  <2> QED
    BY <1>1, <1>4, <2>1, BindingsMove
<1> QED
  BY <1>1, <1>4, <1>5, <1>6 DEF Typed, mounts, passes

\* Bindings go, with their histories.
LEMMA BindingsGo ==
    ASSUME Typed, PlansInv, NEW S \in SUBSET Keys,
           binding' = [k \in Keys |-> IF k \in S THEN NoBinding ELSE binding[k]],
           history' = [k \in Keys |-> IF k \in S THEN <<>> ELSE history[k]],
           UNCHANGED <<plan, apply, release, profile, mounts, troubles, tree, job>>,
           sweep' \in Passes, removal' \in Passes
    PROVE  Typed' /\ PlansInv'
<1>1. binding' \in [Keys -> BindingRows] /\ \A j \in Keys : binding'[j] = NoBinding \/ binding'[j] = binding[j]
  <2>1. binding \in [Keys -> BindingRows] /\ NoBinding \in BindingRows
    BY Values DEF Typed
  <2> QED
    BY <2>1
<1>2. history' \in [Keys -> Seq(Plans)]
  <2>1. history \in [Keys -> Seq(Plans)] /\ <<>> \in Seq(Plans)
    BY DEF Typed
  <2> QED
    BY <2>1
<1>3. PlansInv'
  BY <1>1, BindingsMove
<1> QED
  BY <1>1, <1>2, <1>3 DEF Typed, mounts

LEMMA RemoveBindingKeeps ==
    ASSUME Typed, PlansInv, NEW k \in Keys, RemoveBinding(k)
    PROVE  Typed' /\ PlansInv'
<1>1. /\ binding' = [binding EXCEPT ![k] = NoBinding] /\ history' = [history EXCEPT ![k] = <<>>]
      /\ UNCHANGED <<plan, apply, release, profile, mounts, sweep, troubles, tree, job>>
      /\ binding \in [Keys -> BindingRows] /\ history \in [Keys -> Seq(Plans)] /\ sweep \in Passes
  BY DEF RemoveBinding, Typed
<1>2. /\ binding' = [j \in Keys |-> IF j \in {k} THEN NoBinding ELSE binding[j]]
      /\ history' = [j \in Keys |-> IF j \in {k} THEN <<>> ELSE history[j]]
  BY <1>1
<1>3. removal' \in Passes
  <2> DEFINE todo == Entries(k) \cup ({binding[k].release} \ {None})
  <2>1. binding[k] \in BindingRows /\ history[k] \in Seq(Plans)
    BY <1>1
  <2>2. todo \subseteq Plans
    BY <2>1 DEF Entries, BindingRows, Maybe
  <2>3. [NoPass EXCEPT !.at = "collect", !.todo = todo] \in Passes
    BY <2>2 DEF NoPass, Passes, Maybe
  <2>4. removal' = NoPass \/ removal' = [NoPass EXCEPT !.at = "collect", !.todo = todo]
    BY DEF RemoveBinding
  <2> QED
    BY <2>3, <2>4, Values
<1>4. {k} \in SUBSET Keys
  OBVIOUS
<1> QED
  BY <1>1, <1>2, <1>3, <1>4, BindingsGo

LEMMA SweepListsKeeps ==
    ASSUME Typed, PlansInv, SweepLists
    PROVE  Typed' /\ PlansInv'
<1> DEFINE S == {k \in Keys : Orphan(k)}
<1>1. /\ binding' = [k \in Keys |-> IF k \in S THEN NoBinding ELSE binding[k]]
      /\ history' = [k \in Keys |-> IF k \in S THEN <<>> ELSE history[k]]
      /\ UNCHANGED <<plan, apply, release, profile, mounts, removal, troubles, tree, job>>
  BY DEF SweepLists
<1>2. S \in SUBSET Keys
  OBVIOUS
<1>3. sweep' \in Passes /\ removal' \in Passes
  <2> DEFINE todo == {r \in Plans : release[r] \in Live /\ Unreferenced(r)'}
  <2>1. sweep' = NoPass \/ sweep' = [NoPass EXCEPT !.at = "collect", !.todo = todo]
    BY DEF SweepLists
  <2>2. todo \subseteq Plans
    OBVIOUS
  <2> HIDE DEF todo
  <2>3. [NoPass EXCEPT !.at = "collect", !.todo = todo] \in Passes
    BY <2>2 DEF NoPass, Passes, Maybe
  <2> QED
    BY <1>1, <2>1, <2>3, Values DEF Typed
<1> HIDE DEF S
<1> QED
  BY <1>1, <1>2, <1>3, BindingsGo

LEMMA RestartKeeps ==
    ASSUME Typed, PlansInv, Restart
    PROVE  Typed' /\ PlansInv'
<1>1. /\ plan \in [Plans -> PlanRows] /\ binding \in [Keys -> BindingRows]
      /\ apply \in [Plans -> {"NONE", "SUCCEEDED", "FAILED"} \cup InFlight]
      /\ release \in [Plans -> {"NONE", "COLLECTED"} \cup Live]
      /\ tree \in [Plans -> {"here", "away", "none"}]
  BY DEF Typed
<1>2. /\ job' = [p \in Plans |-> "none"] /\ sweep' = NoPass /\ removal' = NoPass
      /\ launch' = [l \in Launches |-> NoLaunch] /\ toolbox' = None
      /\ apply' = [p \in Plans |-> IF p \in Interrupted THEN "FAILED" ELSE apply[p]]
      /\ binding' = [k \in Keys |-> Unfenced(binding[k], Interrupted)]
      /\ UNCHANGED <<plan, history, profile, retained, executor>> /\ troubles \subseteq troubles'
  BY DEF Restart, Trouble
<1>3. /\ tree' \in [Plans -> {"here", "away", "none"}]
      /\ release' \in [Plans -> {"NONE", "COLLECTED"} \cup Live]
      /\ \A r \in Plans : release[r] = "NONE" => release'[r] = "NONE"
  <2>1. CASE /\ tree' = [r \in Plans |-> IF tree[r] = "here" /\ release[r] \notin Live THEN "none" ELSE tree[r]]
             /\ release' = [r \in Plans |-> IF release[r] \notin Live THEN release[r]
                                            ELSE IF tree[r] = "here" THEN "VERIFIED" ELSE "MISSING"]
    <3>1. tree' \in [Plans -> {"here", "away", "none"}]
      BY <1>1, <2>1
    <3> QED
      BY <1>1, <2>1, <3>1 DEF Live
  <2>2. CASE UNCHANGED <<tree, release>>
    BY <1>1, <2>2
  <2> QED
    BY <2>1, <2>2 DEF Restart
<1>4. ASSUME NEW k \in Keys
      PROVE  /\ binding'[k] \in BindingRows /\ binding'[k].id = binding[k].id /\ binding'[k].gen = binding[k].gen
             /\ binding'[k].release = binding[k].release /\ binding'[k].fence = None
  <2>1. binding[k] \in BindingRows /\ BindingInv(k)
    BY <1>1 DEF PlansInv
  <2>2. binding[k].fence # None => binding[k].fence \in Interrupted
    BY <2>1 DEF BindingInv, Interrupted, BindingRows, Maybe
  <2>3. binding'[k] = Unfenced(binding[k], Interrupted)
    BY <1>2
  <2>4. \/ binding'[k] = binding[k] /\ binding[k].fence = None
       \/ binding'[k] = [binding[k] EXCEPT !.fence = None]
    BY <2>2, <2>3 DEF Unfenced
  <2> QED
    BY <2>1, <2>4 DEF BindingRows, Maybe
<1>5. binding' \in [Keys -> BindingRows]
  BY <1>2, <1>4
<1>6. PlansInv'
  <2>1. \A k \in Keys :
              \/ binding'[k] = NoBinding
              \/ /\ binding'[k].id = binding[k].id
                 /\ \/ /\ binding'[k].id # None /\ binding'[k].fence = None
                       /\ binding'[k].gen > binding[k].gen
                    \/ /\ binding'[k].gen = binding[k].gen /\ binding'[k].release = binding[k].release
                       /\ binding'[k].fence \in {binding[k].fence, None}
    BY <1>4
  <2>2. \A k \in Keys : binding'[k].fence # None =>
              /\ apply'[binding[k].fence] = apply[binding[k].fence]
              /\ "database" \notin troubles' /\ job[binding[k].fence] # "none" => job'[binding[k].fence] # "none"
    BY <1>4
  <2>3. \A p \in Plans : job'[p] = job[p] \/ job'[p] = "none" \/ (job[p] # "none" /\ job'[p] = "unmoving")
    BY <1>2
  <2>4. \A p \in Plans : plan'[p] = plan[p] \/ (Spent(plan'[p]) /\ job'[p] = "none")
    BY <1>2
  <2>5. \A p \in Plans : release[p] = "NONE" /\ release'[p] # "NONE"
                               => plan'[p].status = "CONSUMED" /\ job'[p] = "none"
    BY <1>3
  <2> QED
    BY <1>2, <1>5, <2>1, <2>2, <2>3, <2>4, <2>5, PlansStep
<1>7. apply' \in [Plans -> {"NONE", "SUCCEEDED", "FAILED"} \cup InFlight]
  BY <1>1, <1>2
<1>8. job' \in [Plans -> {"none", "waiting", "building", "publishing", "unmoving", "failing"}]
  BY <1>2
<1>9. launch' \in [Launches -> LaunchRows] /\ sweep' \in Passes /\ removal' \in Passes
  BY <1>2, Values
<1> QED
  BY <1>2, <1>3, <1>5, <1>6, <1>7, <1>8, <1>9 DEF Typed

\* What a pass leaves alone.
Collecting == UNCHANGED <<plan, apply, binding, history, profile, mounts, job>>

LEMMA CollectsKeeps ==
    ASSUME Typed, PlansInv, NEW pass \in {sweep, removal}, NEW r \in Plans, Collects(pass, r)
    PROVE  /\ release' \in [Plans -> {"NONE", "COLLECTED"} \cup Live] /\ PlansInv'
           /\ Collecting /\ UNCHANGED <<troubles, tree>>
           /\ After(pass, r, release'[r] # release[r]) \in Passes
<1>1. release \in [Plans -> {"NONE", "COLLECTED"} \cup Live] /\ pass \in Passes
  BY DEF Typed
<1>2. Collecting /\ UNCHANGED <<troubles, tree>>
  BY DEF Collects, Collecting
<1>3. /\ release' \in [Plans -> {"NONE", "COLLECTED"} \cup Live]
      /\ \A p \in Plans : release[p] = "NONE" => release'[p] = "NONE"
  <2>1. release' = release \/ (release[r] \in Live /\ release' = [release EXCEPT ![r] = "COLLECTED"])
    BY DEF Collects
  <2> QED
    BY <1>1, <2>1 DEF Live
<1>4. PlansInv'
  BY <1>2, <1>3, PlansKeep DEF Collecting
<1>5. After(pass, r, release'[r] # release[r]) \in Passes
  <2>1. [pass EXCEPT !.at = "remove", !.of = r, !.todo = pass.todo \ {r}] \in Passes
    BY <1>1 DEF Passes, Maybe
  <2>2. [pass EXCEPT !.todo = pass.todo \ {r}] \in Passes
    BY <1>1 DEF Passes
  <2> QED
    BY <2>1, <2>2, Values DEF After
<1> QED
  BY <1>2, <1>3, <1>4, <1>5

LEMMA RemovesKeeps ==
    ASSUME Typed, PlansInv, NEW pass \in {sweep, removal}, Removes(pass)
    PROVE  /\ tree' \in [Plans -> {"here", "away", "none"}] /\ PlansInv'
           /\ Collecting /\ release' = release /\ Onward(pass) \in Passes
<1>1. tree \in [Plans -> {"here", "away", "none"}] /\ pass \in Passes
  BY DEF Typed
<1>2. Collecting /\ release' = release /\ troubles \subseteq troubles'
  BY DEF Removes, Collecting, Trouble, database
<1>3. tree' \in [Plans -> {"here", "away", "none"}]
  BY <1>1 DEF Removes
<1>4. PlansInv'
  BY <1>2, PlansKeep DEF Collecting
<1>5. [pass EXCEPT !.at = "collect", !.of = None] \in Passes
  BY <1>1 DEF Passes, Maybe
<1> QED
  BY <1>2, <1>3, <1>4, <1>5, Values DEF Onward

LEMMA PassesKeep ==
    ASSUME Typed, PlansInv,
           \/ SweepBegins \/ SweepRemoves \/ RemovalRemoves
           \/ \E r \in Plans : SweepRestores(r) \/ SweepCollects(r) \/ RemovalCollects(r)
    PROVE  Typed' /\ PlansInv'
<1>1. /\ release \in [Plans -> {"NONE", "COLLECTED"} \cup Live]
      /\ sweep \in Passes /\ removal \in Passes
  BY DEF Typed
<1>2. CASE SweepBegins
  <2>1. [NoPass EXCEPT !.at = "restore", !.todo = {r \in Plans : release[r] = "MISSING"}] \in Passes
    BY DEF NoPass, Passes, Maybe
  <2>2. /\ sweep' \in Passes /\ Collecting /\ UNCHANGED <<release, troubles, tree, removal>>
    BY <1>2, <2>1 DEF SweepBegins, Collecting, database
  <2>3. PlansInv'
    BY <2>2, PlansKeep DEF Collecting
  <2> QED
    BY <2>2, <2>3 DEF Typed, Collecting, mounts
<1>3. CASE SweepRemoves
  <2>1. Removes(sweep) /\ sweep' = Onward(sweep) /\ removal' = removal
    BY <1>3 DEF SweepRemoves
  <2> QED
    BY <2>1, RemovesKeeps DEF Typed, Collecting, mounts
<1>4. CASE RemovalRemoves
  <2>1. Removes(removal) /\ removal' = Onward(removal) /\ sweep' = sweep
    BY <1>4 DEF RemovalRemoves
  <2> QED
    BY <2>1, RemovesKeeps DEF Typed, Collecting, mounts
<1>5. ASSUME NEW r \in Plans, SweepCollects(r) PROVE Typed' /\ PlansInv'
  <2>1. Collects(sweep, r) /\ sweep' = After(sweep, r, release'[r] # release[r]) /\ removal' = removal
    BY <1>5 DEF SweepCollects
  <2> QED
    BY <2>1, CollectsKeeps DEF Typed, Collecting, mounts
<1>6. ASSUME NEW r \in Plans, RemovalCollects(r) PROVE Typed' /\ PlansInv'
  <2>1. Collects(removal, r) /\ removal' = After(removal, r, release'[r] # release[r]) /\ sweep' = sweep
    BY <1>6 DEF RemovalCollects
  <2> QED
    BY <2>1, CollectsKeeps DEF Typed, Collecting, mounts
<1>7. ASSUME NEW r \in Plans, SweepRestores(r) PROVE Typed' /\ PlansInv'
  <2>1. /\ sweep' = [sweep EXCEPT !.todo = sweep.todo \ {r}] /\ Collecting /\ UNCHANGED <<removal, troubles, tree>>
        /\ release' = release \/ (release[r] = "MISSING" /\ release' = [release EXCEPT ![r] = "VERIFIED"])
    BY <1>7 DEF SweepRestores, Collecting
  <2>2. sweep' \in Passes
    BY <1>1, <2>1 DEF Passes
  <2>3. /\ release' \in [Plans -> {"NONE", "COLLECTED"} \cup Live]
        /\ \A p \in Plans : release[p] = "NONE" => release'[p] = "NONE"
    BY <1>1, <2>1 DEF Live
  <2>4. PlansInv'
    BY <2>1, <2>3, PlansKeep DEF Collecting
  <2> QED
    BY <2>1, <2>2, <2>3, <2>4 DEF Typed, Collecting, mounts
<1> QED
  BY <1>2, <1>3, <1>4, <1>5, <1>6, <1>7

\* What launches, toolbox commands, closes and the storage leave alone.
Elsewhere == UNCHANGED <<plan, apply, binding, history, passes, job>>

LEMMA ElsewhereKeeps ==
    ASSUME Typed, PlansInv, Elsewhere, troubles \subseteq troubles',
           \A r \in Plans : release[r] = "NONE" => release'[r] = "NONE",
           release' \in [Plans -> {"NONE", "COLLECTED"} \cup Live],
           profile' \in [Workspaces -> SUBSET Plans], retained' \subseteq Workspaces,
           tree' \in [Plans -> {"here", "away", "none"}], launch' \in [Launches -> LaunchRows],
           executor' \in [Workspaces -> (SUBSET Plans) \cup {None}], toolbox' \in (SUBSET Plans) \cup {None}
    PROVE  Typed' /\ PlansInv'
<1>1. PlansInv'
  BY PlansKeep DEF Elsewhere
<1> QED
  BY <1>1 DEF Typed, Elsewhere, passes

LEMMA MountsKeep ==
    ASSUME Typed, PlansInv, LaunchInv,
           \/ ToolboxBegins \/ ToolboxEnds \/ \E w \in Workspaces : Close(w)
           \/ \E l \in Launches : LaunchProfiles(l) \/ LaunchCreates(l) \/ \E w \in Workspaces : LaunchBegins(l, w)
    PROVE  Typed' /\ PlansInv'
<1>1. /\ release \in [Plans -> {"NONE", "COLLECTED"} \cup Live]
      /\ launch \in [Launches -> LaunchRows] /\ profile \in [Workspaces -> SUBSET Plans]
      /\ executor \in [Workspaces -> (SUBSET Plans) \cup {None}]
      /\ retained \subseteq Workspaces /\ toolbox \in (SUBSET Plans) \cup {None}
      /\ tree \in [Plans -> {"here", "away", "none"}]
  BY DEF Typed
<1>2. ASSUME NEW w, release' = FoundMissing(w)
      PROVE  /\ release' \in [Plans -> {"NONE", "COLLECTED"} \cup Live]
             /\ \A r \in Plans : release[r] = "NONE" => release'[r] = "NONE"
  BY <1>2, Mounted
<1>3. CASE ToolboxBegins
  <2>1. /\ Elsewhere /\ toolbox' = Mounts(None) /\ release' = FoundMissing(None)
        /\ UNCHANGED <<profile, retained, launch, executor, tree, troubles>>
    BY <1>3 DEF ToolboxBegins, Elsewhere
  <2>2. toolbox' \in SUBSET Plans
    BY <2>1, Mounted
  <2> QED
    BY <1>1, <1>2, <2>1, <2>2, ElsewhereKeeps
<1>4. CASE ToolboxEnds
  <2>1. Elsewhere /\ toolbox' = None /\ UNCHANGED <<release, profile, retained, launch, executor, tree, troubles>>
    BY <1>4 DEF ToolboxEnds, Elsewhere, database
  <2> QED
    BY <1>1, <2>1, ElsewhereKeeps
<1>5. ASSUME NEW w \in Workspaces, Close(w) PROVE Typed' /\ PlansInv'
  <2>1. /\ Elsewhere /\ retained' = retained \ {w} /\ executor' = [executor EXCEPT ![w] = None]
        /\ UNCHANGED <<release, profile, toolbox, launch, tree, troubles>>
    BY <1>5 DEF Close, Elsewhere, database
  <2> QED
    BY <1>1, <2>1, ElsewhereKeeps
<1>6. ASSUME NEW l \in Launches, NEW w \in Workspaces, LaunchBegins(l, w) PROVE Typed' /\ PlansInv'
  <2> DEFINE row == [NoLaunch EXCEPT !.w = w, !.at = "profile"]
  <2>1. /\ Elsewhere /\ launch' = [launch EXCEPT ![l] = row]
        /\ executor' = [executor EXCEPT ![w] = None] \/ executor' = executor
        /\ UNCHANGED <<release, profile, toolbox, retained, tree>> /\ troubles \subseteq troubles'
    BY <1>6 DEF LaunchBegins, Elsewhere, database, Trouble
  <2>2. row \in LaunchRows
    BY DEF NoLaunch, LaunchRows
  <2> HIDE DEF row
  <2> QED
    BY <1>1, <2>1, <2>2, ElsewhereKeeps
<1>7. ASSUME NEW l \in Launches, LaunchProfiles(l) PROVE Typed' /\ PlansInv'
  <2> DEFINE w == launch[l].w
             row == [launch[l] EXCEPT !.at = "create", !.mounts = Mounts(w)]
  <2>1. /\ Elsewhere /\ launch' = [launch EXCEPT ![l] = row] /\ profile' = [profile EXCEPT ![w] = Mounts(w)]
        /\ release' = FoundMissing(w) /\ UNCHANGED <<executor, toolbox, retained, tree, troubles>>
        /\ w \in Workspaces /\ launch[l] \in LaunchRows
    BY <1>1, <1>7 DEF LaunchProfiles, Elsewhere, LaunchInv
  <2>2. Mounts(w) \in SUBSET Plans
    BY Mounted
  <2>3. row \in LaunchRows
    <3> HIDE DEF w
    <3> QED
      BY <2>1, <2>2 DEF LaunchRows
  <2> HIDE DEF row, w
  <2> QED
    BY <1>1, <1>2, <2>1, <2>2, <2>3, ElsewhereKeeps
<1>8. ASSUME NEW l \in Launches, LaunchCreates(l) PROVE Typed' /\ PlansInv'
  <2>1. /\ Elsewhere /\ launch' = [launch EXCEPT ![l] = NoLaunch]
        /\ executor' = executor \/ executor' = [executor EXCEPT ![launch[l].w] = launch[l].mounts]
        /\ UNCHANGED <<release, profile, toolbox, retained, tree, troubles>> /\ launch[l] \in LaunchRows
    BY <1>1, <1>8 DEF LaunchCreates, Elsewhere, database
  <2>2. executor' \in [Workspaces -> (SUBSET Plans) \cup {None}]
    BY <1>1, <2>1 DEF LaunchRows
  <2>3. launch' \in [Launches -> LaunchRows]
    BY <1>1, <2>1, Values
  <2> QED
    BY <1>1, <2>1, <2>2, <2>3, ElsewhereKeeps
<1> QED
  BY <1>3, <1>4, <1>5, <1>6, <1>7, <1>8

LEMMA RestKeeps ==
    ASSUME Typed, PlansInv,
           (\E p \in Plans : ApplyAsks(p) \/ Vanishes(p) \/ Returns(p)) \/ UNCHANGED vars
    PROVE  Typed' /\ PlansInv'
<1>1. /\ Elsewhere /\ UNCHANGED <<release, profile, retained, launch, executor, toolbox>>
      /\ troubles \subseteq troubles'
  BY DEF ApplyAsks, Vanishes, Returns, Trouble, vars, Elsewhere, database, mounts, passes
<1>2. tree' \in [Plans -> {"here", "away", "none"}]
  BY DEF ApplyAsks, Vanishes, Returns, vars, Typed
<1> QED
  BY <1>1, <1>2, ElsewhereKeeps DEF Typed

-----------------------------------------------------------------------------
(* Collisions *)

LEMMA FewerReleases ==
    ASSUME NoCollision, \A k \in Keys : binding'[k].release \in {binding[k].release, None}
    PROVE  NoCollision'
<1> SUFFICES ASSUME NEW k \in Keys, Published(k)', Collides(k, Names[binding[k].release])'
             PROVE  FALSE
  BY DEF NoCollision
<1>1. PICK j \in Keys : /\ Published(j)' /\ Meet(k, j)
                        /\ Names[binding'[k].release] \cap Names[binding'[j].release] # {}
  BY DEF Collides
<1>2. binding'[k].release = binding[k].release /\ binding'[j].release = binding[j].release
  BY <1>1 DEF Published
<1>3. Published(k) /\ Collides(k, Names[binding[k].release])
  BY <1>1, <1>2 DEF Published, Collides
<1> QED
  BY <1>3 DEF NoCollision

LEMMA NewRelease ==
    ASSUME NoCollision, NEW k \in Keys, NEW r, ~Collides(k, Names[r]), binding'[k].release = r,
           \A j \in Keys \ {k} : binding'[j].release = binding[j].release
    PROVE  NoCollision'
<1> SUFFICES ASSUME NEW i \in Keys, Published(i)', Collides(i, Names[binding[i].release])'
             PROVE  FALSE
  BY DEF NoCollision
<1>1. PICK j \in Keys : /\ Published(j)' /\ Meet(i, j)
                        /\ Names[binding'[i].release] \cap Names[binding'[j].release] # {}
  BY DEF Collides
<1>2. i # j /\ Meet(j, i)
  BY <1>1 DEF Meet
<1>3. CASE i = k
  BY <1>1, <1>2, <1>3 DEF Collides, Published
<1>4. CASE j = k
  <2>1. binding'[i].release = binding[i].release /\ Published(i)
    BY <1>2, <1>4 DEF Published
  <2> QED
    BY <1>1, <1>2, <1>4, <2>1 DEF Collides
<1>5. CASE i # k /\ j # k
  BY <1>1, <1>5 DEF Collides, Published, NoCollision
<1> QED
  BY <1>3, <1>4, <1>5

LEMMA NoCollisionKept ==
    ASSUME Typed, NoCollision, [Next]_vars
    PROVE  NoCollision'
<1>1. binding \in [Keys -> BindingRows]
  BY DEF Typed
<1>2. CASE UNCHANGED binding
  BY <1>2, FewerReleases
<1>3. ASSUME NEW p \in Plans, ApplyStarts(p) PROVE NoCollision'
  <2>1. \A k \in Keys : binding'[k].release = binding[k].release
    <3> DEFINE k == Of[p]
               id == IF binding[k].id = None THEN p ELSE binding[k].id
    <3>1. UNCHANGED binding \/ binding' = [binding EXCEPT ![k] = [@ EXCEPT !.id = id, !.fence = p]]
      BY <1>3 DEF ApplyStarts
    <3> HIDE DEF k, id
    <3> QED
      BY <1>1, <3>1 DEF BindingRows
  <2> QED
    BY <2>1, FewerReleases
<1>4. ASSUME NEW p \in Plans, RecordsFailure(p) PROVE NoCollision'
  <2>1. \A k \in Keys : binding'[k].release = binding[k].release
    BY <1>1, <1>4, Values DEF RecordsFailure, Unfenced, BindingRows
  <2> QED
    BY <2>1, FewerReleases
<1>5. ASSUME NEW p \in Plans, Publishes(p) PROVE NoCollision'
  <2>1. CASE UNCHANGED binding
    BY <2>1, <1>2
  <2>2. CASE /\ MayPublish(p)
             /\ binding' = [binding EXCEPT ![Of[p]] =
                   [@ EXCEPT !.release = p, !.gen = binding[Of[p]].gen + 1, !.fence = None]]
    <3>1. /\ Of[p] \in Keys /\ ~Collides(Of[p], Names[p]) /\ binding'[Of[p]].release = p
          /\ \A j \in Keys \ {Of[p]} : binding'[j].release = binding[j].release
      BY <1>1, <2>2, Values DEF MayPublish, BindingRows
    <3> QED
      BY <3>1, NewRelease
  <2> QED
    BY <1>5, <2>1, <2>2 DEF Publishes
<1>6. ASSUME NEW k \in Keys, NEW r \in Plans, Rollback(k, r) PROVE NoCollision'
  <2>1. /\ ~Collides(k, Names[r]) /\ binding'[k].release = r
        /\ \A j \in Keys \ {k} : binding'[j].release = binding[j].release
    BY <1>1, <1>6 DEF Rollback, BindingRows
  <2> QED
    BY <2>1, NewRelease
<1>7. ASSUME NEW k \in Keys, RemoveBinding(k) PROVE NoCollision'
  <2>1. \A j \in Keys : binding'[j].release \in {binding[j].release, None}
    BY <1>1, <1>7, Values DEF RemoveBinding
  <2> QED
    BY <2>1, FewerReleases
<1>8. CASE SweepLists
  <2>1. \A j \in Keys : binding'[j].release \in {binding[j].release, None}
    BY <1>1, <1>8, Values DEF SweepLists
  <2> QED
    BY <2>1, FewerReleases
<1>9. CASE Restart
  <2>1. \A j \in Keys : binding'[j].release = binding[j].release
    BY <1>1, <1>9 DEF Restart, Unfenced, BindingRows
  <2> QED
    BY <2>1, FewerReleases
<1>10. CASE UNCHANGED vars
  BY <1>2, <1>10 DEF vars, database
<1>11. ASSUME NEW p \in Plans,
              \/ Resolve(p) \/ Decide(p) \/ ApplyAsks(p) \/ BuildBegins(p) \/ BuildEnds(p) \/ Unmoves(p)
              \/ RemovalCollects(p) \/ SweepRestores(p) \/ SweepCollects(p) \/ Vanishes(p) \/ Returns(p)
       PROVE  UNCHANGED binding
  BY <1>11 DEF Resolve, Decide, ApplyAsks, BuildBegins, BuildEnds, Unmoves, RemovalCollects, SweepRestores,
               SweepCollects, Vanishes, Returns, Collects, database
<1>12. ASSUME \/ RemovalRemoves \/ SweepBegins \/ SweepRemoves \/ ToolboxBegins \/ ToolboxEnds
              \/ \E w \in Workspaces : Close(w)
              \/ \E l \in Launches : LaunchProfiles(l) \/ LaunchCreates(l) \/ \E w \in Workspaces : LaunchBegins(l, w)
       PROVE  UNCHANGED binding
  BY <1>12 DEF RemovalRemoves, SweepBegins, SweepRemoves, Removes, ToolboxBegins, ToolboxEnds, Close,
               LaunchProfiles, LaunchCreates, LaunchBegins, database
<1> QED
  BY <1>2, <1>3, <1>4, <1>5, <1>6, <1>7, <1>8, <1>9, <1>10, <1>11, <1>12 DEF Next

-----------------------------------------------------------------------------
(* Trees *)

\* What keeps the trees in order: each step gives or takes a reason with the tree.
LEMMA TreesStep ==
    ASSUME TreesInv, troubles \subseteq troubles',
           \A r \in Plans : tree'[r] = "away" => tree[r] = "away" \/ "storage" \in troubles',
           PassInv(sweep)', PassInv(removal)',
           {"tree", "storage"} \cap troubles' = {} => \A r \in Plans :
              tree'[r] = "here" /\ release'[r] \notin Live =>
                 \/ job'[r] \in {"publishing", "unmoving"} \/ r \in {sweep.of, removal.of}'
                 \/ /\ tree[r] = "here" /\ release[r] \notin Live
                    /\ job[r] \in {"publishing", "unmoving"} => job'[r] \in {"publishing", "unmoving"}
                    /\ r \in {sweep.of, removal.of} => r \in {sweep.of, removal.of}'
    PROVE  TreesInv'
<1>1. TreesHaveRows'
  BY DEF TreesInv, TreesHaveRows
<1>2. \A r \in Plans : tree'[r] = "away" => "storage" \in troubles'
  BY DEF TreesInv
<1> QED
  BY <1>1, <1>2 DEF TreesInv

\* Live releases stay so, collected ones too, and trees and passes are left alone.
LEMMA TreesStay ==
    ASSUME TreesInv, troubles \subseteq troubles', UNCHANGED <<tree, passes>>,
           \A r \in Plans : (release[r] \in Live => release'[r] \in Live) /\ (release[r] = "COLLECTED" => release'[r] = "COLLECTED"),
           \A r \in Plans : job[r] \in {"publishing", "unmoving"} =>
              job'[r] \in {"publishing", "unmoving"} \/ release'[r] \in Live
    PROVE  TreesInv'
<1>1. UNCHANGED <<sweep, removal>> /\ PassInv(sweep) /\ PassInv(removal)
  BY DEF passes, TreesInv
<1>2. PassInv(sweep)' /\ PassInv(removal)'
  BY <1>1 DEF PassInv
<1> QED
  BY <1>1, <1>2, TreesStep

LEMMA RowsKeepTrees ==
    ASSUME Typed, PlansInv, TreesInv, NEW p \in Plans,
           Resolve(p) \/ Decide(p) \/ ApplyAsks(p) \/ ApplyStarts(p) \/ BuildBegins(p) \/ Publishes(p) \/ RecordsFailure(p)
    PROVE  TreesInv'
<1>1. /\ release \in [Plans -> {"NONE", "COLLECTED"} \cup Live] /\ PlanInv(p)
      /\ job \in [Plans -> {"none", "waiting", "building", "publishing", "unmoving", "failing"}]
  BY DEF Typed, PlansInv
<1>2. UNCHANGED <<tree, passes>> /\ troubles \subseteq troubles'
  BY DEF Resolve, Decide, ApplyAsks, ApplyStarts, BuildBegins, Publishes, RecordsFailure, Trouble
<1>3. CASE Resolve(p) \/ Decide(p) \/ ApplyAsks(p)
  <2>1. UNCHANGED <<release, job>>
    BY <1>3 DEF Resolve, Decide, ApplyAsks, database
  <2> QED
    BY <1>2, <2>1, TreesStay
<1>4. CASE ApplyStarts(p) \/ BuildBegins(p) \/ RecordsFailure(p)
  <2>1. release' = release
    BY <1>4 DEF ApplyStarts, BuildBegins, RecordsFailure
  <2>2. \/ job' = job
        \/ job[p] \notin {"publishing", "unmoving"} /\ \A r \in Plans \ {p} : job'[r] = job[r]
    <3>1. CASE ApplyStarts(p)
      <4>1. job' = job \/ (plan[p].status = "APPROVED" /\ job' = [job EXCEPT ![p] = "waiting"])
        BY <3>1 DEF ApplyStarts
      <4> QED
        BY <1>1, <4>1 DEF PlanInv
    <3>2. CASE BuildBegins(p) \/ RecordsFailure(p)
      BY <1>1, <3>2 DEF BuildBegins, RecordsFailure, JobGoes
    <3> QED
      BY <1>4, <3>1, <3>2
  <2> QED
    BY <1>2, <2>1, <2>2, TreesStay
<1>5. CASE Publishes(p)
  <2>1. CASE release' = [release EXCEPT ![p] = "VERIFIED"] /\ job' = [job EXCEPT ![p] = "none"]
    <3>1. release[p] = "NONE"
      BY <1>1, <1>5 DEF Publishes, PlanInv
    <3> QED
      BY <1>1, <1>2, <2>1, <3>1, TreesStay DEF Live
  <2>2. CASE release' = release /\ job' = [job EXCEPT ![p] = "unmoving"]
    BY <1>1, <1>2, <2>2, TreesStay
  <2> QED
    BY <1>5, <2>1, <2>2 DEF Publishes, JobGoes
<1> QED
  BY <1>3, <1>4, <1>5

LEMMA MovesKeepTrees ==
    ASSUME Typed, PlansInv, TreesInv, NEW p \in Plans, BuildEnds(p) \/ Unmoves(p) \/ Vanishes(p) \/ Returns(p)
    PROVE  TreesInv'
<1>1. /\ tree \in [Plans -> {"here", "away", "none"}]
      /\ job \in [Plans -> {"none", "waiting", "building", "publishing", "unmoving", "failing"}]
  BY DEF Typed
<1>2. /\ UNCHANGED <<release, sweep, removal>> /\ troubles \subseteq troubles'
      /\ \A r \in Plans \ {p} : tree'[r] = tree[r] /\ job'[r] = job[r]
  BY <1>1 DEF BuildEnds, Unmoves, Vanishes, Returns, JobGoes, Trouble, database, passes
<1>3. PassInv(sweep)' /\ PassInv(removal)'
  BY <1>2 DEF TreesInv, PassInv
<1>4. ASSUME {"tree", "storage"} \cap troubles' = {}, tree'[p] = "here"
      PROVE  \/ job'[p] \in {"publishing", "unmoving"}
             \/ /\ tree[p] = "here" /\ (job[p] \in {"publishing", "unmoving"} => job'[p] \in {"publishing", "unmoving"})
  <2>1. tree[p] # "away"
    BY <1>2, <1>4 DEF TreesInv
  <2> QED
    BY <1>1, <1>4, <2>1 DEF BuildEnds, Unmoves, Vanishes, Returns, JobGoes, Trouble
<1>5. tree'[p] = "away" => tree[p] = "away" \/ "storage" \in troubles'
  BY <1>1 DEF BuildEnds, Unmoves, Vanishes, Returns, Trouble
<1> QED
  BY <1>2, <1>3, <1>4, <1>5, TreesStep

\* What one pass does while the other one goes on with its own release.
LEMMA PassKeepsTrees ==
    ASSUME Typed, TreesInv, NEW pass \in {sweep, removal}, NEW other \in {sweep, removal}, NEW next,
           Collecting, PassInv(pass), PassInv(other),
           \/ /\ \E r \in Plans : Collects(pass, r) /\ next = After(pass, r, release'[r] # release[r])
           \/ Removes(pass) /\ next = Onward(pass)
    PROVE  /\ \A p \in Plans : (release[p] = "COLLECTED" => release'[p] = "COLLECTED")
                               /\ (release[p] \notin Live => release'[p] \notin Live)
           /\ next.at # "remove" => next.of = None
           /\ next.at = "remove" => next.of \in Plans /\ release'[next.of] = "COLLECTED"
           /\ troubles \subseteq troubles'
           /\ \A p \in Plans : tree'[p] = "away" => tree[p] = "away"
           /\ "tree" \notin troubles' => \A p \in Plans : tree'[p] = "here" /\ release'[p] \notin Live =>
                 p = next.of \/ (tree[p] = "here" /\ release[p] \notin Live /\ p # pass.of)
<1>1. /\ release \in [Plans -> {"NONE", "COLLECTED"} \cup Live] /\ tree \in [Plans -> {"here", "away", "none"}]
      /\ pass \in Passes /\ (pass.at # "remove" => pass.of = None)
      /\ pass.at = "remove" => pass.of \in Plans /\ release[pass.of] = "COLLECTED"
  BY DEF Typed, PassInv
<1>2. ASSUME NEW r \in Plans, Collects(pass, r), next = After(pass, r, release'[r] # release[r])
      PROVE  /\ \A p \in Plans : (release[p] = "COLLECTED" => release'[p] = "COLLECTED")
                                 /\ (release[p] \notin Live => release'[p] \notin Live)
             /\ next.at # "remove" => next.of = None
             /\ next.at = "remove" => next.of \in Plans /\ release'[next.of] = "COLLECTED"
             /\ \A p \in Plans : release'[p] \notin Live => p = next.of \/ release[p] \notin Live
             /\ UNCHANGED <<tree, troubles>> /\ pass.of = None
  <2>1. pass.at = "collect" /\ pass.of = None /\ UNCHANGED <<tree, troubles>>
    BY <1>1, <1>2 DEF Collects
  <2>2. CASE release[r] \in Live /\ release' = [release EXCEPT ![r] = "COLLECTED"]
    <3>1. release'[r] # release[r] /\ release'[r] = "COLLECTED"
      BY <1>1, <2>2 DEF Live
    <3>2. next = [pass EXCEPT !.at = "remove", !.of = r, !.todo = pass.todo \ {r}]
      BY <1>2, <3>1 DEF After
    <3>3. next.at = "remove" /\ next.of = r
      BY <1>1, <3>2 DEF Passes
    <3> QED
      BY <1>1, <2>1, <2>2, <3>1, <3>3 DEF Live
  <2>3. CASE release' = release
    <3>1. next = NoPass \/ next = [pass EXCEPT !.todo = pass.todo \ {r}]
      BY <1>2, <2>3 DEF After
    <3>2. next.at # "remove" /\ next.of = None
      BY <1>1, <2>1, <3>1, Values DEF Passes
    <3> QED
      BY <1>1, <2>1, <2>3, <3>2
  <2> QED
    BY <1>2, <2>2, <2>3 DEF Collects
<1>3. ASSUME Removes(pass), next = Onward(pass)
      PROVE  /\ next.at # "remove" /\ next.of = None /\ release' = release /\ troubles \subseteq troubles'
             /\ \A p \in Plans : tree'[p] \in {"here", "away"} => tree'[p] = tree[p]
             /\ "tree" \notin troubles' => tree'[pass.of] # "here"
             /\ pass.of \in Plans
  <2>1. next = NoPass \/ next = [pass EXCEPT !.at = "collect", !.of = None]
    BY <1>3 DEF Onward
  <2>2. next.at # "remove" /\ next.of = None
    BY <1>1, <2>1, Values DEF Passes
  <2>3. release' = release /\ troubles \subseteq troubles' /\ pass.of \in Plans
    BY <1>1, <1>3 DEF Removes, database, Trouble
  <2>4. \A p \in Plans : tree'[p] \in {"here", "away"} => tree'[p] = tree[p]
    BY <1>1, <1>3 DEF Removes
  <2>5. "tree" \notin troubles' => tree'[pass.of] # "here"
    BY <1>1, <1>3, <2>3 DEF Removes, Trouble
  <2> QED
    BY <2>2, <2>3, <2>4, <2>5
<1>4. CASE \E r \in Plans : Collects(pass, r) /\ next = After(pass, r, release'[r] # release[r])
  <2>1. PICK r \in Plans : Collects(pass, r) /\ next = After(pass, r, release'[r] # release[r])
    BY <1>4
  <2>2. \A p \in Plans : p # pass.of
    BY <1>2, <2>1, Values
  <2> QED
    BY <1>2, <2>1, <2>2
<1>5. CASE Removes(pass) /\ next = Onward(pass)
  BY <1>3, <1>5
<1> QED
  BY <1>4, <1>5

LEMMA PassesKeepTrees ==
    ASSUME Typed, PlansInv, TreesInv,
           \/ SweepBegins \/ SweepLists \/ SweepRemoves \/ RemovalRemoves
           \/ \E r \in Plans : SweepRestores(r) \/ SweepCollects(r) \/ RemovalCollects(r)
           \/ \E k \in Keys : RemoveBinding(k) \/ \E r \in Plans : Rollback(k, r)
    PROVE  TreesInv'
<1>1. /\ PassInv(sweep) /\ PassInv(removal) /\ sweep \in Passes /\ removal \in Passes
      /\ release \in [Plans -> {"NONE", "COLLECTED"} \cup Live]
  BY DEF Typed, TreesInv
<1>2. CASE SweepRemoves \/ \E r \in Plans : SweepCollects(r)
  <2>1. /\ removal' = removal /\ Collecting
        /\ \/ \E r \in Plans : Collects(sweep, r) /\ sweep' = After(sweep, r, release'[r] # release[r])
           \/ Removes(sweep) /\ sweep' = Onward(sweep)
    BY <1>2 DEF SweepRemoves, SweepCollects, Removes, Collects, Collecting, database
  <2>2. /\ \A p \in Plans : (release[p] = "COLLECTED" => release'[p] = "COLLECTED")
                               /\ (release[p] \notin Live => release'[p] \notin Live)
        /\ sweep'.at # "remove" => sweep'.of = None
        /\ sweep'.at = "remove" => sweep'.of \in Plans /\ release'[sweep'.of] = "COLLECTED"
        /\ troubles \subseteq troubles'
        /\ \A p \in Plans : tree'[p] = "away" => tree[p] = "away"
        /\ "tree" \notin troubles' => \A p \in Plans : tree'[p] = "here" /\ release'[p] \notin Live =>
              p = sweep'.of \/ (tree[p] = "here" /\ release[p] \notin Live /\ p # sweep.of)
    BY <1>1, <2>1, PassKeepsTrees
  <2>3. PassInv(sweep)' /\ PassInv(removal)'
    BY <1>1, <2>1, <2>2 DEF PassInv
  <2>4. job' = job
    BY <2>1 DEF Collecting
  <2> QED
    BY <2>1, <2>2, <2>3, <2>4, TreesStep
<1>3. CASE RemovalRemoves \/ \E r \in Plans : RemovalCollects(r)
  <2>1. /\ sweep' = sweep /\ Collecting
        /\ \/ \E r \in Plans : Collects(removal, r) /\ removal' = After(removal, r, release'[r] # release[r])
           \/ Removes(removal) /\ removal' = Onward(removal)
    BY <1>3 DEF RemovalRemoves, RemovalCollects, Removes, Collects, Collecting, database
  <2>2. /\ \A p \in Plans : (release[p] = "COLLECTED" => release'[p] = "COLLECTED")
                               /\ (release[p] \notin Live => release'[p] \notin Live)
        /\ removal'.at # "remove" => removal'.of = None
        /\ removal'.at = "remove" => removal'.of \in Plans /\ release'[removal'.of] = "COLLECTED"
        /\ troubles \subseteq troubles'
        /\ \A p \in Plans : tree'[p] = "away" => tree[p] = "away"
        /\ "tree" \notin troubles' => \A p \in Plans : tree'[p] = "here" /\ release'[p] \notin Live =>
              p = removal'.of \/ (tree[p] = "here" /\ release[p] \notin Live /\ p # removal.of)
    BY <1>1, <2>1, PassKeepsTrees
  <2>3. PassInv(sweep)' /\ PassInv(removal)'
    BY <1>1, <2>1, <2>2 DEF PassInv
  <2>4. job' = job
    BY <2>1 DEF Collecting
  <2> QED
    BY <2>1, <2>2, <2>3, <2>4, TreesStep
<1>4. ASSUME UNCHANGED <<job, tree, troubles>>, sweep'.of = sweep.of, removal'.of = removal.of,
             PassInv(sweep)', PassInv(removal)', \A p \in Plans : release[p] \in Live => release'[p] \in Live
      PROVE  TreesInv'
  BY <1>4, TreesStep
<1>5. CASE SweepBegins \/ SweepLists
  <2>1. UNCHANGED <<job, tree, troubles, removal, release>> /\ sweep.at \in {"idle", "restore"}
    BY <1>5, Values DEF SweepBegins, SweepLists, database
  <2>2. sweep'.at \in {"idle", "restore", "collect"} /\ sweep'.of = None
    <3>1. \/ sweep' = NoPass
          \/ \E todo : sweep' = [NoPass EXCEPT !.at = "restore", !.todo = todo]
          \/ \E todo : sweep' = [NoPass EXCEPT !.at = "collect", !.todo = todo]
      BY <1>5 DEF SweepBegins, SweepLists
    <3>2. ASSUME NEW todo, sweep' = [NoPass EXCEPT !.at = "restore", !.todo = todo]
          PROVE  sweep'.at = "restore" /\ sweep'.of = None
      BY <3>2 DEF NoPass
    <3>3. ASSUME NEW todo, sweep' = [NoPass EXCEPT !.at = "collect", !.todo = todo]
          PROVE  sweep'.at = "collect" /\ sweep'.of = None
      BY <3>3 DEF NoPass
    <3> QED
      BY <3>1, <3>2, <3>3, Values
  <2>3. sweep.of = None /\ PassInv(sweep)' /\ PassInv(removal)'
    BY <1>1, <2>1, <2>2 DEF PassInv
  <2> QED
    BY <1>4, <2>1, <2>2, <2>3
<1>6. ASSUME NEW k \in Keys, RemoveBinding(k) PROVE TreesInv'
  <2>1. UNCHANGED <<job, tree, troubles, sweep, release>> /\ removal = NoPass
    BY <1>6 DEF RemoveBinding
  <2>2. removal'.at \in {"idle", "collect"} /\ removal'.of = None
    <3>1. removal' = NoPass \/ \E todo : removal' = [NoPass EXCEPT !.at = "collect", !.todo = todo]
      BY <1>6 DEF RemoveBinding
    <3>2. ASSUME NEW todo, removal' = [NoPass EXCEPT !.at = "collect", !.todo = todo]
          PROVE  removal'.at = "collect" /\ removal'.of = None
      BY <3>2 DEF NoPass
    <3> QED
      BY <3>1, <3>2, Values
  <2>3. removal.of = None /\ PassInv(sweep)' /\ PassInv(removal)'
    BY <1>1, <2>1, <2>2, Values DEF PassInv
  <2> QED
    BY <1>4, <2>1, <2>2, <2>3
<1>7. ASSUME NEW k \in Keys, NEW r \in Plans, Rollback(k, r) PROVE TreesInv'
  <2>1. UNCHANGED <<job, tree, troubles, passes, release>>
    BY <1>7 DEF Rollback
  <2> QED
    BY <2>1, TreesStay
<1>8. ASSUME NEW r \in Plans, SweepRestores(r) PROVE TreesInv'
  <2>1. /\ UNCHANGED <<job, tree, troubles, removal>> /\ sweep.at = "restore"
        /\ sweep' = [sweep EXCEPT !.todo = sweep.todo \ {r}]
        /\ release' = release \/ (release[r] = "MISSING" /\ release' = [release EXCEPT ![r] = "VERIFIED"])
    BY <1>8 DEF SweepRestores
  <2>2. sweep'.at = "restore" /\ sweep'.of = sweep.of
    BY <1>1, <2>1 DEF Passes
  <2>3. \A p \in Plans : (release[p] \in Live => release'[p] \in Live) /\ (release[p] = "COLLECTED" => release'[p] = "COLLECTED")
    BY <1>1, <2>1 DEF Live
  <2>4. PassInv(sweep)' /\ PassInv(removal)'
    BY <1>1, <2>1, <2>2, <2>3 DEF PassInv
  <2> QED
    BY <1>4, <2>1, <2>2, <2>3, <2>4
<1> QED
  BY <1>2, <1>3, <1>5, <1>6, <1>7, <1>8

LEMMA RestartKeepsTrees ==
    ASSUME Typed, TreesInv, Restart
    PROVE  TreesInv'
<1>1. sweep' = NoPass /\ removal' = NoPass /\ troubles \subseteq troubles' /\ tree \in [Plans -> {"here", "away", "none"}]
  BY DEF Restart, Trouble, Typed
<1>2. PassInv(sweep)' /\ PassInv(removal)'
  BY <1>1, Values DEF PassInv
<1>3. \A r \in Plans : tree'[r] = "away" => tree[r] = "away"
  BY <1>1 DEF Restart
<1>4. "tree" \notin troubles' => \A r \in Plans : tree'[r] = "here" => release'[r] \in Live
  <2>1. SUFFICES ASSUME "tree" \notin troubles', NEW r \in Plans, tree'[r] = "here" PROVE release'[r] \in Live
    OBVIOUS
  <2>2. /\ tree' = [s \in Plans |-> IF tree[s] = "here" /\ release[s] \notin Live THEN "none" ELSE tree[s]]
        /\ release' = [s \in Plans |-> IF release[s] \notin Live THEN release[s]
                                       ELSE IF tree[s] = "here" THEN "VERIFIED" ELSE "MISSING"]
    BY <2>1 DEF Restart, Trouble
  <2>3. release[r] \in Live
    BY <2>1, <2>2
  <2> QED
    BY <2>2, <2>3 DEF Live
<1> QED
  BY <1>1, <1>2, <1>3, <1>4, TreesStep

LEMMA MountsKeepTrees ==
    ASSUME Typed, TreesInv,
           \/ ToolboxBegins \/ ToolboxEnds \/ UNCHANGED vars \/ \E w \in Workspaces : Close(w)
           \/ \E l \in Launches : LaunchProfiles(l) \/ LaunchCreates(l) \/ \E w \in Workspaces : LaunchBegins(l, w)
    PROVE  TreesInv'
<1>1. UNCHANGED <<tree, passes, job>> /\ troubles \subseteq troubles'
  BY DEF ToolboxBegins, ToolboxEnds, Close, LaunchProfiles, LaunchCreates, LaunchBegins, Trouble, vars
<1>2. release' = release \/ \E w : release' = FoundMissing(w)
  BY DEF ToolboxBegins, ToolboxEnds, Close, LaunchProfiles, LaunchCreates, LaunchBegins, vars, database
<1>3. \A r \in Plans : (release[r] \in Live => release'[r] \in Live) /\ (release[r] = "COLLECTED" => release'[r] = "COLLECTED")
  BY <1>2, Mounted DEF Live
<1> QED
  BY <1>1, <1>3, TreesStay

-----------------------------------------------------------------------------
(* Mounts *)

\* What is mounted stays when all that is kept is kept on.
LEMMA MountsStay ==
    ASSUME Typed, MountsInv, UNCHANGED <<retained, launch, executor, tangled, profile>>,
           toolbox' \in {toolbox, None}, \A r \in Plans : Kept(r) => Kept(r)'
    PROVE  MountsInv'
<1>1. /\ launch \in [Launches -> LaunchRows] /\ executor \in [Workspaces -> (SUBSET Plans) \cup {None}]
      /\ retained \subseteq Workspaces /\ toolbox \in (SUBSET Plans) \cup {None}
  BY DEF Typed
<1>2. toolbox' # None => \A r \in toolbox' : Kept(r)'
  BY <1>1 DEF MountsInv
<1>3. ASSUME NEW w \in retained \ tangled PROVE MountsOf(w)'
  <2>1. /\ executor[w] # None => executor[w] \subseteq Plans
        /\ \A l \in Launches : launch[l].mounts \subseteq Plans
    BY <1>1 DEF LaunchRows
  <2> QED
    BY <2>1 DEF MountsInv, MountsOf
<1>4. LaunchInv'
  BY DEF MountsInv, LaunchInv
<1> QED
  BY <1>2, <1>3, <1>4 DEF MountsInv

LEMMA RowsKeepMounts ==
    ASSUME Typed, PlansInv, TreesInv, MountsInv,
           \/ \E p \in Plans :
                 \/ Resolve(p) \/ Decide(p) \/ ApplyAsks(p) \/ ApplyStarts(p) \/ BuildBegins(p) \/ BuildEnds(p)
                 \/ Publishes(p) \/ Unmoves(p) \/ RecordsFailure(p) \/ SweepRestores(p) \/ Vanishes(p) \/ Returns(p)
           \/ \E k \in Keys : RemoveBinding(k) \/ \E r \in Plans : Rollback(k, r)
           \/ SweepBegins \/ SweepLists \/ SweepRemoves \/ RemovalRemoves \/ ToolboxEnds \/ UNCHANGED vars
    PROVE  MountsInv'
<1>1. /\ release \in [Plans -> {"NONE", "COLLECTED"} \cup Live] /\ tree \in [Plans -> {"here", "away", "none"}]
      /\ PassInv(sweep) /\ PassInv(removal)
  BY DEF Typed, TreesInv
<1>2. UNCHANGED <<retained, launch, executor, tangled, profile>> /\ toolbox' \in {toolbox, None}
  BY DEF Resolve, Decide, ApplyAsks, ApplyStarts, BuildBegins, BuildEnds, Publishes, Unmoves, RecordsFailure,
         SweepRestores, Vanishes, Returns, RemoveBinding, Rollback, SweepBegins, SweepLists, SweepRemoves,
         RemovalRemoves, Removes, ToolboxEnds, vars, mounts, database
<1>3. ASSUME NEW p \in Plans, Publishes(p) PROVE \A r \in Plans : Kept(r) => Kept(r)'
  <2>1. tree' = tree /\ (release' = release \/ release' = [release EXCEPT ![p] = "VERIFIED"])
    BY <1>3 DEF Publishes
  <2> QED
    BY <1>1, <2>1 DEF Kept, Live
<1>4. ASSUME NEW p \in Plans, Unmoves(p) PROVE \A r \in Plans : Kept(r) => Kept(r)'
  <2>1. release[p] = "NONE" /\ release' = release /\ (tree' = tree \/ tree' = [tree EXCEPT ![p] = "none"])
    BY <1>4 DEF Unmoves, PlansInv, PlanInv, database
  <2> QED
    BY <1>1, <2>1 DEF Kept, Live
<1>5. ASSUME NEW pass \in {sweep, removal}, Removes(pass) PROVE \A r \in Plans : Kept(r) => Kept(r)'
  <2>1. release' = release /\ (tree' = tree \/ tree' = [tree EXCEPT ![pass.of] = "none"])
    BY <1>5 DEF Removes, database
  <2>2. release[pass.of] = "COLLECTED"
    BY <1>1, <1>5 DEF Removes, PassInv
  <2> QED
    BY <1>1, <2>1, <2>2 DEF Kept, Live
<1>6. ASSUME NEW p \in Plans, BuildEnds(p) \/ Vanishes(p) \/ Returns(p) \/ SweepRestores(p)
      PROVE  \A r \in Plans : Kept(r) => Kept(r)'
  <2>1. /\ \/ tree' = tree
           \/ tree' = [tree EXCEPT ![p] = "here"]
           \/ tree' = [tree EXCEPT ![p] = "away"]
        /\ release' = release \/ release' = [release EXCEPT ![p] = "VERIFIED"]
    BY <1>6 DEF BuildEnds, Vanishes, Returns, SweepRestores, database
  <2> QED
    BY <1>1, <2>1 DEF Kept, Live
<1>7. ASSUME NEW p \in Plans,
             Resolve(p) \/ Decide(p) \/ ApplyAsks(p) \/ ApplyStarts(p) \/ BuildBegins(p) \/ RecordsFailure(p)
      PROVE  UNCHANGED <<release, tree>>
  BY <1>7 DEF Resolve, Decide, ApplyAsks, ApplyStarts, BuildBegins, RecordsFailure, database
<1>8. ASSUME \/ \E k \in Keys : RemoveBinding(k) \/ \E r \in Plans : Rollback(k, r)
             \/ SweepBegins \/ SweepLists \/ ToolboxEnds \/ UNCHANGED vars
      PROVE  UNCHANGED <<release, tree>>
  BY <1>8 DEF RemoveBinding, Rollback, SweepBegins, SweepLists, ToolboxEnds, vars, database
<1>9. UNCHANGED <<release, tree>> => \A r \in Plans : Kept(r) => Kept(r)'
  BY DEF Kept
<1>10. SweepRemoves \/ RemovalRemoves => \E pass \in {sweep, removal} : Removes(pass)
  BY DEF SweepRemoves, RemovalRemoves
<1>11. \A r \in Plans : Kept(r) => Kept(r)'
  BY <1>3, <1>4, <1>5, <1>6, <1>7, <1>8, <1>9, <1>10
<1> QED
  BY <1>2, <1>11, MountsStay

\* A collection looks at what is mounted, and at the profiles, before the row goes.
LEMMA CollectsKeepsMounts ==
    ASSUME Typed, MountsInv, NEW pass, NEW r \in Plans, Collects(pass, r)
    PROVE  MountsInv'
<1>1. /\ release \in [Plans -> {"NONE", "COLLECTED"} \cup Live]
      /\ launch \in [Launches -> LaunchRows] /\ executor \in [Workspaces -> (SUBSET Plans) \cup {None}]
      /\ retained \subseteq Workspaces /\ toolbox \in (SUBSET Plans) \cup {None}
  BY DEF Typed
<1>2. UNCHANGED <<retained, launch, executor, tangled, profile, toolbox, tree>>
  BY DEF Collects, mounts
<1>3. CASE release' = release
  BY <1>2, <1>3, MountsStay DEF Kept
<1>4. CASE ~Held(r) /\ Unreferenced(r) /\ release' = [release EXCEPT ![r] = "COLLECTED"]
  <2>1. \A p \in Plans \ {r} : Kept(p) => Kept(p)'
    BY <1>1, <1>2, <1>4 DEF Kept
  <2>2. toolbox # None => \A p \in toolbox : Kept(p)'
    <3>1. toolbox # None => r \notin toolbox /\ toolbox \subseteq Plans
      BY <1>1, <1>4 DEF Held
    <3> QED
      BY <2>1, <3>1 DEF MountsInv
  <2>3. ASSUME NEW w \in retained \ tangled PROVE MountsOf(w)'
    <3>1. MountsOf(w) /\ r \notin profile[w]
      BY <1>4 DEF Unreferenced, MountsInv
    <3>2. executor[w] # None => r \notin executor[w] /\ executor[w] \subseteq Plans
      BY <1>1, <3>1 DEF MountsOf
    <3>3. \A l \in Launches : launch[l].w = w => r \notin launch[l].mounts /\ launch[l].mounts \subseteq Plans
      BY <1>1, <3>1 DEF MountsOf, LaunchRows
    <3> QED
      BY <1>2, <2>1, <3>1, <3>2, <3>3 DEF MountsOf
  <2>4. LaunchInv'
    BY <1>2 DEF MountsInv, LaunchInv
  <2> QED
    BY <1>2, <2>2, <2>3, <2>4 DEF MountsInv
<1> QED
  BY <1>3, <1>4 DEF Collects

LEMMA FoundKeeps ==
    ASSUME Typed, NEW w, release' = FoundMissing(w), tree' = tree
    PROVE  /\ \A r \in Plans : Kept(r) => Kept(r)'
           /\ \A r \in Mounts(w) : r \in Plans /\ Kept(r)'
<1>1. \A r \in Plans : release[r] \in Live => release'[r] \in Live
  BY Mounted DEF Live
<1>2. \A r \in Mounts(w) : r \in Plans /\ Present(r)
  BY Mounted
<1> QED
  BY <1>1, <1>2 DEF Kept, Present, Live

LEMMA ToolboxKeepsMounts ==
    ASSUME Typed, MountsInv, ToolboxBegins
    PROVE  MountsInv'
<1>1. /\ toolbox = None /\ toolbox' = Mounts(None) /\ release' = FoundMissing(None) /\ tree' = tree
      /\ UNCHANGED <<retained, launch, executor, tangled, profile>>
  BY DEF ToolboxBegins
<1>2. /\ launch \in [Launches -> LaunchRows] /\ executor \in [Workspaces -> (SUBSET Plans) \cup {None}]
      /\ retained \subseteq Workspaces
  BY DEF Typed
<1>3. (\A r \in Plans : Kept(r) => Kept(r)') /\ \A r \in Mounts(None) : Kept(r)'
  BY <1>1, FoundKeeps
<1>4. ASSUME NEW w \in retained \ tangled PROVE MountsOf(w)'
  <2>1. /\ executor[w] # None => executor[w] \subseteq Plans
        /\ \A l \in Launches : launch[l].mounts \subseteq Plans
    BY <1>2 DEF LaunchRows
  <2> QED
    BY <1>1, <1>3, <2>1 DEF MountsInv, MountsOf
<1>5. LaunchInv'
  BY <1>1 DEF MountsInv, LaunchInv
<1> QED
  BY <1>1, <1>3, <1>4, <1>5 DEF MountsInv

LEMMA LaunchBeginsKeepsMounts ==
    ASSUME Typed, MountsInv, NEW l \in Launches, NEW w \in Workspaces, LaunchBegins(l, w)
    PROVE  MountsInv'
<1> DEFINE row == [NoLaunch EXCEPT !.w = w, !.at = "profile"]
<1>1. /\ launch[l].at = "idle" /\ launch' = [launch EXCEPT ![l] = row]
      /\ \/ /\ executor' = [executor EXCEPT ![w] = None]
            /\ tangled' = IF \E m \in Launches : launch[m].w = w THEN tangled ELSE tangled \ {w}
         \/ UNCHANGED <<executor, tangled>>
      /\ UNCHANGED <<release, tree, profile, retained, toolbox>>
  BY DEF LaunchBegins, database
<1>2. row.w = w /\ row.at = "profile" /\ row.mounts = {}
  BY DEF NoLaunch
<1> HIDE DEF row
<1>3. /\ launch \in [Launches -> LaunchRows] /\ executor \in [Workspaces -> (SUBSET Plans) \cup {None}]
      /\ retained \subseteq Workspaces
  BY DEF Typed
<1>4. /\ launch'[l].w = w /\ launch'[l].at = "profile" /\ launch'[l].mounts = {}
      /\ \A m \in Launches \ {l} : launch'[m] = launch[m]
      /\ \A v \in Workspaces : executor'[v] = executor[v] \/ (v = w /\ executor'[v] = None)
  BY <1>1, <1>2, <1>3
<1>5. \A r : Kept(r)' <=> Kept(r)
  BY <1>1 DEF Kept
<1>6. /\ toolbox # None => \A r \in toolbox : Kept(r)
      /\ \A v \in retained \ tangled : MountsOf(v)
      /\ LaunchInv
  BY DEF MountsInv
<1>7. LaunchInv'
  BY <1>4, <1>6 DEF LaunchInv
<1>8. ASSUME NEW v \in retained \ tangled' PROVE MountsOf(v)'
  <2>1. CASE v = w /\ v \in tangled
    <3>1. executor'[w] = None /\ \A m \in Launches : launch[m].w # w
      BY <1>1, <1>3, <2>1
    <3> QED
      BY <1>4, <2>1, <3>1 DEF MountsOf
  <2>2. CASE v = w /\ v \notin tangled
    <3>1. MountsOf(v) /\ (executor'[v] # None => executor'[v] = executor[v])
      BY <1>1, <1>4, <1>6, <2>2
    <3>2. \A m \in Launches : launch'[m].w = v => launch'[m].mounts = {} \/ launch'[m] = launch[m]
      BY <1>4
    <3> QED
      BY <1>1, <1>5, <3>1, <3>2 DEF MountsOf
  <2>3. CASE v # w
    <3>1. MountsOf(v)
      BY <1>1, <1>6, <2>3
    <3>2. executor'[v] = executor[v]
      BY <1>3, <1>4, <2>3
    <3> QED
      BY <1>1, <1>4, <1>5, <2>3, <3>1, <3>2 DEF MountsOf
  <2> QED
    BY <2>1, <2>2, <2>3
<1> QED
  BY <1>1, <1>5, <1>6, <1>7, <1>8 DEF MountsInv

LEMMA LaunchProfilesKeepsMounts ==
    ASSUME Typed, MountsInv, NEW l \in Launches, LaunchProfiles(l)
    PROVE  MountsInv'
<1> DEFINE w == launch[l].w
           row == [launch[l] EXCEPT !.at = "create", !.mounts = Mounts(w)]
<1>1. /\ launch \in [Launches -> LaunchRows] /\ executor \in [Workspaces -> (SUBSET Plans) \cup {None}]
      /\ profile \in [Workspaces -> SUBSET Plans]
      /\ retained \subseteq Workspaces /\ toolbox \in (SUBSET Plans) \cup {None}
  BY DEF Typed
<1>2. /\ launch[l].at = "profile" /\ launch' = [launch EXCEPT ![l] = row]
      /\ profile' = [profile EXCEPT ![w] = Mounts(w)] /\ release' = FoundMissing(w)
      /\ tangled' = IF executor[w] # None \/ \E m \in Launches \ {l} : launch[m].w = w /\ launch[m].at = "create"
                    THEN tangled \cup {w} ELSE tangled
      /\ UNCHANGED <<tree, retained, executor, toolbox>>
  BY DEF LaunchProfiles
<1>3. /\ toolbox # None => \A r \in toolbox : Kept(r)
      /\ \A v \in retained \ tangled : MountsOf(v)
      /\ LaunchInv
  BY DEF MountsInv
<1>4. w \in Workspaces /\ row.w = w /\ row.at = "create" /\ row.mounts = Mounts(w)
  BY <1>1, <1>2, <1>3 DEF LaunchInv, LaunchRows
<1> HIDE DEF row, w
<1>5. /\ launch'[l] = row /\ \A m \in Launches \ {l} : launch'[m] = launch[m]
      /\ profile'[w] = Mounts(w) /\ \A v \in Workspaces \ {w} : profile'[v] = profile[v]
  BY <1>1, <1>2, <1>4
<1>6. (\A r \in Plans : Kept(r) => Kept(r)') /\ \A r \in Mounts(w) : Kept(r)'
  BY <1>2, FoundKeeps
<1>7. LaunchInv'
  BY <1>3, <1>4, <1>5 DEF LaunchInv
<1>8. ASSUME NEW v \in retained \ tangled' PROVE MountsOf(v)'
  <2>1. CASE v = w
    <3>1. executor[w] = None /\ \A m \in Launches \ {l} : launch[m].w = w => launch[m].mounts = {}
      BY <1>2, <1>3, <2>1 DEF LaunchInv
    <3> QED
      BY <1>2, <1>4, <1>5, <1>6, <2>1, <3>1 DEF MountsOf
  <2>2. CASE v # w
    <3>1. MountsOf(v) /\ v \in Workspaces /\ profile'[v] = profile[v]
      BY <1>1, <1>2, <1>3, <1>5, <2>2
    <3>2. executor[v] # None => executor[v] \subseteq Plans
      BY <1>1, <3>1
    <3>3. \A m \in Launches : launch[m].mounts \subseteq Plans
      BY <1>1 DEF LaunchRows
    <3>4. \A m \in Launches : launch'[m].w = v => launch'[m] = launch[m]
      BY <1>4, <1>5, <2>2
    <3> QED
      BY <1>2, <1>6, <3>1, <3>2, <3>3, <3>4 DEF MountsOf
  <2> QED
    BY <2>1, <2>2
<1>9. toolbox' # None => \A r \in toolbox' : Kept(r)'
  BY <1>1, <1>2, <1>3, <1>6
<1> QED
  BY <1>2, <1>7, <1>8, <1>9 DEF MountsInv

LEMMA LaunchEndsKeepsMounts ==
    ASSUME Typed, MountsInv, (\E l \in Launches : LaunchCreates(l)) \/ (\E w \in Workspaces : Close(w))
    PROVE  MountsInv'
<1>1. /\ launch \in [Launches -> LaunchRows] /\ executor \in [Workspaces -> (SUBSET Plans) \cup {None}]
      /\ retained \subseteq Workspaces
  BY DEF Typed
<1>2. UNCHANGED <<release, tree, profile, toolbox, tangled>> /\ \A r : Kept(r)' <=> Kept(r)
  BY DEF LaunchCreates, Close, database, Kept
<1>3. /\ toolbox # None => \A r \in toolbox : Kept(r)
      /\ \A v \in retained \ tangled : MountsOf(v)
      /\ LaunchInv
  BY DEF MountsInv
<1>4. ASSUME NEW l \in Launches, LaunchCreates(l) PROVE MountsInv'
  <2> DEFINE w == launch[l].w
  <2>1. /\ launch[l].at = "create" /\ launch' = [launch EXCEPT ![l] = NoLaunch] /\ retained' = retained
        /\ executor' = executor \/ executor' = [executor EXCEPT ![w] = launch[l].mounts]
    BY <1>4 DEF LaunchCreates
  <2>2. /\ launch'[l] = NoLaunch /\ \A m \in Launches \ {l} : launch'[m] = launch[m]
        /\ \A v \in Workspaces : executor'[v] = executor[v] \/ (v = w /\ executor'[v] = launch[l].mounts)
    BY <1>1, <2>1
  <2>3. LaunchInv'
    BY <1>3, <2>2, Values DEF LaunchInv
  <2>4. ASSUME NEW v \in retained \ tangled PROVE MountsOf(v)'
    <3>1. MountsOf(v) /\ v \in Workspaces /\ v # None
      BY <1>1, <1>3, Values
    <3>2. \A m \in Launches : launch'[m].w = v => launch'[m] = launch[m]
      BY <2>2, <3>1, Values
    <3> QED
      BY <1>2, <2>2, <3>1, <3>2 DEF MountsOf
  <2> QED
    BY <1>2, <1>3, <2>1, <2>3, <2>4 DEF MountsInv
<1>5. ASSUME NEW w \in Workspaces, Close(w) PROVE MountsInv'
  <2>1. launch' = launch /\ retained' = retained \ {w} /\ executor' = [executor EXCEPT ![w] = None]
    BY <1>5 DEF Close
  <2>2. ASSUME NEW v \in retained' \ tangled PROVE MountsOf(v)'
    <3>1. MountsOf(v) /\ executor'[v] = executor[v]
      BY <1>1, <1>3, <2>1
    <3> QED
      BY <1>2, <2>1, <3>1 DEF MountsOf
  <2> QED
    BY <1>2, <1>3, <2>1, <2>2 DEF MountsInv, LaunchInv
<1> QED
  BY <1>4, <1>5

LEMMA RestartKeepsMounts ==
    ASSUME Typed, MountsInv, Restart
    PROVE  MountsInv'
<1>1. /\ launch' = [l \in Launches |-> NoLaunch] /\ toolbox' = None
      /\ UNCHANGED <<profile, retained, executor, tangled>>
  BY DEF Restart
<1>2. /\ executor \in [Workspaces -> (SUBSET Plans) \cup {None}] /\ retained \subseteq Workspaces
  BY DEF Typed
<1>3. \A r \in Plans : Kept(r) => Kept(r)'
  <2>1. CASE /\ tree' = [r \in Plans |-> IF tree[r] = "here" /\ release[r] \notin Live THEN "none" ELSE tree[r]]
             /\ release' = [r \in Plans |-> IF release[r] \notin Live THEN release[r]
                                            ELSE IF tree[r] = "here" THEN "VERIFIED" ELSE "MISSING"]
    BY <2>1 DEF Kept, Live
  <2>2. CASE UNCHANGED <<tree, release>>
    BY <2>2 DEF Kept
  <2> QED
    BY <2>1, <2>2 DEF Restart
<1>4. LaunchInv'
  BY <1>1, Values DEF LaunchInv
<1>5. ASSUME NEW w \in retained \ tangled PROVE MountsOf(w)'
  <2>1. MountsOf(w) /\ w \in Workspaces /\ (executor[w] # None => executor[w] \subseteq Plans)
    BY <1>2 DEF MountsInv
  <2>2. \A l \in Launches : launch'[l].w # w
    BY <1>1, <2>1, Values
  <2> QED
    BY <1>1, <1>3, <2>1, <2>2 DEF MountsOf
<1> QED
  BY <1>1, <1>4, <1>5 DEF MountsInv

-----------------------------------------------------------------------------
(* The invariant and what follows from it *)

LEMMA PackagesInitially == Init => PackagesInv
<1> SUFFICES ASSUME Init PROVE PackagesInv
  OBVIOUS
<1>1. Typed
  BY Values DEF Init, Typed, InFlight, Live
<1>2. PlansInv
  BY Values DEF Init, PlansInv, PlanInv, FenceInv, BindingInv
<1>3. NoCollision
  BY Values DEF Init, NoCollision, Published
<1>4. TreesInv
  BY Values DEF Init, TreesInv, TreesHaveRows, PassInv
<1>5. MountsInv
  BY Values DEF Init, MountsInv, MountsOf, LaunchInv
<1> QED
  BY <1>1, <1>2, <1>3, <1>4, <1>5 DEF PackagesInv

LEMMA PackagesStep == PackagesInv /\ [Next]_vars => PackagesInv'
<1> SUFFICES ASSUME PackagesInv, [Next]_vars PROVE PackagesInv'
  OBVIOUS
<1>1. Typed /\ PlansInv /\ NoCollision /\ TreesInv /\ MountsInv /\ LaunchInv
  BY DEF PackagesInv, MountsInv
<1>2. NoCollision'
  BY <1>1, NoCollisionKept
<1>3. CASE UNCHANGED vars
  <2>1. Typed' /\ PlansInv'
    BY <1>1, <1>3, RestKeeps
  <2>2. TreesInv' /\ MountsInv'
    BY <1>1, <1>3, MountsKeepTrees, RowsKeepMounts
  <2> QED
    BY <1>2, <2>1, <2>2 DEF PackagesInv
<1>4. ASSUME NEW p \in Plans,
             \/ Resolve(p) \/ Decide(p) \/ ApplyAsks(p) \/ ApplyStarts(p) \/ BuildBegins(p) \/ Publishes(p)
             \/ RecordsFailure(p)
      PROVE  PackagesInv'
  <2>1. Typed' /\ PlansInv'
    BY <1>1, <1>4, ResolveKeeps, DecideKeeps, RestKeeps, ApplyStartsKeeps, BuildsKeep, PublishesKeep,
       RecordsFailureKeeps
  <2>2. TreesInv' /\ MountsInv'
    BY <1>1, <1>4, RowsKeepTrees, RowsKeepMounts
  <2> QED
    BY <1>2, <2>1, <2>2 DEF PackagesInv
<1>5. ASSUME NEW p \in Plans, BuildEnds(p) \/ Unmoves(p) \/ Vanishes(p) \/ Returns(p)
      PROVE  PackagesInv'
  <2>1. Typed' /\ PlansInv'
    BY <1>1, <1>5, BuildsKeep, RestKeeps
  <2>2. TreesInv' /\ MountsInv'
    BY <1>1, <1>5, MovesKeepTrees, RowsKeepMounts
  <2> QED
    BY <1>2, <2>1, <2>2 DEF PackagesInv
<1>6. ASSUME NEW p \in Plans, RemovalCollects(p) \/ SweepCollects(p)
      PROVE  PackagesInv'
  <2>1. Typed' /\ PlansInv' /\ TreesInv'
    BY <1>1, <1>6, PassesKeep, PassesKeepTrees
  <2>2. Collects(removal, p) \/ Collects(sweep, p)
    BY <1>6 DEF RemovalCollects, SweepCollects
  <2>3. MountsInv'
    BY <1>1, <2>2, CollectsKeepsMounts
  <2> QED
    BY <1>2, <2>1, <2>3 DEF PackagesInv
<1>7. ASSUME \/ RemovalRemoves \/ SweepBegins \/ SweepRemoves \/ \E p \in Plans : SweepRestores(p)
      PROVE  PackagesInv'
  <2>1. Typed' /\ PlansInv' /\ TreesInv'
    BY <1>1, <1>7, PassesKeep, PassesKeepTrees
  <2>2. MountsInv'
    BY <1>1, <1>7, RowsKeepMounts
  <2> QED
    BY <1>2, <2>1, <2>2 DEF PackagesInv
<1>8. ASSUME SweepLists \/ \E k \in Keys : RemoveBinding(k) \/ \E r \in Plans : Rollback(k, r)
      PROVE  PackagesInv'
  <2>1. Typed' /\ PlansInv'
    BY <1>1, <1>8, SweepListsKeeps, RemoveBindingKeeps, RollbackKeeps
  <2>2. TreesInv' /\ MountsInv'
    BY <1>1, <1>8, PassesKeepTrees, RowsKeepMounts
  <2> QED
    BY <1>2, <2>1, <2>2 DEF PackagesInv
<1>9. ASSUME \/ ToolboxBegins \/ ToolboxEnds \/ \E w \in Workspaces : Close(w)
             \/ \E l \in Launches : LaunchProfiles(l) \/ LaunchCreates(l) \/ \E w \in Workspaces : LaunchBegins(l, w)
      PROVE  PackagesInv'
  <2>1. Typed' /\ PlansInv'
    BY <1>1, <1>9, MountsKeep
  <2>2. TreesInv'
    BY <1>1, <1>9, MountsKeepTrees
  <2>3. MountsInv'
    BY <1>1, <1>9, ToolboxKeepsMounts, RowsKeepMounts, LaunchBeginsKeepsMounts, LaunchProfilesKeepsMounts,
       LaunchEndsKeepsMounts
  <2> QED
    BY <1>2, <2>1, <2>2, <2>3 DEF PackagesInv
<1>10. CASE Restart
  BY <1>1, <1>2, <1>10, RestartKeeps, RestartKeepsTrees, RestartKeepsMounts DEF PackagesInv
<1> QED
  BY <1>3, <1>4, <1>5, <1>6, <1>7, <1>8, <1>9, <1>10 DEF Next

LEMMA PackagesAlways == Spec => []PackagesInv
<1>1. Init => PackagesInv
  BY PackagesInitially
<1>2. PackagesInv /\ [Next]_vars => PackagesInv'
  BY PackagesStep
<1> QED
  BY <1>1, <1>2, PTL DEF Spec

\* What an executor, one about to be created or a toolbox command mounts is not taken away from it,
\* although rows are looked at before awaits and trees are removed after them (unreferencedSql,
\* markCollected, holdToolboxMounts): a release that is collected is in no profile, and nobody mounts
\* more than the profile of its workspace.  A workspace is excepted from the time a launch replaces the
\* profile of an executor that Docker did not remove, or of an overlapping launch, until a later launch
\* has removed the executor.
THEOREM MountsStayWhole == Spec => []MountedIsKept
<1>1. PackagesInv => MountedIsKept
  BY DEF PackagesInv, MountsInv, MountsOf, MountedIsKept
<1> QED
  BY <1>1, PackagesAlways, PTL

\* No binary name comes from two packages on one PATH (requireNoConflicts before publish and rollback).
THEOREM NamesStayApart == Spec => []NoCollision
<1>1. PackagesInv => NoCollision
  BY DEF PackagesInv
<1> QED
  BY <1>1, PackagesAlways, PTL

\* A fence has a job that will lift it, and a tree a row, a job or a pass that knows of it
\* (recordApplyFailure, failInterruptedApplies, runApply, reconcileDirectories).
THEOREM NothingIsForgotten == Spec => []NothingForgotten
<1>1. ASSUME PackagesInv PROVE NothingForgotten
  <2>1. FencesLift
    BY <1>1 DEF PackagesInv, PlansInv, BindingInv, FencesLift
  <2>2. TreesHaveRows
    BY <1>1 DEF PackagesInv, TreesInv
  <2> QED
    BY <2>1, <2>2 DEF NothingForgotten
<1> QED
  BY <1>1, PackagesAlways, PTL

\* The release that a publish replaces is the one the plan was made against: the fence that startApply
\* puts on the binding keeps its generation until the publish (requireCurrentGeneration).
THEOREM PublishesWhatWasReviewed == Spec => ReplacesWhatWasReviewed
<1>1. ASSUME PackagesInv, [Next]_vars, NEW p \in Plans, apply[p] # "SUCCEEDED", apply'[p] = "SUCCEEDED"
      PROVE  binding[Of[p]].release = plan[p].base
  <2>1. apply \in [Plans -> {"NONE", "SUCCEEDED", "FAILED"} \cup InFlight]
    BY <1>1 DEF PackagesInv, Typed
  <2>2. ASSUME NEW q \in Plans, Publishes(q) PROVE binding[Of[p]].release = plan[p].base
    <3>1. q = p /\ job[q] = "publishing" /\ binding[Of[q]].fence = q
      BY <1>1, <2>1, <2>2 DEF Publishes, MayPublish
    <3>2. FenceInv(q)
      BY <1>1 DEF PackagesInv, PlansInv
    <3> QED
      BY <3>1, <3>2 DEF FenceInv
  <2>3. ASSUME NEW q \in Plans,
               \/ Resolve(q) \/ Decide(q) \/ ApplyAsks(q) \/ Unmoves(q)
               \/ RemovalCollects(q) \/ SweepRestores(q) \/ SweepCollects(q) \/ Vanishes(q) \/ Returns(q)
        PROVE  apply' = apply
    BY <2>3 DEF Resolve, Decide, ApplyAsks, Unmoves, RemovalCollects, SweepRestores, SweepCollects, Vanishes,
                Returns, Collects, database
  <2>4. ASSUME NEW q \in Plans, ApplyStarts(q) \/ BuildBegins(q) \/ BuildEnds(q) \/ RecordsFailure(q)
        PROVE  apply'[p] # "SUCCEEDED"
    BY <1>1, <2>1, <2>4 DEF ApplyStarts, BuildBegins, BuildEnds, RecordsFailure, Failed
  <2>5. ASSUME \/ \E k \in Keys : RemoveBinding(k) \/ \E r \in Plans : Rollback(k, r)
               \/ RemovalRemoves \/ SweepBegins \/ SweepLists \/ SweepRemoves
               \/ \E l \in Launches : LaunchProfiles(l) \/ LaunchCreates(l) \/ \E w \in Workspaces : LaunchBegins(l, w)
               \/ \E w \in Workspaces : Close(w)
               \/ ToolboxBegins \/ ToolboxEnds \/ UNCHANGED vars
        PROVE  apply' = apply
    BY <2>5 DEF RemoveBinding, Rollback, RemovalRemoves, SweepBegins, SweepLists, SweepRemoves, Removes,
                LaunchProfiles, LaunchCreates, LaunchBegins, Close, ToolboxBegins, ToolboxEnds, database, vars
  <2>6. CASE Restart
    BY <1>1, <2>1, <2>6 DEF Restart
  <2> QED
    BY <1>1, <2>2, <2>3, <2>4, <2>5, <2>6 DEF Next
<1>2. PackagesInv /\ [Next]_vars =>
        [\A p \in Plans : apply[p] # "SUCCEEDED" /\ apply'[p] = "SUCCEEDED"
            => binding[Of[p]].release = plan[p].base]_vars
  BY <1>1
<1> QED
  BY <1>2, PackagesAlways, PTL DEF Spec, ReplacesWhatWasReviewed

=============================================================================
