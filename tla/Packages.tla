------------------------------- MODULE Packages -------------------------------
(***************************************************************************)
(* Managed toolbox packages: package-service.ts and package-store.ts.      *)
(* A plan is reviewed, approved and applied once.  Its apply builds a      *)
(* release, moves the tree into place and publishes it: the release is     *)
(* then the current one of its binding, a package in a scope, and the head *)
(* of the binding's history.  Executors and toolbox commands mount the     *)
(* current releases; a release that nothing refers to any more is          *)
(* collected, its row first and then, after an await, its tree.            *)
(*                                                                         *)
(* A plan stands for its apply and its release too: the three are one to   *)
(* one.  The staging and scratch directories, the resolution that precedes *)
(* a plan and the contents of a release are left out.                      *)
(***************************************************************************)
EXTENDS Naturals, Sequences, FiniteSets

CONSTANTS
    Plans,         \* plans, and with them applies and releases
    Of,            \* Of[p] : [pkg, scope], the binding that plan p is about
    Names,         \* Names[p] : the binaries its release brings
    Workspaces,    \* the workspaces of the owner
    Owner,         \* the scope of a binding that every workspace sees
    Launches,      \* launches of executors that may be under way at once
    None,          \* no plan, release or workspace
    HistoryDepth,  \* PACKAGE_HISTORY_DEPTH
    MaxBindings,   \* PACKAGES_MAX_BINDINGS
    MaxReleases,   \* PACKAGES_MAX_OWNER_BYTES, in releases of the largest size
    BuildSlots,    \* PACKAGE_BUILD_SLOTS
    Reviewed,      \* the plans made while packagesApprovalMode asks for an approval
    MaxGen,        \* bound: generation from which a binding is not rolled back any more
    Unsteady,      \* bound: releases whose tree may be gone for a time
    MaxTroubles    \* bound: kinds of trouble in one behaviour

ASSUME PackagesAssumption ==
    /\ None \notin Plans \cup Workspaces /\ Owner \notin Workspaces
    /\ {Of[p].scope : p \in Plans} \subseteq Workspaces \cup {Owner}
    /\ HistoryDepth \in Nat \ {0} /\ BuildSlots \in Nat \ {0}
    /\ {MaxBindings, MaxReleases, MaxGen, MaxTroubles} \subseteq Nat
    /\ Reviewed \cup Unsteady \subseteq Plans

VARIABLES
    plan,      \* package_plans
    apply,     \* package_applies: the state of the plan's apply
    release,   \* package_releases: the status of the plan's release
    binding,   \* package_bindings
    history,   \* package_binding_history: the releases of a binding, latest first
    profile,   \* package_workspace_profiles
    retained,  \* the workspaces that are not closed or failed
    tree,      \* the release directories: "here", gone for a time ("away") or "none"
    job,       \* the await at which the job of an apply is
    asked,     \* applies that passed the early checks and wait for the disk's free space
    launch,    \* launches under way
    executor,  \* the releases a workspace's executor mounts, None without one
    tangled,   \* workspaces whose profile was overwritten while they had an executor, or while another
               \* launch was about to create one
    toolbox,   \* the releases that a running toolbox command holds, None without one
    sweep,     \* the pass of collectGarbage
    removal,   \* a packages_remove that collects
    troubles   \* the kinds of trouble there were: "build", "tree", "database", "storage", "docker", "restart"

database == <<plan, apply, release, binding, history, profile>>
mounts   == <<retained, launch, executor, tangled, toolbox>>
passes   == <<sweep, removal>>
vars     == <<database, mounts, passes, tree, job, asked, troubles>>

-----------------------------------------------------------------------------
Keys == {Of[p] : p \in Plans}
InFlight == {"QUEUED", "BUILDING", "PUBLISHING"}       \* VERIFYING is the end of a build
Live == {"VERIFIED", "MISSING"}

NoPlan    == [status |-> "NONE", id |-> None, gen |-> 0, base |-> None, collides |-> FALSE]
NoBinding == [id |-> None, release |-> None, gen |-> 0, fence |-> None]
NoPass    == [at |-> "idle", todo |-> {}, of |-> None]
NoLaunch  == [w |-> None, at |-> "idle", mounts |-> {}]

Init ==
    /\ plan = [p \in Plans |-> NoPlan] /\ apply = [p \in Plans |-> "NONE"]
    /\ release = [r \in Plans |-> "NONE"] /\ tree = [r \in Plans |-> "none"]
    /\ binding = [k \in Keys |-> NoBinding] /\ history = [k \in Keys |-> <<>>]
    /\ profile = [w \in Workspaces |-> {}] /\ retained = Workspaces
    /\ job = [p \in Plans |-> "none"] /\ asked = {}
    /\ launch = [l \in Launches |-> NoLaunch] /\ executor = [w \in Workspaces |-> None]
    /\ tangled = {} /\ toolbox = None
    /\ sweep = NoPass /\ removal = NoPass
    /\ troubles = {}

\* Trouble of each kind happens once, and of few kinds.
Trouble(kind) ==
    /\ Cardinality(troubles) < MaxTroubles /\ kind \notin troubles
    /\ troubles' = troubles \cup {kind}

Entries(k) == {history[k][i] : i \in DOMAIN history[k]}
Published(k) == binding[k].release # None

\* Two packages whose binaries end up on one PATH.
Meet(k, j) == k.pkg # j.pkg /\ (k.scope = j.scope \/ Owner \in {k.scope, j.scope})

Collides(k, names) ==
    \E j \in Keys : Published(j) /\ Meet(k, j) /\ names \cap Names[binding[j].release] # {}

\* Mutant: profiles are no references.
UnreferencedByRows(r) ==
    /\ \A k \in Keys : binding[k].release # r /\ r \notin Entries(k)
    /\ apply[r] \notin InFlight

Unreferenced(r) ==
    /\ \A k \in Keys : binding[k].release # r /\ r \notin Entries(k)
    /\ apply[r] \notin InFlight
    /\ \A w \in retained : r \notin profile[w]

Present(r) == release[r] = "VERIFIED" /\ tree[r] = "here"

\* The published bindings that a workspace sees, its own before the owner's.
Effective(w) ==
    {k \in Keys : /\ Published(k) /\ k.scope \in {Owner, w}
                  /\ \A j \in Keys : j.pkg = k.pkg /\ j.scope = w /\ Published(j) => j = k}
Wanted(w) == {binding[k].release : k \in Effective(w)}
Mounts(w) == {r \in Wanted(w) : Present(r)}

\* buildProfile notes the releases it does not find.
FoundMissing(w) ==
    [r \in Plans |-> IF r \in Wanted(w) /\ release[r] = "VERIFIED" /\ ~Present(r)
                     THEN "MISSING" ELSE release[r]]

-----------------------------------------------------------------------------
(* Plans *)

\* A resolution ends: the plan notes the binding as it is now.  Without reviews it is approved at once.
\* The workspace was looked at when the resolution began and may be closed by now.
Resolve(p) ==
    LET b == binding[Of[p]] IN
    /\ plan[p].status = "NONE"
    /\ LET status == IF p \in Reviewed THEN "PENDING_APPROVAL" ELSE "APPROVED" IN
          plan' = [plan EXCEPT ![p] = [status |-> status, id |-> b.id, gen |-> b.gen, base |-> b.release,
                                       collides |-> Collides(Of[p], Names[p])]]
    /\ UNCHANGED <<apply, release, binding, history, profile, mounts, passes, troubles, tree, job, asked>>

\* Mutant: the generation is not compared.
CurrentPlan(p) == TRUE

\* The binding has not moved since the plan was made.
Current(p) ==
    LET b == binding[Of[p]] IN
    /\ b.gen = plan[p].gen
    /\ plan[p].id = None \/ b.id = None \/ plan[p].id = b.id

\* Approved; or rejected or expired, after which p stands for another plan.
Decide(p) ==
    /\ \/ /\ plan[p].status = "PENDING_APPROVAL" /\ Current(p)
          /\ plan' = [plan EXCEPT ![p] = [@ EXCEPT !.status = "APPROVED"]] /\ UNCHANGED asked
       \/ /\ plan[p].status \in {"PENDING_APPROVAL", "APPROVED"}
          /\ plan' = [plan EXCEPT ![p] = NoPlan] /\ asked' = asked \ {p}
    /\ UNCHANGED <<apply, release, binding, history, profile, mounts, passes, troubles, tree, job>>

-----------------------------------------------------------------------------
(* packages_apply, and the job it schedules *)

\* The image and the collisions are looked at before the disk is asked for its free space, but not
\* those of a plan that is still to be approved: its approval may come before the disk answers.
ApplyAsks(p) ==
    /\ p \notin asked
    /\ \/ plan[p].status = "APPROVED" /\ ~plan[p].collides /\ ~Collides(Of[p], Names[p])
       \/ plan[p].status = "PENDING_APPROVAL"
    /\ asked' = asked \cup {p}
    /\ UNCHANGED <<database, mounts, passes, troubles, tree, job>>

Room(k) ==
    /\ binding[k].id = None => Cardinality({j \in Keys : binding[j].id # None}) < MaxBindings
    /\ Cardinality({r \in Plans : release[r] = "VERIFIED"})
          + Cardinality({p \in Plans : apply[p] \in InFlight}) < MaxReleases

\* startApply: consumes the plan and fences the binding, or refuses.  A replay changes nothing.
ApplyStarts(p) ==
    LET k == Of[p]
        id == IF binding[k].id = None THEN p ELSE binding[k].id IN
    /\ p \in asked /\ asked' = asked \ {p}
    /\ IF plan[p].status = "APPROVED" /\ Current(p) /\ binding[k].fence = None /\ Room(k)
       THEN /\ plan' = [plan EXCEPT ![p] = [@ EXCEPT !.status = "CONSUMED"]]
            /\ apply' = [apply EXCEPT ![p] = "QUEUED"]
            /\ binding' = [binding EXCEPT ![k] = [@ EXCEPT !.id = id, !.fence = p]]
            /\ job' = [job EXCEPT ![p] = "waiting"]
       ELSE UNCHANGED <<plan, apply, binding, job>>
    /\ UNCHANGED <<release, history, profile, mounts, passes, troubles, tree>>

JobGoes(p, at) == job' = [job EXCEPT ![p] = at]

BuildBegins(p) ==
    /\ job[p] = "waiting" /\ Cardinality({q \in Plans : job[q] \notin {"none", "waiting"}}) < BuildSlots
    /\ apply' = [apply EXCEPT ![p] = "BUILDING"] /\ JobGoes(p, "building")
    /\ UNCHANGED <<plan, release, binding, history, profile, mounts, passes, troubles, tree, asked>>

\* The release is built and its tree moved into place.  Or the build or the move fails, is cancelled
\* or takes too long, or the image is another one by now.
BuildEnds(p) ==
    /\ job[p] = "building"
    /\ \/ /\ apply' = [apply EXCEPT ![p] = "PUBLISHING"] /\ JobGoes(p, "publishing")
          /\ tree' = [tree EXCEPT ![p] = "here"] /\ UNCHANGED troubles
       \/ Trouble("build") /\ UNCHANGED <<apply, tree>> /\ JobGoes(p, "failing")
    /\ UNCHANGED <<plan, release, binding, history, profile, mounts, passes, asked>>

Latest(k, r) ==
    LET all == <<r>> \o history[k] IN
    SubSeq(all, 1, IF Len(all) < HistoryDepth THEN Len(all) ELSE HistoryDepth)

\* Nothing of a plan counts once its apply has ended.
Over(p) == plan' = [plan EXCEPT ![p] = [NoPlan EXCEPT !.status = "CONSUMED"]]

\* Mutant: the collisions seen before the build are taken for granted.
MayPublishAnyway(p) == binding[Of[p]].fence = p

MayPublish(p) ==
    ~plan[p].collides /\ ~Collides(Of[p], Names[p]) /\ binding[Of[p]].fence = p

\* The last look for collisions and the transaction, without an await between them.  A release whose
\* records are too long, or that the database refuses, is not published either.
Publishes(p) ==
    LET k == Of[p] IN
    /\ job[p] = "publishing"
    /\ \/ /\ MayPublish(p) /\ UNCHANGED troubles
          /\ release' = [release EXCEPT ![p] = "VERIFIED"]
          /\ binding' = [binding EXCEPT ![k] = [@ EXCEPT !.release = p, !.gen = binding[k].gen + 1, !.fence = None]]
          /\ history' = [history EXCEPT ![k] = Latest(k, p)]
          /\ apply' = [apply EXCEPT ![p] = "SUCCEEDED"] /\ JobGoes(p, "none") /\ Over(p)
       \/ /\ \/ ~MayPublish(p) /\ UNCHANGED troubles
             \/ Trouble("build")
          /\ UNCHANGED <<plan, release, binding, history, apply>> /\ JobGoes(p, "unmoving")
    /\ UNCHANGED <<profile, mounts, passes, tree, asked>>

\* The tree of a release that was not published goes again; a failure is ignored.
Unmoves(p) ==
    /\ job[p] = "unmoving" /\ JobGoes(p, "failing")
    /\ \/ tree' = [tree EXCEPT ![p] = "none"] /\ UNCHANGED troubles
       \/ Trouble("tree") /\ UNCHANGED tree
    /\ UNCHANGED <<database, mounts, passes, asked>>

Failed(A, p) == [A EXCEPT ![p] = "FAILED"]
Unfenced(b, P) == IF b.fence \in P THEN [b EXCEPT !.fence = None] ELSE b

\* recordApplyFailure, which gives up when the database goes on failing.
RecordsFailure(p) ==
    /\ job[p] = "failing" /\ JobGoes(p, "none") /\ Over(p)
    /\ \/ /\ apply' = Failed(apply, p)
          /\ binding' = [binding EXCEPT ![Of[p]] = Unfenced(@, {p})] /\ UNCHANGED troubles
       \/ Trouble("database") /\ UNCHANGED <<apply, binding>>
    /\ UNCHANGED <<release, history, profile, mounts, passes, tree, asked>>

-----------------------------------------------------------------------------
(* packages_rollback *)

Free(k) == binding[k].fence = None

Rollback(k, r) ==
    /\ binding[k].id # None /\ Free(k) /\ r \in Entries(k) /\ binding[k].release # r
    /\ Present(r) /\ ~Collides(k, Names[r]) /\ binding[k].gen < MaxGen
    /\ binding' = [binding EXCEPT ![k] = [@ EXCEPT !.release = r, !.gen = binding[k].gen + 1]]
    /\ history' = [history EXCEPT ![k] = Latest(k, r)]
    /\ UNCHANGED <<plan, apply, release, profile, mounts, passes, troubles, tree, job, asked>>

-----------------------------------------------------------------------------
(* Collection: packages_remove and collectGarbage *)

Held(r) == toolbox # None /\ r \in toolbox

\* One release of the list `pass.todo`: passed over, or marked COLLECTED before its tree is removed.
Collects(pass, r) ==
    /\ pass.at = "collect" /\ r \in pass.todo
    /\ IF ~Held(r) /\ release[r] \in Live /\ Unreferenced(r)
       THEN release' = [release EXCEPT ![r] = "COLLECTED"]
       ELSE UNCHANGED release
    /\ UNCHANGED <<plan, apply, binding, history, profile, mounts, troubles, tree, job, asked>>

After(pass, r, collected) ==
    IF collected THEN [pass EXCEPT !.at = "remove", !.of = r, !.todo = @ \ {r}]
    ELSE IF pass.todo = {r} THEN NoPass ELSE [pass EXCEPT !.todo = @ \ {r}]

\* A tree whose storage is away is not there to be removed.
Removes(pass) ==
    /\ pass.at = "remove"
    /\ \/ tree[pass.of] = "here" /\ tree' = [tree EXCEPT ![pass.of] = "none"] /\ UNCHANGED troubles
       \/ tree[pass.of] # "here" /\ UNCHANGED <<tree, troubles>>
       \/ Trouble("tree") /\ UNCHANGED tree
    /\ UNCHANGED <<database, mounts, job, asked>>

Onward(pass) == IF pass.todo = {} THEN NoPass ELSE [pass EXCEPT !.at = "collect", !.of = None]

RemoveBinding(k) ==
    /\ removal = NoPass /\ binding[k].id # None /\ Free(k)
    /\ binding' = [binding EXCEPT ![k] = NoBinding] /\ history' = [history EXCEPT ![k] = <<>>]
    /\ LET todo == Entries(k) \cup ({binding[k].release} \ {None}) IN
       removal' = IF todo = {} THEN NoPass ELSE [NoPass EXCEPT !.at = "collect", !.todo = todo]
    /\ UNCHANGED <<plan, apply, release, profile, mounts, sweep, troubles, tree, job, asked>>

RemovalCollects(r) ==
    /\ Collects(removal, r) /\ removal' = After(removal, r, release'[r] # release[r])
    /\ UNCHANGED sweep

RemovalRemoves == Removes(removal) /\ removal' = Onward(removal) /\ UNCHANGED sweep

\* restoreMissingReleases: the digest of every missing release that is back.
SweepBegins ==
    /\ sweep = NoPass
    /\ sweep' = [NoPass EXCEPT !.at = "restore", !.todo = {r \in Plans : release[r] = "MISSING"}]
    /\ UNCHANGED <<database, mounts, removal, troubles, tree, job, asked>>

\* What is collected meanwhile stays so; a tree that went again has no digest.
SweepRestores(r) ==
    /\ sweep.at = "restore" /\ r \in sweep.todo /\ sweep' = [sweep EXCEPT !.todo = @ \ {r}]
    /\ \/ release[r] = "MISSING" /\ tree[r] = "here" /\ release' = [release EXCEPT ![r] = "VERIFIED"]
       \/ (release[r] # "MISSING" \/ tree[r] # "here") /\ UNCHANGED release
    /\ UNCHANGED <<plan, apply, binding, history, profile, mounts, removal, troubles, tree, job, asked>>

\* The binding of a package that was never published, or of a workspace that is gone.
Orphan(k) == /\ binding[k].id # None /\ Free(k)
             /\ ~Published(k) \/ k.scope \notin retained \cup {Owner}

\* deleteOrphanBindings and the list of what can be collected then.
SweepLists ==
    /\ sweep.at = "restore" /\ sweep.todo = {}
    /\ binding' = [k \in Keys |-> IF Orphan(k) THEN NoBinding ELSE binding[k]]
    /\ history' = [k \in Keys |-> IF Orphan(k) THEN <<>> ELSE history[k]]
    /\ UNCHANGED <<plan, apply, release, profile, mounts, removal, troubles, tree, job, asked>>
    /\ LET todo == {r \in Plans : release[r] \in Live /\ Unreferenced(r)'} IN
       sweep' = IF todo = {} THEN NoPass ELSE [NoPass EXCEPT !.at = "collect", !.todo = todo]

SweepCollects(r) ==
    /\ Collects(sweep, r) /\ sweep' = After(sweep, r, release'[r] # release[r])
    /\ UNCHANGED removal

SweepRemoves == Removes(sweep) /\ sweep' = Onward(sweep) /\ UNCHANGED removal

-----------------------------------------------------------------------------
(* Mounts: createExecutor and runToolbox *)

\* createExecutor removes the container that bears the name, then awaits its directories.  When Docker
\* does not remove it the launch goes on all the same.
LaunchBegins(l, w) ==
    /\ launch[l].at = "idle" /\ w \in retained
    /\ launch' = [launch EXCEPT ![l] = [NoLaunch EXCEPT !.w = w, !.at = "profile"]]
    /\ \/ /\ executor' = [executor EXCEPT ![w] = None] /\ UNCHANGED troubles
          /\ tangled' = IF \E m \in Launches : launch[m].w = w THEN tangled ELSE tangled \ {w}
       \/ executor[w] # None /\ Trouble("docker") /\ UNCHANGED <<executor, tangled>>
    /\ UNCHANGED <<database, retained, toolbox, passes, tree, job, asked>>

\* profileFor records the profile, and the container is created after more awaits.
LaunchProfiles(l) ==
    LET w == launch[l].w IN
    /\ launch[l].at = "profile"
    /\ launch' = [launch EXCEPT ![l] = [@ EXCEPT !.at = "create", !.mounts = Mounts(w)]]
    /\ profile' = [profile EXCEPT ![w] = Mounts(w)] /\ release' = FoundMissing(w)
    /\ tangled' = IF executor[w] # None \/ \E m \in Launches \ {l} : launch[m].w = w /\ launch[m].at = "create"
                  THEN tangled \cup {w} ELSE tangled
    /\ UNCHANGED <<plan, apply, binding, history, retained, executor, toolbox, passes, troubles, tree, job, asked>>

\* docker create: fails for a name that is taken, and is undone for a workspace that is gone.
LaunchCreates(l) ==
    LET w == launch[l].w IN
    /\ launch[l].at = "create" /\ launch' = [launch EXCEPT ![l] = NoLaunch]
    /\ \/ /\ executor[w] = None /\ w \in retained
          /\ executor' = [executor EXCEPT ![w] = launch[l].mounts]
       \/ UNCHANGED executor
    /\ UNCHANGED <<database, retained, tangled, toolbox, passes, troubles, tree, job, asked>>

\* closeRecord removes the container before the row is CLOSED.
Close(w) ==
    /\ w \in retained /\ retained' = retained \ {w} /\ executor' = [executor EXCEPT ![w] = None]
    /\ UNCHANGED <<database, launch, tangled, toolbox, passes, troubles, tree, job, asked>>

\* holdToolboxMounts; the toolbox sees the owner's bindings only.
ToolboxBegins ==
    /\ toolbox = None /\ toolbox' = Mounts(None) /\ release' = FoundMissing(None)
    /\ UNCHANGED <<plan, apply, binding, history, profile, retained, launch, executor, tangled, passes,
                   troubles, tree, job, asked>>

ToolboxEnds ==
    /\ toolbox # None /\ toolbox' = None
    /\ UNCHANGED <<database, retained, launch, executor, tangled, passes, troubles, tree, job, asked>>

-----------------------------------------------------------------------------
(* The storage of the releases, and the runner, come and go *)

Vanishes(r) ==
    /\ tree[r] = "here" /\ r \in Unsteady /\ Trouble("storage")
    /\ tree' = [tree EXCEPT ![r] = "away"]
    /\ UNCHANGED <<database, mounts, passes, job, asked>>

Returns(r) ==
    /\ tree[r] = "away" /\ tree' = [tree EXCEPT ![r] = "here"]
    /\ UNCHANGED <<database, mounts, passes, troubles, job, asked>>

\* Mutant: applies that were interrupted keep their state and their fence.
NoneInterrupted == {}

Interrupted == {p \in Plans : apply[p] \in InFlight}

\* A crash or shutdown, then failInterruptedApplies and reconcileDirectories before the server
\* listens; the second may fail or find no storage.  Executors stay, toolbox commands do not.
Restart ==
    /\ job' = [p \in Plans |-> "none"] /\ asked' = {} /\ sweep' = NoPass /\ removal' = NoPass
    /\ launch' = [l \in Launches |-> NoLaunch] /\ toolbox' = None
    /\ apply' = [p \in Plans |-> IF p \in Interrupted THEN "FAILED" ELSE apply[p]]
    /\ binding' = [k \in Keys |-> Unfenced(binding[k], Interrupted)]
    /\ \/ /\ Trouble("restart")
          /\ tree' = [r \in Plans |-> IF tree[r] = "here" /\ release[r] \notin Live THEN "none" ELSE tree[r]]
          /\ release' = [r \in Plans |-> IF release[r] \notin Live THEN release[r]
                                         ELSE IF tree[r] = "here" THEN "VERIFIED" ELSE "MISSING"]
       \/ Trouble("tree") /\ UNCHANGED <<tree, release>>
    /\ UNCHANGED <<plan, history, profile, retained, executor, tangled>>

-----------------------------------------------------------------------------
Next ==
    \/ \E p \in Plans :
          \/ Resolve(p) \/ Decide(p) \/ ApplyAsks(p) \/ ApplyStarts(p)
          \/ BuildBegins(p) \/ BuildEnds(p) \/ Publishes(p) \/ Unmoves(p) \/ RecordsFailure(p)
          \/ RemovalCollects(p) \/ SweepRestores(p) \/ SweepCollects(p) \/ Vanishes(p) \/ Returns(p)
    \/ \E k \in Keys : RemoveBinding(k) \/ \E r \in Plans : Rollback(k, r)
    \/ RemovalRemoves \/ SweepBegins \/ SweepLists \/ SweepRemoves
    \/ \E l \in Launches : LaunchProfiles(l) \/ LaunchCreates(l) \/ \E w \in Workspaces : LaunchBegins(l, w)
    \/ \E w \in Workspaces : Close(w)
    \/ ToolboxBegins \/ ToolboxEnds \/ Restart

Spec == Init /\ [][Next]_vars

-----------------------------------------------------------------------------
(* Properties *)

Kept(r) == release[r] \in Live /\ tree[r] # "none"

\* Whatever an executor, one about to be created or a toolbox command mounts is not taken away from it,
\* by an uninstall, a collection, a rollback or a restart, although rows are looked at before awaits
\* and trees removed after them (unreferencedSql, markCollected, holdToolboxMounts).  A tangled workspace
\* is excepted: when Docker did not remove the executor of a launch before, or two launches of one
\* workspace overlap, the profile that is recorded is not that of the executor, and what only this
\* one mounts is collected.
MountedIsKept ==
    /\ toolbox # None => \A r \in toolbox : Kept(r)
    /\ \A w \in retained \ tangled :
          /\ executor[w] # None => \A r \in executor[w] : Kept(r)
          /\ \A l \in Launches : launch[l].w = w => \A r \in launch[l].mounts : Kept(r)

\* No binary name comes from two packages on one PATH, whichever were planned, built, rolled back and
\* removed at once (requireNoConflicts before publish, rollback).
NoCollision ==
    \A k \in Keys : Published(k) => ~Collides(k, Names[binding[k].release])

\* The release that a publish replaces is the one that the plan was made against: what was reviewed is
\* what happens (requireCurrentGeneration, the fence of startApply).
ReplacesWhatWasReviewed ==
    [][\A p \in Plans : apply[p] # "SUCCEEDED" /\ apply'[p] = "SUCCEEDED"
          => binding[Of[p]].release = plan[p].base]_vars

\* A fence has a job that will lift it, unless the database refused to, until a restart.
\* A tree without a live row is about to be published or removed, unless a removal failed or its
\* storage was away, until a restart.
\* (recordApplyFailure, failInterruptedApplies, runApply, reconcileDirectories)
FencesLift ==
    \A k \in Keys : binding[k].fence # None =>
        apply[binding[k].fence] \in InFlight /\ ("database" \notin troubles => job[binding[k].fence] # "none")
TreesHaveRows ==
    {"tree", "storage"} \cap troubles = {} => \A r \in Plans : tree[r] = "here" /\ release[r] \notin Live =>
        job[r] \in {"publishing", "unmoving"} \/ r \in {sweep.of, removal.of}
NothingForgotten == FencesLift /\ TreesHaveRows
=============================================================================
