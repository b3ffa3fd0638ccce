------------------------- MODULE AgentEffectsProofs -------------------------
(***************************************************************************)
(* What AgentEffects promises, for any number of requests, runs, crashes,  *)
(* faults and other writers.                                               *)
(*                                                                         *)
(* The invariant speaks of one request at a time.  Its parts say where the *)
(* row of a request stands at each step of its call, what the recorded     *)
(* image says of the target as long as nobody else writes there, and when  *)
(* an executor may still be at work.  A step about one request leaves      *)
(* those of the others alone.                                              *)
(***************************************************************************)
EXTENDS AgentEffects, TLAPS

Images == {None, "pre", "post", "other"}
Places == {"idle", "observe", "dispatch", "execute", "reconcile", "settle"}
Rows == [state : States, pre : Images, intended : BOOLEAN, receipt : BOOLEAN, reconciled : BOOLEAN]
Calls == [at : Places, of : Requests \union {None}, pre : Images, intended : BOOLEAN, seen : Images]

\* What TypeOK leaves open.
Typed ==
    /\ TypeOK
    /\ call \in Calls
    /\ durable \in BOOLEAN /\ up \in BOOLEAN /\ gone \in BOOLEAN
    /\ hits \in [Requests -> Nat]
    /\ landed \in [Requests -> BOOLEAN] /\ touched \in [Requests -> BOOLEAN]

\* A call is under way only while the runner runs and its run goes on.
CallInv ==
    /\ call.at = "idle" => call = NoCall
    /\ call # NoCall => call.of \in Requests /\ run.phase # "ENDED"

\* Where the row of a request stands at each step of its call.
RowFollows(r) ==
    /\ Is("observe", r) \/ Is("dispatch", r) =>
          /\ ~row[r].receipt /\ kind[r] # "invalid"
          /\ kind[r] # "read" => row[r].state = "INTENT"
    /\ Is("execute", r) => row[r].state = "DISPATCHED"
    /\ Is("reconcile", r) \/ Is("settle", r) =>
          kind[r] # "read" /\ row[r].state \in {"DISPATCHED", "UNKNOWN"}

Sent(r) ==
    /\ kind[r] # "read" => hits[r] <= 1 /\ (row[r].state \in {"NONE", "INTENT"} => hits[r] = 0)
    /\ hits[r] = 0 => ~landed[r] /\ worker[r] = "none"

Told(r) ==
    /\ row[r].reconciled => kind[r] # "read"
    /\ kind[r] # "read" /\ "ok" \in told[r] => row[r].state = "APPLIED"
    /\ kind[r] # "read" /\ "rejected" \in told[r] => row[r].state = "REJECTED"
    /\ "applied" \in told[r] => row[r].state = "APPLIED" /\ row[r].reconciled
    /\ "notApplied" \in told[r] => row[r].state = "REJECTED" /\ row[r].reconciled
    /\ kind[r] # "read" /\ "interrupted" \in told[r] =>
          hits[r] = 0 /\ ~durable /\ asked[r] > 0 /\ ~Is("observe", r) /\ ~Is("dispatch", r)

Working(r) ==
    /\ worker[r] # "none" => Is("execute", r) \/ r \in late \/ ~up \/ gone
    /\ Is("reconcile", r) \/ Is("settle", r) => worker[r] = "none" \/ r \in late
    /\ row[r].state = "REJECTED" /\ row[r].reconciled => worker[r] = "none" \/ r \in late

\* An image says what the target was before the request had it changed.
Shows(r, image) ==
    /\ image # "other"
    /\ image = "post" => ~landed[r] /\ target[r] = "post"
    /\ image = "pre" /\ target[r] = "post" => landed[r]

\* Images of requests whose target is not read beforehand.
Assumed(r, image) == (kind[r] = "write" => image = None) /\ (kind[r] = "guarded" => image \in {None, "pre"})

Recorded(r) ==
    /\ Assumed(r, row[r].pre)
    /\ Is("dispatch", r) => Assumed(r, call.pre)
    /\ kind[r] = "patch" => /\ row[r].intended => row[r].pre = "pre"
                            /\ Is("dispatch", r) /\ call.intended => call.pre = "pre"
    /\ Is("observe", r) => Observed(r) /\ call.pre = None /\ ~call.intended

Undisturbed(r) ==
    /\ target[r] # "other"
    /\ landed[r] => target[r] = "post"
    /\ Observed(r) => Shows(r, row[r].pre) /\ (Is("dispatch", r) => Shows(r, call.pre))
    /\ Is("settle", r) => /\ call.seen # "other"
                          /\ call.seen = "post" => target[r] = "post"
                          /\ call.seen = "pre" /\ r \notin late => ~landed[r]
    /\ row[r].state = "APPLIED" /\ row[r].reconciled =>
          landed[r] \/ (kind[r] \in {"guarded", "write"} /\ target[r] = "post")
    /\ row[r].state = "REJECTED" /\ row[r].reconciled /\ r \notin late => ~landed[r]

Mine(r) ==
    /\ RowFollows(r) /\ Sent(r) /\ Told(r) /\ Working(r) /\ Recorded(r)
    /\ ~touched[r] => Undisturbed(r)

EffectsInv == Typed /\ CallInv /\ \A r \in Requests : Mine(r)

-----------------------------------------------------------------------------
(* Steps about one request *)

\* Nothing of another request changes.
Apart(r) ==
    /\ kind' = kind /\ durable' = durable /\ up' = up /\ gone' = gone /\ run' = run
    /\ \A s \in Requests \ {r} :
          /\ row'[s] = row[s] /\ target'[s] = target[s] /\ worker'[s] = worker[s]
          /\ asked'[s] = asked[s] /\ told'[s] = told[s] /\ hits'[s] = hits[s]
          /\ landed'[s] = landed[s] /\ touched'[s] = touched[s] /\ (s \in late' <=> s \in late)
          /\ call' = call \/ (call.of # s /\ call'.of # s)

\* What holds of a request goes on to hold while another one moves.
LEMMA OthersKeep ==
    ASSUME EffectsInv, NEW r \in Requests, Apart(r)
    PROVE  \A s \in Requests \ {r} : Mine(s)'
<1> SUFFICES ASSUME NEW s \in Requests \ {r} PROVE Mine(s)'
  OBVIOUS
<1> DEFINE Same == /\ row'[s] = row[s] /\ target'[s] = target[s] /\ worker'[s] = worker[s]
                   /\ asked'[s] = asked[s] /\ told'[s] = told[s] /\ hits'[s] = hits[s]
                   /\ landed'[s] = landed[s] /\ touched'[s] = touched[s] /\ (s \in late' <=> s \in late)
                   /\ kind'[s] = kind[s] /\ durable' = durable /\ up' = up /\ gone' = gone
<1>1. Same
  BY DEF Apart
<1>2. Mine(s)
  BY DEF EffectsInv
<1>3. CASE call' = call
  <2>1. RowFollows(s)'
    BY <1>1, <1>2, <1>3 DEF Mine, RowFollows, Is
  <2>2. Sent(s)' /\ Told(s)'
    BY <1>1, <1>2, <1>3 DEF Mine, Sent, Told, Is
  <2>3. Working(s)' /\ Recorded(s)'
    BY <1>1, <1>2, <1>3 DEF Mine, Working, Recorded, Assumed, Observed, Is
  <2>4. ~touched'[s] => Undisturbed(s)'
    BY <1>1, <1>2, <1>3 DEF Mine, Undisturbed, Shows, Observed, Is
  <2> QED
    BY <2>1, <2>2, <2>3, <2>4 DEF Mine
<1>4. CASE call.of # s /\ call'.of # s
  <2>1. RowFollows(s)'
    BY <1>1, <1>2, <1>4 DEF Mine, RowFollows, Is
  <2>2. Sent(s)' /\ Told(s)'
    BY <1>1, <1>2, <1>4 DEF Mine, Sent, Told, Is
  <2>3. Working(s)' /\ Recorded(s)'
    BY <1>1, <1>2, <1>4 DEF Mine, Working, Recorded, Assumed, Observed, Is
  <2>4. ~touched'[s] => Undisturbed(s)'
    BY <1>1, <1>2, <1>4 DEF Mine, Undisturbed, Shows, Observed, Is
  <2> QED
    BY <2>1, <2>2, <2>3, <2>4 DEF Mine
<1> QED
  BY <1>3, <1>4 DEF Apart

\* A row that is replaced by another row, and what is told.
LEMMA RowSet ==
    ASSUME row \in [Requests -> Rows], NEW r \in Requests, NEW q \in Rows, row' = [row EXCEPT ![r] = q]
    PROVE  row' \in [Requests -> Rows] /\ row'[r] = q /\ \A s \in Requests \ {r} : row'[s] = row[s]
OBVIOUS

Answers == {"ok", "rejected", "applied", "notApplied", "unknown", "unavailable", "interrupted", "lost"}

LEMMA TellEffect ==
    ASSUME told \in [Requests -> SUBSET Answers], NEW r \in Requests, NEW a \in Answers, Tell(r, a)
    PROVE  /\ told' \in [Requests -> SUBSET Answers]
           /\ told'[r] = told[r] \union {a}
           /\ \A s \in Requests \ {r} : told'[s] = told[s]
BY DEF Tell

LEMMA TypesRead ==
    ASSUME Typed
    PROVE  /\ row \in [Requests -> Rows]
           /\ told \in [Requests -> SUBSET Answers]
           /\ \A r \in Requests : row[r].receipt => row[r].state \in Final
BY DEF Typed, TypeOK, Rows, Images, Answers

\* The step of a call that records an outcome, and the one that does not.
LEMMA CompleteEffect ==
    ASSUME row \in [Requests -> Rows], NEW r \in Requests, NEW state \in States, NEW reconciled \in BOOLEAN,
           Complete(r, state, reconciled)
    PROVE  /\ row' \in [Requests -> Rows]
           /\ \A s \in Requests \ {r} : row'[s] = row[s]
           /\ row'[r].pre = row[r].pre /\ row'[r].intended = row[r].intended
           /\ \/ row'[r] = row[r] /\ Fenced({"RUNNING", "CANCELLING"})
              \/ /\ row'[r].state = state /\ row'[r].reconciled = reconciled
                 /\ row'[r].receipt => state # "UNKNOWN"
<1>1. CASE Fenced({"RUNNING", "CANCELLING"})
  BY <1>1 DEF Complete
<1>2. CASE ~Fenced({"RUNNING", "CANCELLING"})
  <2>1. PICK kept \in BOOLEAN : /\ kept => state # "UNKNOWN"
                                /\ row' = [row EXCEPT ![r] = [@ EXCEPT !.state = state, !.receipt = kept,
                                                                    !.reconciled = reconciled]]
    BY <1>2 DEF Complete
  <2> DEFINE q == [row[r] EXCEPT !.state = state, !.receipt = kept, !.reconciled = reconciled]
  <2>2. row[r] \in Rows
    OBVIOUS
  <2>3. q \in Rows
    BY <2>1, <2>2 DEF Rows
  <2>4. row' = [row EXCEPT ![r] = q]
    BY <2>1
  <2>5. /\ q.state = state /\ q.pre = row[r].pre /\ q.intended = row[r].intended
        /\ q.receipt = kept /\ q.reconciled = reconciled
    BY <2>2 DEF Rows
  <2> HIDE DEF q
  <2> QED
    BY <2>1, <2>3, <2>4, <2>5, RowSet
<1> QED
  BY <1>1, <1>2

LEMMA StepOfOne ==
    ASSUME EffectsInv, NEW r \in Requests, Apart(r), Typed', CallInv', Mine(r)'
    PROVE  EffectsInv'
<1>1. \A s \in Requests : Mine(s)'
  BY OthersKeep
<1> QED
  BY <1>1 DEF EffectsInv

\* The types that a step about one request leaves to be shown.
LEMMA TypedStep ==
    ASSUME Typed, NEW r \in Requests,
           kind' = kind, run' = run, durable' = durable, up' = up, gone' \in BOOLEAN,
           target' \in [Requests -> {"pre", "post", "other"}],
           worker' \in [Requests -> {"none", "running", "done", "refused"}],
           row' \in [Requests -> Rows], \A s \in Requests \ {r} : row'[s] = row[s],
           row'[r].receipt => row'[r].state \in Final,
           call' \in Calls, call' = NoCall \/ (up' /\ asked'[call'.of] = run.n),
           asked' \in [Requests -> 0 .. MaxRuns], told' \in [Requests -> SUBSET Answers],
           hits' \in [Requests -> Nat], landed' \in [Requests -> BOOLEAN], touched' \in [Requests -> BOOLEAN]
    PROVE  Typed'
<1>1. kind' \in [Requests -> Kinds] /\ run' \in [n : 1 .. MaxRuns, phase : {"RUNNING", "CANCELLING", "ENDED"}]
  BY DEF Typed, TypeOK
<1>2. durable' \in BOOLEAN /\ up' \in BOOLEAN
  BY DEF Typed
<1>3. call'.at \in Places
  BY DEF Calls
<1>4. call' # NoCall => up' /\ asked'[call'.of] = run'.n
  OBVIOUS
<1>5. \A s \in Requests : row'[s].receipt => row'[s].state \in Final
  <2>1. \A s \in Requests : row[s].receipt => row[s].state \in Final
    BY TypesRead
  <2> QED
    BY <2>1
<1>6. TypeOK'
  BY <1>1, <1>3, <1>4, <1>5 DEF TypeOK, Rows, Images, Answers, Places
<1> QED
  BY <1>2, <1>6 DEF Typed

\* Where a request that is asked for again, or for the first time, goes.
LEMMA RequestKeeps ==
    ASSUME EffectsInv, NEW r \in Requests, Request(r)
    PROVE  EffectsInv'
<1> USE DEF world, history, bounds
<1>1. /\ Typed /\ CallInv /\ Mine(r)
      /\ call = NoCall /\ up /\ ~gone /\ run.phase = "RUNNING"
      /\ UNCHANGED <<kind, world, run, durable, up, gone, hits, touched, late, bounds>>
  <2>1. Typed /\ CallInv /\ Mine(r)
    BY DEF EffectsInv
  <2>2. /\ Runnable /\ call = NoCall
        /\ UNCHANGED <<kind, world, run, durable, up, gone, hits, touched, late, bounds>>
    BY DEF Request
  <2>3. up /\ ~gone /\ run.phase = "RUNNING"
    BY <2>2 DEF Runnable, Fenced
  <2> QED
    BY <2>1, <2>2, <2>3
<1>2. /\ asked' \in [Requests -> 0 .. MaxRuns] /\ asked'[r] = run.n /\ run.n > 0
      /\ \A s \in Requests \ {r} : asked'[s] = asked[s]
  <2>1. asked' = [asked EXCEPT ![r] = run.n]
    BY DEF Request
  <2>2. asked \in [Requests -> 0 .. MaxRuns] /\ run.n \in 1 .. MaxRuns
    BY <1>1 DEF Typed, TypeOK
  <2> QED
    BY <2>1, <2>2, EffectsAssumption
<1>3. /\ row \in [Requests -> Rows] /\ row[r] \in Rows /\ told \in [Requests -> SUBSET Answers]
      /\ row[r].receipt => row[r].state \in Final
  BY <1>1, TypesRead
<1>4. /\ ~Is("observe", r) /\ ~Is("dispatch", r) /\ ~Is("execute", r)
      /\ ~Is("reconcile", r) /\ ~Is("settle", r)
      /\ call.of = None /\ call \in Calls
  BY <1>1 DEF Is, NoCall, Typed
<1>5. /\ landed' = landed /\ target' = target /\ worker' = worker /\ kind' = kind /\ hits' = hits
      /\ touched' = touched /\ late' = late /\ durable' = durable /\ up' = up /\ gone' = gone /\ run' = run
  BY <1>1 DEF world
<1> HIDE DEF world, history, bounds
<1>10. asked[r] = 0 \/ durable
  BY DEF Request
<1>6. CASE /\ row[r].state \in Final /\ (row[r].receipt \/ kind[r] # "read")
           /\ Tell(r, Replay(r))
           /\ UNCHANGED <<row, call>>
  <2>1. /\ Replay(r) \in Answers \ {"interrupted"}
        /\ Replay(r) = "ok" => row[r].state = "APPLIED"
        /\ Replay(r) = "rejected" => row[r].state = "REJECTED"
        /\ Replay(r) = "applied" => row[r].state = "APPLIED" /\ row[r].reconciled
        /\ Replay(r) = "notApplied" => row[r].state = "REJECTED" /\ row[r].reconciled
    BY <1>6 DEF Replay, Answers, Final
  <2>2. /\ told' \in [Requests -> SUBSET Answers] /\ told'[r] = told[r] \union {Replay(r)}
        /\ \A s \in Requests \ {r} : told'[s] = told[s]
    BY <1>3, <1>6, <2>1, TellEffect
  <2>3. Apart(r)
    BY <1>2, <1>5, <1>6, <2>2 DEF Apart
  <2>4. Typed'
    BY <1>1, <1>2, <1>3, <1>4, <1>5, <1>6, <2>2, TypedStep DEF Typed, TypeOK
  <2>5. CallInv'
    BY <1>1, <1>6 DEF CallInv, NoCall
  <2>6. Mine(r)'
    <3>1. RowFollows(r)' /\ Sent(r)' /\ Working(r)' /\ Recorded(r)'
      BY <1>1, <1>5, <1>6 DEF Mine, RowFollows, Sent, Working, Recorded, Assumed, Observed, Is
    <3>2. Told(r)'
      BY <1>1, <1>2, <1>4, <1>5, <1>6, <2>1, <2>2 DEF Mine, Told, Is, Typed
    <3>3. ~touched'[r] => Undisturbed(r)'
      BY <1>1, <1>5, <1>6 DEF Mine, Undisturbed, Shows, Observed, Is
    <3> QED
      BY <3>1, <3>2, <3>3 DEF Mine
  <2> QED
    BY <2>3, <2>4, <2>5, <2>6, StepOfOne
<1>7. CASE /\ ~(row[r].state \in Final /\ row[r].receipt) /\ MayExecute(r) /\ kind[r] # "invalid"
           /\ row' = IF row[r].state = "NONE" THEN [row EXCEPT ![r] = [@ EXCEPT !.state = "INTENT"]] ELSE row
           /\ ToExecute(r)
           /\ UNCHANGED told
  <2> DEFINE q == IF row[r].state = "NONE" THEN [row[r] EXCEPT !.state = "INTENT"] ELSE row[r]
  <2>1. /\ q \in Rows /\ q.pre = row[r].pre /\ q.intended = row[r].intended /\ q.receipt = row[r].receipt
        /\ q.reconciled = row[r].reconciled
        /\ q.state = IF row[r].state = "NONE" THEN "INTENT" ELSE row[r].state
    BY <1>3 DEF Rows, States
  <2>2. row' = [row EXCEPT ![r] = q]
    BY <1>3, <1>7
  <2> HIDE DEF q
  <2>3. /\ row' \in [Requests -> Rows] /\ row'[r] = q /\ \A s \in Requests \ {r} : row'[s] = row[s]
    BY <1>3, <2>1, <2>2, RowSet
  <2>4. ~row[r].receipt /\ (kind[r] # "read" => row[r].state \in {"NONE", "INTENT"})
    BY <1>3, <1>7 DEF MayExecute
  <2>5. /\ call' \in Calls /\ call'.of = r /\ call'.seen = None
        /\ call'.at = IF Observed(r) THEN "observe" ELSE "dispatch"
        /\ call'.pre = IF kind[r] = "guarded" THEN "pre" ELSE None
        /\ call'.intended => kind[r] \in {"guarded", "write"}
    <3> DEFINE at == IF Observed(r) THEN "observe" ELSE "dispatch"
               pre == IF kind[r] = "guarded" THEN "pre" ELSE None
               intended == kind[r] \in {"guarded", "write"}
    <3>1. at \in Places /\ pre \in Images /\ intended \in BOOLEAN
      BY DEF Places, Images
    <3>2. call' = [at |-> at, of |-> r, pre |-> pre, intended |-> intended, seen |-> None]
      BY <1>7 DEF ToExecute, NoCall
    <3>3. /\ call'.at = at /\ call'.of = r /\ call'.pre = pre /\ call'.seen = None
          /\ call'.intended => intended
      BY <3>2
    <3>4. call' \in Calls
      <4> HIDE DEF at, pre, intended
      <4> QED
        BY <3>1, <3>2 DEF Calls, Images
    <3> QED
      BY <3>3, <3>4
  <2>6. Apart(r)
    BY <1>2, <1>4, <1>5, <1>7, <2>3, <2>5, EffectsAssumption DEF Apart
  <2>7. Typed'
    <3>1. ~row'[r].receipt
      BY <2>1, <2>3, <2>4
    <3>2. row'[r].receipt => row'[r].state \in Final
      BY <3>1
    <3>3. /\ call' \in Calls /\ up' /\ asked'[call'.of] = run.n
          /\ row' \in [Requests -> Rows] /\ \A s \in Requests \ {r} : row'[s] = row[s]
          /\ told' \in [Requests -> SUBSET Answers]
      BY <1>1, <1>2, <1>3, <1>5, <1>7, <2>3, <2>5
    <3> QED
      BY <1>1, <1>2, <1>5, <3>2, <3>3, TypedStep DEF Typed, TypeOK
  <2>8. CallInv'
    BY <1>1, <1>5, <2>5 DEF CallInv
  <2>9. Mine(r)'
    <3>1. RowFollows(r)'
      BY <1>5, <1>7, <2>1, <2>3, <2>4, <2>5 DEF RowFollows, Is
    <3>2. Sent(r)'
      BY <1>1, <1>5, <2>1, <2>3, <2>4, <2>5 DEF Mine, Sent
    <3>3. Told(r)'
      <4>1. kind[r] # "read" => "interrupted" \notin told[r]
        BY <1>1, <1>10 DEF Mine, Told, Typed, TypeOK
      <4> QED
        BY <1>1, <1>5, <1>7, <2>1, <2>3, <2>4, <4>1 DEF Mine, Told
    <3>4. Working(r)'
      BY <1>1, <1>4, <1>5, <2>1, <2>3, <2>4, <2>5 DEF Mine, Working, Is
    <3>5. Recorded(r)'
      BY <1>1, <1>4, <1>5, <2>1, <2>3, <2>4, <2>5 DEF Mine, Recorded, Assumed, Observed, Is
    <3>6. ~touched'[r] => Undisturbed(r)'
      BY <1>1, <1>4, <1>5, <2>1, <2>3, <2>4, <2>5 DEF Mine, Undisturbed, Shows, Observed, Is
    <3> QED
      BY <3>1, <3>2, <3>3, <3>4, <3>5, <3>6 DEF Mine
  <2> QED
    BY <2>6, <2>7, <2>8, <2>9, StepOfOne
<1>8. CASE /\ MayExecute(r) /\ kind[r] = "invalid"
           /\ \E kept \in BOOLEAN :
                row' = [row EXCEPT ![r] = [NoRow EXCEPT !.state = "REJECTED", !.receipt = kept]]
           /\ Tell(r, "rejected")
           /\ UNCHANGED call
  <2>1. PICK kept \in BOOLEAN :
           row' = [row EXCEPT ![r] = [NoRow EXCEPT !.state = "REJECTED", !.receipt = kept]]
    BY <1>8
  <2> DEFINE q == [NoRow EXCEPT !.state = "REJECTED", !.receipt = kept]
  <2>2. /\ q \in Rows /\ q.pre = None /\ ~q.intended /\ q.state = "REJECTED" /\ ~q.reconciled
    BY DEF NoRow, Rows, States, Images
  <2> HIDE DEF q
  <2>3. /\ row' \in [Requests -> Rows] /\ row'[r] = q /\ \A s \in Requests \ {r} : row'[s] = row[s]
    BY <1>3, <2>1, <2>2, RowSet DEF q
  <2>4. row[r].state \in {"NONE", "INTENT"}
    BY <1>8 DEF MayExecute
  <2>5. /\ told' \in [Requests -> SUBSET Answers] /\ told'[r] = told[r] \union {"rejected"}
        /\ \A s \in Requests \ {r} : told'[s] = told[s]
    BY <1>3, <1>8, TellEffect DEF Answers
  <2>6. Apart(r)
    BY <1>2, <1>4, <1>5, <1>8, <2>3, <2>5 DEF Apart
  <2>7. Typed'
    BY <1>1, <1>2, <1>3, <1>4, <1>5, <1>8, <2>2, <2>3, <2>5, TypedStep DEF Typed, TypeOK, Final
  <2>8. CallInv'
    BY <1>1, <1>8 DEF CallInv, NoCall
  <2>9. Mine(r)'
    <3>1. RowFollows(r)' /\ Recorded(r)'
      BY <1>4, <1>5, <1>8, <2>2, <2>3 DEF RowFollows, Recorded, Assumed, Is
    <3>2. Sent(r)'
      BY <1>1, <1>5, <1>8, <2>2, <2>3, <2>4 DEF Mine, Sent
    <3>3. Told(r)'
      BY <1>1, <1>2, <1>4, <1>5, <1>8, <2>2, <2>3, <2>4, <2>5 DEF Mine, Told, Is
    <3>4. Working(r)'
      BY <1>1, <1>4, <1>5, <1>8, <2>2, <2>3 DEF Mine, Working, Is
    <3>5. ~touched'[r] => Undisturbed(r)'
      BY <1>1, <1>4, <1>5, <1>8, <2>2, <2>3, EffectsAssumption DEF Mine, Undisturbed, Shows, Observed, Is
    <3> QED
      BY <3>1, <3>2, <3>3, <3>4, <3>5 DEF Mine
  <2> QED
    BY <2>6, <2>7, <2>8, <2>9, StepOfOne
<1>9. CASE /\ row[r].state \notin Final /\ ~MayExecute(r)
           /\ ToReconcile(r)
           /\ UNCHANGED <<row, told>>
  <2>1. kind[r] # "read" /\ row[r].state \in {"DISPATCHED", "UNKNOWN"}
    BY <1>3, <1>9 DEF MayExecute, Final, Rows, States
  <2>2. call' \in Calls /\ call'.of = r /\ call'.at = "reconcile"
    BY <1>9 DEF ToReconcile, NoCall, Calls, Places, Images
  <2>3. Apart(r)
    BY <1>2, <1>4, <1>5, <1>9, <2>2, EffectsAssumption DEF Apart
  <2>4. Typed'
    BY <1>1, <1>2, <1>3, <1>5, <1>9, <2>2, TypedStep DEF Typed, TypeOK
  <2>5. CallInv'
    BY <1>1, <1>5, <2>2 DEF CallInv
  <2>6. Mine(r)'
    <3>1. RowFollows(r)' /\ Sent(r)' /\ Recorded(r)'
      BY <1>1, <1>5, <1>9, <2>1, <2>2 DEF Mine, RowFollows, Sent, Recorded, Assumed, Observed, Is
    <3>2. Told(r)'
      BY <1>1, <1>2, <1>5, <1>9, <2>2 DEF Mine, Told, Is
    <3>3. Working(r)'
      BY <1>1, <1>4, <1>5, <1>9, <2>2 DEF Mine, Working, Is
    <3>4. ~touched'[r] => Undisturbed(r)'
      BY <1>1, <1>5, <1>9, <2>2 DEF Mine, Undisturbed, Shows, Observed, Is
    <3> QED
      BY <3>1, <3>2, <3>3, <3>4 DEF Mine
  <2> QED
    BY <2>3, <2>4, <2>5, <2>6, StepOfOne
<1> QED
  BY <1>6, <1>7, <1>8, <1>9 DEF Request

LEMMA Idle ==
    /\ NoCall \in Calls /\ NoCall.at = "idle" /\ NoCall.of = None
    /\ \A r \in Requests : r # None
BY EffectsAssumption DEF NoCall, Calls, Places, Images

\* What a step of a call may count on.
LEMMA InCall ==
    ASSUME EffectsInv, NEW r \in Requests, NEW at \in Places \ {"idle"}, Is(at, r)
    PROVE  /\ Typed /\ CallInv /\ Mine(r)
           /\ call # NoCall /\ call \in Calls /\ call.of = r /\ call.at = at
           /\ up /\ asked[r] = run.n /\ run.phase # "ENDED"
           /\ row \in [Requests -> Rows] /\ row[r] \in Rows /\ told \in [Requests -> SUBSET Answers]
           /\ row[r].receipt => row[r].state \in Final
<1>1. Typed /\ CallInv /\ Mine(r)
  BY DEF EffectsInv
<1>2. call # NoCall /\ call.of = r /\ call.at = at
  BY Idle DEF Is
<1>3. up /\ asked[r] = run.n
  BY <1>1, <1>2 DEF Typed, TypeOK
<1>4. run.phase # "ENDED"
  BY <1>1, <1>2 DEF CallInv
<1>5. call \in Calls
  BY <1>1 DEF Typed
<1> QED
  BY <1>1, <1>2, <1>3, <1>4, <1>5, TypesRead

LEMMA ObserveKeeps ==
    ASSUME EffectsInv, NEW r \in Requests, Observe(r)
    PROVE  EffectsInv'
<1>1. /\ Typed /\ CallInv /\ Mine(r)
      /\ call # NoCall /\ call \in Calls /\ call.of = r /\ call.at = "observe"
      /\ up /\ asked[r] = run.n /\ run.phase # "ENDED"
      /\ row \in [Requests -> Rows] /\ row[r] \in Rows /\ told \in [Requests -> SUBSET Answers]
      /\ row[r].receipt => row[r].state \in Final
  BY InCall DEF Observe, Places
<1>2. UNCHANGED <<kind, target, worker, landed, row, asked, run, durable, up, gone, told, hits, touched, late>>
  BY DEF Observe, world, history
<1>3. /\ Observed(r) /\ call.pre = None /\ ~call.intended /\ target[r] \in {"pre", "post", "other"}
      /\ row[r].state = "INTENT" /\ kind[r] \notin {"read", "invalid"}
  BY <1>1 DEF Mine, Recorded, RowFollows, Observed, Is, Typed, TypeOK
<1>4. /\ call' \in Calls /\ call'.of = r /\ call'.at = "dispatch"
      /\ call'.pre \in {None, target[r]}
      /\ call'.intended => kind[r] # "patch" \/ call'.pre = "pre"
  <2>1. CASE call' = [call EXCEPT !.at = "dispatch", !.pre = target[r],
                                  !.intended = kind[r] = "patch" /\ target[r] = "pre"]
    BY <1>1, <1>3, <2>1 DEF Calls, Places, Images
  <2>2. CASE call' = [call EXCEPT !.at = "dispatch"]
    BY <1>1, <1>3, <2>2 DEF Calls, Places
  <2> QED
    BY <2>1, <2>2 DEF Observe
<1>5. Apart(r)
  BY <1>1, <1>2, <1>4 DEF Apart
<1>6. Typed'
  BY <1>1, <1>2, <1>4, TypedStep DEF Typed, TypeOK
<1>7. CallInv'
  BY <1>1, <1>2, <1>4 DEF CallInv
<1>8. Mine(r)'
  <2>1. RowFollows(r)'
    BY <1>1, <1>2, <1>3, <1>4 DEF Mine, RowFollows, Is
  <2>2. Sent(r)' /\ Told(r)'
    BY <1>1, <1>2, <1>3, <1>4 DEF Mine, Sent, Told, Is
  <2>3. Working(r)'
    BY <1>1, <1>2, <1>3, <1>4 DEF Mine, Working, Is
  <2>4. Recorded(r)'
    BY <1>1, <1>2, <1>3, <1>4 DEF Mine, Recorded, Assumed, Observed, Is
  <2>5. ~touched'[r] => Undisturbed(r)'
    <3>1. ~landed[r]
      BY <1>1, <1>3 DEF Mine, Sent
    <3>2. ASSUME ~touched[r] PROVE Shows(r, call'.pre)
      BY <1>1, <1>3, <1>4, <3>1, <3>2, EffectsAssumption DEF Mine, Undisturbed, Shows
    <3> QED
      BY <1>1, <1>2, <1>3, <1>4, <3>2 DEF Mine, Undisturbed, Shows, Observed, Is
  <2> QED
    BY <2>1, <2>2, <2>3, <2>4, <2>5 DEF Mine
<1> QED
  BY <1>5, <1>6, <1>7, <1>8, StepOfOne

LEMMA DispatchKeeps ==
    ASSUME EffectsInv, NEW r \in Requests, Dispatch(r)
    PROVE  EffectsInv'
<1>1. /\ Typed /\ CallInv /\ Mine(r)
      /\ call # NoCall /\ call \in Calls /\ call.of = r /\ call.at = "dispatch"
      /\ up /\ asked[r] = run.n /\ run.phase # "ENDED"
      /\ row \in [Requests -> Rows] /\ row[r] \in Rows /\ told \in [Requests -> SUBSET Answers]
      /\ row[r].receipt => row[r].state \in Final
  BY InCall DEF Dispatch, Places
<1>2. UNCHANGED <<kind, target, landed, asked, run, durable, up, gone, touched, late>>
  BY DEF Dispatch
<1>3. /\ kind[r] # "read" => row[r].state = "INTENT" /\ hits[r] = 0
      /\ ~row[r].receipt /\ Assumed(r, call.pre)
      /\ kind[r] = "patch" /\ call.intended => call.pre = "pre"
  BY <1>1 DEF Mine, RowFollows, Sent, Recorded, Is
<1>4. CASE Tell(r, "lost") /\ call' = NoCall /\ UNCHANGED <<row, hits, worker>>
  <2>1. /\ told' \in [Requests -> SUBSET Answers] /\ told'[r] = told[r] \union {"lost"}
        /\ \A s \in Requests \ {r} : told'[s] = told[s]
    BY <1>1, <1>4, TellEffect DEF Answers
  <2>2. Apart(r)
    BY <1>1, <1>2, <1>4, <2>1, Idle DEF Apart
  <2>3. Typed'
    BY <1>1, <1>2, <1>4, <2>1, Idle, TypedStep DEF Typed, TypeOK
  <2>4. CallInv'
    BY <1>4, Idle DEF CallInv
  <2>5. Mine(r)'
    <3>1. RowFollows(r)' /\ Sent(r)' /\ Working(r)' /\ Recorded(r)'
      BY <1>1, <1>2, <1>4, Idle DEF Mine, RowFollows, Sent, Working, Recorded, Assumed, Observed, Is
    <3>2. Told(r)'
      BY <1>1, <1>2, <1>4, <2>1, Idle DEF Mine, Told, Is
    <3>3. ~touched'[r] => Undisturbed(r)'
      BY <1>1, <1>2, <1>4, Idle DEF Mine, Undisturbed, Shows, Observed, Is
    <3> QED
      BY <3>1, <3>2, <3>3 DEF Mine
  <2> QED
    BY <2>2, <2>3, <2>4, <2>5, StepOfOne
<1>5. CASE /\ row' = [row EXCEPT ![r] = [@ EXCEPT !.state = "DISPATCHED", !.pre = call.pre,
                                                  !.intended = call.intended]]
           /\ hits' = [hits EXCEPT ![r] = @ + 1]
           /\ worker' = [worker EXCEPT ![r] = "running"]
           /\ call' = [call EXCEPT !.at = "execute"]
           /\ UNCHANGED told
  <2> DEFINE q == [row[r] EXCEPT !.state = "DISPATCHED", !.pre = call.pre, !.intended = call.intended]
  <2>1. /\ q \in Rows /\ q.state = "DISPATCHED" /\ q.pre = call.pre
        /\ q.intended = call.intended /\ q.receipt = row[r].receipt /\ q.reconciled = row[r].reconciled
    BY <1>1 DEF Rows, States, Calls
  <2>2. row' = [row EXCEPT ![r] = q]
    BY <1>5
  <2> HIDE DEF q
  <2>3. /\ row' \in [Requests -> Rows] /\ row'[r] = q /\ \A s \in Requests \ {r} : row'[s] = row[s]
    BY <1>1, <2>1, <2>2, RowSet
  <2>4. /\ hits' \in [Requests -> Nat] /\ hits'[r] = hits[r] + 1
        /\ \A s \in Requests \ {r} : hits'[s] = hits[s]
    BY <1>1, <1>5 DEF Typed
  <2>5. /\ worker' \in [Requests -> {"none", "running", "done", "refused"}] /\ worker'[r] = "running"
        /\ \A s \in Requests \ {r} : worker'[s] = worker[s]
    BY <1>1, <1>5 DEF Typed, TypeOK
  <2>6. call' \in Calls /\ call'.of = r /\ call'.at = "execute"
    BY <1>1, <1>5 DEF Calls, Places
  <2>7. Apart(r)
    BY <1>1, <1>2, <1>5, <2>3, <2>4, <2>5, <2>6 DEF Apart
  <2>8. Typed'
    <3>1. row'[r].receipt => row'[r].state \in Final
      BY <1>3, <2>1, <2>3
    <3>2. /\ UNCHANGED <<kind, run, durable, up>> /\ gone' \in BOOLEAN
          /\ target' \in [Requests -> {"pre", "post", "other"}]
          /\ asked' \in [Requests -> 0 .. MaxRuns] /\ told' \in [Requests -> SUBSET Answers]
          /\ landed' \in [Requests -> BOOLEAN] /\ touched' \in [Requests -> BOOLEAN]
      BY <1>1, <1>2, <1>5 DEF Typed, TypeOK
    <3>3. call' \in Calls /\ up' /\ asked'[call'.of] = run.n
      BY <1>1, <1>2, <2>6
    <3> QED
      BY <1>1, <2>3, <2>4, <2>5, <3>1, <3>2, <3>3, TypedStep
  <2>9. CallInv'
    BY <1>1, <1>2, <2>6 DEF CallInv
  <2>10. Mine(r)'
    <3>1. RowFollows(r)'
      BY <1>2, <2>1, <2>3, <2>6 DEF RowFollows, Is
    <3>2. Sent(r)'
      BY <1>1, <1>2, <1>3, <2>1, <2>3, <2>4 DEF Sent, Typed
    <3>3. Told(r)'
      <4>1. kind[r] # "read" => {"ok", "rejected", "applied", "notApplied", "interrupted"} \intersect told[r] = {}
        BY <1>1, <1>3 DEF Mine, Told, Is
      <4>2. kind[r] = "read" => "applied" \notin told[r] /\ "notApplied" \notin told[r]
        BY <1>1 DEF Mine, Told
      <4> QED
        BY <1>1, <1>2, <1>5, <2>1, <2>3, <4>1, <4>2 DEF Mine, Told
    <3>4. Working(r)'
      BY <2>1, <2>3, <2>6 DEF Working, Is
    <3>5. Recorded(r)'
      BY <1>2, <1>3, <2>1, <2>3, <2>6 DEF Recorded, Assumed, Observed, Is
    <3>6. ~touched'[r] => Undisturbed(r)'
      BY <1>1, <1>2, <2>1, <2>3, <2>6 DEF Mine, Undisturbed, Shows, Observed, Is
    <3> QED
      BY <3>1, <3>2, <3>3, <3>4, <3>5, <3>6 DEF Mine
  <2> QED
    BY <2>7, <2>8, <2>9, <2>10, StepOfOne
<1> QED
  BY <1>4, <1>5 DEF Dispatch

\* An outcome that is recorded, or is not any more, at the end of a call.
LEMMA OutcomeKeeps ==
    ASSUME EffectsInv, NEW r \in Requests, NEW state \in {"APPLIED", "REJECTED", "UNKNOWN"}, NEW answer \in Answers,
           Is("execute", r), Complete(r, state, FALSE), Tell(r, answer), call' = NoCall,
           UNCHANGED <<kind, target, landed, asked, run, durable, up, gone, hits, touched>>,
           worker' \in [Requests -> {"none", "running", "done", "refused"}],
           \A s \in Requests \ {r} : worker'[s] = worker[s],
           worker'[r] = "none" \/ (r \in late' /\ worker'[r] = worker[r]),
           late' = late \/ late' = late \union {r},
           answer = "ok" => Runnable /\ state = "APPLIED",
           answer = "rejected" /\ kind[r] # "read" => Runnable /\ state = "REJECTED",
           answer \notin {"applied", "notApplied", "interrupted"}
    PROVE  EffectsInv'
<1>1. /\ Typed /\ CallInv /\ Mine(r)
      /\ call # NoCall /\ call \in Calls /\ call.of = r /\ call.at = "execute"
      /\ up /\ asked[r] = run.n /\ run.phase # "ENDED"
      /\ row \in [Requests -> Rows] /\ row[r] \in Rows /\ told \in [Requests -> SUBSET Answers]
      /\ row[r].receipt => row[r].state \in Final
  BY InCall DEF Places
<1>2. row[r].state = "DISPATCHED"
  BY <1>1 DEF Mine, RowFollows
<1>3. /\ row' \in [Requests -> Rows]
      /\ \A s \in Requests \ {r} : row'[s] = row[s]
      /\ row'[r].pre = row[r].pre /\ row'[r].intended = row[r].intended
      /\ \/ row'[r] = row[r] /\ Fenced({"RUNNING", "CANCELLING"})
         \/ /\ row'[r].state = state /\ row'[r].reconciled = FALSE
            /\ row'[r].receipt => state # "UNKNOWN"
  <2>1. state \in States /\ FALSE \in BOOLEAN
    BY DEF States
  <2> QED
    BY <1>1, <2>1, CompleteEffect
<1>4. /\ told' \in [Requests -> SUBSET Answers] /\ told'[r] = told[r] \union {answer}
      /\ \A s \in Requests \ {r} : told'[s] = told[s]
  BY <1>1, TellEffect
<1>5. Runnable => row'[r].state = state
  BY <1>3 DEF Runnable, Fenced
<1>6. row'[r].receipt => row'[r].state \in Final
  BY <1>1, <1>3 DEF Final
<1>7. Apart(r)
  BY <1>1, <1>3, <1>4, Idle DEF Apart
<1>8. Typed'
  BY <1>1, <1>3, <1>4, <1>6, Idle, TypedStep, SMTT(30) DEF Typed, TypeOK
<1>9. CallInv'
  BY Idle DEF CallInv
<1>10. Mine(r)'
  <2>1. RowFollows(r)'
    BY Idle DEF RowFollows, Is
  <2>2. Sent(r)'
    <3>1. row'[r].state \notin {"NONE", "INTENT"}
      BY <1>2, <1>3
    <3>2. hits[r] = 0 => worker'[r] = "none"
      BY <1>1 DEF Mine, Sent
    <3> QED
      BY <1>1, <3>1, <3>2 DEF Mine, Sent
  <2>3. Told(r)'
    <3>1. {"applied", "notApplied"} \intersect told[r] = {} /\ (kind[r] # "read" => {"ok", "rejected"} \intersect told[r] = {})
      BY <1>1, <1>2 DEF Mine, Told
    <3>2. row'[r].reconciled => kind'[r] # "read"
      BY <1>1, <1>3 DEF Mine, Told
    <3> QED
      BY <1>1, <1>4, <1>5, <3>1, <3>2, Idle DEF Mine, Told, Is
  <2>4. Working(r)'
    BY <1>1, <1>2, <1>3, Idle DEF Mine, Working, Is
  <2>5. Recorded(r)'
    BY <1>1, <1>3, Idle DEF Mine, Recorded, Assumed, Observed, Is
  <2>6. ~touched'[r] => Undisturbed(r)'
    BY <1>1, <1>2, <1>3, Idle DEF Mine, Undisturbed, Shows, Observed, Is
  <2> QED
    BY <2>1, <2>2, <2>3, <2>4, <2>5, <2>6 DEF Mine
<1> QED
  BY <1>7, <1>8, <1>9, <1>10, StepOfOne

LEMMA AnsweredKeeps ==
    ASSUME EffectsInv, NEW r \in Requests, Answered(r)
    PROVE  EffectsInv'
<1> DEFINE state == IF worker[r] = "done" THEN "APPLIED" ELSE "REJECTED"
           answer == IF ~Runnable THEN "lost" ELSE IF worker[r] = "done" THEN "ok" ELSE "rejected"
<1>1. /\ Is("execute", r) /\ Complete(r, state, FALSE) /\ Tell(r, answer) /\ call' = NoCall
      /\ worker' = [worker EXCEPT ![r] = "none"]
      /\ UNCHANGED <<kind, target, landed, asked, run, durable, up, gone, hits, touched, late>>
  BY DEF Answered
<1>2. /\ state \in {"APPLIED", "REJECTED", "UNKNOWN"} /\ answer \in Answers
      /\ answer = "ok" => Runnable /\ state = "APPLIED"
      /\ answer = "rejected" => Runnable /\ state = "REJECTED"
      /\ answer \notin {"applied", "notApplied", "interrupted"}
  BY DEF Answers
<1>3. worker \in [Requests -> {"none", "running", "done", "refused"}]
  BY DEF EffectsInv, Typed, TypeOK
<1>4. /\ worker' \in [Requests -> {"none", "running", "done", "refused"}] /\ worker'[r] = "none"
      /\ \A s \in Requests \ {r} : worker'[s] = worker[s]
  BY <1>1, <1>3
<1> HIDE DEF state, answer
<1> QED
  BY <1>1, <1>2, <1>4, OutcomeKeeps

LEMMA FailedKeeps ==
    ASSUME EffectsInv, NEW r \in Requests, Failed(r)
    PROVE  EffectsInv'
<1> DEFINE answer == IF kind[r] = "read" THEN "rejected" ELSE "unknown"
<1>1. /\ Is("execute", r) /\ Complete(r, "UNKNOWN", FALSE) /\ Tell(r, answer) /\ call' = NoCall
      /\ UNCHANGED <<kind, target, landed, asked, run, durable, up, gone, hits, touched>>
  BY DEF Failed
<1>2. /\ answer \in Answers /\ answer \notin {"ok", "applied", "notApplied", "interrupted"}
      /\ ~(answer = "rejected" /\ kind[r] # "read")
  BY DEF Answers
<1>3. worker \in [Requests -> {"none", "running", "done", "refused"}]
  BY DEF EffectsInv, Typed, TypeOK
<1>4. \/ worker' = [worker EXCEPT ![r] = "none"] /\ late' = late
      \/ worker' = worker /\ late' = late \union {r}
  BY DEF Failed
<1>5. /\ worker' \in [Requests -> {"none", "running", "done", "refused"}]
      /\ worker'[r] = "none" \/ (r \in late' /\ worker'[r] = worker[r])
      /\ \A s \in Requests \ {r} : worker'[s] = worker[s]
      /\ late' = late \/ late' = late \union {r}
  BY <1>3, <1>4
<1> HIDE DEF answer
<1> QED
  BY <1>1, <1>2, <1>5, OutcomeKeeps

LEMMA LookKeeps ==
    ASSUME EffectsInv, NEW r \in Requests, Look(r)
    PROVE  EffectsInv'
<1>1. /\ Typed /\ CallInv /\ Mine(r)
      /\ call # NoCall /\ call \in Calls /\ call.of = r /\ call.at = "reconcile"
      /\ up /\ asked[r] = run.n /\ run.phase # "ENDED"
      /\ row \in [Requests -> Rows] /\ row[r] \in Rows /\ told \in [Requests -> SUBSET Answers]
      /\ row[r].receipt => row[r].state \in Final
  BY InCall DEF Look, Places
<1>2. UNCHANGED <<kind, target, worker, landed, row, asked, run, durable, up, gone, told, hits, touched, late>>
  BY DEF Look, world, history
<1>3. target[r] \in {"pre", "post", "other"}
  BY <1>1 DEF Typed, TypeOK
<1>4. call' \in Calls /\ call'.of = r /\ call'.at = "settle" /\ call'.seen \in {None, target[r]}
  <2>1. CASE call' = [call EXCEPT !.at = "settle", !.seen = target[r]]
    BY <1>1, <1>3, <2>1 DEF Calls, Places, Images
  <2>2. CASE call' = [call EXCEPT !.at = "settle", !.seen = None]
    BY <1>1, <2>2 DEF Calls, Places, Images
  <2> QED
    BY <2>1, <2>2 DEF Look
<1>5. Apart(r)
  BY <1>1, <1>2, <1>4 DEF Apart
<1>6. Typed'
  BY <1>1, <1>2, <1>4, TypedStep DEF Typed, TypeOK
<1>7. CallInv'
  BY <1>1, <1>2, <1>4 DEF CallInv
<1>8. Mine(r)'
  <2>1. RowFollows(r)' /\ Sent(r)' /\ Told(r)' /\ Working(r)'
    BY <1>1, <1>2, <1>4 DEF Mine, RowFollows, Sent, Told, Working, Is
  <2>2. Recorded(r)'
    BY <1>1, <1>2, <1>4 DEF Mine, Recorded, Assumed, Observed, Is
  <2>3. ~touched'[r] => Undisturbed(r)'
    BY <1>1, <1>2, <1>3, <1>4, EffectsAssumption DEF Mine, Undisturbed, Shows, Observed, Is
  <2> QED
    BY <2>1, <2>2, <2>3 DEF Mine
<1> QED
  BY <1>5, <1>6, <1>7, <1>8, StepOfOne

\* What is read off the workspace is true of the request, unless somebody else wrote there.
LEMMA VerdictIsTrue ==
    ASSUME EffectsInv, NEW r \in Requests, Is("settle", r), call.seen # None
    PROVE  /\ Verdict(r, call.seen) \in {"APPLIED", "NOT_APPLIED", "UNKNOWN"}
           /\ ~touched[r] /\ Verdict(r, call.seen) = "APPLIED" =>
                 landed[r] \/ (kind[r] \in {"guarded", "write"} /\ target[r] = "post")
           /\ ~touched[r] /\ r \notin late /\ Verdict(r, call.seen) = "NOT_APPLIED" => ~landed[r]
<1>1. /\ Recorded(r) /\ (~touched[r] => Undisturbed(r)) /\ row[r] \in Rows /\ call.seen \in Images
  BY InCall DEF Mine, Places, Calls
<1>2. CASE kind[r] = "write"
  BY <1>1, <1>2 DEF Verdict, Recorded, Assumed, Undisturbed, Is
<1>3. CASE kind[r] = "guarded"
  BY <1>1, <1>3 DEF Verdict, Recorded, Assumed, Undisturbed, Is
<1>4. CASE kind[r] = "patch"
  BY <1>1, <1>4, EffectsAssumption DEF Verdict, Recorded, Undisturbed, Shows, Observed, Is, Rows, Images
<1>5. CASE kind[r] = "mkdir"
  BY <1>1, <1>5 DEF Verdict, Undisturbed, Shows, Observed, Is
<1>6. CASE kind[r] = "delete"
  BY <1>1, <1>6 DEF Verdict, Undisturbed, Shows, Observed, Is, Rows, Images
<1>7. CASE kind[r] \notin Mutations
  BY <1>1, <1>7 DEF Verdict, Mutations
<1> QED
  BY <1>2, <1>3, <1>4, <1>5, <1>6, <1>7 DEF Mutations

LEMMA SettleKeeps ==
    ASSUME EffectsInv, NEW r \in Requests, Settle(r)
    PROVE  EffectsInv'
<1>1. /\ Typed /\ CallInv /\ Mine(r)
      /\ call # NoCall /\ call \in Calls /\ call.of = r /\ call.at = "settle"
      /\ up /\ asked[r] = run.n /\ run.phase # "ENDED"
      /\ row \in [Requests -> Rows] /\ row[r] \in Rows /\ told \in [Requests -> SUBSET Answers]
      /\ row[r].receipt => row[r].state \in Final
  BY InCall DEF Settle, Places
<1>2. /\ call' = NoCall
      /\ UNCHANGED <<kind, target, worker, landed, asked, run, durable, up, gone, hits, touched, late>>
  BY DEF Settle, world
<1>3. /\ kind[r] # "read" /\ row[r].state \in {"DISPATCHED", "UNKNOWN"}
      /\ {"ok", "rejected", "applied", "notApplied"} \intersect told[r] = {}
      /\ worker[r] = "none" \/ r \in late
  BY <1>1 DEF Mine, RowFollows, Told, Working, Is
<1> DEFINE verdict == IF call.seen = None THEN "UNKNOWN" ELSE Verdict(r, call.seen)
           state == IF verdict = "NOT_APPLIED" THEN "REJECTED" ELSE verdict
           answer == IF ~Runnable THEN "lost"
                     ELSE CASE verdict = "APPLIED" -> "applied" [] verdict = "NOT_APPLIED" -> "notApplied"
                            [] OTHER -> "unknown"
<1>4. /\ verdict \in {"APPLIED", "NOT_APPLIED", "UNKNOWN"}
      /\ ~touched[r] /\ verdict = "APPLIED" => landed[r] \/ (kind[r] \in {"guarded", "write"} /\ target[r] = "post")
      /\ ~touched[r] /\ r \notin late /\ verdict = "NOT_APPLIED" => ~landed[r]
  <2>1. CASE call.seen = None
    BY <2>1
  <2>2. CASE call.seen # None
    BY <2>2, VerdictIsTrue DEF Settle
  <2> QED
    BY <2>1, <2>2
<1>5. /\ Tell(r, answer)
      /\ \/ ~Runnable /\ row' = row
         \/ Runnable /\ Complete(r, state, TRUE)
  BY DEF Settle
<1> HIDE DEF verdict
<1>6. /\ state \in States /\ state \in {"APPLIED", "REJECTED", "UNKNOWN"}
      /\ state = "APPLIED" => verdict = "APPLIED"
      /\ state = "REJECTED" => verdict = "NOT_APPLIED"
      /\ answer \in Answers /\ answer \notin {"ok", "rejected", "interrupted"}
      /\ answer = "applied" => Runnable /\ state = "APPLIED"
      /\ answer = "notApplied" => Runnable /\ state = "REJECTED"
  BY <1>4 DEF States, Answers
<1> HIDE DEF state, answer
<1>7. /\ row' \in [Requests -> Rows]
      /\ \A s \in Requests \ {r} : row'[s] = row[s]
      /\ row'[r].pre = row[r].pre /\ row'[r].intended = row[r].intended
      /\ row'[r].receipt => row'[r].state \in Final
      /\ \/ row'[r] = row[r] /\ ~Runnable
         \/ row'[r].state = state /\ row'[r].reconciled = TRUE
  <2>1. CASE ~Runnable /\ row' = row
    BY <1>1, <2>1
  <2>2. CASE Runnable /\ Complete(r, state, TRUE)
    <3>1. TRUE \in BOOLEAN
      OBVIOUS
    <3>2. /\ row' \in [Requests -> Rows]
          /\ \A s \in Requests \ {r} : row'[s] = row[s]
          /\ row'[r].pre = row[r].pre /\ row'[r].intended = row[r].intended
          /\ \/ row'[r] = row[r] /\ Fenced({"RUNNING", "CANCELLING"})
             \/ /\ row'[r].state = state /\ row'[r].reconciled = TRUE
                /\ row'[r].receipt => state # "UNKNOWN"
      BY <1>1, <1>6, <2>2, <3>1, CompleteEffect
    <3>3. ~Fenced({"RUNNING", "CANCELLING"})
      BY <2>2 DEF Runnable, Fenced
    <3> QED
      BY <1>6, <3>2, <3>3 DEF Final
  <2> QED
    BY <1>5, <2>1, <2>2
<1>8. /\ told' \in [Requests -> SUBSET Answers] /\ told'[r] = told[r] \union {answer}
      /\ \A s \in Requests \ {r} : told'[s] = told[s]
  BY <1>1, <1>5, <1>6, TellEffect
<1>9. Apart(r)
  BY <1>1, <1>2, <1>7, <1>8, Idle DEF Apart
<1>10. Typed'
  BY <1>1, <1>2, <1>7, <1>8, Idle, TypedStep DEF Typed, TypeOK
<1>11. CallInv'
  BY <1>2, Idle DEF CallInv
<1>12. Mine(r)'
  <2>1. RowFollows(r)'
    BY <1>2, Idle DEF RowFollows, Is
  <2>2. Sent(r)'
    BY <1>1, <1>2, <1>3, <1>6, <1>7 DEF Mine, Sent
  <2>3. Told(r)'
    BY <1>1, <1>2, <1>3, <1>6, <1>7, <1>8, Idle DEF Mine, Told, Is
  <2>4. Working(r)'
    BY <1>1, <1>2, <1>3, <1>7, Idle DEF Mine, Working, Is
  <2>5. Recorded(r)'
    BY <1>1, <1>2, <1>7, Idle DEF Mine, Recorded, Assumed, Observed, Is
  <2>6. ~touched'[r] => Undisturbed(r)'
    BY <1>1, <1>2, <1>3, <1>4, <1>6, <1>7, Idle DEF Mine, Undisturbed, Shows, Observed, Is
  <2> QED
    BY <2>1, <2>2, <2>3, <2>4, <2>5, <2>6 DEF Mine
<1> QED
  BY <1>9, <1>10, <1>11, <1>12, StepOfOne

LEMMA DanglingKeeps ==
    ASSUME EffectsInv, NEW r \in Requests, Dangling(r)
    PROVE  EffectsInv'
<1>1. /\ Typed /\ CallInv /\ Mine(r)
      /\ call = NoCall /\ up /\ ~gone /\ run.phase = "RUNNING" /\ ~durable
  <2>1. Typed /\ CallInv /\ Mine(r)
    BY DEF EffectsInv
  <2>2. Runnable /\ call = NoCall /\ ~durable
    BY DEF Dangling
  <2> QED
    BY <2>1, <2>2 DEF Runnable, Fenced
<1>2. UNCHANGED <<kind, target, worker, landed, row, run, durable, up, gone, hits, touched, late>>
  BY DEF Dangling, world
<1>3. /\ asked' \in [Requests -> 0 .. MaxRuns] /\ asked'[r] = run.n /\ run.n > 0
      /\ \A s \in Requests \ {r} : asked'[s] = asked[s]
  <2>1. asked' = [asked EXCEPT ![r] = run.n]
    BY DEF Dangling
  <2>2. asked \in [Requests -> 0 .. MaxRuns] /\ run.n \in 1 .. MaxRuns
    BY <1>1 DEF Typed, TypeOK
  <2> QED
    BY <2>1, <2>2, EffectsAssumption
<1>4. /\ row \in [Requests -> Rows] /\ row[r] \in Rows /\ told \in [Requests -> SUBSET Answers]
      /\ row[r].receipt => row[r].state \in Final
  BY <1>1, TypesRead
<1>5. /\ ~Is("observe", r) /\ ~Is("dispatch", r) /\ ~Is("execute", r)
      /\ ~Is("reconcile", r) /\ ~Is("settle", r) /\ call.of # r
  BY <1>1, Idle DEF Is
<1>6. ASSUME NEW answer \in Answers, Tell(r, answer), UNCHANGED call,
             answer = "ok" /\ kind[r] # "read" => row[r].state = "APPLIED",
             answer = "rejected" /\ kind[r] # "read" => row[r].state = "REJECTED",
             answer = "applied" => row[r].state = "APPLIED" /\ row[r].reconciled,
             answer = "notApplied" => row[r].state = "REJECTED" /\ row[r].reconciled,
             answer = "interrupted" /\ kind[r] # "read" => row[r].state \in {"NONE", "INTENT"}
      PROVE  EffectsInv'
  <2>1. /\ told' \in [Requests -> SUBSET Answers] /\ told'[r] = told[r] \union {answer}
        /\ \A s \in Requests \ {r} : told'[s] = told[s]
    BY <1>4, <1>6, TellEffect
  <2>2. Apart(r)
    BY <1>2, <1>3, <1>6, <2>1 DEF Apart
  <2>3. Typed'
    BY <1>1, <1>2, <1>3, <1>4, <1>6, <2>1, TypedStep DEF Typed, TypeOK
  <2>4. CallInv'
    BY <1>1, <1>6 DEF CallInv
  <2>5. Mine(r)'
    <3>1. RowFollows(r)' /\ Sent(r)' /\ Working(r)' /\ Recorded(r)'
      BY <1>1, <1>2, <1>6 DEF Mine, RowFollows, Sent, Working, Recorded, Assumed, Observed, Is
    <3>2. Told(r)'
      <4>1. kind[r] # "read" /\ answer = "interrupted" => hits[r] = 0
        BY <1>1, <1>6 DEF Mine, Sent
      <4> QED
        BY <1>1, <1>2, <1>3, <1>5, <1>6, <2>1, <4>1 DEF Mine, Told, Is
    <3>3. ~touched'[r] => Undisturbed(r)'
      BY <1>1, <1>2, <1>6 DEF Mine, Undisturbed, Shows, Observed, Is
    <3> QED
      BY <3>1, <3>2, <3>3 DEF Mine
  <2> QED
    BY <2>2, <2>3, <2>4, <2>5, StepOfOne
<1>7. CASE /\ row[r].state \in Final
           /\ Tell(r, IF kind[r] = "read" /\ ~row[r].receipt THEN "interrupted" ELSE Replay(r))
           /\ UNCHANGED call
  <2> DEFINE answer == IF kind[r] = "read" /\ ~row[r].receipt THEN "interrupted" ELSE Replay(r)
  <2>1. /\ Replay(r) \in Answers \ {"interrupted"}
        /\ Replay(r) = "ok" => row[r].state = "APPLIED"
        /\ Replay(r) = "rejected" => row[r].state = "REJECTED"
        /\ Replay(r) = "applied" => row[r].state = "APPLIED" /\ row[r].reconciled
        /\ Replay(r) = "notApplied" => row[r].state = "REJECTED" /\ row[r].reconciled
    BY <1>7 DEF Replay, Answers, Final
  <2>2. /\ answer \in Answers
        /\ answer = "ok" => row[r].state = "APPLIED"
        /\ answer = "rejected" => row[r].state = "REJECTED"
        /\ answer = "applied" => row[r].state = "APPLIED" /\ row[r].reconciled
        /\ answer = "notApplied" => row[r].state = "REJECTED" /\ row[r].reconciled
        /\ ~(answer = "interrupted" /\ kind[r] # "read")
    BY <2>1 DEF Answers
  <2>3. Tell(r, answer) /\ UNCHANGED call
    BY <1>7
  <2> HIDE DEF answer
  <2> QED
    BY <1>6, <2>2, <2>3
<1>8. CASE row[r].state \notin Final /\ MayExecute(r) /\ Tell(r, "interrupted") /\ UNCHANGED call
  <2>1. kind[r] # "read" => row[r].state \in {"NONE", "INTENT"}
    BY <1>8 DEF MayExecute
  <2> QED
    BY <1>6, <1>8, <2>1 DEF Answers
<1>9. CASE row[r].state \notin Final /\ ~MayExecute(r) /\ ToReconcile(r) /\ UNCHANGED told
  <2>1. kind[r] # "read" /\ row[r].state \in {"DISPATCHED", "UNKNOWN"}
    BY <1>4, <1>9 DEF MayExecute, Final, Rows, States
  <2>2. call' \in Calls /\ call'.of = r /\ call'.at = "reconcile"
    BY <1>9 DEF ToReconcile, NoCall, Calls, Places, Images
  <2>3. Apart(r)
    BY <1>1, <1>2, <1>3, <1>9, <2>2, Idle DEF Apart
  <2>4. Typed'
    BY <1>1, <1>2, <1>3, <1>4, <1>9, <2>2, TypedStep DEF Typed, TypeOK
  <2>5. CallInv'
    BY <1>1, <1>2, <2>2 DEF CallInv
  <2>6. Mine(r)'
    <3>1. RowFollows(r)' /\ Sent(r)' /\ Recorded(r)'
      BY <1>1, <1>2, <1>9, <2>1, <2>2 DEF Mine, RowFollows, Sent, Recorded, Assumed, Observed, Is
    <3>2. Told(r)'
      BY <1>1, <1>2, <1>3, <1>9, <2>2 DEF Mine, Told, Is
    <3>3. Working(r)'
      BY <1>1, <1>2, <1>5, <2>2 DEF Mine, Working, Is
    <3>4. ~touched'[r] => Undisturbed(r)'
      BY <1>1, <1>2, <2>2 DEF Mine, Undisturbed, Shows, Observed, Is
    <3> QED
      BY <3>1, <3>2, <3>3, <3>4 DEF Mine
  <2> QED
    BY <2>3, <2>4, <2>5, <2>6, StepOfOne
<1> QED
  BY <1>7, <1>8, <1>9 DEF Dangling

LEMMA PurgeKeeps ==
    ASSUME EffectsInv, NEW r \in Requests, Purge(r)
    PROVE  EffectsInv'
<1>1. Typed /\ CallInv /\ Mine(r) /\ row \in [Requests -> Rows] /\ row[r] \in Rows /\ row[r].state \in Final
  BY TypesRead DEF EffectsInv, Purge
<1>2. UNCHANGED <<kind, target, worker, landed, call, asked, run, durable, up, gone, told, hits, touched, late>>
  BY DEF Purge, world, history
<1> DEFINE q == [row[r] EXCEPT !.receipt = FALSE]
<1>3. /\ q \in Rows /\ q.state = row[r].state /\ q.pre = row[r].pre /\ q.intended = row[r].intended
      /\ ~q.receipt /\ q.reconciled = row[r].reconciled
  BY <1>1 DEF Rows
<1>4. row' = [row EXCEPT ![r] = q]
  BY DEF Purge
<1> HIDE DEF q
<1>5. /\ row' \in [Requests -> Rows] /\ row'[r] = q /\ \A s \in Requests \ {r} : row'[s] = row[s]
  BY <1>1, <1>3, <1>4, RowSet
<1>6. Apart(r)
  BY <1>2, <1>5 DEF Apart
<1>7. Typed'
  <2>1. row'[r].receipt => row'[r].state \in Final
    BY <1>3, <1>5
  <2>2. told' \in [Requests -> SUBSET Answers]
    BY <1>1, <1>2, TypesRead
  <2> QED
    BY <1>1, <1>2, <1>5, <2>1, <2>2, TypedStep DEF Typed, TypeOK
<1>8. CallInv'
  BY <1>1, <1>2 DEF CallInv
<1>9. Mine(r)'
  <2>1. RowFollows(r)' /\ Sent(r)' /\ Told(r)' /\ Working(r)'
    BY <1>1, <1>2, <1>3, <1>5 DEF Mine, RowFollows, Sent, Told, Working, Is
  <2>2. Recorded(r)'
    BY <1>1, <1>2, <1>3, <1>5 DEF Mine, Recorded, Assumed, Observed, Is
  <2>3. ~touched'[r] => Undisturbed(r)'
    BY <1>1, <1>2, <1>3, <1>5 DEF Mine, Undisturbed, Shows, Observed, Is
  <2> QED
    BY <2>1, <2>2, <2>3 DEF Mine
<1> QED
  BY <1>6, <1>7, <1>8, <1>9, StepOfOne

LEMMA WorkKeeps ==
    ASSUME EffectsInv, NEW r \in Requests, Work(r)
    PROVE  EffectsInv'
<1>1. Typed /\ CallInv /\ Mine(r) /\ worker[r] = "running"
  BY DEF EffectsInv, Work
<1>2. UNCHANGED <<kind, row, call, asked, run, durable, up, gone, told, hits, touched, late>>
  BY DEF Work, history
<1>3. /\ worker' \in [Requests -> {"none", "running", "done", "refused"}] /\ worker'[r] \in {"done", "refused"}
      /\ \A s \in Requests \ {r} : worker'[s] = worker[s]
  <2>1. worker \in [Requests -> {"none", "running", "done", "refused"}]
    BY <1>1 DEF Typed, TypeOK
  <2>2. worker' = [worker EXCEPT ![r] = "done"] \/ worker' = [worker EXCEPT ![r] = "refused"]
    BY DEF Work
  <2> QED
    BY <2>1, <2>2
<1>4. /\ target' \in [Requests -> {"pre", "post", "other"}] /\ landed' \in [Requests -> BOOLEAN]
      /\ \A s \in Requests \ {r} : target'[s] = target[s] /\ landed'[s] = landed[s]
      /\ \/ Lands(r) /\ target'[r] = "post" /\ landed'[r] = TRUE
         \/ ~Lands(r) /\ target'[r] = target[r] /\ landed'[r] = landed[r]
  <2>1. target \in [Requests -> {"pre", "post", "other"}] /\ landed \in [Requests -> BOOLEAN]
    BY <1>1 DEF Typed, TypeOK
  <2>2. CASE Lands(r)
    BY <2>1, <2>2 DEF Work
  <2>3. CASE ~Lands(r)
    BY <2>1, <2>3 DEF Work
  <2> QED
    BY <2>2, <2>3
<1>5. hits[r] # 0 /\ (Is("execute", r) \/ r \in late \/ ~up \/ gone)
  BY <1>1 DEF Mine, Sent, Working
<1>6. Observed(r) /\ target[r] = "post" => ~Lands(r)
  BY DEF Observed, Lands
<1>7. Apart(r)
  BY <1>2, <1>3, <1>4 DEF Apart
<1>8. Typed'
  <2>1. /\ row \in [Requests -> Rows] /\ told \in [Requests -> SUBSET Answers]
        /\ row[r].receipt => row[r].state \in Final
    BY <1>1, TypesRead
  <2>2. call \in Calls /\ (call = NoCall \/ (up /\ asked[call.of] = run.n))
    BY <1>1 DEF Typed, TypeOK
  <2> QED
    BY <1>1, <1>2, <1>3, <1>4, <2>1, <2>2, TypedStep DEF Typed, TypeOK
<1>9. CallInv'
  BY <1>1, <1>2 DEF CallInv
<1>10. Mine(r)'
  <2>1. RowFollows(r)' /\ Recorded(r)'
    BY <1>1, <1>2 DEF Mine, RowFollows, Recorded, Assumed, Observed, Is
  <2>2. Sent(r)'
    BY <1>1, <1>2, <1>5 DEF Mine, Sent
  <2>3. Told(r)'
    BY <1>1, <1>2 DEF Mine, Told, Is
  <2>4. Working(r)'
    BY <1>1, <1>2, <1>5 DEF Mine, Working, Is
  <2>5. ~touched'[r] => Undisturbed(r)'
    <3> SUFFICES ASSUME ~touched[r] PROVE Undisturbed(r)'
      BY <1>2
    <3>1. Undisturbed(r) /\ Working(r)
      BY <1>1 DEF Mine
    <3>2. target'[r] # "other" /\ (landed'[r] => target'[r] = "post")
      BY <1>4, <3>1 DEF Undisturbed
    <3>3. ASSUME NEW image \in Images, Observed(r), Shows(r, image)
          PROVE  Shows(r, image)'
      BY <1>4, <1>6, <3>3 DEF Shows
    <3>4. Observed(r)' => Shows(r, row[r].pre)' /\ (Is("dispatch", r)' => Shows(r, call.pre)')
      <4>1. row[r].pre \in Images /\ call.pre \in Images
        BY <1>1, TypesRead DEF Typed, Calls, Rows
      <4>2. Observed(r)' <=> Observed(r)
        BY <1>2 DEF Observed
      <4>3. Is("dispatch", r)' <=> Is("dispatch", r)
        BY <1>2 DEF Is
      <4> HIDE DEF Is
      <4> QED
        BY <1>2, <3>1, <3>3, <4>1, <4>2, <4>3 DEF Undisturbed
    <3>5. Is("settle", r)' => /\ call'.seen # "other"
                              /\ call'.seen = "post" => target'[r] = "post"
                              /\ call'.seen = "pre" /\ r \notin late' => ~landed'[r]
      BY <1>1, <1>2, <1>4, <3>1 DEF Undisturbed, Working, Is
    <3>6. row'[r].state = "APPLIED" /\ row'[r].reconciled =>
             landed'[r] \/ (kind'[r] \in {"guarded", "write"} /\ target'[r] = "post")
      BY <1>2, <1>4, <3>1 DEF Undisturbed
    <3>7. row'[r].state = "REJECTED" /\ row'[r].reconciled /\ r \notin late' => ~landed'[r]
      BY <1>1, <1>2, <3>1 DEF Working
    <3> QED
      BY <1>2, <3>2, <3>4, <3>5, <3>6, <3>7 DEF Undisturbed
  <2> QED
    BY <2>1, <2>2, <2>3, <2>4, <2>5 DEF Mine
<1> QED
  BY <1>7, <1>8, <1>9, <1>10, StepOfOne

LEMMA OtherWritesKeeps ==
    ASSUME EffectsInv, NEW r \in Requests, OtherWrites(r)
    PROVE  EffectsInv'
<1>1. Typed /\ CallInv /\ Mine(r)
  BY DEF EffectsInv
<1>2. UNCHANGED <<kind, worker, landed, row, call, asked, run, durable, up, gone, told, hits, late>>
  BY DEF OtherWrites
<1>3. /\ target' \in [Requests -> {"pre", "post", "other"}]
      /\ \A s \in Requests \ {r} : target'[s] = target[s]
  <2>1. PICK v \in {"pre", "post", "other"} : target' = [target EXCEPT ![r] = v]
    BY DEF OtherWrites
  <2> QED
    BY <1>1, <2>1 DEF Typed, TypeOK
<1>4. /\ touched' \in [Requests -> BOOLEAN] /\ touched'[r] = TRUE
      /\ \A s \in Requests \ {r} : touched'[s] = touched[s]
  BY <1>1 DEF OtherWrites, Typed
<1>5. Apart(r)
  BY <1>2, <1>3, <1>4 DEF Apart
<1>6. Typed'
  <2>1. /\ row \in [Requests -> Rows] /\ told \in [Requests -> SUBSET Answers]
        /\ row[r].receipt => row[r].state \in Final
    BY <1>1, TypesRead
  <2>2. call \in Calls /\ (call = NoCall \/ (up /\ asked[call.of] = run.n))
    BY <1>1 DEF Typed, TypeOK
  <2> QED
    BY <1>1, <1>2, <1>3, <1>4, <2>1, <2>2, TypedStep DEF Typed, TypeOK
<1>7. CallInv'
  BY <1>1, <1>2 DEF CallInv
<1>8. Mine(r)'
  <2>1. RowFollows(r)' /\ Sent(r)' /\ Told(r)' /\ Working(r)'
    BY <1>1, <1>2 DEF Mine, RowFollows, Sent, Told, Working, Is
  <2>2. Recorded(r)'
    BY <1>1, <1>2 DEF Mine, Recorded, Assumed, Observed, Is
  <2> QED
    BY <1>4, <2>1, <2>2 DEF Mine
<1> QED
  BY <1>5, <1>6, <1>7, <1>8, StepOfOne

-----------------------------------------------------------------------------
(* Steps of the run, the workspace and the runner *)

\* Requests stay as they are; their calls may be cut off.
LEMMA StepOfNone ==
    ASSUME EffectsInv,
           UNCHANGED <<kind, target, worker, landed, row, asked, durable, told, hits, touched, late>>,
           up' \in BOOLEAN, gone' \in BOOLEAN, gone => gone', ~up' \/ call' = call, up => up' \/ call' = NoCall, ~up => ~up',
           run' \in [n : 1 .. MaxRuns, phase : {"RUNNING", "CANCELLING", "ENDED"}],
           call' = NoCall \/ (call' = call /\ up' /\ run'.n = run.n /\ run'.phase # "ENDED")
    PROVE  EffectsInv'
<1>1. Typed /\ CallInv /\ (call' = call \/ call' = NoCall)
  BY DEF EffectsInv
<1>2. call' # NoCall => call' = call /\ up' /\ asked'[call'.of] = run'.n /\ call'.of \in Requests /\ run'.phase # "ENDED"
  BY DEF EffectsInv, Typed, TypeOK, CallInv
<1>3. Typed'
  <2>1. kind \in [Requests -> Kinds] /\ TypeOK /\ call' \in Calls
    BY Idle DEF EffectsInv, Typed, TypeOK
  <2>2. TypeOK'
    BY <1>2, <2>1 DEF TypeOK, Calls, Places
  <2> QED
    BY <2>1, <2>2 DEF EffectsInv, Typed
<1>4. CallInv'
  <2>1. call'.at = "idle" => call' = NoCall
    BY DEF EffectsInv, CallInv
  <2> QED
    BY <1>2, <2>1 DEF CallInv
<1>5. ASSUME NEW r \in Requests PROVE Mine(r)'
  <2>1. Mine(r)
    BY DEF EffectsInv
  <2>2. /\ call' = call \/ (call'.at = "idle" /\ call'.of # r)
        /\ call' # call => ~up'
    BY <1>1, Idle
  <2>3. RowFollows(r)'
    BY <2>1, <2>2 DEF Mine, RowFollows, Is
  <2>4. Sent(r)' /\ Told(r)'
    BY <2>1, <2>2 DEF Mine, Sent, Told, Is
  <2>5. Working(r)'
    BY <2>1, <2>2 DEF Mine, Working, Is
  <2>6. Recorded(r)'
    BY <2>1, <2>2 DEF Mine, Recorded, Assumed, Observed, Is
  <2>7. ~touched'[r] => Undisturbed(r)'
    BY <2>1, <2>2 DEF Mine, Undisturbed, Shows, Observed, Is
  <2> QED
    BY <2>3, <2>4, <2>5, <2>6, <2>7 DEF Mine
<1> QED
  BY <1>3, <1>4, <1>5 DEF EffectsInv

LEMMA RunKeeps ==
    ASSUME EffectsInv, EndRun \/ RunEnded \/ Continue
    PROVE  EffectsInv'
<1>1. Typed /\ CallInv
  BY DEF EffectsInv
<1>2. UNCHANGED <<kind, target, worker, landed, row, call, asked, durable, up, gone, told, hits, touched, late>>
  BY DEF EndRun, RunEnded, Continue, world, history
<1>3. run \in [n : 1 .. MaxRuns, phase : {"RUNNING", "CANCELLING", "ENDED"}]
  BY <1>1 DEF Typed, TypeOK
<1>4. /\ run' \in [n : 1 .. MaxRuns, phase : {"RUNNING", "CANCELLING", "ENDED"}]
      /\ call = NoCall \/ (run'.n = run.n /\ run'.phase = "CANCELLING")
      /\ up
  <2>1. CASE EndRun
    BY <1>3, <2>1 DEF EndRun
  <2>2. CASE RunEnded
    BY <1>3, <2>2 DEF RunEnded
  <2>3. CASE Continue
    <3>1. call = NoCall
      BY <1>1, <2>3 DEF Continue, CallInv
    <3>2. run.n + 1 \in 1 .. MaxRuns
      BY <1>3, <2>3, EffectsAssumption DEF Continue
    <3> QED
      BY <2>3, <3>1, <3>2 DEF Continue
  <2> QED
    BY <2>1, <2>2, <2>3
<1> QED
  BY <1>1, <1>2, <1>4, StepOfNone DEF Typed

LEMMA GoneKeeps ==
    ASSUME EffectsInv, WorkspaceGone
    PROVE  EffectsInv'
<1>1. Typed /\ CallInv
  BY DEF EffectsInv
<1>2. /\ UNCHANGED <<kind, target, worker, landed, row, call, asked, run, durable, up, told, hits, touched, late>>
      /\ up /\ gone' = TRUE
  BY DEF WorkspaceGone, world, history
<1>3. call = NoCall \/ run.phase # "ENDED"
  BY <1>1 DEF CallInv
<1> QED
  BY <1>1, <1>2, <1>3, StepOfNone DEF Typed, TypeOK

LEMMA CrashKeeps ==
    ASSUME EffectsInv, Crash
    PROVE  EffectsInv'
<1>1. Typed
  BY DEF EffectsInv
<1>2. /\ UNCHANGED <<kind, target, worker, landed, row, asked, run, durable, gone, told, hits, touched, late>>
      /\ up /\ up' = FALSE /\ call' = NoCall
  BY DEF Crash, world, history
<1> QED
  BY <1>1, <1>2, StepOfNone DEF Typed, TypeOK

LEMMA BootKeeps ==
    ASSUME EffectsInv, Boot
    PROVE  EffectsInv'
<1>1. Typed /\ CallInv /\ ~up /\ up' = TRUE
  BY DEF EffectsInv, Boot
<1>2. UNCHANGED <<kind, target, landed, call, asked, durable, gone, told, hits, touched, late>>
  BY DEF Boot, history
<1>3. call = NoCall
  BY <1>1 DEF Typed, TypeOK
<1>4. /\ run' \in [n : 1 .. MaxRuns, phase : {"RUNNING", "CANCELLING", "ENDED"}]
      /\ worker' \in [Requests -> {"none", "running", "done", "refused"}]
      /\ ~gone => \A r \in Requests : worker'[r] = "none"
      /\ gone => worker' = worker
  <2>1. /\ run \in [n : 1 .. MaxRuns, phase : {"RUNNING", "CANCELLING", "ENDED"}]
        /\ worker \in [Requests -> {"none", "running", "done", "refused"}]
    BY <1>1 DEF Typed, TypeOK
  <2>2. CASE gone
    BY <2>1, <2>2 DEF Boot
  <2>3. CASE ~gone
    BY <2>1, <2>3 DEF Boot
  <2> QED
    BY <2>2, <2>3
<1>5. ASSUME NEW r \in Requests
      PROVE  /\ Repaired(r) \in Rows /\ Repaired(r).pre = row[r].pre /\ Repaired(r).intended = row[r].intended
             /\ Repaired(r).receipt = row[r].receipt /\ Repaired(r).reconciled = row[r].reconciled
             /\ Repaired(r).state = IF row[r].state \in {"INTENT", "DISPATCHED"} THEN "UNKNOWN" ELSE row[r].state
  <2>1. row[r] \in Rows
    BY <1>1, TypesRead
  <2>2. CASE row[r].state \in {"INTENT", "DISPATCHED"}
    BY <2>1, <2>2 DEF Repaired, Rows, States
  <2>3. CASE row[r].state \notin {"INTENT", "DISPATCHED"}
    BY <2>1, <2>3 DEF Repaired
  <2> QED
    BY <2>2, <2>3
<1>6. /\ row' \in [Requests -> Rows]
      /\ \A r \in Requests : row'[r] = row[r] \/ row'[r] = Repaired(r)
  <2>1. row \in [Requests -> Rows]
    BY <1>1, TypesRead
  <2>2. row' = row \/ row' = [r \in Requests |-> Repaired(r)]
    BY DEF Boot
  <2> QED
    BY <1>5, <2>1, <2>2
<1>7. \A r \in Requests :
         /\ row'[r].pre = row[r].pre /\ row'[r].intended = row[r].intended
         /\ row'[r].receipt = row[r].receipt /\ row'[r].reconciled = row[r].reconciled
         /\ \/ row'[r].state = row[r].state
            \/ row[r].state \in {"INTENT", "DISPATCHED"} /\ row'[r].state = "UNKNOWN"
  BY <1>5, <1>6
<1>8. Typed'
  <2>1. \A r \in Requests : row'[r].receipt => row'[r].state \in Final
    BY <1>1, <1>7, TypesRead DEF Final
  <2>2. TypeOK'
    BY <1>1, <1>2, <1>3, <1>4, <1>6, <2>1, Idle DEF Typed, TypeOK, Rows, Images, Answers
  <2> QED
    BY <1>1, <1>2, <2>2 DEF Typed
<1>9. CallInv'
  BY <1>2, <1>3 DEF CallInv
<1>10. ASSUME NEW r \in Requests PROVE Mine(r)'
  <2>1. Mine(r)
    BY DEF EffectsInv
  <2>2. call'.at = "idle" /\ call'.of # r /\ call.of # r
    BY <1>2, <1>3, Idle
  <2>3. /\ row'[r].pre = row[r].pre /\ row'[r].intended = row[r].intended
        /\ row'[r].receipt = row[r].receipt /\ row'[r].reconciled = row[r].reconciled
        /\ \/ row'[r].state = row[r].state
           \/ row[r].state \in {"INTENT", "DISPATCHED"} /\ row'[r].state = "UNKNOWN"
    BY <1>7
  <2>4. worker'[r] = "none" \/ (gone' /\ worker'[r] = worker[r])
    BY <1>2, <1>4
  <2>5. RowFollows(r)'
    BY <2>2 DEF RowFollows, Is
  <2>6. Sent(r)'
    BY <1>2, <2>1, <2>3, <2>4 DEF Mine, Sent
  <2>7. Told(r)'
    BY <1>2, <2>1, <2>2, <2>3 DEF Mine, Told, Is
  <2>8. Working(r)'
    BY <1>2, <2>1, <2>2, <2>3, <2>4 DEF Mine, Working, Is
  <2>9. Recorded(r)'
    BY <1>2, <2>1, <2>2, <2>3 DEF Mine, Recorded, Assumed, Observed, Is
  <2>10. ~touched'[r] => Undisturbed(r)'
    BY <1>2, <2>1, <2>2, <2>3 DEF Mine, Undisturbed, Shows, Observed, Is
  <2> QED
    BY <2>5, <2>6, <2>7, <2>8, <2>9, <2>10 DEF Mine
<1> QED
  BY <1>8, <1>9, <1>10 DEF EffectsInv

-----------------------------------------------------------------------------
(* The theorems *)

LEMMA EffectsInit == Init => EffectsInv
<1> SUFFICES ASSUME Init PROVE EffectsInv
  OBVIOUS
<1> USE Idle, EffectsAssumption DEF Init
<1>1. Typed
  <2>1. /\ NoRow \in [state : States, pre : {None, "pre", "post", "other"}, intended : BOOLEAN,
                      receipt : BOOLEAN, reconciled : BOOLEAN]
        /\ ~NoRow.receipt /\ NoRow.state = "NONE" /\ NoRow.pre = None /\ ~NoRow.intended /\ ~NoRow.reconciled
    BY DEF NoRow, States
  <2>2. TypeOK
    BY <2>1 DEF TypeOK, Calls
  <2> QED
    BY <2>2 DEF Typed
<1>2. CallInv
  BY DEF CallInv
<1>3. ASSUME NEW r \in Requests PROVE Mine(r)
  <2>1. /\ row[r].state = "NONE" /\ row[r].pre = None /\ ~row[r].intended /\ ~row[r].reconciled
        /\ hits[r] = 0 /\ ~landed[r] /\ worker[r] = "none" /\ told[r] = {} /\ target[r] \in {"pre", "post"}
        /\ call.at = "idle"
    BY DEF NoRow
  <2>2. RowFollows(r) /\ Sent(r) /\ Told(r) /\ Working(r)
    BY <2>1 DEF RowFollows, Sent, Told, Working, Is
  <2>3. Recorded(r) /\ Undisturbed(r)
    BY <2>1 DEF Recorded, Assumed, Undisturbed, Shows, Is
  <2> QED
    BY <2>2, <2>3 DEF Mine
<1> QED
  BY <1>1, <1>2, <1>3 DEF EffectsInv

LEMMA EffectsStep == EffectsInv /\ [Next]_vars => EffectsInv'
<1> SUFFICES ASSUME EffectsInv, [Next]_vars PROVE EffectsInv'
  OBVIOUS
<1>1. CASE EndRun \/ RunEnded \/ Continue
  BY <1>1, RunKeeps
<1>2. CASE WorkspaceGone
  BY <1>2, GoneKeeps
<1>3. CASE Crash
  BY <1>3, CrashKeeps
<1>4. CASE Boot
  BY <1>4, BootKeeps
<1>5. ASSUME NEW r \in Requests,
             \/ Request(r) \/ Observe(r) \/ Dispatch(r) \/ Answered(r) \/ Failed(r)
             \/ Look(r) \/ Settle(r) \/ Dangling(r) \/ Purge(r)
             \/ Work(r) \/ OtherWrites(r)
      PROVE  EffectsInv'
  BY <1>5, RequestKeeps, ObserveKeeps, DispatchKeeps, AnsweredKeeps, FailedKeeps, LookKeeps, SettleKeeps,
     DanglingKeeps, PurgeKeeps, WorkKeeps, OtherWritesKeeps
<1>6. CASE UNCHANGED vars
  <2>1. Typed' /\ CallInv'
    <3>1. UNCHANGED <<kind, target, worker, landed, row, call, asked, run, durable, up, gone, told, hits, touched>>
      BY <1>6 DEF vars, world, history
    <3> QED
      BY <3>1 DEF EffectsInv, Typed, TypeOK, CallInv
  <2>2. ASSUME NEW r \in Requests PROVE Mine(r)'
    <3>1. UNCHANGED <<kind, target, worker, landed, row, call, asked, durable, up, gone, told, hits, touched, late>>
      BY <1>6 DEF vars, world, history
    <3>2. Mine(r)
      BY DEF EffectsInv
    <3> QED
      BY <3>1, <3>2 DEF Mine, RowFollows, Sent, Told, Working, Recorded, Assumed, Undisturbed, Shows, Observed, Is
  <2> QED
    BY <2>1, <2>2 DEF EffectsInv
<1> QED
  BY <1>1, <1>2, <1>3, <1>4, <1>5, <1>6 DEF Next

LEMMA EffectsInvariant == Spec => []EffectsInv
BY EffectsInit, EffectsStep, PTL DEF Spec

\* No mutation of a lineage reaches the executor twice, whatever crashes, ends and continuations it
\* meets (runProxyTool, dispatchEffect, prepareWorkspaceStartupRepair).
THEOREM MutationsHappenOnce == Spec => []MutationOnce
<1>1. EffectsInv => MutationOnce
  BY DEF EffectsInv, Mine, Sent, MutationOnce
<1> QED
  BY <1>1, EffectsInvariant, PTL

\* What the model was told of a mutation is on record and stays so (completeEffect,
\* settleLostEffect).
THEOREM AnswersStand == Spec => []ToldIsRecorded
<1>1. EffectsInv => ToldIsRecorded
  BY DEF EffectsInv, Mine, Told, ToldIsRecorded
<1> QED
  BY <1>1, EffectsInvariant, PTL

\* What the model is told of a call whose answer was lost is what happened in the workspace
\* (reconcileEffect, danglingOutcome).
THEOREM LostAnswersAreTrue == Spec => []AnswersAreTrue
<1>1. ASSUME EffectsInv PROVE AnswersAreTrue
  <2>1. AppliedIsTrue
    BY <1>1 DEF EffectsInv, Mine, Told, Undisturbed, AppliedIsTrue
  <2>2. NotAppliedIsTrue
    BY <1>1 DEF EffectsInv, Mine, Told, Undisturbed, NotAppliedIsTrue
  <2>3. InterruptedNeverRan
    BY <1>1 DEF EffectsInv, Mine, Told, Sent, InterruptedNeverRan
  <2> QED
    BY <2>1, <2>2, <2>3 DEF AnswersAreTrue
<1> QED
  BY <1>1, EffectsInvariant, PTL

\* No executor process works for a run that ended (cleanup, executeAgentProxy, start).
THEOREM EndedRunsRest == Spec => []NoWorkAfterTheEnd
<1>1. ASSUME EffectsInv PROVE NoWorkAfterTheEnd
  <2>1. run.phase = "ENDED" => call.at = "idle"
    BY <1>1, Idle DEF EffectsInv, CallInv
  <2> QED
    BY <1>1, <2>1 DEF EffectsInv, Mine, Working, Is, NoWorkAfterTheEnd
<1> QED
  BY <1>1, EffectsInvariant, PTL

=============================================================================
