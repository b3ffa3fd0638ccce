------------------------- MODULE EventDeliveryProofs -------------------------
(***************************************************************************)
(* What holds of the event deliveries whatever the numbers of tasks and    *)
(* subscriptions, the waits, the window and the calls that are lost.       *)
(***************************************************************************)
EXTENDS EventDelivery, FiniteSetTheorems, TLAPS

(***************************************************************************)
(* The statements on one row                                               *)
(***************************************************************************)
\* A row whose lease, when there is one, is that of its last attempt.
Sound(row) == row \in DeliveryRows /\ row.token \in {0, row.attempts}

\* The rows the statements write out in full.
LEMMA PlainRows ==
    /\ Sound(NoDelivery) /\ NoDelivery.status = "NONE"
    /\ Sound(NewDelivery) /\ NewDelivery.status = "PENDING"
    /\ \A status \in {"DELIVERED", "ABANDONED"} :
          Sound(Settled(status)) /\ Settled(status).status = status
<1>1. 0 \in 0 .. Lease /\ 0 \in 0 .. Window /\ 0 \in Nat
  BY EventAssumption
<1>2. /\ NewDelivery = [status |-> "PENDING", attempts |-> 0, due |-> 0,
                        lease |-> 0, token |-> 0, age |-> 0]
      /\ \A status : Settled(status) =
                       [status |-> status, attempts |-> 0, due |-> 0,
                        lease |-> 0, token |-> 0, age |-> 0]
  BY DEF NewDelivery, Settled, NoDelivery
<1> QED
  BY <1>1, <1>2 DEF Sound, DeliveryRows, NoDelivery

\* Revocation: a delivery that waits is abandoned, the others stay.
LEMMA Abandoning ==
    ASSUME NEW row, Sound(row)
    PROVE  /\ Sound(AbandonedIfPending(row))
           /\ ~Pending(AbandonedIfPending(row))
           /\ AbandonedIfPending(row).status = "NONE" <=> row.status = "NONE"
           /\ AbandonedIfPending(row).status = "DELIVERED" => row.status = "DELIVERED"
BY PlainRows DEF AbandonedIfPending, Pending

\* A claim takes the next attempt and leaves the status.
LEMMA Granting ==
    ASSUME NEW row, Sound(row)
    PROVE  Sound(Granted(row)) /\ Granted(row).status = row.status
<1> DEFINE next == row.attempts + 1
<1>1. next \in Nat /\ Lease \in 0 .. Lease
  BY EventAssumption DEF Sound, DeliveryRows
<1>2. Granted(row) = [row EXCEPT !.attempts = next, !.token = next, !.lease = Lease]
  BY DEF Granted, Sound, DeliveryRows
<1> HIDE DEF next
<1> QED
  BY <1>1, <1>2 DEF Sound, DeliveryRows

\* Time changes no status.
LEMMA Aging ==
    ASSUME NEW row, Sound(row)
    PROVE  Sound(Older(row)) /\ Older(row).status = row.status
<1> DEFINE due == IF row.due > 0 THEN row.due - 1 ELSE 0
           lease == IF row.lease > 0 THEN row.lease - 1 ELSE 0
           age == IF row.age < Window THEN row.age + 1 ELSE Window
<1>1. due \in Nat /\ lease \in 0 .. Lease /\ age \in 0 .. Window
  BY EventAssumption, SMTT(30) DEF Sound, DeliveryRows
<1>2. Older(row) = IF ~Pending(row) THEN row
                   ELSE [row EXCEPT !.due = due, !.lease = lease, !.age = age]
  BY DEF Older, Sound, DeliveryRows
<1> HIDE DEF due, lease, age
<1> QED
  BY <1>1, <1>2 DEF Sound, DeliveryRows

\* A report leaves the row alone, settles it, or has it wait for the next attempt.
LEMMA Reporting ==
    ASSUME NEW row, Sound(row), NEW r \in Reports
    PROVE  /\ Sound(AfterReport(row, r))
           /\ AfterReport(row, r).status = "NONE" <=> row.status = "NONE"
           /\ Pending(AfterReport(row, r)) => Pending(row)
           /\ AfterReport(row, r).status = "DELIVERED"
                => row.status = "DELIVERED" \/ r.outcome = "delivered"
<1>1. CASE ~Holds(row, r)
  BY <1>1 DEF AfterReport
<1>2. CASE Holds(row, r) /\ r.outcome = "delivered"
  BY <1>2, PlainRows DEF AfterReport, Holds, Pending
<1>3. CASE Holds(row, r) /\ r.outcome # "delivered" /\ Final(row, r.outcome)
  BY <1>3, PlainRows DEF AfterReport, Holds, Pending
<1>4. CASE Holds(row, r) /\ r.outcome # "delivered" /\ ~Final(row, r.outcome)
  <2> DEFINE due == Delay[row.attempts]
             none == 0
  <2>1. row.attempts \in 1 .. MaxAttempts - 1
    BY <1>4, EventAssumption DEF Holds, Final, Sound, DeliveryRows
  <2>2. due \in Nat /\ none \in 0 .. Lease /\ none \in Nat /\ none = 0
    BY <2>1, EventAssumption
  <2>3. AfterReport(row, r) = [row EXCEPT !.lease = none, !.token = none, !.due = due]
    BY <1>4 DEF AfterReport, Rescheduled
  <2> HIDE DEF due, none
  <2> QED
    BY <1>4, <2>2, <2>3 DEF Sound, DeliveryRows, Holds, Pending
<1> QED
  BY <1>1, <1>2, <1>3, <1>4

(***************************************************************************)
(* Types                                                                   *)
(***************************************************************************)
\* The types, what a token is, and that the reports in flight can be counted.
TypeInv ==
    /\ TypeOK
    /\ \A d \in Deliveries : Sound(delivery[d])
    /\ IsFiniteSet(wire)

\* The rows a subscription can turn into.
LEMMA SubTypes ==
    /\ NoSub \in SubRows
    /\ \A row \in SubRows : RevokedSub(row) \in SubRows /\ RevokedSub(row).state = "REVOKED"
    /\ \A viaKey \in BOOLEAN : [state |-> "ACTIVE", live |-> TRUE, viaKey |-> viaKey] \in SubRows
BY DEF SubRows, NoSub, RevokedSub

\* What the purge leaves of the tables.
LEMMA PurgeTypes ==
    ASSUME TypeInv, NEW purging \in BOOLEAN
    PROVE  /\ SubsAfter(purging) \in [Subs -> SubRows]
           /\ \A s \in Subs : SubsAfter(purging)[s] \in {sub[s], NoSub}
           /\ \A d \in Deliveries : /\ RowsAfter(purging)[d] \in {delivery[d], NoDelivery}
                                    /\ Sound(RowsAfter(purging)[d])
           /\ Purge(purging) => /\ outbox' \subseteq Sources
                                /\ aged' \in [d : SUBSET Deliveries, t : SUBSET Sources,
                                              s : SUBSET Subs]
<1> USE DEF TypeInv, TypeOK
<1>1. \A s \in Subs : SubsAfter(purging)[s] = sub[s] \/ SubsAfter(purging)[s] = NoSub
  BY DEF SubsAfter
<1>2. SubsAfter(purging) \in [Subs -> SubRows]
  BY SubTypes DEF SubsAfter
<1>3. \A d \in Deliveries : /\ RowsAfter(purging)[d] \in {delivery[d], NoDelivery}
                            /\ Sound(RowsAfter(purging)[d])
  BY PlainRows DEF RowsAfter
<1>4. ASSUME Purge(purging)
      PROVE  /\ outbox' \subseteq Sources
             /\ aged' \in [d : SUBSET Deliveries, t : SUBSET Sources, s : SUBSET Subs]
  <2>1. outbox' \subseteq Sources
    BY <1>4 DEF Purge
  <2>2. CASE purging
    <3> DEFINE keep == {t \in aged.t : ~EventPurged(t)}
    <3>1. keep \in SUBSET Sources
      OBVIOUS
    <3>2. aged' = [d |-> {}, t |-> keep, s |-> {}]
      BY <1>4, <2>2 DEF Purge
    <3> HIDE DEF keep
    <3> QED
      BY <2>1, <3>1, <3>2
  <2>3. CASE ~purging
    BY <1>4, <2>1, <2>3 DEF Purge
  <2> QED
    BY <2>2, <2>3
<1> QED
  BY <1>1, <1>2, <1>3, <1>4

\* A batch consists of deliveries that exist.
LEMMA BatchIsDue ==
    ASSUME NEW rows, NEW batch \in Batches(rows)
    PROVE  batch \subseteq Deliveries /\ \A d \in batch : rows[d].status = "PENDING"
BY DEF Batches, kSubset, Due, Pending

\* A claim served: the tables keep their types, no delivery appears or is
\* delivered, and one that waits does not wait for a revoked subscription
\* unless it did before.
LEMMA ClaimServed ==
    ASSUME TypeInv, NEW purging \in BOOLEAN, NEW lost,
           NEW batch \in Batches(RowsAfter(purging)),
           ServeClaim(purging, batch, lost)
    PROVE  /\ outbox' \subseteq Sources
           /\ sub' \in [Subs -> SubRows]
           /\ aged' \in [d : SUBSET Deliveries, t : SUBSET Sources, s : SUBSET Subs]
           /\ delivery' \in [Deliveries -> DeliveryRows]
           /\ \A d \in Deliveries :
                 /\ Sound(delivery'[d])
                 /\ delivery[d].status = "NONE" => delivery'[d].status = "NONE"
                 /\ delivery'[d].status = "DELIVERED" => delivery[d].status = "DELIVERED"
                 /\ Pending(delivery'[d]) /\ sub'[d[2]].state = "REVOKED"
                      => Pending(delivery[d]) /\ sub[d[2]].state = "REVOKED"
           /\ Answer(purging, batch, lost) \subseteq Claims
<1> DEFINE subs == SubsAfter(purging)
           rows == RowsAfter(purging)
           late == Lapsed(subs, batch)
           sent == Leased(subs, rows, batch, lost)
<1>1. /\ Purge(purging)
      /\ sub' = [s \in Subs |-> IF s \in late THEN RevokedSub(subs[s]) ELSE subs[s]]
      /\ delivery' = [d \in Deliveries |->
            IF d[2] \in late THEN AbandonedIfPending(rows[d])
            ELSE IF d \in sent THEN Granted(rows[d])
            ELSE IF d \in batch THEN Settled("ABANDONED")
            ELSE rows[d]]
  BY DEF ServeClaim, AfterClaim
<1>2. /\ subs \in [Subs -> SubRows]
      /\ \A s \in Subs : subs[s] \in {sub[s], NoSub}
      /\ \A d \in Deliveries : Sound(rows[d]) /\ rows[d] \in {delivery[d], NoDelivery}
  BY PurgeTypes
<1>3. batch \subseteq Deliveries /\ \A d \in batch : rows[d].status = "PENDING"
  BY BatchIsDue
<1>4. \A d \in sent : d \in batch /\ subs[d[2]].state = "ACTIVE"
  BY DEF Leased, Sendable, Open
<1>5. sub' \in [Subs -> SubRows]
  BY <1>1, <1>2, SubTypes
<1>6. \A d \in Deliveries : d[2] \in Subs
  BY DEF Deliveries
<1> HIDE DEF subs, rows, late, sent
<1>7. ASSUME NEW d \in Deliveries
      PROVE  /\ Sound(delivery'[d])
             /\ delivery[d].status = "NONE" => delivery'[d].status = "NONE"
             /\ delivery'[d].status = "DELIVERED" => delivery[d].status = "DELIVERED"
             /\ Pending(delivery'[d]) /\ sub'[d[2]].state = "REVOKED"
                  => Pending(delivery[d]) /\ sub[d[2]].state = "REVOKED"
  <2>1. /\ Sound(rows[d])
        /\ delivery[d].status = "NONE" => rows[d].status = "NONE"
        /\ rows[d].status = "DELIVERED" => delivery[d].status = "DELIVERED"
        /\ Pending(rows[d]) => Pending(delivery[d])
    BY <1>2, PlainRows DEF Pending
  <2>2. CASE d[2] \in late
    BY <1>1, <2>1, <2>2, Abandoning
  <2>3. CASE d[2] \notin late
    <3>1. sub'[d[2]] = subs[d[2]] /\ subs[d[2]] \in {sub[d[2]], NoSub}
      BY <1>1, <1>2, <1>6, <2>3
    <3>2. sub'[d[2]].state = "REVOKED" => sub[d[2]].state = "REVOKED"
      BY <3>1 DEF NoSub
    <3>3. CASE d \in sent
      <4>1. delivery'[d] = Granted(rows[d]) /\ rows[d].status = "PENDING"
        BY <1>1, <1>3, <1>4, <2>3, <3>3
      <4> QED
        BY <1>4, <2>1, <3>1, <3>2, <3>3, <4>1, Granting DEF Pending
    <3>4. CASE d \notin sent /\ d \in batch
      <4>1. delivery'[d] = Settled("ABANDONED") /\ rows[d].status = "PENDING"
        BY <1>1, <1>3, <2>3, <3>4
      <4> QED
        BY <2>1, <4>1, PlainRows DEF Pending
    <3>5. CASE d \notin sent /\ d \notin batch
      <4>1. delivery'[d] = rows[d]
        BY <1>1, <2>3, <3>5
      <4> QED
        BY <2>1, <3>2, <4>1
    <3> QED
      BY <3>3, <3>4, <3>5
  <2> QED
    BY <2>2, <2>3
<1>8. delivery' \in [Deliveries -> DeliveryRows]
  <2>1. \A d \in Deliveries : delivery'[d] \in DeliveryRows
    BY <1>7 DEF Sound
  <2> QED
    BY <1>1, <2>1
<1>9. Answer(purging, batch, lost) \subseteq Claims
  <2>1. Answer(purging, batch, lost) = {[d |-> d, token |-> rows[d].attempts + 1] : d \in sent}
    BY DEF Answer, rows, sent, subs
  <2>2. \A d \in sent : d \in Deliveries /\ rows[d].attempts + 1 \in Nat
    BY <1>2, <1>3, <1>4 DEF Sound, DeliveryRows
  <2> QED
    BY <2>1, <2>2 DEF Claims
<1>10. /\ outbox' \subseteq Sources
       /\ aged' \in [d : SUBSET Deliveries, t : SUBSET Sources, s : SUBSET Subs]
  BY <1>1, PurgeTypes
<1> QED
  BY <1>5, <1>7, <1>8, <1>9, <1>10

\* A report served: a delivery is delivered only by a report that says so.
LEMMA ReportServed ==
    ASSUME TypeInv, NEW m \in wire, ServeReport(m)
    PROVE  /\ delivery' \in [Deliveries -> DeliveryRows]
           /\ \A d \in Deliveries :
                 /\ Sound(delivery'[d])
                 /\ delivery[d].status = "NONE" => delivery'[d].status = "NONE"
                 /\ Pending(delivery'[d]) => Pending(delivery[d])
                 /\ delivery'[d].status = "DELIVERED"
                      => \/ delivery[d].status = "DELIVERED"
                         \/ \E r \in m : r.d = d /\ r.outcome = "delivered"
<1>1. m \subseteq Reports
  BY DEF TypeInv, TypeOK
<1>2. ASSUME NEW d \in Deliveries
      PROVE  /\ Sound(delivery'[d])
             /\ delivery[d].status = "NONE" => delivery'[d].status = "NONE"
             /\ Pending(delivery'[d]) => Pending(delivery[d])
             /\ delivery'[d].status = "DELIVERED"
                  => \/ delivery[d].status = "DELIVERED"
                     \/ \E r \in m : r.d = d /\ r.outcome = "delivered"
  <2>0. Sound(delivery[d])
    BY DEF TypeInv
  <2>1. CASE \E r \in m : r.d = d
    <3> DEFINE r == CHOOSE x \in m : x.d = d
    <3>1. r \in m /\ r.d = d
      BY <2>1
    <3>2. delivery'[d] = AfterReport(delivery[d], r)
      BY <2>1 DEF ServeReport
    <3> HIDE DEF r
    <3> QED
      BY <1>1, <2>0, <3>1, <3>2, Reporting
  <2>2. CASE ~\E r \in m : r.d = d
    <3>1. delivery'[d] = delivery[d]
      BY <2>2 DEF ServeReport
    <3> QED
      BY <2>0, <3>1
  <2> QED
    BY <2>1, <2>2
<1>3. delivery' \in [Deliveries -> DeliveryRows]
  <2>1. \A d \in Deliveries : delivery'[d] \in DeliveryRows
    BY <1>2 DEF Sound
  <2> QED
    BY <2>1 DEF ServeReport
<1> QED
  BY <1>2, <1>3

\* Tasks end: the only new rows are those of the recipients of their events.
LEMMA Emitted ==
    ASSUME TypeInv, NEW T \in SUBSET Sources, NEW status, Emit(T, status)
    PROVE  /\ outbox' \subseteq Sources
           /\ delivery' \in [Deliveries -> DeliveryRows]
           /\ \A d \in Deliveries :
                 /\ Sound(delivery'[d])
                 /\ \/ delivery'[d] = delivery[d]
                    \/ /\ d[1] \in T /\ d[2] \in Recipients(d[1], status)
                       /\ delivery'[d] = NewDelivery
<1> DEFINE fresh == {t \in T : t \notin outbox /\ Recipients(t, status) # {}}
<1>1. /\ outbox' = outbox \union fresh
      /\ delivery' = [d \in Deliveries |->
            IF d[1] \in fresh /\ d[2] \in Recipients(d[1], status)
            THEN NewDelivery ELSE delivery[d]]
  BY DEF Emit
<1>2. fresh \subseteq T
  OBVIOUS
<1> HIDE DEF fresh
<1>3. \A d \in Deliveries :
         /\ Sound(delivery'[d])
         /\ \/ delivery'[d] = delivery[d]
            \/ /\ d[1] \in T /\ d[2] \in Recipients(d[1], status)
               /\ delivery'[d] = NewDelivery
  BY <1>1, <1>2, PlainRows DEF TypeInv
<1>4. delivery' \in [Deliveries -> DeliveryRows]
  BY <1>1, <1>3 DEF Sound
<1> QED
  BY <1>1, <1>2, <1>3, <1>4 DEF TypeInv, TypeOK

\* Every step is one of these.
LEMMA StepCases ==
    ASSUME Next
    PROVE  \/ \E s \in Subs, viaKey \in Credentials : Subscribe(s, viaKey)
           \/ \E s \in Subs : Unsubscribe(s)
           \/ \E s \in Subs : Revoke(s)
           \/ \E s \in Subs : SubExpires(s)
           \/ \E t \in Sources, status \in Terminal : Settle(t, status)
           \/ RunnerRestarts
           \/ AskClaim \/ ClaimAnswered \/ OrphanClaim \/ SendReport
           \/ \E c \in worker.batch, outcome \in Outcomes \union {"none"}, reached \in BOOLEAN :
                 Post(c, outcome, reached)
           \/ \E cut \in SUBSET worker.batch : Stop(cut)
           \/ \E m \in wire : ReportArrives(m)
           \/ \E delivered \in BOOLEAN : PassLost(delivered)
           \/ Tick \/ KeyExpires \/ RetentionPasses
BY DEF Next, Client, Producer, Passes, Posts, Late, Clock

\* What a task's end records of its recipients, and the new statuses.
LEMMA EndTypes ==
    ASSUME TypeInv, NEW T, NEW status, FirstEnds(T, status)
    PROVE  audience' \in [Sources -> SUBSET Subs]
BY DEF FirstEnds, Recipients, TypeInv, TypeOK

\* The types, and how tokens relate to attempts, survive every step.
LEMMA TypeStep == TypeInv /\ [Next]_vars => TypeInv'
<1> SUFFICES ASSUME TypeInv, [Next]_vars PROVE TypeInv'
  OBVIOUS
<1> USE DEF TypeInv, TypeOK
<1>1. ASSUME NEW s \in Subs, NEW viaKey \in Credentials, Subscribe(s, viaKey)
      PROVE  TypeInv'
  <2> DEFINE row == [state |-> "ACTIVE", live |-> TRUE, viaKey |-> viaKey]
             rest == aged.s \ {s}
  <2>1. row \in SubRows /\ rest \in SUBSET Subs
    BY SubTypes, EventAssumption
  <2>2. sub' = [sub EXCEPT ![s] = row] /\ aged' = [aged EXCEPT !.s = rest]
    BY <1>1 DEF Subscribe, Unaged
  <2> HIDE DEF row, rest
  <2> QED
    BY <1>1, <2>1, <2>2 DEF Subscribe, calls
<1>2. ASSUME NEW s \in Subs, Unsubscribe(s)
      PROVE  TypeInv'
  <2> DEFINE rest == aged.s \ {s}
  <2>1. rest \in SUBSET Subs /\ NoSub \in SubRows
    BY SubTypes
  <2>2. sub' = [sub EXCEPT ![s] = NoSub] /\ aged' = [aged EXCEPT !.s = rest]
    BY <1>2 DEF Unsubscribe, Unaged
  <2>3. delivery' \in [Deliveries -> DeliveryRows] /\ \A d \in Deliveries : Sound(delivery'[d])
    BY <1>2, PlainRows DEF Unsubscribe, Sound
  <2> HIDE DEF rest
  <2> QED
    BY <1>2, <2>1, <2>2, <2>3 DEF Unsubscribe, calls
<1>3. ASSUME NEW s \in Subs, Revoke(s)
      PROVE  TypeInv'
  <2> DEFINE rest == aged.s \ {s}
             row == RevokedSub(sub[s])
  <2>1. rest \in SUBSET Subs /\ row \in SubRows
    BY SubTypes
  <2>2. sub' = [sub EXCEPT ![s] = row] /\ aged' = [aged EXCEPT !.s = rest]
    BY <1>3 DEF Revoke, Unaged
  <2>3. \A d \in Deliveries : Sound(delivery'[d])
    BY <1>3, Abandoning DEF Revoke
  <2>4. delivery' \in [Deliveries -> DeliveryRows]
    BY <1>3, <2>3 DEF Revoke, Sound
  <2> HIDE DEF rest, row
  <2> QED
    BY <1>3, <2>1, <2>2, <2>3, <2>4 DEF Revoke, calls
<1>4. ASSUME NEW s \in Subs, SubExpires(s)
      PROVE  TypeInv'
  <2>1. sub' \in [Subs -> SubRows]
    BY <1>4 DEF SubExpires, SubRows
  <2> QED
    BY <1>4, <2>1 DEF SubExpires, calls
<1>5. ASSUME NEW t \in Sources, NEW status \in Terminal, Settle(t, status)
      PROVE  TypeInv'
  <2>1. /\ outbox' \subseteq Sources /\ delivery' \in [Deliveries -> DeliveryRows]
        /\ \A d \in Deliveries : Sound(delivery'[d])
    BY <1>5, Emitted DEF Settle
  <2>2. audience' \in [Sources -> SUBSET Subs]
    BY <1>5, EndTypes DEF Settle
  <2> QED
    BY <1>5, <2>1, <2>2 DEF Settle, calls
<1>6. ASSUME RunnerRestarts
      PROVE  TypeInv'
  <2> DEFINE running == {t \in Sources : task[t] = "RUNNING"}
  <2>1. /\ outbox' \subseteq Sources /\ delivery' \in [Deliveries -> DeliveryRows]
        /\ \A d \in Deliveries : Sound(delivery'[d])
    <3>1. Emit(running, "FAILED") /\ running \in SUBSET Sources
      BY <1>6 DEF RunnerRestarts
    <3> HIDE DEF running
    <3> QED
      BY <3>1, Emitted
  <2>2. audience' \in [Sources -> SUBSET Subs]
    BY <1>6, EndTypes DEF RunnerRestarts
  <2>3. task' \in [Sources -> Terminal \union {"RUNNING"}]
    BY <1>6 DEF RunnerRestarts, Terminal
  <2>4. worker' \in Workers
    BY <1>6 DEF RunnerRestarts, Workers, NoPass
  <2>5. orphans' \in 0 .. MaxLate /\ wire' \subseteq SUBSET Reports /\ IsFiniteSet(wire')
    BY <1>6, EventAssumption, FS_EmptySet DEF RunnerRestarts
  <2> QED
    BY <1>6, <2>1, <2>2, <2>3, <2>4, <2>5 DEF RunnerRestarts
<1>7. CASE AskClaim
  <2>1. worker' \in Workers
    BY <1>7 DEF AskClaim, Workers
  <2> QED
    BY <1>7, <2>1 DEF AskClaim, tables
<1>8. CASE ClaimAnswered
  <2> PICK purging \in BOOLEAN, lost \in SUBSET Unsealable :
        \E batch \in Batches(RowsAfter(purging)) :
          /\ ServeClaim(purging, batch, lost)
          /\ worker' = IF Answer(purging, batch, lost) = {} THEN NoPass
                       ELSE [worker EXCEPT !.pc = "posting",
                                           !.batch = Answer(purging, batch, lost)]
    BY <1>8 DEF ClaimAnswered
  <2> PICK batch \in Batches(RowsAfter(purging)) :
          /\ ServeClaim(purging, batch, lost)
          /\ worker' = IF Answer(purging, batch, lost) = {} THEN NoPass
                       ELSE [worker EXCEPT !.pc = "posting",
                                           !.batch = Answer(purging, batch, lost)]
    OBVIOUS
  <2> DEFINE answer == Answer(purging, batch, lost)
  <2>1. /\ outbox' \subseteq Sources
        /\ sub' \in [Subs -> SubRows]
        /\ aged' \in [d : SUBSET Deliveries, t : SUBSET Sources, s : SUBSET Subs]
        /\ delivery' \in [Deliveries -> DeliveryRows]
        /\ \A d \in Deliveries : Sound(delivery'[d])
        /\ answer \subseteq Claims
    BY ClaimServed
  <2> HIDE DEF answer
  <2>2. worker' \in Workers
    <3>1. worker' = NoPass \/ worker' = [worker EXCEPT !.pc = "posting", !.batch = answer]
      BY DEF answer
    <3>2. NoPass \in Workers
      BY DEF Workers, NoPass
    <3>3. [worker EXCEPT !.pc = "posting", !.batch = answer] \in Workers
      BY <2>1 DEF Workers
    <3> QED
      BY <3>1, <3>2, <3>3
  <2> QED
    BY <1>8, <2>1, <2>2 DEF ClaimAnswered, ServeClaim
<1>9. CASE OrphanClaim
  <2> PICK purging \in BOOLEAN, lost \in SUBSET Unsealable :
        \E batch \in Batches(RowsAfter(purging)) : ServeClaim(purging, batch, lost)
    BY <1>9 DEF OrphanClaim
  <2> PICK batch \in Batches(RowsAfter(purging)) : ServeClaim(purging, batch, lost)
    OBVIOUS
  <2>1. /\ outbox' \subseteq Sources
        /\ sub' \in [Subs -> SubRows]
        /\ aged' \in [d : SUBSET Deliveries, t : SUBSET Sources, s : SUBSET Subs]
        /\ delivery' \in [Deliveries -> DeliveryRows]
        /\ \A d \in Deliveries : Sound(delivery'[d])
    BY ClaimServed
  <2>2. orphans' \in 0 .. MaxLate
    BY <1>9, EventAssumption DEF OrphanClaim
  <2> QED
    BY <1>9, <2>1, <2>2 DEF OrphanClaim, ServeClaim
<1>10. CASE SendReport
  <2>1. /\ worker' \in Workers
        /\ wire' = wire \/ wire' = wire \union {worker.reports}
    BY <1>10 DEF SendReport, Workers, NoPass
  <2>2. wire' \subseteq SUBSET Reports /\ IsFiniteSet(wire')
    BY <2>1, FS_AddElement DEF Workers
  <2> QED
    BY <1>10, <2>1, <2>2 DEF SendReport, tables
<1>11. ASSUME NEW c \in worker.batch, NEW outcome \in Outcomes \union {"none"},
              NEW reached \in BOOLEAN, Post(c, outcome, reached)
       PROVE  TypeInv'
  <2> DEFINE left == worker.batch \ {c}
             told == worker.reports \union Reported(c, outcome)
  <2>1. c \in Claims
    BY DEF Workers
  <2>2. Reported(c, outcome) \subseteq Reports
    BY <2>1 DEF Reported, Reports, Claims, Outcomes
  <2>3. left \in SUBSET Claims /\ told \in SUBSET Reports
    BY <2>2 DEF Workers
  <2>4. worker' = [worker EXCEPT !.batch = left, !.reports = told]
    BY <1>11 DEF Post
  <2> HIDE DEF left, told
  <2>5. worker' \in Workers
    BY <2>3, <2>4 DEF Workers
  <2>6. received' \subseteq Deliveries
    BY <1>11, <2>1 DEF Post, Claims
  <2> QED
    BY <1>11, <2>5, <2>6 DEF Post, tables
<1>12. ASSUME NEW cut \in SUBSET worker.batch, Stop(cut)
       PROVE  TypeInv'
  <2>1. worker' \in Workers
    BY <1>12 DEF Stop, Workers
  <2>2. received' \subseteq Deliveries
    BY <1>12 DEF Stop, Claims, Workers
  <2> QED
    BY <1>12, <2>1, <2>2 DEF Stop, tables
<1>13. ASSUME NEW m \in wire, ReportArrives(m)
       PROVE  TypeInv'
  <2>1. /\ delivery' \in [Deliveries -> DeliveryRows]
        /\ \A d \in Deliveries : Sound(delivery'[d])
    BY <1>13, ReportServed DEF ReportArrives
  <2>2. worker' \in Workers
    BY <1>13 DEF ReportArrives, Workers, NoPass
  <2>3. wire' \subseteq SUBSET Reports /\ IsFiniteSet(wire')
    BY <1>13, FS_RemoveElement DEF ReportArrives
  <2> QED
    BY <1>13, <2>1, <2>2, <2>3 DEF ReportArrives, ServeReport
<1>14. ASSUME NEW delivered \in BOOLEAN, PassLost(delivered)
       PROVE  TypeInv'
  <2>1. wire' = wire \/ wire' = wire \ {worker.reports}
    BY <1>14 DEF PassLost
  <2>2. wire' \subseteq SUBSET Reports /\ IsFiniteSet(wire')
    <3>1. IsFiniteSet(wire \ {worker.reports})
      BY FS_RemoveElement
    <3> QED
      BY <2>1, <3>1
  <2>3. orphans' \in 0 .. MaxLate
    <3>1. Cardinality(wire) \in Nat
      BY FS_CardinalityType
    <3>2. orphans' = orphans \/ (orphans' = orphans + 1 /\ Cardinality(wire) + orphans < MaxLate)
      BY <1>14 DEF PassLost
    <3> QED
      BY <3>1, <3>2, EventAssumption
  <2>4. worker' \in Workers
    BY <1>14 DEF PassLost, Workers, NoPass
  <2> QED
    BY <1>14, <2>2, <2>3, <2>4 DEF PassLost, tables
<1>15. CASE Tick
  <2>1. \A d \in Deliveries : Sound(delivery'[d])
    BY <1>15, Aging DEF Tick
  <2>2. delivery' \in [Deliveries -> DeliveryRows]
    BY <1>15, <2>1 DEF Tick, Sound
  <2> QED
    BY <1>15, <2>1, <2>2 DEF Tick, calls
<1>16. CASE KeyExpires
  BY <1>16 DEF KeyExpires, calls
<1>17. CASE RetentionPasses
  <2>1. ASSUME NEW d \in Deliveries
        PROVE  Sound(delivery'[d])
    <3> DEFINE row == delivery[d]
               none == 0
    <3>1. Sound(row) /\ none \in Nat /\ none \in 0 .. Lease /\ Window \in 0 .. Window
      BY EventAssumption
    <3>2. \/ delivery'[d] = row
          \/ delivery'[d] = [row EXCEPT !.due = none, !.lease = none, !.age = Window]
      BY <1>17 DEF RetentionPasses
    <3> HIDE DEF row, none
    <3> QED
      BY <3>1, <3>2 DEF Sound, DeliveryRows
  <2>2. delivery' \in [Deliveries -> DeliveryRows]
    BY <1>17, <2>1 DEF RetentionPasses, Sound
  <2>3. aged' \in [d : SUBSET Deliveries, t : SUBSET Sources, s : SUBSET Subs]
    BY <1>17 DEF RetentionPasses
  <2> QED
    BY <1>17, <2>1, <2>2, <2>3 DEF RetentionPasses, calls
<1>18. CASE UNCHANGED vars
  BY <1>18 DEF vars, tables, calls
<1> QED
  BY <1>1, <1>2, <1>3, <1>4, <1>5, <1>6, <1>7, <1>8, <1>9, <1>10, <1>11, <1>12,
     <1>13, <1>14, <1>15, <1>16, <1>17, <1>18, StepCases, SMTT(30)

\* At the start nothing is stored and nothing is in flight.
LEMMA TypeInit == Init => TypeInv
BY PlainRows, SubTypes, EventAssumption, FS_EmptySet
   DEF Init, TypeInv, TypeOK, Terminal, Workers, NoPass, Sound

\* Every column and every call in flight keeps its type, whatever is lost,
\* late, repeated or purged. (McpEventService, EventDeliveryWorker)
THEOREM DeliveryTypeCorrect == Spec => []TypeOK
<1>1. TypeInv => TypeOK
  BY DEF TypeInv
<1> QED
  BY <1>1, TypeInit, TypeStep, PTL DEF Spec

(***************************************************************************)
(* No replay                                                               *)
(***************************************************************************)
\* A task that still runs has no delivery: what its end will fan out to is
\* decided once, and nothing of it is there before.
ReplayInv ==
    /\ TypeInv
    /\ NoReplay
    /\ \A d \in Deliveries : task[d[1]] = "RUNNING" => delivery[d].status = "NONE"

\* All steps but the end of a task: tasks and their recipients stay, and no
\* delivery appears.
LEMMA OnlyEndsFanOut ==
    ASSUME TypeInv, Next, ~RunnerRestarts,
           ~\E t \in Sources, status \in Terminal : Settle(t, status)
    PROVE  /\ UNCHANGED <<task, audience>>
           /\ \A d \in Deliveries : delivery[d].status = "NONE" => delivery'[d].status = "NONE"
<1> DEFINE Kept == /\ UNCHANGED <<task, audience>>
                   /\ \A d \in Deliveries :
                         delivery[d].status = "NONE" => delivery'[d].status = "NONE"
<1>0. \A d \in Deliveries : Sound(delivery[d])
  BY DEF TypeInv
<1>1. ASSUME NEW s \in Subs, Unsubscribe(s) \/ Revoke(s) PROVE Kept
  BY <1>0, <1>1, PlainRows, Abandoning DEF Unsubscribe, Revoke
<1>2. CASE ClaimAnswered
  BY <1>2, ClaimServed DEF ClaimAnswered, ServeClaim
<1>3. CASE OrphanClaim
  BY <1>3, ClaimServed DEF OrphanClaim, ServeClaim
<1>4. ASSUME NEW m \in wire, ReportArrives(m) PROVE Kept
  BY <1>4, ReportServed DEF ReportArrives, ServeReport
<1>5. CASE Tick
  BY <1>0, <1>5, Aging DEF Tick
<1>6. CASE RetentionPasses
  BY <1>6 DEF RetentionPasses, Pending
<1>7. ASSUME \/ \E s \in Subs, viaKey \in Credentials : Subscribe(s, viaKey)
             \/ \E s \in Subs : SubExpires(s)
             \/ AskClaim \/ SendReport \/ KeyExpires
             \/ \E c \in worker.batch, outcome \in Outcomes \union {"none"}, reached \in BOOLEAN :
                   Post(c, outcome, reached)
             \/ \E cut \in SUBSET worker.batch : Stop(cut)
             \/ \E delivered \in BOOLEAN : PassLost(delivered)
      PROVE  Kept
  BY <1>7 DEF Subscribe, SubExpires, AskClaim, SendReport, KeyExpires, Post, Stop, PassLost, tables
<1> QED
  BY <1>1, <1>2, <1>3, <1>4, <1>5, <1>6, <1>7, StepCases

\* The end of a task, first or repeated: what it adds is for its recipients,
\* and what was there stays that of the recipients of the first end.
LEMMA EndsOnce ==
    ASSUME ReplayInv, TypeInv', NEW T \in SUBSET Sources, NEW status,
           Emit({t \in T : task[t] = "RUNNING"}, status), FirstEnds(T, status),
           \A t \in Sources : task'[t] = "RUNNING" => task[t] = "RUNNING" /\ t \notin T
    PROVE  ReplayInv'
<1> DEFINE E == {t \in T : task[t] = "RUNNING"}
<1>1. \A d \in Deliveries :
         \/ delivery'[d] = delivery[d]
         \/ /\ d[1] \in E /\ d[2] \in Recipients(d[1], status)
            /\ delivery'[d] = NewDelivery
  <2>1. E \in SUBSET Sources /\ Emit(E, status)
    OBVIOUS
  <2> HIDE DEF E
  <2> QED
    BY <2>1, Emitted DEF ReplayInv
<1>2. \A t \in Sources :
         audience'[t] = IF t \in E THEN Recipients(t, status) ELSE audience[t]
  BY DEF FirstEnds
<1>3. ASSUME NEW d \in Deliveries
      PROVE  /\ delivery'[d].status # "NONE" => d[2] \in audience'[d[1]]
             /\ task'[d[1]] = "RUNNING" => delivery'[d].status = "NONE"
  <2>1. d[1] \in Sources
    BY DEF Deliveries
  <2>2. CASE delivery'[d] = delivery[d]
    BY <1>2, <2>1, <2>2 DEF ReplayInv, NoReplay
  <2>3. CASE d[1] \in E /\ d[2] \in Recipients(d[1], status)
    BY <1>2, <2>1, <2>3
  <2> QED
    BY <1>1, <2>2, <2>3
<1> QED
  BY <1>3 DEF ReplayInv, NoReplay

\* Recipients are decided once, whatever happens to task and delivery.
LEMMA ReplayStep == ReplayInv /\ [Next]_vars => ReplayInv'
<1> SUFFICES ASSUME ReplayInv, [Next]_vars PROVE ReplayInv'
  OBVIOUS
<1>1. TypeInv /\ TypeInv'
  BY TypeStep DEF ReplayInv
<1>2. ASSUME NEW t \in Sources, NEW status \in Terminal, Settle(t, status)
      PROVE  ReplayInv'
  <2>1. {t} \intersect {x \in Sources : task[x] = "RUNNING"} = {x \in {t} : task[x] = "RUNNING"}
    OBVIOUS
  <2>2. \A x \in Sources : task'[x] = "RUNNING" => task[x] = "RUNNING" /\ x \notin {t}
    BY <1>1, <1>2 DEF Settle, TypeInv, TypeOK, Terminal
  <2>3. Emit({x \in {t} : task[x] = "RUNNING"}, status) /\ FirstEnds({t}, status)
    BY <1>2, <2>1 DEF Settle
  <2> QED
    BY <1>1, <2>2, <2>3, EndsOnce
<1>3. CASE RunnerRestarts
  <2> DEFINE running == {t \in Sources : task[t] = "RUNNING"}
  <2>1. running = {t \in running : task[t] = "RUNNING"} /\ running \in SUBSET Sources
    OBVIOUS
  <2>2. \A x \in Sources : task'[x] = "RUNNING" => task[x] = "RUNNING" /\ x \notin running
    BY <1>3 DEF RunnerRestarts
  <2>3. Emit({t \in running : task[t] = "RUNNING"}, "FAILED") /\ FirstEnds(running, "FAILED")
    BY <1>3, <2>1 DEF RunnerRestarts
  <2> HIDE DEF running
  <2> QED
    BY <1>1, <2>1, <2>2, <2>3, EndsOnce
<1>4. ASSUME UNCHANGED <<task, audience>>,
             \A d \in Deliveries : delivery[d].status = "NONE" => delivery'[d].status = "NONE"
      PROVE  ReplayInv'
  BY <1>1, <1>4 DEF ReplayInv, NoReplay
<1>5. CASE UNCHANGED vars
  BY <1>4, <1>5 DEF vars, tables
<1> QED
  BY <1>1, <1>2, <1>3, <1>4, <1>5, OnlyEndsFanOut

\* No replay: for all tasks, subscriptions and losses, a delivery exists only
\* for a subscription that was active and matched when its task first ended.
\* (updateDurableTaskStatus, reconcileRunningTasks, recordEvent)
THEOREM NoReplayTheorem == Spec => []NoReplay
<1>1. Init => ReplayInv
  BY TypeInit DEF Init, ReplayInv, NoReplay, NoDelivery
<1>2. ReplayInv => NoReplay
  BY DEF ReplayInv
<1> QED
  BY <1>1, <1>2, ReplayStep, PTL DEF Spec

(***************************************************************************)
(* Revoked subscriptions are quiet                                         *)
(***************************************************************************)
QuietInv == TypeInv /\ RevokedIsQuiet

\* Fan-out reaches active subscriptions only.
LEMMA FanOutIsQuiet ==
    ASSUME QuietInv, TypeInv', NEW T \in SUBSET Sources, NEW status, Emit(T, status),
           UNCHANGED sub
    PROVE  QuietInv'
<1>1. \A d \in Deliveries :
         \/ delivery'[d] = delivery[d]
         \/ d[2] \in Recipients(d[1], status)
  BY Emitted DEF QuietInv
<1>2. \A d \in Deliveries : d[2] \in Recipients(d[1], status) => sub[d[2]].state = "ACTIVE"
  BY DEF Recipients, Open
<1> QED
  BY <1>1, <1>2 DEF QuietInv, RevokedIsQuiet

\* Revocation settles what waits, and nothing makes a delivery of a revoked
\* subscription wait again.
LEMMA QuietStep == QuietInv /\ [Next]_vars => QuietInv'
<1> SUFFICES ASSUME QuietInv, [Next]_vars PROVE QuietInv'
  OBVIOUS
<1>0. TypeInv /\ TypeInv'
  BY TypeStep DEF QuietInv
<1>1. \A d \in Deliveries : d[2] \in Subs /\ Sound(delivery[d])
  BY <1>0 DEF Deliveries, TypeInv
<1>2. ASSUME NEW s \in Subs, NEW viaKey \in Credentials, Subscribe(s, viaKey)
      PROVE  QuietInv'
  <2>1. \A x \in Subs : sub'[x].state = "REVOKED" => sub[x].state = "REVOKED"
    BY <1>0, <1>2 DEF Subscribe, TypeInv, TypeOK
  <2> QED
    BY <1>0, <1>1, <1>2, <2>1 DEF Subscribe, QuietInv, RevokedIsQuiet
<1>3. ASSUME NEW s \in Subs, Unsubscribe(s)
      PROVE  QuietInv'
  <2>1. \A x \in Subs : x # s => sub'[x] = sub[x]
    BY <1>3 DEF Unsubscribe
  <2>2. \A d \in Deliveries : delivery'[d] = IF d[2] = s THEN NoDelivery ELSE delivery[d]
    BY <1>3 DEF Unsubscribe
  <2> QED
    BY <1>0, <1>1, <2>1, <2>2, PlainRows DEF QuietInv, RevokedIsQuiet, Pending
<1>4. ASSUME NEW s \in Subs, Revoke(s)
      PROVE  QuietInv'
  <2>1. \A x \in Subs : x # s => sub'[x] = sub[x]
    BY <1>4 DEF Revoke
  <2>2. \A d \in Deliveries :
           delivery'[d] = IF d[2] = s THEN AbandonedIfPending(delivery[d]) ELSE delivery[d]
    BY <1>4 DEF Revoke
  <2> QED
    BY <1>0, <1>1, <2>1, <2>2, Abandoning DEF QuietInv, RevokedIsQuiet
<1>5. ASSUME NEW s \in Subs, SubExpires(s)
      PROVE  QuietInv'
  <2>1. \A x \in Subs : sub'[x].state = sub[x].state
    BY <1>0, <1>5 DEF SubExpires, TypeInv, TypeOK, SubRows
  <2> QED
    BY <1>0, <1>1, <1>5, <2>1 DEF SubExpires, QuietInv, RevokedIsQuiet
<1>6. ASSUME NEW t \in Sources, NEW status \in Terminal, Settle(t, status)
      PROVE  QuietInv'
  <2>1. {t} \intersect {x \in Sources : task[x] = "RUNNING"} \in SUBSET Sources
    OBVIOUS
  <2> QED
    BY <1>0, <1>6, <2>1, FanOutIsQuiet DEF Settle
<1>7. CASE RunnerRestarts
  <2> DEFINE running == {t \in Sources : task[t] = "RUNNING"}
  <2>1. running \in SUBSET Sources /\ Emit(running, "FAILED") /\ UNCHANGED sub
    BY <1>7 DEF RunnerRestarts
  <2> HIDE DEF running
  <2> QED
    BY <1>0, <2>1, FanOutIsQuiet
<1>8. CASE ClaimAnswered
  <2>1. \A d \in Deliveries :
           Pending(delivery'[d]) /\ sub'[d[2]].state = "REVOKED"
             => Pending(delivery[d]) /\ sub[d[2]].state = "REVOKED"
    BY <1>0, <1>8, ClaimServed DEF ClaimAnswered
  <2> QED
    BY <1>0, <2>1 DEF QuietInv, RevokedIsQuiet
<1>9. CASE OrphanClaim
  <2>1. \A d \in Deliveries :
           Pending(delivery'[d]) /\ sub'[d[2]].state = "REVOKED"
             => Pending(delivery[d]) /\ sub[d[2]].state = "REVOKED"
    BY <1>0, <1>9, ClaimServed DEF OrphanClaim
  <2> QED
    BY <1>0, <2>1 DEF QuietInv, RevokedIsQuiet
<1>10. ASSUME NEW m \in wire, ReportArrives(m)
       PROVE  QuietInv'
  BY <1>0, <1>10, ReportServed DEF ReportArrives, ServeReport, QuietInv, RevokedIsQuiet
<1>11. CASE Tick
  BY <1>0, <1>1, <1>11, Aging DEF Tick, Pending, QuietInv, RevokedIsQuiet
<1>12. CASE RetentionPasses
  BY <1>0, <1>12 DEF RetentionPasses, QuietInv, RevokedIsQuiet
<1>13. ASSUME UNCHANGED <<sub, delivery>>
       PROVE  QuietInv'
  BY <1>0, <1>13 DEF QuietInv, RevokedIsQuiet
<1>14. ASSUME \/ AskClaim \/ SendReport \/ KeyExpires \/ UNCHANGED vars
              \/ \E c \in worker.batch, outcome \in Outcomes \union {"none"}, reached \in BOOLEAN :
                    Post(c, outcome, reached)
              \/ \E cut \in SUBSET worker.batch : Stop(cut)
              \/ \E delivered \in BOOLEAN : PassLost(delivered)
       PROVE  QuietInv'
  BY <1>13, <1>14 DEF AskClaim, SendReport, KeyExpires, Post, Stop, PassLost, vars, tables
<1> QED
  BY <1>2, <1>3, <1>4, <1>5, <1>6, <1>7, <1>8, <1>9, <1>10, <1>11, <1>12, <1>14, StepCases

\* Once a subscription is revoked no delivery of it waits to be sent, however
\* revocation, claims, late reports and the ends of tasks interleave.
\* (revokeInTransaction, claim, report, recordEvent)
THEOREM RevokedQuietTheorem == Spec => []RevokedIsQuiet
<1>1. Init => QuietInv
  BY TypeInit DEF Init, QuietInv, RevokedIsQuiet, Pending, NoDelivery
<1>2. QuietInv => RevokedIsQuiet
  BY DEF QuietInv
<1> QED
  BY <1>1, <1>2, QuietStep, PTL DEF Spec

(***************************************************************************)
(* A delivered delivery was received                                       *)
(***************************************************************************)
\* What is reported as delivered was received, in the worker and on the wire.
ReceivedInv ==
    /\ TypeInv
    /\ DeliveredIsReceived
    /\ \A r \in worker.reports : r.outcome = "delivered" => r.d \in received
    /\ \A m \in wire : \A r \in m : r.outcome = "delivered" => r.d \in received

\* No statement but a report's makes a delivery DELIVERED.
LEMMA OnlyReportsDeliver ==
    ASSUME TypeInv, Next, ~\E m \in wire : ReportArrives(m)
    PROVE  \A d \in Deliveries :
              delivery'[d].status = "DELIVERED" => delivery[d].status = "DELIVERED"
<1> DEFINE Kept == \A d \in Deliveries :
              delivery'[d].status = "DELIVERED" => delivery[d].status = "DELIVERED"
<1>0. \A d \in Deliveries : Sound(delivery[d])
  BY DEF TypeInv
<1>1. ASSUME NEW s \in Subs, Unsubscribe(s) \/ Revoke(s) PROVE Kept
  BY <1>0, <1>1, PlainRows, Abandoning DEF Unsubscribe, Revoke
<1>2. ASSUME NEW T \in SUBSET Sources, NEW status, Emit(T, status) PROVE Kept
  BY <1>2, Emitted, PlainRows
<1>3. ASSUME NEW t \in Sources, NEW status \in Terminal, Settle(t, status) PROVE Kept
  <2>1. {t} \intersect {x \in Sources : task[x] = "RUNNING"} \in SUBSET Sources
    OBVIOUS
  <2> QED
    BY <1>2, <1>3, <2>1 DEF Settle
<1>4. CASE RunnerRestarts
  <2> DEFINE running == {t \in Sources : task[t] = "RUNNING"}
  <2>1. running \in SUBSET Sources /\ Emit(running, "FAILED")
    BY <1>4 DEF RunnerRestarts
  <2> HIDE DEF running
  <2> QED
    BY <1>2, <2>1
<1>5. CASE ClaimAnswered
  BY <1>5, ClaimServed DEF ClaimAnswered
<1>6. CASE OrphanClaim
  BY <1>6, ClaimServed DEF OrphanClaim
<1>7. CASE Tick
  BY <1>0, <1>7, Aging DEF Tick
<1>8. CASE RetentionPasses
  <2>1. \A d \in Deliveries : delivery'[d].status = delivery[d].status
    BY <1>0, <1>8 DEF RetentionPasses, Sound, DeliveryRows
  <2> QED
    BY <2>1
<1>9. ASSUME \/ \E s \in Subs, viaKey \in Credentials : Subscribe(s, viaKey)
             \/ \E s \in Subs : SubExpires(s)
             \/ AskClaim \/ SendReport \/ KeyExpires
             \/ \E c \in worker.batch, outcome \in Outcomes \union {"none"}, reached \in BOOLEAN :
                   Post(c, outcome, reached)
             \/ \E cut \in SUBSET worker.batch : Stop(cut)
             \/ \E delivered \in BOOLEAN : PassLost(delivered)
      PROVE  Kept
  BY <1>9 DEF Subscribe, SubExpires, AskClaim, SendReport, KeyExpires, Post, Stop, PassLost, tables
<1> QED
  BY <1>1, <1>3, <1>4, <1>5, <1>6, <1>7, <1>8, <1>9, StepCases

\* Reports in flight are those the worker made, and it reports what it saw.
LEMMA ReportsAreTrue ==
    ASSUME ReceivedInv, Next
    PROVE  /\ received \subseteq received'
           /\ \A r \in worker'.reports : r.outcome = "delivered" => r.d \in received'
           /\ \A m \in wire' : \A r \in m : r.outcome = "delivered" => r.d \in received'
<1> DEFINE Sincere == /\ received \subseteq received'
                      /\ \A r \in worker'.reports : r.outcome = "delivered" => r.d \in received'
                      /\ \A m \in wire' : \A r \in m : r.outcome = "delivered" => r.d \in received'
<1>0. worker \in Workers
  BY DEF ReceivedInv, TypeInv, TypeOK
<1>1. ASSUME /\ received \subseteq received'
             /\ worker'.reports \subseteq worker.reports
             /\ wire' \subseteq wire \union {worker.reports}
      PROVE  Sincere
  BY <1>1 DEF ReceivedInv
<1>2. ASSUME NEW c \in worker.batch, NEW outcome \in Outcomes \union {"none"},
             NEW reached \in BOOLEAN, Post(c, outcome, reached)
      PROVE  Sincere
  <2> DEFINE told == worker.reports \union Reported(c, outcome)
  <2>1. worker'.reports = told
    BY <1>0, <1>2 DEF Post, Workers
  <2>2. /\ received \subseteq received' /\ wire' = wire
        /\ outcome = "delivered" => c.d \in received'
    BY <1>2 DEF Post
  <2>3. \A r \in Reported(c, outcome) : r.d = c.d /\ r.outcome = outcome
    BY DEF Reported
  <2> QED
    BY <2>1, <2>2, <2>3 DEF ReceivedInv
<1>3. ASSUME NEW cut \in SUBSET worker.batch, Stop(cut) PROVE Sincere
  BY <1>0, <1>1, <1>3 DEF Stop, Workers
<1>4. CASE AskClaim
  BY <1>0, <1>1, <1>4 DEF AskClaim, Workers
<1>5. CASE ClaimAnswered
  <2>1. worker'.reports \subseteq worker.reports /\ UNCHANGED <<wire, received>>
    BY <1>0, <1>5 DEF ClaimAnswered, NoPass, Workers
  <2> QED
    BY <1>1, <2>1
<1>6. CASE OrphanClaim
  BY <1>1, <1>6 DEF OrphanClaim
<1>7. CASE SendReport
  <2>1. worker'.reports \subseteq worker.reports
    BY <1>0, <1>7 DEF SendReport, NoPass, Workers
  <2> QED
    BY <1>1, <1>7, <2>1 DEF SendReport
<1>8. ASSUME NEW m \in wire, ReportArrives(m) PROVE Sincere
  BY <1>1, <1>8 DEF ReportArrives, NoPass
<1>9. ASSUME NEW delivered \in BOOLEAN, PassLost(delivered) PROVE Sincere
  BY <1>1, <1>9 DEF PassLost, NoPass
<1>10. CASE RunnerRestarts
  BY <1>1, <1>10 DEF RunnerRestarts, NoPass
<1>11. ASSUME UNCHANGED calls PROVE Sincere
  BY <1>1, <1>11 DEF calls
<1>12. ASSUME \/ \E s \in Subs, viaKey \in Credentials : Subscribe(s, viaKey)
              \/ \E s \in Subs : Unsubscribe(s)
              \/ \E s \in Subs : Revoke(s)
              \/ \E s \in Subs : SubExpires(s)
              \/ \E t \in Sources, status \in Terminal : Settle(t, status)
              \/ Tick \/ KeyExpires \/ RetentionPasses
       PROVE  Sincere
  BY <1>11, <1>12 DEF Subscribe, Unsubscribe, Revoke, SubExpires, Settle, Tick, KeyExpires,
                      RetentionPasses
<1> QED
  BY <1>2, <1>3, <1>4, <1>5, <1>6, <1>7, <1>8, <1>9, <1>10, <1>12, StepCases

\* A report that arrives late, or for an older attempt, still tells the truth.
LEMMA ReceivedStep == ReceivedInv /\ [Next]_vars => ReceivedInv'
<1> SUFFICES ASSUME ReceivedInv, [Next]_vars PROVE ReceivedInv'
  OBVIOUS
<1>0. TypeInv /\ TypeInv'
  BY TypeStep DEF ReceivedInv
<1>1. CASE UNCHANGED vars
  BY <1>0, <1>1 DEF vars, tables, calls, ReceivedInv, DeliveredIsReceived
<1>2. CASE Next
  <2>1. /\ received \subseteq received'
        /\ \A r \in worker'.reports : r.outcome = "delivered" => r.d \in received'
        /\ \A m \in wire' : \A r \in m : r.outcome = "delivered" => r.d \in received'
    BY <1>2, ReportsAreTrue
  <2>2. ASSUME NEW m \in wire, ReportArrives(m) PROVE DeliveredIsReceived'
    <3>1. \A d \in Deliveries : delivery'[d].status = "DELIVERED"
            => \/ delivery[d].status = "DELIVERED"
               \/ \E r \in m : r.d = d /\ r.outcome = "delivered"
      BY <1>0, <2>2, ReportServed DEF ReportArrives
    <3> QED
      BY <2>1, <3>1 DEF ReceivedInv, DeliveredIsReceived
  <2>3. ASSUME ~\E m \in wire : ReportArrives(m) PROVE DeliveredIsReceived'
    BY <1>0, <1>2, <2>1, <2>3, OnlyReportsDeliver DEF ReceivedInv, DeliveredIsReceived
  <2> QED
    BY <1>0, <2>1, <2>2, <2>3 DEF ReceivedInv
<1> QED
  BY <1>1, <1>2

\* A delivery marked DELIVERED was answered with a 2xx by its callback, whatever
\* calls were lost, late or repeated. (report, deliverWebhookEvent)
THEOREM DeliveredTheorem == Spec => []DeliveredIsReceived
<1>1. Init => ReceivedInv
  BY TypeInit DEF Init, ReceivedInv, DeliveredIsReceived, NoDelivery, NoPass
<1>2. ReceivedInv => DeliveredIsReceived
  BY DEF ReceivedInv
<1> QED
  BY <1>1, <1>2, ReceivedStep, PTL DEF Spec

(***************************************************************************)
(* Leases run and deliveries wait undisturbed                              *)
(***************************************************************************)
\* A lease is that of a delivery that waits, and a delivery the next purge will drop is over.
KeepInv ==
    /\ ReplayInv
    /\ \A d \in Deliveries : delivery[d].lease > 0 => Pending(delivery[d])
    /\ \A d \in aged.d : ~Pending(delivery[d]) /\ task[d[1]] # "RUNNING"

\* A report of the attempt that holds the lease has arrived.
Told(d) == \E m \in wire \ wire' : \E r \in m : r.d = d /\ r.token = delivery[d].token

\* What becomes of a row in one step: it stays; its event is new; it is claimed; it is abandoned, under
\* a lease only with its subscription; it is reported; it is gone, while it waits only with its
\* subscription.
RowStep(d) ==
    \/ /\ delivery'[d].status = delivery[d].status /\ delivery'[d].token = delivery[d].token
       /\ delivery'[d].lease > 0 => delivery[d].lease > 0
    \/ /\ task[d[1]] = "RUNNING" /\ ~Pending(delivery[d])
       /\ delivery'[d] = NewDelivery
    \/ /\ Pending(delivery[d]) /\ delivery[d].lease = 0
       /\ Pending(delivery'[d])
    \/ /\ Pending(delivery[d]) /\ delivery'[d] = Settled("ABANDONED")
       /\ delivery[d].lease = 0 \/ sub'[d[2]].state = "REVOKED"
    \/ /\ Pending(delivery[d]) /\ Told(d)
       /\ delivery'[d].lease = 0 /\ delivery'[d].status # "NONE"
    \/ /\ delivery'[d] = NoDelivery
       /\ ~Pending(delivery[d]) \/ sub'[d[2]].state = "NONE"

\* The lease and the token, column by column.
LEMMA LeaseColumns ==
    /\ \A status : Settled(status).lease = 0
    /\ NoDelivery.lease = 0 /\ ~Pending(NoDelivery)
    /\ NewDelivery.lease = 0 /\ Pending(NewDelivery)
    /\ AbandonedIfPending(NoDelivery) = NoDelivery
BY DEF Settled, NoDelivery, NewDelivery, Pending, AbandonedIfPending

LEMMA AgingLeases ==
    ASSUME NEW row, Sound(row)
    PROVE  Older(row).token = row.token /\ (Older(row).lease > 0 => row.lease > 0)
<1> DEFINE due == IF row.due > 0 THEN row.due - 1 ELSE 0
           lease == IF row.lease > 0 THEN row.lease - 1 ELSE 0
           age == IF row.age < Window THEN row.age + 1 ELSE Window
<1>1. lease > 0 => row.lease > 0
  BY DEF Sound, DeliveryRows
<1>2. Older(row) = IF ~Pending(row) THEN row
                   ELSE [row EXCEPT !.due = due, !.lease = lease, !.age = age]
  BY DEF Older, Sound, DeliveryRows
<1> HIDE DEF due, lease, age
<1> QED
  BY <1>1, <1>2 DEF Sound, DeliveryRows

\* A report that does not hold the lease changes nothing; one that does ends it.
LEMMA ReportingLeases ==
    ASSUME NEW row, Sound(row), NEW r \in Reports
    PROVE  \/ AfterReport(row, r) = row
           \/ /\ Pending(row) /\ r.token = row.token
              /\ AfterReport(row, r).lease = 0
              /\ AfterReport(row, r).status # "NONE"
<1>1. CASE ~Holds(row, r)
  BY <1>1 DEF AfterReport
<1>2. CASE Holds(row, r) /\ (r.outcome = "delivered" \/ Final(row, r.outcome))
  BY <1>2, PlainRows, LeaseColumns DEF AfterReport, Holds
<1>3. CASE Holds(row, r) /\ r.outcome # "delivered" /\ ~Final(row, r.outcome)
  <2> DEFINE due == Delay[row.attempts]
  <2>1. AfterReport(row, r) = [row EXCEPT !.lease = 0, !.token = 0, !.due = due]
    BY <1>3 DEF AfterReport, Rescheduled
  <2> HIDE DEF due
  <2> QED
    BY <1>3, <2>1 DEF Sound, DeliveryRows, Holds, Pending
<1> QED
  BY <1>1, <1>2, <1>3

\* A claim served: what it purges is over or has lost its subscription, and what it grants or
\* abandons was under no lease.
LEMMA ClaimSteps ==
    ASSUME KeepInv, NEW purging \in BOOLEAN, NEW lost,
           NEW batch \in Batches(RowsAfter(purging)),
           ServeClaim(purging, batch, lost)
    PROVE  (\A d \in Deliveries : RowStep(d)) /\ aged'.d \subseteq aged.d
<1> DEFINE subs == SubsAfter(purging)
           rows == RowsAfter(purging)
           late == Lapsed(subs, batch)
           sent == Leased(subs, rows, batch, lost)
<1>1. /\ sub' = [s \in Subs |-> IF s \in late THEN RevokedSub(subs[s]) ELSE subs[s]]
      /\ delivery' = [d \in Deliveries |->
            IF d[2] \in late THEN AbandonedIfPending(rows[d])
            ELSE IF d \in sent THEN Granted(rows[d])
            ELSE IF d \in batch THEN Settled("ABANDONED")
            ELSE rows[d]]
  BY DEF ServeClaim, AfterClaim
<1>2. TypeInv /\ subs \in [Subs -> SubRows] /\ \A d \in Deliveries : Sound(rows[d])
  BY PurgeTypes DEF KeepInv, ReplayInv
<1>3. \A d \in batch : Due(rows[d])
  BY DEF Batches, kSubset
<1>4. \A d \in sent : d \in batch
  BY DEF Leased
<1>5. ASSUME NEW d \in Deliveries  PROVE RowStep(d)
  <2>1. d[1] \in Sources /\ d[2] \in Subs /\ d = <<d[1], d[2]>>
    BY DEF Deliveries
  <2>2. CASE purging /\ Purged(d)
    <3>1. rows[d] = NoDelivery
      BY <2>2 DEF RowsAfter
    <3>2. d \notin batch
      BY <1>3, <3>1, LeaseColumns DEF Due
    <3>3. delivery'[d] = NoDelivery
      BY <1>1, <1>4, <3>1, <3>2, LeaseColumns
    <3>4. ~Pending(delivery[d]) \/ sub'[d[2]].state = "NONE"
      <4>1. CASE SubPurged(d[2])
        <5>1. subs[d[2]] = NoSub
          BY <2>1, <2>2, <4>1 DEF SubsAfter
        <5>2. d[2] \notin late
          BY <5>1 DEF Lapsed, Open, NoSub
        <5> QED
          BY <1>1, <2>1, <5>1, <5>2 DEF NoSub
      <4>2. CASE d \in aged.d
        BY <4>2 DEF KeepInv
      <4>3. CASE EventPurged(d[1])
        BY <2>1, <4>3 DEF EventPurged
      <4> QED
        BY <2>2, <4>1, <4>2, <4>3 DEF Purged
    <3> QED
      BY <3>3, <3>4 DEF RowStep
  <2>3. CASE ~(purging /\ Purged(d))
    <3>1. rows[d] = delivery[d]
      BY <2>3 DEF RowsAfter
    <3>2. CASE d[2] \in late
      <4>1. sub'[d[2]].state = "REVOKED"
        BY <1>1, <1>2, <2>1, <3>2, SubTypes
      <4>2. delivery'[d] = AbandonedIfPending(delivery[d])
        BY <1>1, <3>1, <3>2
      <4> QED
        BY <4>1, <4>2 DEF RowStep, AbandonedIfPending
    <3>3. CASE d[2] \notin late /\ d \in sent
      <4>1. delivery'[d] = Granted(delivery[d]) /\ Due(delivery[d])
        BY <1>1, <1>3, <1>4, <3>1, <3>3
      <4> QED
        BY <1>2, <3>1, <4>1, Granting DEF RowStep, Due, Pending
    <3>4. CASE d[2] \notin late /\ d \notin sent /\ d \in batch
      <4>1. delivery'[d] = Settled("ABANDONED") /\ Due(delivery[d])
        BY <1>1, <1>3, <3>1, <3>4
      <4> QED
        BY <4>1 DEF RowStep, Due
    <3>5. CASE d[2] \notin late /\ d \notin sent /\ d \notin batch
      <4>1. delivery'[d] = delivery[d]
        BY <1>1, <3>1, <3>5
      <4> QED
        BY <4>1 DEF RowStep
    <3> QED
      BY <3>2, <3>3, <3>4, <3>5
  <2> QED
    BY <2>2, <2>3
<1>6. aged'.d \subseteq aged.d
  BY DEF ServeClaim, Purge
<1> QED
  BY <1>5, <1>6

\* The end of tasks fans out where nothing was.
LEMMA EmitSteps ==
    ASSUME KeepInv, NEW T \in SUBSET {t \in Sources : task[t] = "RUNNING"}, NEW status,
           Emit(T, status)
    PROVE  \A d \in Deliveries : RowStep(d)
<1>1. TypeInv /\ T \in SUBSET Sources
  BY DEF KeepInv, ReplayInv
<1>2. \A d \in Deliveries : delivery'[d] = delivery[d] \/ (d[1] \in T /\ delivery'[d] = NewDelivery)
  BY <1>1, Emitted
<1>3. \A d \in Deliveries : d[1] \in T => task[d[1]] = "RUNNING" /\ ~Pending(delivery[d])
  BY DEF KeepInv, ReplayInv, Pending
<1> QED
  BY <1>2, <1>3 DEF RowStep

\* A report ends the lease it was given to, and leaves every other delivery alone.
LEMMA ReportSteps ==
    ASSUME TypeInv, NEW m \in wire, ReportArrives(m)
    PROVE  \A d \in Deliveries : RowStep(d)
<1> SUFFICES ASSUME NEW d \in Deliveries  PROVE RowStep(d)
  OBVIOUS
<1>1. m \subseteq Reports /\ Sound(delivery[d]) /\ m \in wire \ wire'
  BY DEF TypeInv, TypeOK, ReportArrives
<1>2. CASE \E r \in m : r.d = d
  <2> DEFINE r == CHOOSE x \in m : x.d = d
  <2>1. r \in m /\ r.d = d
    BY <1>2
  <2>2. delivery'[d] = AfterReport(delivery[d], r)
    BY <1>2 DEF ReportArrives, ServeReport
  <2> HIDE DEF r
  <2>3. r \in Reports
    BY <1>1, <2>1
  <2>4. CASE delivery'[d] = delivery[d]
    BY <2>4 DEF RowStep
  <2>5. CASE /\ Pending(delivery[d]) /\ r.token = delivery[d].token
             /\ delivery'[d].lease = 0 /\ delivery'[d].status # "NONE"
    <3>1. Told(d)
      BY <1>1, <2>1, <2>5 DEF Told
    <3> QED
      BY <2>5, <3>1 DEF RowStep
  <2> QED
    BY <1>1, <2>2, <2>3, <2>4, <2>5, ReportingLeases
<1>3. CASE ~\E r \in m : r.d = d
  <2>1. delivery'[d] = delivery[d]
    BY <1>3 DEF ReportArrives, ServeReport
  <2> QED
    BY <2>1 DEF RowStep
<1> QED
  BY <1>2, <1>3

\* Every step does to each row one of these, and only a purge drops what retention has marked.
LEMMA RowSteps ==
    ASSUME KeepInv, Next
    PROVE  /\ \A d \in Deliveries : RowStep(d)
           /\ RetentionPasses \/ aged'.d \subseteq aged.d
           /\ \A t \in Sources : task'[t] = "RUNNING" => task[t] = "RUNNING"
<1> DEFINE Goal == /\ \A d \in Deliveries : RowStep(d)
                   /\ RetentionPasses \/ aged'.d \subseteq aged.d
                   /\ \A t \in Sources : task'[t] = "RUNNING" => task[t] = "RUNNING"
<1>0. /\ TypeInv /\ \A d \in Deliveries : d[2] \in Subs /\ Sound(delivery[d])
      /\ aged \in [d : SUBSET Deliveries, t : SUBSET Sources, s : SUBSET Subs]
  BY DEF KeepInv, ReplayInv, TypeInv, TypeOK, Deliveries
<1>1. ASSUME NEW s \in Subs, Unaged(s)  PROVE aged'.d = aged.d
  BY <1>0, <1>1 DEF Unaged
<1>2. ASSUME NEW s \in Subs, Unsubscribe(s)  PROVE Goal
  <2>1. sub'[s].state = "NONE"
    BY <1>0, <1>2 DEF Unsubscribe, NoSub, TypeInv, TypeOK
  <2>2. \A d \in Deliveries : delivery'[d] = IF d[2] = s THEN NoDelivery ELSE delivery[d]
    BY <1>2 DEF Unsubscribe
  <2>3. \A d \in Deliveries : RowStep(d)
    BY <2>1, <2>2 DEF RowStep
  <2> QED
    BY <1>1, <1>2, <2>3 DEF Unsubscribe
<1>3. ASSUME NEW s \in Subs, Revoke(s)  PROVE Goal
  <2>1. sub'[s].state = "REVOKED"
    BY <1>0, <1>3, SubTypes DEF Revoke, TypeInv, TypeOK
  <2>2. \A d \in Deliveries :
           delivery'[d] = IF d[2] = s THEN AbandonedIfPending(delivery[d]) ELSE delivery[d]
    BY <1>3 DEF Revoke
  <2>3. \A d \in Deliveries : RowStep(d)
    BY <2>1, <2>2 DEF RowStep, AbandonedIfPending
  <2> QED
    BY <1>1, <1>3, <2>3 DEF Revoke
<1>4. ASSUME NEW t \in Sources, NEW status \in Terminal, Settle(t, status)  PROVE Goal
  <2>1. {t} \intersect {x \in Sources : task[x] = "RUNNING"}
          \in SUBSET {x \in Sources : task[x] = "RUNNING"}
    OBVIOUS
  <2>2. \A d \in Deliveries : RowStep(d)
    BY <1>4, <2>1, EmitSteps DEF Settle
  <2>3. \A x \in Sources : task'[x] = "RUNNING" => task[x] = "RUNNING"
    BY <1>0, <1>4 DEF Settle, Terminal, TypeInv, TypeOK
  <2> QED
    BY <1>4, <2>2, <2>3 DEF Settle
<1>5. CASE RunnerRestarts
  <2> DEFINE running == {t \in Sources : task[t] = "RUNNING"}
  <2>1. running \in SUBSET {x \in Sources : task[x] = "RUNNING"} /\ Emit(running, "FAILED")
    BY <1>5 DEF RunnerRestarts
  <2>2. \A d \in Deliveries : RowStep(d)
    <3> HIDE DEF running
    <3> QED
      BY <2>1, EmitSteps
  <2> QED
    BY <1>5, <2>2 DEF RunnerRestarts
<1>6. CASE ClaimAnswered \/ OrphanClaim
  <2>1. PICK purging \in BOOLEAN, lost \in SUBSET Unsealable :
          \E batch \in Batches(RowsAfter(purging)) : ServeClaim(purging, batch, lost)
    BY <1>6 DEF ClaimAnswered, OrphanClaim
  <2> QED
    BY <2>1, ClaimSteps DEF ServeClaim
<1>7. ASSUME NEW m \in wire, ReportArrives(m)  PROVE Goal
  BY <1>0, <1>7, ReportSteps DEF ReportArrives, ServeReport
<1>8. CASE Tick
  <2>1. \A d \in Deliveries : delivery'[d] = Older(delivery[d])
    BY <1>8 DEF Tick
  <2>2. \A d \in Deliveries : RowStep(d)
    BY <1>0, <2>1, Aging, AgingLeases DEF RowStep
  <2> QED
    BY <1>8, <2>2 DEF Tick
<1>9. CASE RetentionPasses
  <2>1. ASSUME NEW d \in Deliveries  PROVE RowStep(d)
    <3>1. \/ delivery'[d] = delivery[d]
          \/ delivery'[d] = [delivery[d] EXCEPT !.due = 0, !.lease = 0, !.age = Window]
      BY <1>9 DEF RetentionPasses
    <3>2. /\ delivery'[d].status = delivery[d].status /\ delivery'[d].token = delivery[d].token
          /\ delivery'[d].lease \in {delivery[d].lease, 0}
      BY <1>0, <3>1 DEF Sound, DeliveryRows
    <3> QED
      BY <3>2 DEF RowStep
  <2> QED
    BY <1>9, <2>1 DEF RetentionPasses
<1>10. ASSUME UNCHANGED <<task, delivery>>, aged'.d = aged.d  PROVE Goal
  BY <1>10 DEF RowStep
<1>11. ASSUME NEW s \in Subs, NEW viaKey \in Credentials, Subscribe(s, viaKey)  PROVE Goal
  BY <1>1, <1>10, <1>11 DEF Subscribe
<1>12. CASE \/ \E s \in Subs : SubExpires(s)
            \/ AskClaim \/ SendReport \/ KeyExpires
            \/ \E c \in worker.batch, outcome \in Outcomes \union {"none"}, reached \in BOOLEAN :
                  Post(c, outcome, reached)
            \/ \E cut \in SUBSET worker.batch : Stop(cut)
            \/ \E delivered \in BOOLEAN : PassLost(delivered)
  BY <1>10, <1>12 DEF SubExpires, AskClaim, SendReport, KeyExpires, Post, Stop, PassLost, tables
<1> QED
  BY <1>2, <1>3, <1>4, <1>5, <1>6, <1>7, <1>8, <1>9, <1>11, <1>12, StepCases

\* A lease ends with its delivery's wait, and retention marks only what is over for good.
LEMMA KeepStep == KeepInv /\ [Next]_vars => KeepInv'
<1> SUFFICES ASSUME KeepInv, [Next]_vars  PROVE KeepInv'
  OBVIOUS
<1>0. ReplayInv' /\ TypeInv /\ aged.d \subseteq Deliveries
  BY ReplayStep DEF KeepInv, ReplayInv, TypeInv, TypeOK
<1>1. CASE UNCHANGED vars
  BY <1>0, <1>1 DEF vars, tables, KeepInv
<1>2. CASE Next
  <2>1. ASSUME NEW d \in Deliveries, delivery'[d].lease > 0  PROVE Pending(delivery'[d])
    <3>1. RowStep(d)
      BY <1>2, RowSteps
    <3> QED
      BY <2>1, <3>1, LeaseColumns DEF RowStep, KeepInv, Pending
  <2>2. ASSUME NEW d \in aged'.d  PROVE ~Pending(delivery'[d]) /\ task'[d[1]] # "RUNNING"
    <3>1. CASE RetentionPasses
      <4>1. d \in Deliveries /\ Completed(delivery[d])
        BY <2>2, <3>1 DEF RetentionPasses
      <4>2. ~Pending(delivery[d]) /\ delivery[d].status # "NONE"
        BY <4>1 DEF Completed, Pending
      <4>3. UNCHANGED task /\ delivery'[d] = delivery[d]
        BY <3>1, <4>1, <4>2 DEF RetentionPasses
      <4> QED
        BY <4>1, <4>2, <4>3 DEF KeepInv, ReplayInv
    <3>2. CASE aged'.d \subseteq aged.d
      <4>1. /\ d \in Deliveries /\ d[1] \in Sources
            /\ ~Pending(delivery[d]) /\ task[d[1]] # "RUNNING"
        BY <1>0, <2>2, <3>2 DEF KeepInv, Deliveries
      <4>2. RowStep(d) /\ task'[d[1]] # "RUNNING"
        BY <1>2, <4>1, RowSteps
      <4> QED
        BY <4>1, <4>2, LeaseColumns DEF RowStep, Pending
    <3> QED
      BY <1>2, <3>1, <3>2, RowSteps
  <2> QED
    BY <1>0, <2>1, <2>2 DEF KeepInv
<1> QED
  BY <1>1, <1>2

LEMMA InitKeep == Init => KeepInv
<1> SUFFICES ASSUME Init  PROVE KeepInv
  OBVIOUS
<1>1. TypeInv /\ aged.d = {} /\ \A d \in Deliveries : delivery[d] = NoDelivery
  BY TypeInit DEF Init
<1> QED
  BY <1>1, PlainRows, LeaseColumns DEF KeepInv, ReplayInv, NoReplay

\* While a lease runs, only the report of its own attempt or the end of the subscription takes the
\* delivery out of it, for any number of lost, late and repeated claims and reports. (claim, report)
THEOREM LeasesAreHonoured == Spec => LeaseHonoured
<1> DEFINE Step == \A d \in Deliveries :
          /\ delivery[d].lease > 0
          /\ delivery'[d].token # delivery[d].token
          => \/ sub'[d[2]].state # "ACTIVE"
             \/ \E m \in wire \ wire' : \E r \in m :
                   r.d = d /\ r.token = delivery[d].token
<1>1. KeepInv /\ [Next]_vars => [Step]_vars
  <2> SUFFICES ASSUME KeepInv, Next, NEW d \in Deliveries, delivery[d].lease > 0,
                      delivery'[d].token # delivery[d].token
               PROVE  sub'[d[2]].state # "ACTIVE" \/ Told(d)
    BY DEF Told
  <2>1. RowStep(d) /\ Pending(delivery[d])
    BY RowSteps DEF KeepInv
  <2> QED
    BY <2>1 DEF RowStep
<1> QED
  BY <1>1, InitKeep, KeepStep, PTL DEF Spec, LeaseHonoured

\* A delivery that waits is lost only with its subscription: no purge and no restart takes it away.
\* (purge, ON DELETE CASCADE)
THEOREM PendingStays == Spec => PendingIsKept
<1> DEFINE Step == \A d \in Deliveries :
          Pending(delivery[d]) /\ delivery'[d].status = "NONE"
          => sub'[d[2]].state = "NONE"
<1>1. KeepInv /\ [Next]_vars => [Step]_vars
  <2> SUFFICES ASSUME KeepInv, Next, NEW d \in Deliveries, Pending(delivery[d]),
                      delivery'[d].status = "NONE"
               PROVE  sub'[d[2]].state = "NONE"
    OBVIOUS
  <2>1. RowStep(d)
    BY RowSteps
  <2> QED
    BY <2>1, PlainRows DEF RowStep, Pending
<1> QED
  BY <1>1, InitKeep, KeepStep, PTL DEF Spec, PendingIsKept

=============================================================================
