---------------------------- MODULE ModelGateway ----------------------------
(***************************************************************************)
(* The model gateway: the registry of leases, the budget each lease        *)
(* carries, and the model requests that draw on it.                        *)
(*                                                                         *)
(* A handler runs on one event loop and yields only where it awaits: while *)
(* the body arrives, while the upstream request starts and while the       *)
(* provider answers.  A revoke retires the lease, cancels the requests on  *)
(* it and answers, with the settlement, when the last of them has ended.   *)
(* All of it is in memory: a restart forgets every lease.                  *)
(*                                                                         *)
(* Money is integer arithmetic: a price is per Scale tokens, a cost is     *)
(* rounded up and an affordable number of tokens rounded down.             *)
(***************************************************************************)
EXTENDS Integers, FiniteSets, FiniteSetsExt

CONSTANTS
    Leases,      \* lease ids: the runner draws each at random and issues it once
    Requests,    \* request ids
    Caps,        \* the limits a lease is issued with
    Scale,       \* tokens a price is for: one million
    InputPrice,  \* the dearest price of a prompt token
    OutputPrice, \* the price of an output token
    BodySizes,   \* estimates of a request body, in tokens
    Wanted,      \* output tokens a caller asks for
    Reports,     \* usage a provider may report
    MaxEntries   \* leases the registry holds, retired ones included

Parts == {"input", "output", "cost"}
Amounts == [input : Nat, output : Nat, cost : Nat]
NoSettlement == -1

ASSUME GatewayAssumption ==
    /\ Caps \in Amounts
    /\ Scale \in Nat \ {0} /\ InputPrice \in Nat /\ OutputPrice \in Nat
    /\ BodySizes \subseteq Nat \ {0} /\ Wanted \subseteq Nat \ {0}
    /\ Reports \subseteq Amounts
    /\ MaxEntries \in Nat
    /\ IsFiniteSet(Leases) /\ IsFiniteSet(Requests)

VARIABLES
    lease,    \* the grants of LeaseRegistry
    request,  \* the requests in `active`, and the handler of each
    draining, \* leases with a revoke that waits for their requests
    billed    \* history: cost of the requests of a lease that have ended

vars == <<lease, request, draining, billed>>

(***************************************************************************)
(* Grants and their budgets                                                *)
(***************************************************************************)
\* `left` is the budget not reserved; `over` the cost beyond reservations,
\* `unabsorbed` the part of it that the budget could not take.
Grants ==
    [phase : {"none", "live", "retired", "gone"}, left : Amounts,
     over : Nat, unabsorbed : Nat, blind : BOOLEAN,
     frozen : Nat \union {NoSettlement}]
NoGrant ==
    [phase |-> "none", left |-> [input |-> 0, output |-> 0, cost |-> 0],
     over |-> 0, unabsorbed |-> 0, blind |-> FALSE, frozen |-> NoSettlement]
NewGrant == [NoGrant EXCEPT !.phase = "live", !.left = Caps]

\* The registry knows nothing of it; `over` stays for the record.
Gone(g) == IF g.phase = "none" THEN g ELSE [NoGrant EXCEPT !.phase = "gone", !.over = g.over]
\* Mutant: the lease is retired only when its requests have drained.
RetiredLater(g) == g

Retired(g) == IF g.phase = "live" THEN [g EXCEPT !.phase = "retired"] ELSE g
\* Mutant: the overruns that found no budget are left out.
SettlementOfBudget(g) == Caps.cost - g.left.cost

SettlementOf(g) == Caps.cost - g.left.cost + g.unabsorbed
Frozen(g) ==
    IF g.phase = "retired" /\ g.frozen = NoSettlement
    THEN [g EXCEPT !.frozen = SettlementOf(g)]
    ELSE g

Cost(tokens, price) == (tokens * price + Scale - 1) \div Scale
Lesser(a, b) == IF a <= b THEN a ELSE b
Greater(a, b) == IF a >= b THEN a ELSE b

Affordable(money, tokens) ==
    IF OutputPrice = 0 THEN tokens
    ELSE Lesser(tokens, (money * Scale) \div OutputPrice)

\* The reservation of a request for `size` prompt tokens and `want` more.
Reservation(g, size, want) ==
    LET inputCost == Cost(size, InputPrice)
        output == Affordable(g.left.cost - inputCost, Lesser(want, g.left.output))
    IN [input |-> size, output |-> output,
        cost |-> inputCost + Cost(output, OutputPrice)]

Fits(g, size, want) ==
    /\ size <= g.left.input
    /\ Cost(size, InputPrice) <= g.left.cost
    /\ Reservation(g, size, want).output >= 1

Reserved(g, r) == [g EXCEPT !.left = [p \in Parts |-> @[p] - r[p]]]

Overrun(reserved, charged) == Greater(0, charged - reserved)

\* Mutant: an overrun is taken from the budget whether it holds that much or not.
SettledPartInFull(left, reserved, charged, refund) ==
    IF charged <= reserved /\ ~refund THEN left ELSE left + reserved - charged

\* What a part of the budget becomes when a request has been charged.
SettledPart(left, reserved, charged, refund) ==
    IF charged <= reserved
    THEN IF refund THEN left + (reserved - charged) ELSE left
    ELSE left - Lesser(charged - reserved, left)

Charged(g, r, usage, refund, reported) ==
    LET over == Overrun(r.cost, usage.cost) IN
    [g EXCEPT
        !.left = [p \in Parts |-> SettledPart(@[p], r[p], usage[p], refund)],
        !.over = @ + over,
        !.unabsorbed = @ + (over - Lesser(over, g.left.cost)),
        !.blind = @ \/ ~reported]

(***************************************************************************)
(* Requests                                                                *)
(***************************************************************************)
NoReservation == [input |-> 0, output |-> 0, cost |-> 0]
RequestRows ==
    [stage : {"idle", "reading", "starting", "running"},
     lease : Leases \union {"none"}, reserved : Amounts, cancelled : BOOLEAN]
NoRequest ==
    [stage |-> "idle", lease |-> "none", reserved |-> NoReservation, cancelled |-> FALSE]

Active(r) == request[r].stage # "idle"
On(l) == {r \in Requests : Active(r) /\ request[r].lease = l}

Init ==
    /\ lease = [l \in Leases |-> NoGrant]
    /\ request = [r \in Requests |-> NoRequest]
    /\ draining = {}
    /\ billed = [l \in Leases |-> 0]

Registered == {l \in Leases : lease[l].phase \in {"live", "retired"}}

Issue(l) ==
    /\ lease[l].phase = "none" /\ Cardinality(Registered) < MaxEntries
    /\ lease' = [lease EXCEPT ![l] = NewGrant]
    /\ UNCHANGED <<request, draining, billed>>

\* Found out by whatever looks at the registry next.
Expire(l) ==
    /\ lease[l].phase = "live"
    /\ lease' = [lease EXCEPT ![l] = Retired(@)]
    /\ UNCHANGED <<request, draining, billed>>

\* A day after it retired, when its requests are long over.
Forget(l) ==
    /\ lease[l].phase = "retired" /\ On(l) = {} /\ l \notin draining
    /\ lease' = [lease EXCEPT ![l] = Gone(@)]
    /\ UNCHANGED <<request, draining, billed>>

(***************************************************************************)
(* The handler of a model request                                          *)
(***************************************************************************)
Accept(r, l) ==
    /\ ~Active(r) /\ lease[l].phase = "live"
    /\ request' = [request EXCEPT ![r] = [NoRequest EXCEPT !.stage = "reading", !.lease = l]]
    /\ UNCHANGED <<lease, draining, billed>>

\* The body breaks off, is invalid, too long or dearer than what is left.
\* A cancelled request ends here: its socket is destroyed.
Refuse(r) ==
    /\ request[r].stage = "reading"
    /\ request' = [request EXCEPT ![r] = NoRequest]
    /\ UNCHANGED <<lease, draining, billed>>

Reserve(r) ==
    LET g == lease[request[r].lease] IN
    /\ request[r].stage = "reading" /\ ~request[r].cancelled
    /\ \E size \in BodySizes, want \in Wanted :
        LET reservation == Reservation(g, size, want) IN
        /\ Fits(g, size, want)
        /\ lease' = [lease EXCEPT ![request[r].lease] = Reserved(@, reservation)]
        /\ request' = [request EXCEPT ![r].stage = "starting", ![r].reserved = reservation]
    /\ UNCHANGED <<draining, billed>>

Start(r) ==
    /\ request[r].stage = "starting"
    /\ request' = [request EXCEPT ![r].stage = "running"]
    /\ UNCHANGED <<lease, draining, billed>>

\* Ends request `r`, which is charged `usage`.
End(r, usage, refund, reported) ==
    LET l == request[r].lease IN
    /\ lease' = [lease EXCEPT ![l] = Charged(@, request[r].reserved, usage, refund, reported)]
    /\ billed' = [billed EXCEPT ![l] = @ + usage.cost]
    /\ request' = [request EXCEPT ![r] = NoRequest]
    /\ UNCHANGED <<draining>>

Complete(r) ==
    /\ request[r].stage = "running"
    /\ \/ \E usage \in Reports :
            /\ usage.output <= request[r].reserved.output
            /\ End(r, usage, TRUE, TRUE)
       \/ End(r, request[r].reserved, TRUE, FALSE)

\* A failed request keeps its reservation; what was reported can only add.
AtLeast(reserved, usage) == [p \in Parts |-> Greater(reserved[p], usage[p])]

\* Only a stream cut off for its output reports usage before it fails.
Fail(r) ==
    LET reserved == request[r].reserved IN
    \/ /\ request[r].stage \in {"starting", "running"}
       /\ End(r, reserved, FALSE, FALSE)
    \/ /\ request[r].stage = "running"
       /\ \E usage \in Reports :
            /\ usage.output > reserved.output
            /\ End(r, AtLeast(reserved, usage), FALSE, TRUE)

(***************************************************************************)
(* The control socket                                                      *)
(***************************************************************************)
Cancel(r) ==
    /\ Active(r) /\ ~request[r].cancelled
    /\ request' = [request EXCEPT ![r].cancelled = TRUE]
    /\ UNCHANGED <<lease, draining, billed>>

CancelledOn(l) ==
    [r \in Requests |->
        IF r \in On(l) THEN [request[r] EXCEPT !.cancelled = TRUE] ELSE request[r]]

\* A lease the registry does not know is answered for at once.  A second
\* revoke while one waits finds nothing more to do, and waits for the same.
RevokeStarts(l) ==
    /\ l \in Registered \ draining
    /\ lease' = [lease EXCEPT ![l] = Retired(@)]
    /\ request' = CancelledOn(l)
    /\ draining' = draining \union {l}
    /\ UNCHANGED <<billed>>

\* Mutant: the revoke answers at once.
DrainedAtOnce(l) == TRUE

Drained(l) == On(l) = {}

RevokeAnswers(l) ==
    /\ l \in draining /\ Drained(l)
    /\ lease' = [lease EXCEPT ![l] = Frozen(@)]
    /\ draining' = draining \ {l}
    /\ UNCHANGED <<request, billed>>

GatewayRestarts ==
    /\ lease' = [l \in Leases |-> Gone(lease[l])]
    /\ request' = [r \in Requests |-> NoRequest]
    /\ draining' = {}
    /\ UNCHANGED <<billed>>

\* The steps a request takes by itself: its deadline ends it, or a client or
\* a provider does.
Ends(r) == Refuse(r) \/ Complete(r) \/ Fail(r)

Next ==
    \/ \E l \in Leases :
        \/ Issue(l) \/ Expire(l) \/ Forget(l)
        \/ RevokeStarts(l) \/ RevokeAnswers(l)
    \/ \E r \in Requests :
        \/ \E l \in Leases : Accept(r, l)
        \/ Reserve(r) \/ Start(r) \/ Ends(r) \/ Cancel(r)
    \/ GatewayRestarts

Spec == Init /\ [][Next]_vars

\* Every stage of a request has a deadline, and a revoke whose requests are
\* gone goes on.
Fairness ==
    /\ \A r \in Requests : WF_vars(Ends(r))
    /\ \A l \in Leases : WF_vars(RevokeAnswers(l))

FairSpec == Spec /\ Fairness

(***************************************************************************)
(* Properties                                                              *)
(***************************************************************************)
TypeOK ==
    /\ lease \in [Leases -> Grants]
    /\ request \in [Requests -> RequestRows]
    /\ draining \subseteq Leases
    /\ billed \in [Leases -> Nat]

\* The settlement is found by subtraction from what is left of the budget, the
\* bill by adding up what each request was charged.  Refunds, overruns and the
\* reservations still out keep the two equal (reserveBudget, charge,
\* settlementOf).
OutOn(l) == MapThenSumSet(LAMBDA r : request[r].reserved.cost, On(l))
BudgetBalances ==
    \A l \in Leases :
        lease[l].phase \in {"live", "retired"} =>
            SettlementOf(lease[l]) = billed[l] + OutOn(l)

\* Once a settlement has been told nothing runs on the lease that could still
\* change it: also not when the lease had expired before the revoke, with its
\* requests running (revokeAndDrain, freezeSettlement).
FrozenIsQuiet ==
    \A l \in Leases : lease[l].frozen # NoSettlement => On(l) = {}

\* The gateway keeps the promise of the lease account: it closes a lease once,
\* makes one statement of all that was billed, and bills within the cap
\* (LeaseRegistry, budget.ts, revokeAndDrain).
AccountPhase(g) ==
    CASE g.phase = "none" -> "none"
      [] g.phase = "live" -> "open"
      [] g.phase = "gone" -> "lost"
      [] OTHER -> IF g.frozen = NoSettlement THEN "closing" ELSE "final"
Account ==
    INSTANCE LeaseAccount WITH
        CostCap <- Caps.cost,
        phase <- [l \in Leases |-> AccountPhase(lease[l])],
        bill <- billed,
        excess <- [l \in Leases |-> lease[l].over],
        statement <- [l \in Leases |-> lease[l].frozen]
ImplementsAccount == Account!AccountSpec

\* A revoke is answered, however many requests run on the lease, and whatever
\* is cancelled, fails or restarts meanwhile (revokeAndDrain, cancelAndDrain).
RevokesAreAnswered == \A l \in Leases : l \in draining ~> l \notin draining
=============================================================================
