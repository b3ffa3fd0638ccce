------------------------- MODULE ModelGatewayProofs -------------------------
(***************************************************************************)
(* Theorems about ModelGateway for every number of leases and requests,    *)
(* every cap, price and size, and whatever a provider reports: the         *)
(* settlement of a lease is what its requests were billed, nothing runs on *)
(* a lease whose settlement was told, and the gateway implements the       *)
(* account of LeaseAccount.                                                *)
(***************************************************************************)
EXTENDS ModelGateway, FiniteSetTheorems, WellFoundedInduction, TLAPS

-----------------------------------------------------------------------------
(* Sums over finite sets *)

LEMMA LeastNatural ==
    ASSUME NEW T \in SUBSET Nat, T # {}
    PROVE  \E n \in T : \A m \in T : n <= m
<1> DEFINE R == OpToRel(<, Nat)
<1>1. IsWellFoundedOn(R, Nat)
  BY NatLessThanWellFounded
<1>2. \A m, n \in Nat : m < n => <<m, n>> \in R
  BY DEF OpToRel
<1> HIDE DEF R
<1>3. PICK n \in T : \A m \in T : ~(<<m, n>> \in R)
  BY <1>1, WFMin
<1>4. \A m \in T : ~(m < n)
  BY <1>2, <1>3
<1>5. \A m \in T : m \in Nat /\ n \in Nat
  BY <1>3
<1>6. \A m \in T : n <= m
  BY <1>4, <1>5
<1> QED
  BY <1>3, <1>6

\* Among subsets of a finite set there is one with no proper subset among them:
\* a property of finite sets that has a counterexample has a smallest one.
LEMMA SmallestSet ==
    ASSUME NEW S, IsFiniteSet(S), NEW C \in SUBSET SUBSET S, C # {}
    PROVE  \E s \in C : \A u \in C : u \subseteq s => u = s
<1> DEFINE T == {Cardinality(s) : s \in C}
<1>1. \A s \in C : IsFiniteSet(s) /\ Cardinality(s) \in Nat
  BY FS_Subset, FS_CardinalityType
<1>2. T \in SUBSET Nat /\ T # {}
  BY <1>1
<1>3. PICK n \in T : \A m \in T : n <= m
  <2> HIDE DEF T
  <2> QED
    BY <1>2, LeastNatural
<1>4. PICK s \in C : n = Cardinality(s)
  OBVIOUS
<1>5. ASSUME NEW u \in C, u \subseteq s, u # s
      PROVE  FALSE
  <2>1. Cardinality(u) < Cardinality(s)
    BY <1>1, <1>4, <1>5, FS_Subset
  <2>2. Cardinality(s) <= Cardinality(u)
    BY <1>3, <1>4
  <2> QED
    BY <1>1, <2>1, <2>2
<1> QED
  BY <1>5

\* The cost reserved by the requests of a set.
Total(rows, S) == MapThenSumSet(LAMBDA r : rows[r].reserved.cost, S)

CostOf(rows, r) == rows[r].reserved.cost
Chosen(s) == CHOOSE r \in s : TRUE

\* What the fold computes: a function on the subsets of S that satisfies its equation.
Sums(rows, S, g) ==
    g = [s \in SUBSET S |->
            IF s = {} THEN 0 ELSE CostOf(rows, Chosen(s)) + g[s \ {Chosen(s)}]]

LEMMA SumsEquation ==
    ASSUME NEW rows, NEW S, NEW g, Sums(rows, S, g), NEW s \in SUBSET S
    PROVE  /\ s = {} => g[s] = 0
           /\ s # {} => /\ Chosen(s) \in s
                        /\ g[s] = CostOf(rows, Chosen(s)) + g[s \ {Chosen(s)}]
<1>1. s # {} => Chosen(s) \in s
  BY DEF Chosen
<1> HIDE DEF Chosen
<1>2. g[s] = IF s = {} THEN 0 ELSE CostOf(rows, Chosen(s)) + g[s \ {Chosen(s)}]
  BY DEF Sums
<1> QED
  BY <1>1, <1>2

\* Two such functions agree where the costs do.
LEMMA SumsAgree ==
    ASSUME NEW S, IsFiniteSet(S), NEW T, NEW U \in SUBSET S, U \subseteq T,
           NEW rows, NEW other, \A r \in U : CostOf(rows, r) = CostOf(other, r),
           NEW g, Sums(rows, S, g), NEW h, Sums(other, T, h)
    PROVE  g[U] = h[U]
<1> DEFINE C == {s \in SUBSET U : g[s] # h[s]}
<1> SUFFICES ASSUME g[U] # h[U] PROVE FALSE
  OBVIOUS
<1>1. IsFiniteSet(U) /\ C \in SUBSET SUBSET U /\ C # {}
  BY FS_Subset
<1>2. PICK s \in C : \A u \in C : u \subseteq s => u = s
  <2> HIDE DEF C
  <2> QED
    BY <1>1, SmallestSet
<1>3. s \in SUBSET S /\ s \in SUBSET T /\ s \in SUBSET U /\ g[s] # h[s]
  OBVIOUS
<1>4. s # {}
  BY <1>3, SumsEquation
<1> DEFINE c == Chosen(s)
           u == s \ {c}
<1>5. /\ c \in s /\ g[s] = CostOf(rows, c) + g[u]
      /\ h[s] = CostOf(other, c) + h[u]
  BY <1>3, <1>4, SumsEquation
<1>6. u \in SUBSET U /\ u \subseteq s /\ u # s
  BY <1>3, <1>5
<1>7. g[u] = h[u]
  BY <1>2, <1>6
<1>8. CostOf(rows, c) = CostOf(other, c)
  BY <1>3, <1>5
<1> QED
  BY <1>3, <1>5, <1>7, <1>8

\* There is such a function for every finite set.
LEMMA SumsExist ==
    ASSUME NEW rows, NEW S, IsFiniteSet(S)
    PROVE  \E g : Sums(rows, S, g)
<1> DEFINE C == {s \in SUBSET S : ~ \E g : Sums(rows, s, g)}
<1> SUFFICES ASSUME ~ \E g : Sums(rows, S, g) PROVE FALSE
  OBVIOUS
<1>1. C \in SUBSET SUBSET S /\ C # {}
  OBVIOUS
<1>2. PICK s \in C : \A u \in C : u \subseteq s => u = s
  <2> HIDE DEF C
  <2> QED
    BY <1>1, SmallestSet
<1>3. s \in SUBSET S /\ ~ \E g : Sums(rows, s, g)
  OBVIOUS
<1>4. ASSUME NEW u \in SUBSET s, u # s
      PROVE  \E g : Sums(rows, u, g)
  BY <1>2, <1>3, <1>4
<1> DEFINE G(u) == CHOOSE g : Sums(rows, u, g)
           whole == CostOf(rows, Chosen(s)) + G(s \ {Chosen(s)})[s \ {Chosen(s)}]
           h == [u \in SUBSET s |-> IF u = {} THEN 0 ELSE IF u = s THEN whole ELSE G(u)[u]]
<1>5. \A u \in SUBSET s : u # s => Sums(rows, u, G(u))
  BY <1>4
<1> HIDE DEF G
<1>6. \A u \in SUBSET s : u # s => h[u] = G(u)[u]
  <2> SUFFICES ASSUME NEW u \in SUBSET s, u # s PROVE h[u] = G(u)[u]
    OBVIOUS
  <2>1. Sums(rows, u, G(u)) /\ u \in SUBSET u
    BY <1>5
  <2>2. u = {} => G(u)[u] = 0
    BY <2>1, SumsEquation
  <2> QED
    BY <2>2
<1>7. ASSUME NEW u \in SUBSET s
      PROVE  h[u] = IF u = {} THEN 0 ELSE CostOf(rows, Chosen(u)) + h[u \ {Chosen(u)}]
  <2>1. CASE u = {}
    BY <2>1
  <2>2. CASE u # {}
    <3> DEFINE v == u \ {Chosen(u)}
    <3>1. Chosen(u) \in u
      BY <2>2 DEF Chosen
    <3>2. v \in SUBSET s /\ v # s /\ v \in SUBSET u /\ v # u
      BY <3>1
    <3>3. h[v] = G(v)[v]
      BY <1>6, <3>2
    <3>4. CASE u = s
      <4>1. h[u] = whole
        BY <2>2, <3>4
      <4> QED
        BY <2>2, <3>3, <3>4, <4>1
    <3>5. CASE u # s
      <4>1. Sums(rows, u, G(u)) /\ Sums(rows, v, G(v)) /\ IsFiniteSet(u)
        BY <1>3, <1>5, <3>2, <3>5, FS_Subset
      <4> HIDE DEF v, h
      <4>2. G(u)[v] = G(v)[v]
        BY <3>2, <4>1, SumsAgree
      <4>3. G(u)[u] = CostOf(rows, Chosen(u)) + G(u)[v]
        BY <2>2, <4>1, SumsEquation DEF v
      <4>4. h[u] = G(u)[u]
        BY <1>6, <3>5
      <4> QED
        BY <2>2, <3>3, <4>2, <4>3, <4>4 DEF v
    <3> QED
      BY <3>4, <3>5
  <2> QED
    BY <2>1, <2>2
<1>8. Sums(rows, s, h)
  <2>1. h = [u \in SUBSET s |-> h[u]]
    OBVIOUS
  <2> HIDE DEF h
  <2> QED
    BY <1>7, <2>1 DEF Sums
<1> QED
  BY <1>3, <1>8

\* The fold takes its value from such a function.
LEMMA TotalIs ==
    ASSUME NEW rows, NEW S, IsFiniteSet(S)
    PROVE  \E g : Sums(rows, S, g) /\ Total(rows, S) = g[S]
<1>1. \E g : Sums(rows, S, g)
  BY SumsExist
<1> QED
  BY <1>1, Zenon DEF Total, Sums, Chosen, CostOf, MapThenSumSet, MapThenFoldSet

LEMMA TotalOfNone == ASSUME NEW rows PROVE Total(rows, {}) = 0
<1>1. IsFiniteSet({})
  BY FS_EmptySet
<1> DEFINE none == {}
<1>2. none \in SUBSET none /\ IsFiniteSet(none)
  BY <1>1
<1>3. \A g : Sums(rows, none, g) => g[none] = 0
  BY <1>2, SumsEquation
<1> HIDE DEF none
<1>4. Total(rows, none) = 0
  BY <1>2, <1>3, TotalIs
<1> QED
  BY <1>4 DEF none

\* A total does not depend on what else the rows hold.
LEMMA TotalOfSame ==
    ASSUME NEW S, IsFiniteSet(S), NEW rows, NEW other,
           \A r \in S : rows[r].reserved.cost = other[r].reserved.cost
    PROVE  Total(rows, S) = Total(other, S)
<1>1. PICK g : Sums(rows, S, g) /\ Total(rows, S) = g[S]
  BY TotalIs
<1>2. PICK h : Sums(other, S, h) /\ Total(other, S) = h[S]
  BY TotalIs
<1>3. \A r \in S : CostOf(rows, r) = CostOf(other, r)
  BY DEF CostOf
<1>4. g[S] = h[S]
  BY <1>1, <1>2, <1>3, SumsAgree
<1> QED
  BY <1>1, <1>2, <1>4

\* Any request of the set can be counted first.
LEMMA SumsWithout ==
    ASSUME NEW S, IsFiniteSet(S), NEW rows, \A r \in S : CostOf(rows, r) \in Nat,
           NEW g, Sums(rows, S, g)
    PROVE  \A s \in SUBSET S :
                g[s] \in Nat /\ \A r \in s : g[s] = CostOf(rows, r) + g[s \ {r}]
<1> DEFINE Right(s) == g[s] \in Nat /\ \A r \in s : g[s] = CostOf(rows, r) + g[s \ {r}]
           C == {s \in SUBSET S : ~ Right(s)}
<1> SUFFICES ASSUME C # {} PROVE FALSE
  OBVIOUS
<1>1. PICK s \in C : \A u \in C : u \subseteq s => u = s
  <2>1. C \in SUBSET SUBSET S
    OBVIOUS
  <2> HIDE DEF C
  <2> QED
    BY <2>1, SmallestSet
<1>2. s \in SUBSET S /\ ~ Right(s)
  OBVIOUS
<1>3. \A u \in SUBSET s : u # s => Right(u)
  BY <1>1, <1>2
<1>4. CASE s = {}
  <2>1. g[s] = 0
    BY <1>2, <1>4, SumsEquation
  <2> QED
    BY <1>2, <1>4, <2>1
<1>5. CASE s # {}
  <2> DEFINE c == Chosen(s)
             u == s \ {c}
  <2>1. c \in s /\ g[s] = CostOf(rows, c) + g[u]
    BY <1>2, <1>5, SumsEquation
  <2>2. CostOf(rows, c) \in Nat /\ Right(u) /\ u \in SUBSET s /\ u # s
    BY <1>2, <1>3, <2>1
  <2>3. g[s] \in Nat
    BY <2>1, <2>2
  <2> HIDE DEF c
  <2>4. ASSUME NEW r \in s, r # c
        PROVE  g[s] = CostOf(rows, r) + g[s \ {r}]
    <3> DEFINE v == s \ {r}
               rest == (s \ {c}) \ {r}
    <3>1. v \in SUBSET s /\ v # s /\ c \in v /\ r \in u /\ v \ {c} = rest /\ u \ {r} = rest
      BY <2>1, <2>4
    <3>2. g[v] = CostOf(rows, c) + g[rest]
      BY <1>3, <3>1
    <3>3. g[u] = CostOf(rows, r) + g[rest]
      BY <2>2, <3>1
    <3>4. g[rest] \in Nat
      <4>1. rest \in SUBSET s /\ rest # s
        BY <2>1, <3>1
      <4> QED
        BY <1>3, <4>1
    <3>5. CostOf(rows, r) \in Nat
      BY <1>2
    <3> HIDE DEF v, rest, u
    <3>6. g[s] = CostOf(rows, r) + g[v]
      BY <2>1, <2>2, <3>2, <3>3, <3>4, <3>5
    <3> QED
      BY <3>6 DEF v
  <2>5. Right(s)
    BY <2>1, <2>3, <2>4
  <2> QED
    BY <1>2, <2>5
<1> QED
  BY <1>4, <1>5

LEMMA TotalWithout ==
    ASSUME NEW S, IsFiniteSet(S), NEW rows, \A r \in S : rows[r].reserved.cost \in Nat
    PROVE  /\ Total(rows, S) \in Nat
           /\ \A r \in S : Total(rows, S) = rows[r].reserved.cost + Total(rows, S \ {r})
<1>1. PICK g : Sums(rows, S, g) /\ Total(rows, S) = g[S]
  BY TotalIs
<1>2. \A r \in S : CostOf(rows, r) \in Nat
  BY DEF CostOf
<1>3. g[S] \in Nat /\ \A r \in S : g[S] = CostOf(rows, r) + g[S \ {r}]
  BY <1>1, <1>2, SumsWithout
<1>4. ASSUME NEW r \in S
      PROVE  g[S \ {r}] = Total(rows, S \ {r})
  <2> DEFINE U == S \ {r}
  <2>1. IsFiniteSet(U) /\ U \in SUBSET S
    BY FS_Subset
  <2> HIDE DEF U
  <2>2. PICK h : Sums(rows, U, h) /\ Total(rows, U) = h[U]
    BY <2>1, TotalIs
  <2>3. \A q \in U : CostOf(rows, q) = CostOf(rows, q)
    OBVIOUS
  <2>4. U \subseteq U /\ Sums(rows, S, g) /\ Sums(rows, U, h)
    BY <1>1, <2>2
  <2>5. g[U] = h[U]
    BY <2>1, <2>3, <2>4, SumsAgree
  <2> QED
    BY <2>2, <2>5 DEF U
<1> QED
  BY <1>1, <1>3, <1>4 DEF CostOf

-----------------------------------------------------------------------------
(* Money *)

\* Division rounds down.
LEMMA RoundsDown ==
    ASSUME NEW a \in Nat, NEW b \in Nat \ {0}
    PROVE  (a \div b) \in Nat /\ b * (a \div b) <= a /\ a < b * (a \div b) + b
  BY SMT

LEMMA CostsAreNat ==
    ASSUME NEW tokens \in Nat, NEW price \in Nat
    PROVE  Cost(tokens, price) \in Nat
<1> DEFINE all == tokens * price + Scale - 1
<1>1. all \in Nat /\ Scale \in Nat \ {0}
  BY GatewayAssumption
<1> HIDE DEF all
<1>2. (all \div Scale) \in Nat
  BY <1>1, RoundsDown
<1> QED
  BY <1>2 DEF Cost, all

\* The output a sum affords costs no more than the sum: the number of tokens is
\* rounded down, which makes up for the cost being rounded up.
LEMMA AffordableIsCovered ==
    ASSUME NEW money \in Nat, NEW tokens \in Nat
    PROVE  /\ Affordable(money, tokens) \in Nat /\ Affordable(money, tokens) <= tokens
           /\ Cost(Affordable(money, tokens), OutputPrice) <= money
<1>1. Scale \in Nat \ {0} /\ OutputPrice \in Nat
  BY GatewayAssumption
<1> DEFINE n == Affordable(money, tokens)
           most == (money * Scale) \div OutputPrice
           all == n * OutputPrice + Scale - 1
           cost == all \div Scale
<1>2. /\ n \in Nat /\ n <= tokens
      /\ n * OutputPrice <= money * Scale
  <2>1. CASE OutputPrice = 0
    BY <1>1, <2>1 DEF Affordable
  <2>2. CASE OutputPrice # 0
    <3>1. money * Scale \in Nat
      BY <1>1
    <3>2. most \in Nat /\ OutputPrice * most <= money * Scale
      BY <1>1, <2>2, <3>1, RoundsDown
    <3> HIDE DEF most
    <3>3. n = IF tokens <= most THEN tokens ELSE most
      BY <2>2 DEF Affordable, Lesser, most
    <3> HIDE DEF n
    <3>4. n \in Nat /\ n <= tokens /\ n <= most
      BY <3>2, <3>3
    <3>5. n * OutputPrice <= most * OutputPrice
      BY <1>1, <3>2, <3>4
    <3> QED
      BY <1>1, <3>1, <3>2, <3>4, <3>5
  <2> QED
    BY <2>1, <2>2
<1> HIDE DEF n
<1>3. all \in Nat /\ n * OutputPrice \in Nat /\ money * Scale \in Nat
  BY <1>1, <1>2
<1>4. all <= money * Scale + (Scale - 1)
  BY <1>1, <1>2, <1>3
<1>5. cost \in Nat /\ Scale * cost <= all
  <2> HIDE DEF all
  <2> QED
    BY <1>1, <1>3, RoundsDown
<1>6. cost = Cost(n, OutputPrice)
  BY DEF Cost
<1> HIDE DEF all, cost
<1>7. Scale * cost <= money * Scale + (Scale - 1)
  <2>1. Scale * cost \in Nat /\ money * Scale + (Scale - 1) \in Nat
    BY <1>1, <1>3, <1>5
  <2> QED
    BY <1>3, <1>4, <1>5, <2>1
<1>8. cost <= money
  BY <1>1, <1>5, <1>7
<1> QED
  BY <1>2, <1>6, <1>8 DEF n

-----------------------------------------------------------------------------
(* Grants *)

LEMMA NewGrantFacts ==
    /\ NoGrant \in Grants /\ NewGrant \in Grants
    /\ NoGrant.phase = "none" /\ NoGrant.frozen = NoSettlement
    /\ NoGrant.over = 0 /\ NoGrant.unabsorbed = 0
    /\ NewGrant.phase = "live" /\ NewGrant.frozen = NoSettlement
    /\ NewGrant.over = 0 /\ NewGrant.unabsorbed = 0 /\ SettlementOf(NewGrant) = 0
<1>1. Caps \in Amounts /\ Caps.cost \in Nat
  BY GatewayAssumption DEF Amounts
<1>2. /\ NoGrant \in Grants /\ NoGrant.phase = "none" /\ NoGrant.frozen = NoSettlement
      /\ NoGrant.over = 0 /\ NoGrant.unabsorbed = 0
  BY DEF NoGrant, Grants, Amounts, NoSettlement
<1>3. /\ NewGrant \in Grants /\ NewGrant.left = Caps
      /\ NewGrant.phase = "live" /\ NewGrant.frozen = NoSettlement
      /\ NewGrant.over = 0 /\ NewGrant.unabsorbed = 0
  <2> HIDE DEF NoGrant
  <2> QED
    BY <1>1, <1>2 DEF NewGrant, Grants
<1>4. SettlementOf(NewGrant) = 0
  BY <1>1, <1>3 DEF SettlementOf
<1> QED
  BY <1>2, <1>3, <1>4

LEMMA GoneFacts ==
    ASSUME NEW g \in Grants
    PROVE  /\ Gone(g) \in Grants /\ Gone(g).over = (IF g.phase = "none" THEN g ELSE g).over
           /\ g.phase = "none" => Gone(g) = g
           /\ g.phase # "none" => /\ Gone(g).phase = "gone" /\ Gone(g).frozen = NoSettlement
                                  /\ Gone(g).unabsorbed = 0
<1>1. g.over \in Nat
  BY DEF Grants
<1> QED
  BY <1>1 DEF Gone, NoGrant, Grants, Amounts, NoSettlement

LEMMA RetiredFacts ==
    ASSUME NEW g \in Grants
    PROVE  /\ Retired(g) \in Grants /\ Retired(g).frozen = g.frozen
           /\ Retired(g).over = g.over /\ Retired(g).unabsorbed = g.unabsorbed
           /\ SettlementOf(Retired(g)) = SettlementOf(g)
           /\ g.phase = "live" => Retired(g).phase = "retired"
           /\ g.phase # "live" => Retired(g) = g
  BY DEF Retired, Grants, SettlementOf

LEMMA FrozenFacts ==
    ASSUME NEW g \in Grants, g.phase = "retired" => SettlementOf(g) \in Nat
    PROVE  /\ Frozen(g) \in Grants /\ Frozen(g).phase = g.phase
           /\ Frozen(g).over = g.over /\ Frozen(g).unabsorbed = g.unabsorbed
           /\ SettlementOf(Frozen(g)) = SettlementOf(g)
           /\ g.phase = "retired" /\ g.frozen = NoSettlement => Frozen(g).frozen = SettlementOf(g)
           /\ ~(g.phase = "retired" /\ g.frozen = NoSettlement) => Frozen(g) = g
<1> DEFINE s == SettlementOf(g)
<1>1. Frozen(g) = IF g.phase = "retired" /\ g.frozen = NoSettlement
                  THEN [g EXCEPT !.frozen = s] ELSE g
  BY DEF Frozen
<1>2. Frozen(g).left = g.left /\ Frozen(g).unabsorbed = g.unabsorbed
  BY DEF Frozen, Grants
<1>3. SettlementOf(Frozen(g)) = SettlementOf(g)
  BY <1>2 DEF SettlementOf
<1> HIDE DEF s
<1> QED
  BY <1>1, <1>3 DEF Grants, s

\* A request that fits leaves no part of the budget below zero.
LEMMA ReservedFacts ==
    ASSUME NEW g \in Grants, NEW size \in BodySizes, NEW want \in Wanted, Fits(g, size, want)
    PROVE  LET r == Reservation(g, size, want) IN
           /\ r \in Amounts /\ Reserved(g, r) \in Grants
           /\ Reserved(g, r).phase = g.phase /\ Reserved(g, r).frozen = g.frozen
           /\ Reserved(g, r).over = g.over /\ Reserved(g, r).unabsorbed = g.unabsorbed
           /\ SettlementOf(Reserved(g, r)) = SettlementOf(g) + r.cost
<1> DEFINE r == Reservation(g, size, want)
           price == Cost(size, InputPrice)
           money == g.left.cost - price
           most == Lesser(want, g.left.output)
           n == Affordable(money, most)
           outputPrice == Cost(n, OutputPrice)
           left == [p \in Parts |-> g.left[p] - r[p]]
<1>1. /\ size \in Nat /\ want \in Nat /\ InputPrice \in Nat /\ OutputPrice \in Nat
      /\ Caps.cost \in Nat
  BY GatewayAssumption DEF Amounts
<1>2. /\ g.left.input \in Nat /\ g.left.output \in Nat /\ g.left.cost \in Nat
      /\ g.left \in Amounts /\ g.unabsorbed \in Nat
  BY DEF Grants, Amounts
<1>3. price \in Nat /\ price <= g.left.cost /\ size <= g.left.input
  BY <1>1, CostsAreNat DEF Fits
<1>4. money \in Nat /\ most \in Nat /\ most <= g.left.output
  <2> HIDE DEF price
  <2> QED
    BY <1>1, <1>2, <1>3 DEF Lesser
<1> HIDE DEF money, most
<1>5. n \in Nat /\ n <= most /\ outputPrice <= money
  BY <1>4, AffordableIsCovered
<1>6. outputPrice \in Nat
  <2> HIDE DEF n
  <2> QED
    BY <1>1, <1>5, CostsAreNat
<1>7. r = [input |-> size, output |-> n, cost |-> price + outputPrice]
  BY DEF Reservation, money, most
<1> HIDE DEF r, price, n, outputPrice
<1>8. r \in Amounts /\ r.input = size /\ r.output = n /\ r.cost = price + outputPrice
  BY <1>1, <1>3, <1>5, <1>6, <1>7 DEF Amounts
<1>9. r.input <= g.left.input /\ r.output <= g.left.output /\ r.cost <= g.left.cost
  BY <1>2, <1>3, <1>4, <1>5, <1>6, <1>8 DEF money
<1>10. left \in Amounts /\ left.cost = g.left.cost - r.cost
  BY <1>2, <1>8, <1>9 DEF Amounts, Parts
<1>11. Reserved(g, r) = [g EXCEPT !.left = left]
  BY DEF Reserved
<1> HIDE DEF left
<1>12. /\ Reserved(g, r) \in Grants
       /\ Reserved(g, r).phase = g.phase /\ Reserved(g, r).frozen = g.frozen
       /\ Reserved(g, r).over = g.over /\ Reserved(g, r).unabsorbed = g.unabsorbed
       /\ Reserved(g, r).left = left
  BY <1>10, <1>11 DEF Grants
<1>13. r.cost \in Nat
  BY <1>8 DEF Amounts
<1>14. SettlementOf(Reserved(g, r)) = SettlementOf(g) + r.cost
  BY <1>1, <1>2, <1>10, <1>12, <1>13 DEF SettlementOf
<1> QED
  BY <1>8, <1>12, <1>14 DEF r

LEMMA PartsSettle ==
    ASSUME NEW left \in Nat, NEW reserved \in Nat, NEW charged \in Nat, NEW refund \in BOOLEAN
    PROVE  SettledPart(left, reserved, charged, refund) \in Nat
  BY DEF SettledPart, Lesser

\* A charge moves the settlement by what it differs from the reservation, an
\* overrun that found no budget included.
LEMMA ChargedFacts ==
    ASSUME NEW g \in Grants, NEW r \in Amounts, NEW usage \in Amounts,
           NEW refund \in BOOLEAN, NEW reported \in BOOLEAN,
           refund \/ usage.cost >= r.cost, g.unabsorbed <= g.over
    PROVE  LET c == Charged(g, r, usage, refund, reported) IN
           /\ c \in Grants /\ c.phase = g.phase /\ c.frozen = g.frozen
           /\ g.over <= c.over /\ c.unabsorbed <= c.over
           /\ SettlementOf(c) = SettlementOf(g) + usage.cost - r.cost
<1> DEFINE c == Charged(g, r, usage, refund, reported)
           left == [p \in Parts |-> SettledPart(g.left[p], r[p], usage[p], refund)]
           over == Overrun(r.cost, usage.cost)
           lost == over - Lesser(over, g.left.cost)
           overAll == g.over + over
           lostAll == g.unabsorbed + lost
           blind == g.blind \/ ~reported
<1>1. /\ g.left \in Amounts /\ g.over \in Nat /\ g.unabsorbed \in Nat /\ g.blind \in BOOLEAN
      /\ g.left.cost \in Nat /\ r.cost \in Nat /\ usage.cost \in Nat /\ Caps.cost \in Nat
  BY GatewayAssumption DEF Grants, Amounts
<1>2. \A p \in Parts : g.left[p] \in Nat /\ r[p] \in Nat /\ usage[p] \in Nat
  BY <1>1 DEF Amounts, Parts
<1>3. left \in Amounts /\ left.cost = SettledPart(g.left.cost, r.cost, usage.cost, refund)
  <2>1. \A p \in Parts : SettledPart(g.left[p], r[p], usage[p], refund) \in Nat
    BY <1>2, PartsSettle
  <2> QED
    BY <2>1 DEF Amounts, Parts
<1>4. over \in Nat /\ lost \in Nat /\ lost <= over
  BY <1>1 DEF Overrun, Greater, Lesser
<1>5. overAll \in Nat /\ lostAll \in Nat /\ g.over <= overAll /\ lostAll <= overAll
  <2> HIDE DEF over, lost
  <2> QED
    BY <1>1, <1>4
<1>6. Caps.cost - left.cost + lostAll
        = (Caps.cost - g.left.cost + g.unabsorbed) + usage.cost - r.cost
  <2> HIDE DEF left
  <2> QED
    BY <1>1, <1>3 DEF SettledPart, Overrun, Greater, Lesser
<1>7. c = [g EXCEPT !.left = left, !.over = overAll, !.unabsorbed = lostAll, !.blind = blind]
  BY DEF Charged
<1>8. blind \in BOOLEAN
  OBVIOUS
<1> HIDE DEF c, left, overAll, lostAll, blind
<1>9. /\ c \in Grants /\ c.phase = g.phase /\ c.frozen = g.frozen
      /\ c.left = left /\ c.over = overAll /\ c.unabsorbed = lostAll
  BY <1>3, <1>5, <1>7, <1>8 DEF Grants
<1> QED
  BY <1>5, <1>6, <1>9 DEF c, SettlementOf

-----------------------------------------------------------------------------
(* The inductive invariant *)

\* A request has a lease the registry still holds, and no reservation before
\* its body is read.
RequestsInv ==
    \A r \in Requests : Active(r) =>
        /\ request[r].lease \in Registered
        /\ request[r].stage = "reading" => request[r].reserved = NoReservation

\* What holds of each lease: the balance, and that the cost no budget took is
\* part of the cost beyond reservations.
LeaseInv(l) ==
    /\ lease[l].phase = "none" => lease[l] = NoGrant /\ billed[l] = 0
    /\ lease[l].frozen # NoSettlement => lease[l].phase = "retired" /\ On(l) = {}
    /\ lease[l].unabsorbed <= lease[l].over
    /\ lease[l].phase \in {"live", "retired"} =>
            SettlementOf(lease[l]) = billed[l] + OutOn(l)

GatewayInv == TypeOK /\ RequestsInv /\ \A l \in Leases : LeaseInv(l)

LEMMA OutOnIsTotal ==
    ASSUME NEW l \in Leases
    PROVE  OutOn(l) = Total(request, On(l)) /\ OutOn(l)' = Total(request', On(l)')
  BY Zenon DEF OutOn, Total, MapThenSumSet, MapThenFoldSet

\* The requests on a lease and what they have reserved.
LEMMA OnIsFinite ==
    ASSUME TypeOK, NEW l \in Leases
    PROVE  /\ IsFiniteSet(On(l)) /\ On(l) \subseteq Requests
           /\ \A r \in On(l) : request[r].reserved.cost \in Nat
           /\ OutOn(l) \in Nat
<1>1. IsFiniteSet(On(l)) /\ On(l) \subseteq Requests
  <2>1. On(l) \subseteq Requests
    BY DEF On
  <2> QED
    BY <2>1, FS_Subset, GatewayAssumption
<1>2. \A r \in On(l) : request[r].reserved.cost \in Nat
  BY <1>1 DEF TypeOK, RequestRows, Amounts
<1>3. Total(request, On(l)) \in Nat
  BY <1>1, <1>2, TotalWithout
<1> QED
  BY <1>1, <1>2, <1>3, OutOnIsTotal

\* A lease that is touched by nothing keeps its invariant.
LEMMA SameLease ==
    ASSUME TypeOK, NEW l \in Leases, LeaseInv(l),
           lease'[l] = lease[l], billed'[l] = billed[l], On(l)' = On(l),
           \A r \in On(l) : request'[r].reserved.cost = request[r].reserved.cost
    PROVE  LeaseInv(l)'
<1>1. Total(request, On(l)) = Total(request', On(l))
  BY OnIsFinite, TotalOfSame
<1>2. OutOn(l)' = OutOn(l)
  BY <1>1, OutOnIsTotal
<1> QED
  BY <1>2 DEF LeaseInv, SettlementOf

\* What a step that rewrites the row of one request does to the sum of a lease.
LEMMA OneRow ==
    ASSUME TypeOK, NEW r \in Requests, NEW q \in RequestRows,
           request' = [request EXCEPT ![r] = q], NEW l \in Leases
    PROVE  /\ request' \in [Requests -> RequestRows]
           /\ \A k \in Requests : request'[k] = IF k = r THEN q ELSE request[k]
           /\ On(l)' = IF q.stage # "idle" /\ q.lease = l THEN On(l) \union {r} ELSE On(l) \ {r}
           /\ OutOn(l)' + (IF r \in On(l) THEN request[r].reserved.cost ELSE 0)
                = OutOn(l) + (IF r \in On(l)' THEN q.reserved.cost ELSE 0)
           /\ OutOn(l)' \in Nat
<1>1. /\ request' \in [Requests -> RequestRows]
      /\ \A k \in Requests : request'[k] = IF k = r THEN q ELSE request[k]
  BY DEF TypeOK
<1>2. On(l)' = IF q.stage # "idle" /\ q.lease = l THEN On(l) \union {r} ELSE On(l) \ {r}
  BY <1>1 DEF On, Active
<1> DEFINE S == On(l)
           rest == S \ {r}
<1>3. /\ IsFiniteSet(S) /\ S \subseteq Requests
      /\ \A k \in S : request[k].reserved.cost \in Nat
  BY OnIsFinite
<1>4. PICK rows, T : rows = request' /\ T = On(l)'
  OBVIOUS
<1>5. /\ IsFiniteSet(T) /\ T \subseteq Requests
      /\ \A k \in T : rows[k].reserved.cost \in Nat
  <2>1. T \subseteq Requests
    BY <1>2, <1>3, <1>4
  <2>2. IsFiniteSet(T)
    BY <2>1, FS_Subset, GatewayAssumption
  <2>3. \A k \in T : rows[k].reserved.cost \in Nat
    BY <1>1, <1>4, <2>1 DEF RequestRows, Amounts
  <2> QED
    BY <2>1, <2>2, <2>3
<1>6. /\ T \ {r} = rest /\ IsFiniteSet(rest)
      /\ \A k \in rest : request[k].reserved.cost = rows[k].reserved.cost
  BY <1>1, <1>2, <1>3, <1>4, FS_Subset
<1>7. OutOn(l) = Total(request, S) /\ OutOn(l)' = Total(rows, T)
  BY <1>4, OutOnIsTotal
<1> HIDE DEF S, rest
<1>8. Total(request, rest) = Total(rows, rest)
  BY <1>6, TotalOfSame
<1>9. /\ Total(request, S) \in Nat
      /\ r \in S => Total(request, S) = request[r].reserved.cost + Total(request, rest)
  BY <1>3, TotalWithout DEF rest
<1>10. /\ Total(rows, T) \in Nat
       /\ r \in T => Total(rows, T) = rows[r].reserved.cost + Total(rows, rest)
  BY <1>5, <1>6, TotalWithout
<1>11. (r \notin S => rest = S) /\ (r \notin T => rest = T)
  BY <1>6 DEF rest
<1>12. rows[r] = q
  BY <1>1, <1>4
<1>13. (r \in S => request[r].reserved.cost \in Nat) /\ (r \in T => rows[r].reserved.cost \in Nat)
  BY <1>3, <1>5
<1> DEFINE a == request[r].reserved.cost
           b == rows[r].reserved.cost
           m == Total(request, S)
           n == Total(rows, T)
           o == Total(request, rest)
<1>14. /\ m \in Nat /\ n \in Nat /\ (r \in S => a \in Nat /\ m = a + o) /\ (r \notin S => m = o)
       /\ (r \in T => b \in Nat /\ n = b + o) /\ (r \notin T => n = o) /\ b = q.reserved.cost
  BY <1>8, <1>9, <1>10, <1>11, <1>12, <1>13
<1>15. o \in Nat
  <2>1. IsFiniteSet(rest) /\ \A k \in rest : request[k].reserved.cost \in Nat
    BY <1>3, <1>6 DEF rest
  <2> QED
    BY <2>1, TotalWithout
<1> HIDE DEF m, n, o, a, b
<1>16. n + (IF r \in S THEN a ELSE 0) = m + (IF r \in T THEN b ELSE 0)
  BY <1>14, <1>15
<1> QED
  BY <1>1, <1>2, <1>4, <1>7, <1>14, <1>16 DEF S, m, n, a, b

-----------------------------------------------------------------------------
(* What the steps preserve *)

\* What is known of a lease and of a request.
LEMMA Known ==
    ASSUME GatewayInv
    PROVE  /\ TypeOK /\ RequestsInv
           /\ \A l \in Leases :
                /\ lease[l] \in Grants /\ billed[l] \in Nat /\ LeaseInv(l)
                /\ lease[l].over \in Nat /\ lease[l].unabsorbed \in Nat
                /\ SettlementOf(lease[l]) \in Int
           /\ \A r \in Requests :
                /\ request[r] \in RequestRows /\ request[r].reserved \in Amounts
                /\ request[r].reserved.cost \in Nat
                /\ Active(r) => /\ request[r].lease \in Leases
                                /\ lease[request[r].lease].phase \in {"live", "retired"}
                                /\ lease[request[r].lease].frozen = NoSettlement
                                /\ r \in On(request[r].lease)
<1>1. TypeOK /\ RequestsInv /\ \A l \in Leases : LeaseInv(l)
  BY DEF GatewayInv
<1>2. ASSUME NEW l \in Leases
      PROVE  /\ lease[l] \in Grants /\ billed[l] \in Nat
             /\ lease[l].over \in Nat /\ lease[l].unabsorbed \in Nat
             /\ SettlementOf(lease[l]) \in Int
  <2>1. lease[l] \in Grants /\ billed[l] \in Nat
    BY <1>1 DEF TypeOK
  <2>2. lease[l].left.cost \in Nat /\ Caps.cost \in Nat
    BY <2>1, GatewayAssumption DEF Grants, Amounts
  <2> QED
    BY <2>1, <2>2 DEF Grants, SettlementOf
<1>3. ASSUME NEW r \in Requests
      PROVE  /\ request[r] \in RequestRows /\ request[r].reserved \in Amounts
             /\ request[r].reserved.cost \in Nat
  BY <1>1 DEF TypeOK, RequestRows, Amounts
<1>4. ASSUME NEW r \in Requests, Active(r)
      PROVE  /\ request[r].lease \in Leases
             /\ lease[request[r].lease].phase \in {"live", "retired"}
             /\ lease[request[r].lease].frozen = NoSettlement
             /\ r \in On(request[r].lease)
  <2>1. /\ request[r].lease \in Leases
        /\ lease[request[r].lease].phase \in {"live", "retired"}
    BY <1>1, <1>4 DEF RequestsInv, Registered
  <2>2. r \in On(request[r].lease)
    BY <1>4 DEF On
  <2> QED
    BY <1>1, <2>1, <2>2 DEF LeaseInv
<1> QED
  BY <1>1, <1>2, <1>3, <1>4

\* A step that rewrites one grant, and leaves the requests in place.
LEMMA GrantStep ==
    ASSUME GatewayInv, NEW l \in Leases, NEW g \in Grants,
           lease' = [lease EXCEPT ![l] = g], UNCHANGED billed, draining' \subseteq Leases,
           request' \in [Requests -> RequestRows],
           \A r \in Requests :
                /\ request'[r].lease = request[r].lease
                /\ request'[r].reserved = request[r].reserved
                /\ request'[r].stage = "idle" <=> request[r].stage = "idle"
                /\ request'[r].stage = "reading" => request[r].stage = "reading",
           On(l) # {} => g.phase \in {"live", "retired"},
           g.phase = "none" => g = NoGrant /\ billed[l] = 0,
           g.frozen # NoSettlement => g.phase = "retired" /\ On(l) = {},
           g.unabsorbed <= g.over,
           g.phase \in {"live", "retired"} => SettlementOf(g) = billed[l] + OutOn(l)
    PROVE  GatewayInv'
<1>1. TypeOK /\ RequestsInv /\ \A k \in Leases : LeaseInv(k)
  BY Known
<1>2. /\ lease' \in [Leases -> Grants]
      /\ \A k \in Leases : lease'[k] = IF k = l THEN g ELSE lease[k]
  BY <1>1 DEF TypeOK
<1>3. TypeOK'
  BY <1>1, <1>2 DEF TypeOK
<1>4. \A r \in Requests : Active(r)' <=> Active(r)
  BY DEF Active
<1>5. \A k \in Leases : On(k)' = On(k)
  BY <1>4 DEF On
<1>6. RequestsInv'
  <2> SUFFICES ASSUME NEW r \in Requests, Active(r)'
               PROVE  /\ request'[r].lease \in Registered'
                      /\ request'[r].stage = "reading" => request'[r].reserved = NoReservation
    BY DEF RequestsInv
  <2>1. Active(r) /\ request[r].lease \in Leases /\ r \in On(request[r].lease)
        /\ lease[request[r].lease].phase \in {"live", "retired"}
    BY <1>4, Known
  <2>2. lease'[request[r].lease].phase \in {"live", "retired"}
    BY <1>2, <2>1
  <2> QED
    BY <1>1, <2>1, <2>2 DEF RequestsInv, Registered
<1>7. ASSUME NEW k \in Leases, k # l
      PROVE  LeaseInv(k)'
  <2>1. \A r \in On(k) : request'[r].reserved.cost = request[r].reserved.cost
    BY DEF On
  <2> QED
    BY <1>1, <1>2, <1>5, <1>7, <2>1, SameLease
<1>8. LeaseInv(l)'
  <2>1. \A r \in On(l) : request[r].reserved.cost = request'[r].reserved.cost
    BY DEF On
  <2>2. OutOn(l)' = OutOn(l)
    BY <1>1, <1>5, <2>1, OnIsFinite, TotalOfSame, OutOnIsTotal
  <2>3. lease'[l] = g /\ billed'[l] = billed[l] /\ On(l)' = On(l)
    BY <1>2, <1>5
  <2> QED
    BY <2>2, <2>3 DEF LeaseInv, SettlementOf
<1> QED
  BY <1>3, <1>6, <1>7, <1>8 DEF GatewayInv

\* What the row of a request takes out of the budget of its lease.
HeldBy(q) == IF q.stage # "idle" THEN q.reserved.cost ELSE 0

\* A step that rewrites the row of one request, and the grant and the bill of its lease.
Rewrites(r, q, l, g, n) ==
    /\ request' = [request EXCEPT ![r] = q]
    /\ lease' = [lease EXCEPT ![l] = g]
    /\ billed' = [billed EXCEPT ![l] = n]
    /\ UNCHANGED draining
    /\ q.stage # "idle" => q.lease = l
    /\ Active(r) => request[r].lease = l
    /\ q.stage = "reading" => q.reserved = NoReservation
    /\ lease[l].phase \in {"live", "retired"} /\ lease[l].frozen = NoSettlement
    /\ g.phase = lease[l].phase /\ g.frozen = NoSettlement /\ g.unabsorbed <= g.over
    /\ SettlementOf(g) + billed[l] + HeldBy(request[r])
         = SettlementOf(lease[l]) + n + HeldBy(q)

LEMMA RequestStep ==
    ASSUME GatewayInv, NEW r \in Requests, NEW q \in RequestRows, NEW l \in Leases,
           NEW g \in Grants, NEW n \in Nat, Rewrites(r, q, l, g, n)
    PROVE  GatewayInv'
<1> USE DEF Rewrites
<1>1. TypeOK /\ RequestsInv /\ \A k \in Leases : LeaseInv(k)
  BY Known
<1>2. /\ lease' \in [Leases -> Grants]
      /\ \A k \in Leases : lease'[k] = IF k = l THEN g ELSE lease[k]
      /\ billed' \in [Leases -> Nat]
      /\ \A k \in Leases : billed'[k] = IF k = l THEN n ELSE billed[k]
  BY <1>1 DEF TypeOK
<1>3. /\ request' \in [Requests -> RequestRows]
      /\ \A k \in Requests : request'[k] = IF k = r THEN q ELSE request[k]
  BY <1>1 DEF TypeOK
<1>4. TypeOK'
  BY <1>1, <1>2, <1>3 DEF TypeOK
<1>5. \A k \in Requests : Active(k)' <=> (IF k = r THEN q.stage # "idle" ELSE Active(k))
  BY <1>3 DEF Active
<1>6. RequestsInv'
  <2> SUFFICES ASSUME NEW k \in Requests, Active(k)'
               PROVE  /\ request'[k].lease \in Registered'
                      /\ request'[k].stage = "reading" => request'[k].reserved = NoReservation
    BY DEF RequestsInv
  <2>1. CASE k = r
    <3>1. request'[k] = q /\ q.lease = l /\ lease'[l].phase \in {"live", "retired"}
      BY <1>2, <1>3, <1>5, <2>1
    <3> QED
      BY <3>1 DEF Registered
  <2>2. CASE k # r
    <3>1. Active(k) /\ request'[k] = request[k] /\ request[k].lease \in Leases
          /\ lease[request[k].lease].phase \in {"live", "retired"}
      BY <1>3, <1>5, <2>2, Known
    <3>2. lease'[request[k].lease].phase \in {"live", "retired"}
      BY <1>2, <3>1
    <3> QED
      BY <1>1, <3>1, <3>2 DEF RequestsInv, Registered
  <2> QED
    BY <2>1, <2>2
<1>7. ASSUME NEW k \in Leases, k # l
      PROVE  LeaseInv(k)'
  <2>1. r \notin On(k)
    BY <1>7 DEF On
  <2>2. On(k)' = On(k)
    <3>1. ~(q.stage # "idle" /\ q.lease = k) /\ On(k) \ {r} = On(k)
      BY <1>7, <2>1
    <3>2. On(k)' = IF q.stage # "idle" /\ q.lease = k THEN On(k) \union {r} ELSE On(k) \ {r}
      BY <1>1, OneRow
    <3> QED
      BY <3>1, <3>2
  <2>3. \A m \in On(k) : request'[m].reserved.cost = request[m].reserved.cost
    BY <1>3, <2>1 DEF On
  <2> QED
    BY <1>1, <1>2, <1>7, <2>2, <2>3, SameLease
<1>8. LeaseInv(l)'
  <2>1. (r \in On(l) <=> Active(r)) /\ (r \in On(l)' <=> q.stage # "idle")
    BY <1>3, <1>5 DEF On
  <2> DEFINE before == IF Active(r) THEN request[r].reserved.cost ELSE 0
             after == IF q.stage # "idle" THEN q.reserved.cost ELSE 0
  <2>2. OutOn(l)' + before = OutOn(l) + after /\ OutOn(l)' \in Nat
    <3>1. /\ OutOn(l)' + (IF r \in On(l) THEN request[r].reserved.cost ELSE 0)
                = OutOn(l) + (IF r \in On(l)' THEN q.reserved.cost ELSE 0)
          /\ OutOn(l)' \in Nat
      BY <1>1, OneRow
    <3> QED
      BY <2>1, <3>1
  <2>3. before \in Nat /\ after \in Nat /\ OutOn(l) \in Nat
    <3>1. q.reserved.cost \in Nat
      BY DEF RequestRows, Amounts
    <3> QED
      BY <1>1, <3>1, Known, OnIsFinite
  <2>4. /\ SettlementOf(lease[l]) = billed[l] + OutOn(l)
        /\ billed[l] \in Nat /\ SettlementOf(g) \in Int
    <3>1. g.left.cost \in Nat /\ g.unabsorbed \in Nat /\ Caps.cost \in Nat
      BY GatewayAssumption DEF Grants, Amounts
    <3> QED
      BY <1>1, <3>1, Known DEF LeaseInv, SettlementOf
  <2>5. SettlementOf(g) + billed[l] + before = SettlementOf(lease[l]) + n + after
    <3>1. before = HeldBy(request[r]) /\ after = HeldBy(q)
      BY DEF HeldBy, Active
    <3> QED
      BY <3>1
  <2> HIDE DEF before, after
  <2>6. SettlementOf(g) = n + OutOn(l)'
    <3> DEFINE told == SettlementOf(g)
               was == SettlementOf(lease[l])
               bill == billed[l]
               out == OutOn(l)
    <3>1. PICK next : next = OutOn(l)'
      OBVIOUS
    <3>2. /\ told \in Int /\ bill \in Nat /\ out \in Nat /\ next \in Nat
          /\ before \in Nat /\ after \in Nat /\ was = bill + out
          /\ next + before = out + after /\ told + bill + before = was + n + after
      BY <2>2, <2>3, <2>4, <2>5, <3>1
    <3> HIDE DEF told, was, bill, out
    <3>3. told = n + next
      BY <3>2
    <3> QED
      BY <3>1, <3>3 DEF told
  <2>7. lease'[l] = g /\ billed'[l] = n
    BY <1>2
  <2> QED
    BY <2>6, <2>7, NewGrantFacts DEF LeaseInv, SettlementOf
<1> QED
  BY <1>4, <1>6, <1>7, <1>8 DEF GatewayInv

-----------------------------------------------------------------------------
(* The steps of the gateway, and the steps of the account they are *)

LEMMA Put ==
    ASSUME NEW D, NEW f, NEW h, f = [k \in D |-> f[k]], h = [k \in D |-> h[k]],
           NEW l \in D, NEW x, \A k \in D : h[k] = IF k = l THEN x ELSE f[k]
    PROVE  h = [f EXCEPT ![l] = x]
  OBVIOUS

\* The account sees the phase, the overruns and the settlement of a grant.
LEMMA AccountOfGrant ==
    ASSUME TypeOK, NEW l \in Leases, NEW g \in Grants, lease' = [lease EXCEPT ![l] = g]
    PROVE  /\ [k \in Leases |-> AccountPhase(lease'[k])]
                = [[k \in Leases |-> AccountPhase(lease[k])] EXCEPT ![l] = AccountPhase(g)]
           /\ [k \in Leases |-> lease'[k].over]
                = [[k \in Leases |-> lease[k].over] EXCEPT ![l] = g.over]
           /\ [k \in Leases |-> lease'[k].frozen]
                = [[k \in Leases |-> lease[k].frozen] EXCEPT ![l] = g.frozen]
<1>1. \A k \in Leases : lease'[k] = IF k = l THEN g ELSE lease[k]
  BY DEF TypeOK
<1>2. PICK p, q, e, f, s, t :
        /\ p = [k \in Leases |-> AccountPhase(lease[k])]
        /\ q = [k \in Leases |-> AccountPhase(lease'[k])]
        /\ e = [k \in Leases |-> lease[k].over] /\ f = [k \in Leases |-> lease'[k].over]
        /\ s = [k \in Leases |-> lease[k].frozen] /\ t = [k \in Leases |-> lease'[k].frozen]
  OBVIOUS
<1>3. /\ \A k \in Leases : q[k] = IF k = l THEN AccountPhase(g) ELSE p[k]
      /\ \A k \in Leases : f[k] = IF k = l THEN g.over ELSE e[k]
      /\ \A k \in Leases : t[k] = IF k = l THEN g.frozen ELSE s[k]
  BY <1>1, <1>2
<1>4. /\ p = [k \in Leases |-> p[k]] /\ q = [k \in Leases |-> q[k]]
      /\ e = [k \in Leases |-> e[k]] /\ f = [k \in Leases |-> f[k]]
      /\ s = [k \in Leases |-> s[k]] /\ t = [k \in Leases |-> t[k]]
  BY <1>2
<1>5. q = [p EXCEPT ![l] = AccountPhase(g)]
  BY <1>3, <1>4, Put
<1>6. f = [e EXCEPT ![l] = g.over]
  BY <1>3, <1>4, Put
<1>7. t = [s EXCEPT ![l] = g.frozen]
  BY <1>3, <1>4, Put
<1> QED
  BY <1>2, <1>5, <1>6, <1>7

\* What one grant becomes, when its overruns stay: a step of its account, or none.
LEMMA AccountSteps ==
    ASSUME TypeOK, NEW l \in Leases, NEW g \in Grants, lease' = [lease EXCEPT ![l] = g],
           UNCHANGED billed, g.over = lease[l].over,
           LET old == lease[l] IN
           \/ AccountPhase(g) = AccountPhase(old) /\ g.frozen = old.frozen
           \/ AccountPhase(old) = "none" /\ AccountPhase(g) = "open" /\ g.frozen = old.frozen
           \/ AccountPhase(old) = "open" /\ AccountPhase(g) = "closing" /\ g.frozen = old.frozen
           \/ AccountPhase(old) = "closing" /\ AccountPhase(g) = "final" /\ g.frozen = billed[l]
           \/ /\ AccountPhase(old) \in {"closing", "final"}
              /\ AccountPhase(g) = "lost" /\ g.frozen = NoSettlement
    PROVE  [Account!AccountNext]_(Account!accountVars)
<1> DEFINE old == lease[l]
           phases == [k \in Leases |-> AccountPhase(lease[k])]
           excesses == [k \in Leases |-> lease[k].over]
           statements == [k \in Leases |-> lease[k].frozen]
<1>1. /\ [k \in Leases |-> AccountPhase(lease'[k])] = [phases EXCEPT ![l] = AccountPhase(g)]
      /\ [k \in Leases |-> lease'[k].over] = [excesses EXCEPT ![l] = g.over]
      /\ [k \in Leases |-> lease'[k].frozen] = [statements EXCEPT ![l] = g.frozen]
  BY AccountOfGrant
<1>2. /\ phases[l] = AccountPhase(old) /\ excesses[l] = old.over /\ statements[l] = old.frozen
      /\ [excesses EXCEPT ![l] = g.over] = excesses
      /\ g.frozen = old.frozen => [statements EXCEPT ![l] = g.frozen] = statements
      /\ AccountPhase(g) = AccountPhase(old) => [phases EXCEPT ![l] = AccountPhase(g)] = phases
  OBVIOUS
<1>3. CASE AccountPhase(g) = AccountPhase(old) /\ g.frozen = old.frozen
  <2>1. UNCHANGED Account!accountVars
    BY <1>1, <1>2, <1>3 DEF Account!accountVars
  <2> QED
    BY <2>1
<1>4. CASE AccountPhase(old) = "none" /\ AccountPhase(g) = "open" /\ g.frozen = old.frozen
  <2>1. Account!OpenAccount(l)
    BY <1>1, <1>2, <1>4 DEF Account!OpenAccount, Account!Move
  <2> QED
    BY <2>1 DEF Account!AccountNext
<1>5. CASE AccountPhase(old) = "open" /\ AccountPhase(g) = "closing" /\ g.frozen = old.frozen
  <2>1. Account!CloseAccount(l)
    BY <1>1, <1>2, <1>5 DEF Account!CloseAccount, Account!Move
  <2> QED
    BY <2>1 DEF Account!AccountNext
<1>6. CASE AccountPhase(old) = "closing" /\ AccountPhase(g) = "final" /\ g.frozen = billed[l]
  <2>1. Account!SettleAccount(l)
    BY <1>1, <1>2, <1>6 DEF Account!SettleAccount, Account!Move
  <2> QED
    BY <2>1 DEF Account!AccountNext
<1>7. CASE /\ AccountPhase(old) \in {"closing", "final"}
           /\ AccountPhase(g) = "lost" /\ g.frozen = NoSettlement
  <2>1. Account!ForgetAccount(l)
    BY <1>1, <1>2, <1>7 DEF Account!ForgetAccount, Account!Move, Account!NoStatement, NoSettlement
  <2> QED
    BY <2>1 DEF Account!AccountNext
<1> QED
  BY <1>3, <1>4, <1>5, <1>6, <1>7

\* What every step is shown to do.
Sound == GatewayInv' /\ [Account!AccountNext]_(Account!accountVars)

LEMMA PhasesOfAccount ==
    ASSUME NEW g \in Grants
    PROVE  /\ g.phase = "none" => AccountPhase(g) = "none"
           /\ g.phase = "live" => AccountPhase(g) = "open"
           /\ g.phase = "gone" => AccountPhase(g) = "lost"
           /\ g.phase = "retired" =>
                AccountPhase(g) = IF g.frozen = NoSettlement THEN "closing" ELSE "final"
<1>1. g.phase \in {"none", "live", "retired", "gone"}
  BY DEF Grants
<1> QED
  BY <1>1 DEF AccountPhase

\* Steps that leave the requests alone leave them rows.
LEMMA SameRequests ==
    ASSUME TypeOK, UNCHANGED request
    PROVE  /\ request' \in [Requests -> RequestRows]
           /\ \A r \in Requests :
                /\ request'[r].lease = request[r].lease
                /\ request'[r].reserved = request[r].reserved
                /\ request'[r].stage = "idle" <=> request[r].stage = "idle"
                /\ request'[r].stage = "reading" => request[r].stage = "reading"
  BY DEF TypeOK

\* No request runs on a lease the registry does not hold.
LEMMA NothingOnOthers ==
    ASSUME GatewayInv, NEW l \in Leases, lease[l].phase \notin {"live", "retired"}
    PROVE  On(l) = {}
<1>1. ASSUME NEW r \in Requests, Active(r), request[r].lease = l
      PROVE  FALSE
  BY <1>1, Known
<1> QED
  BY <1>1 DEF On

LEMMA IssueIsSound == ASSUME GatewayInv, NEW l \in Leases, Issue(l) PROVE Sound
<1>1. /\ lease[l] = NoGrant /\ billed[l] = 0 /\ On(l) = {}
      /\ lease' = [lease EXCEPT ![l] = NewGrant] /\ UNCHANGED <<request, draining, billed>>
  BY Known, NothingOnOthers DEF Issue, LeaseInv
<1>2. OutOn(l) = 0
  BY <1>1, TotalOfNone, OutOnIsTotal
<1>3. TypeOK /\ draining' \subseteq Leases
  BY <1>1, Known DEF TypeOK
<1>4. SettlementOf(NewGrant) = billed[l] + OutOn(l)
  BY <1>1, <1>2, NewGrantFacts
<1>5. GatewayInv'
  <2>1. /\ NewGrant.unabsorbed <= NewGrant.over /\ NewGrant.phase = "live"
        /\ NewGrant.frozen = NoSettlement /\ NewGrant \in Grants /\ UNCHANGED billed
    BY <1>1, NewGrantFacts
  <2> HIDE DEF NewGrant
  <2> QED
    BY <1>1, <1>3, <1>4, <2>1, GrantStep, SameRequests
<1>6. AccountPhase(NoGrant) = "none" /\ AccountPhase(NewGrant) = "open"
  BY NewGrantFacts, PhasesOfAccount
<1>7. [Account!AccountNext]_(Account!accountVars)
  BY <1>1, <1>3, <1>6, AccountSteps, NewGrantFacts
<1> QED
  BY <1>5, <1>7 DEF Sound

LEMMA ExpireIsSound == ASSUME GatewayInv, NEW l \in Leases, Expire(l) PROVE Sound
<1> DEFINE g == Retired(lease[l])
<1>1. /\ lease[l].phase = "live" /\ lease[l].frozen = NoSettlement
      /\ lease' = [lease EXCEPT ![l] = g] /\ UNCHANGED <<request, draining, billed>>
  <2>1. lease[l].frozen = NoSettlement
    BY Known DEF Expire, LeaseInv
  <2> QED
    BY <2>1 DEF Expire
<1>2. TypeOK /\ draining' \subseteq Leases /\ lease[l] \in Grants
  BY <1>1, Known DEF TypeOK
<1>3. /\ g \in Grants /\ g.phase = "retired" /\ g.frozen = NoSettlement
      /\ g.over = lease[l].over /\ g.unabsorbed = lease[l].unabsorbed
      /\ SettlementOf(g) = SettlementOf(lease[l])
  BY <1>1, <1>2, RetiredFacts
<1> HIDE DEF g
<1>4. g.unabsorbed <= g.over /\ SettlementOf(g) = billed[l] + OutOn(l)
  BY <1>1, <1>3, Known DEF LeaseInv
<1>5. GatewayInv'
  BY <1>1, <1>2, <1>3, <1>4, GrantStep, SameRequests
<1>6. AccountPhase(lease[l]) = "open" /\ AccountPhase(g) = "closing"
  BY <1>1, <1>2, <1>3, PhasesOfAccount
<1>7. [Account!AccountNext]_(Account!accountVars)
  BY <1>1, <1>2, <1>3, <1>6, AccountSteps
<1> QED
  BY <1>5, <1>7 DEF Sound

LEMMA ForgetIsSound == ASSUME GatewayInv, NEW l \in Leases, Forget(l) PROVE Sound
<1> DEFINE g == Gone(lease[l])
<1>1. /\ lease[l].phase = "retired" /\ On(l) = {}
      /\ lease' = [lease EXCEPT ![l] = g] /\ UNCHANGED <<request, draining, billed>>
  BY DEF Forget
<1>2. TypeOK /\ draining' \subseteq Leases /\ lease[l] \in Grants /\ lease[l].over \in Nat
  BY <1>1, Known DEF TypeOK
<1>3. /\ g \in Grants /\ g.phase = "gone" /\ g.frozen = NoSettlement
      /\ g.over = lease[l].over /\ g.unabsorbed = 0
  BY <1>1, <1>2, GoneFacts
<1> HIDE DEF g
<1>4. GatewayInv'
  <2>1. g.unabsorbed <= g.over /\ UNCHANGED billed
    BY <1>1, <1>2, <1>3
  <2> QED
    BY <1>1, <1>2, <1>3, <2>1, GrantStep, SameRequests
<1>5. AccountPhase(lease[l]) \in {"closing", "final"} /\ AccountPhase(g) = "lost"
  BY <1>1, <1>2, <1>3, PhasesOfAccount
<1>6. [Account!AccountNext]_(Account!accountVars)
  BY <1>1, <1>2, <1>3, <1>5, AccountSteps
<1> QED
  BY <1>4, <1>6 DEF Sound

\* A step of the requests alone is none of the account.
LEMMA NoStepOfAccount ==
    ASSUME UNCHANGED <<lease, billed>>
    PROVE  [Account!AccountNext]_(Account!accountVars)
<1>1. UNCHANGED Account!accountVars
  BY DEF Account!accountVars
<1> QED
  BY <1>1

\* A step that rewrites one request, and no grant.
LEMMA OneRequestIsSound ==
    ASSUME GatewayInv, NEW r \in Requests, NEW q \in RequestRows,
           request' = [request EXCEPT ![r] = q], UNCHANGED <<lease, draining, billed>>,
           NEW l \in Leases, q.stage # "idle" => q.lease = l, Active(r) => request[r].lease = l,
           q.stage = "reading" => q.reserved = NoReservation,
           lease[l].phase \in {"live", "retired"}, lease[l].frozen = NoSettlement,
           HeldBy(request[r]) = HeldBy(q)
    PROVE  Sound
<1> DEFINE g == lease[l]
           n == billed[l]
<1>1. /\ g \in Grants /\ n \in Nat /\ g.unabsorbed <= g.over
      /\ lease' = [lease EXCEPT ![l] = g] /\ billed' = [billed EXCEPT ![l] = n]
      /\ UNCHANGED draining
  BY Known DEF TypeOK, LeaseInv
<1>2. SettlementOf(g) + billed[l] + HeldBy(request[r])
        = SettlementOf(lease[l]) + n + HeldBy(q)
  OBVIOUS
<1>3. GatewayInv'
  <2>1. Rewrites(r, q, l, g, n)
    BY <1>1, <1>2 DEF Rewrites
  <2> QED
    BY <1>1, <2>1, RequestStep
<1> QED
  BY <1>3, NoStepOfAccount DEF Sound

LEMMA AcceptIsSound ==
    ASSUME GatewayInv, NEW r \in Requests, NEW l \in Leases, Accept(r, l)
    PROVE  Sound
<1> DEFINE q == [NoRequest EXCEPT !.stage = "reading", !.lease = l]
<1>1. /\ ~Active(r) /\ request' = [request EXCEPT ![r] = q] /\ UNCHANGED <<lease, draining, billed>>
      /\ lease[l].phase = "live" /\ lease[l].frozen = NoSettlement
  <2>1. lease[l].frozen = NoSettlement
    BY Known DEF Accept, LeaseInv
  <2> QED
    BY <2>1 DEF Accept
<1>2. /\ q \in RequestRows /\ q.stage = "reading" /\ q.lease = l
      /\ q.reserved = NoReservation /\ q.reserved.cost = 0
  BY DEF NoRequest, NoReservation, RequestRows, Amounts
<1> HIDE DEF q
<1> QED
  BY <1>1, <1>2, OneRequestIsSound DEF HeldBy, Active

LEMMA RefuseIsSound == ASSUME GatewayInv, NEW r \in Requests, Refuse(r) PROVE Sound
<1> DEFINE q == NoRequest
           l == request[r].lease
<1>1. /\ Active(r) /\ request' = [request EXCEPT ![r] = q] /\ UNCHANGED <<lease, draining, billed>>
      /\ request[r].stage = "reading"
  BY DEF Refuse, Active
<1>2. l \in Leases /\ lease[l].phase \in {"live", "retired"} /\ lease[l].frozen = NoSettlement
  BY <1>1, Known
<1>3. q \in RequestRows /\ q.stage = "idle"
  BY DEF NoRequest, NoReservation, RequestRows, Amounts
<1>4. request[r].reserved.cost = 0
  BY <1>1, Known DEF RequestsInv, NoReservation
<1> HIDE DEF q
<1> QED
  BY <1>1, <1>2, <1>3, <1>4, OneRequestIsSound DEF HeldBy, Active

LEMMA StartIsSound == ASSUME GatewayInv, NEW r \in Requests, Start(r) PROVE Sound
<1> DEFINE old == request[r]
           q == [old EXCEPT !.stage = "running"]
           l == old.lease
<1>1. /\ Active(r) /\ request' = [request EXCEPT ![r] = q] /\ UNCHANGED <<lease, draining, billed>>
  BY DEF Start, Active
<1>2. l \in Leases /\ lease[l].phase \in {"live", "retired"} /\ lease[l].frozen = NoSettlement
      /\ old \in RequestRows
  BY <1>1, Known
<1>3. /\ q \in RequestRows /\ q.stage = "running" /\ q.lease = l
      /\ q.reserved.cost = old.reserved.cost
  BY <1>2 DEF RequestRows
<1> HIDE DEF q
<1> QED
  BY <1>1, <1>2, <1>3, OneRequestIsSound DEF HeldBy, Active

LEMMA CancelIsSound == ASSUME GatewayInv, NEW r \in Requests, Cancel(r) PROVE Sound
<1> DEFINE old == request[r]
           q == [old EXCEPT !.cancelled = TRUE]
           l == old.lease
<1>1. /\ Active(r) /\ request' = [request EXCEPT ![r] = q] /\ UNCHANGED <<lease, draining, billed>>
  BY DEF Cancel, Active
<1>2. l \in Leases /\ lease[l].phase \in {"live", "retired"} /\ lease[l].frozen = NoSettlement
      /\ old \in RequestRows /\ old.stage # "idle"
  BY <1>1, Known DEF Active
<1>3. /\ q \in RequestRows /\ q.stage = old.stage /\ q.lease = l
      /\ q.reserved = old.reserved
  BY <1>2 DEF RequestRows
<1>4. q.stage = "reading" => q.reserved = NoReservation
  BY <1>1, <1>3, Known DEF RequestsInv
<1> HIDE DEF q
<1> QED
  BY <1>1, <1>2, <1>3, <1>4, OneRequestIsSound DEF HeldBy, Active

LEMMA ReserveIsSound == ASSUME GatewayInv, NEW r \in Requests, Reserve(r) PROVE Sound
<1> DEFINE old == request[r]
           l == old.lease
           g == lease[l]
<1>1. PICK size \in BodySizes, want \in Wanted :
        /\ Fits(g, size, want)
        /\ lease' = [lease EXCEPT ![l] = Reserved(@, Reservation(g, size, want))]
        /\ request' = [request EXCEPT ![r].stage = "starting",
                                      ![r].reserved = Reservation(g, size, want)]
  BY Zenon DEF Reserve
<1>2. Active(r) /\ old.stage = "reading" /\ UNCHANGED <<draining, billed>>
  BY DEF Reserve, Active
<1>3. /\ l \in Leases /\ g.phase \in {"live", "retired"} /\ g.frozen = NoSettlement
      /\ old \in RequestRows /\ g \in Grants /\ billed[l] \in Nat
      /\ old.reserved.cost = 0 /\ g.unabsorbed <= g.over /\ SettlementOf(g) \in Int
  <2>1. old.reserved.cost = 0
    BY <1>2, Known DEF RequestsInv, NoReservation
  <2>2. l \in Leases /\ g.phase \in {"live", "retired"} /\ g.frozen = NoSettlement
    BY <1>2, Known
  <2> QED
    BY <2>1, <2>2, Known DEF LeaseInv
<1> DEFINE v == Reservation(g, size, want)
           h == Reserved(g, v)
           q == [old EXCEPT !.stage = "starting", !.reserved = v]
<1>4. /\ v \in Amounts /\ h \in Grants /\ h.phase = g.phase /\ h.frozen = g.frozen
      /\ h.over = g.over /\ h.unabsorbed = g.unabsorbed
      /\ SettlementOf(h) = SettlementOf(g) + v.cost
  BY <1>1, <1>3, ReservedFacts
<1>5. /\ lease' = [lease EXCEPT ![l] = h] /\ request' = [request EXCEPT ![r] = q]
      /\ billed' = [billed EXCEPT ![l] = billed[l]]
  <2>1. lease' = [lease EXCEPT ![l] = h]
    BY <1>1
  <2>2. request' = [request EXCEPT ![r] = q]
    BY <1>1
  <2>3. billed' = [billed EXCEPT ![l] = billed[l]]
    BY <1>2, Known DEF TypeOK
  <2> QED
    BY <2>1, <2>2, <2>3
<1> HIDE DEF v, h
<1>6. /\ q \in RequestRows /\ q.stage = "starting" /\ q.lease = l /\ q.reserved = v
      /\ v.cost \in Nat
  BY <1>3, <1>4 DEF RequestRows, Amounts
<1> HIDE DEF q
<1>7. SettlementOf(h) + billed[l] + HeldBy(request[r])
        = SettlementOf(g) + billed[l] + HeldBy(q)
  <2> DEFINE a == SettlementOf(h)
             b == SettlementOf(g)
             c == v.cost
             d == billed[l]
  <2>1. a = b + c /\ b \in Int /\ c \in Nat /\ d \in Nat
    BY <1>3, <1>4, <1>6
  <2> HIDE DEF a, b, c, d
  <2>2. a + d + 0 = b + d + c
    BY <2>1
  <2>3. HeldBy(request[r]) = 0 /\ HeldBy(q) = c
    BY <1>2, <1>3, <1>6 DEF c, HeldBy
  <2> QED
    BY <2>2, <2>3 DEF a, b, d
<1>8. GatewayInv'
  <2>1. h.unabsorbed <= h.over /\ h.frozen = NoSettlement /\ UNCHANGED draining
    BY <1>2, <1>3, <1>4
  <2>2. Rewrites(r, q, l, h, billed[l])
    BY <1>2, <1>3, <1>4, <1>5, <1>6, <1>7, <2>1 DEF Rewrites
  <2> QED
    BY <1>3, <1>4, <1>6, <2>2, RequestStep
<1>9. [Account!AccountNext]_(Account!accountVars)
  <2>1. AccountPhase(h) = AccountPhase(g)
    BY <1>3, <1>4 DEF AccountPhase
  <2> QED
    BY <1>2, <1>3, <1>4, <1>5, <2>1, AccountSteps, Known
<1> QED
  BY <1>8, <1>9 DEF Sound

\* What was billed stays within the cap and the overruns: the rest of the cap is
\* left, or reserved.
LEMMA BillIsCovered ==
    ASSUME NEW g \in Grants, NEW bill \in Nat, NEW out \in Nat,
           g.unabsorbed <= g.over, SettlementOf(g) = bill + out
    PROVE  bill <= Caps.cost + g.over
<1>1. g.left.cost \in Nat /\ Caps.cost \in Nat /\ g.over \in Nat /\ g.unabsorbed \in Nat
  BY GatewayAssumption DEF Grants, Amounts
<1>2. Caps.cost - g.left.cost + g.unabsorbed = bill + out
  BY DEF SettlementOf
<1> QED
  BY <1>1, <1>2

LEMMA EndIsSound ==
    ASSUME GatewayInv, NEW r \in Requests, request[r].stage \in {"starting", "running"},
           NEW usage \in Amounts, NEW refund \in BOOLEAN, NEW reported \in BOOLEAN,
           refund \/ usage.cost >= request[r].reserved.cost, End(r, usage, refund, reported)
    PROVE  Sound
<1>a. Active(r) /\ request[r].lease \in Leases
  <2>1. Active(r)
    BY DEF Active
  <2> QED
    BY <2>1, Known
<1>b. PICK l \in Leases : l = request[r].lease
  BY <1>a
<1> DEFINE old == request[r]
           g == lease[l]
           v == old.reserved
           c == Charged(g, v, usage, refund, reported)
           n == billed[l] + usage.cost
<1>1. /\ Active(r) /\ old.lease = l
      /\ g.phase \in {"live", "retired"} /\ g.frozen = NoSettlement
  BY <1>a, <1>b, Known
<1>2. /\ g \in Grants /\ v \in Amounts /\ v.cost \in Nat /\ usage.cost \in Nat
      /\ billed[l] \in Nat /\ g.unabsorbed <= g.over /\ SettlementOf(g) \in Int
      /\ TypeOK
  BY <1>1, Known DEF LeaseInv, Amounts
<1>3. /\ lease' = [lease EXCEPT ![l] = c] /\ billed' = [billed EXCEPT ![l] = n]
      /\ request' = [request EXCEPT ![r] = NoRequest] /\ UNCHANGED draining
  BY <1>b DEF End
<1>4. /\ c \in Grants /\ c.phase = g.phase /\ c.frozen = g.frozen
      /\ g.over <= c.over /\ c.unabsorbed <= c.over
      /\ SettlementOf(c) = SettlementOf(g) + usage.cost - v.cost
  <2> HIDE DEF g, v, c
  <2>1. refund \/ usage.cost >= v.cost
    BY DEF v
  <2> QED
    BY <1>2, <2>1, ChargedFacts DEF c
<1> HIDE DEF c
<1>5. /\ NoRequest \in RequestRows /\ NoRequest.stage = "idle" /\ HeldBy(NoRequest) = 0
      /\ HeldBy(old) = v.cost
  <2>1. NoRequest \in RequestRows /\ NoRequest.stage = "idle"
    BY DEF NoRequest, NoReservation, RequestRows, Amounts
  <2> QED
    BY <2>1 DEF HeldBy
<1>6. n \in Nat /\ billed[l] <= n
  BY <1>2
<1>7. SettlementOf(c) + billed[l] + HeldBy(old) = SettlementOf(g) + n + HeldBy(NoRequest)
  <2> DEFINE a == SettlementOf(c)
             b == SettlementOf(g)
             d == v.cost
             e == usage.cost
             m == billed[l]
  <2>1. a = b + e - d /\ b \in Int /\ d \in Nat /\ e \in Nat /\ m \in Nat
    BY <1>2, <1>4
  <2> HIDE DEF a, b, d, e, m
  <2>2. a + m + d = b + (m + e) + 0
    BY <2>1
  <2> QED
    BY <1>5, <2>2 DEF a, b, d, e, m
<1>8. GatewayInv'
  <2>1. Rewrites(r, NoRequest, l, c, n)
    <3> HIDE DEF n
    <3> QED
      BY <1>1, <1>3, <1>4, <1>5, <1>7 DEF Rewrites
  <2> HIDE DEF n
  <2> QED
    BY <1>1, <1>4, <1>5, <1>6, <2>1, RequestStep
<1>9. Account!Bill(l)
  <2> DEFINE phases == [k \in Leases |-> AccountPhase(lease[k])]
             excesses == [k \in Leases |-> lease[k].over]
             statements == [k \in Leases |-> lease[k].frozen]
  <2>1. /\ [k \in Leases |-> AccountPhase(lease'[k])] = [phases EXCEPT ![l] = AccountPhase(c)]
        /\ [k \in Leases |-> lease'[k].over] = [excesses EXCEPT ![l] = c.over]
        /\ [k \in Leases |-> lease'[k].frozen] = [statements EXCEPT ![l] = c.frozen]
    BY <1>1, <1>2, <1>3, <1>4, AccountOfGrant
  <2>2. AccountPhase(c) = AccountPhase(g) /\ AccountPhase(g) \in {"open", "closing"}
    <3>1. AccountPhase(c) = AccountPhase(g)
      BY <1>4 DEF AccountPhase
    <3> QED
      BY <1>1, <1>2, <3>1, PhasesOfAccount
  <2>3. /\ phases[l] \in {"open", "closing"} /\ [phases EXCEPT ![l] = AccountPhase(c)] = phases
        /\ [statements EXCEPT ![l] = c.frozen] = statements
    BY <1>1, <1>4, <2>2
  <2>4. lease'[l] = c /\ billed'[l] = n /\ \A k \in Leases \ {l} : billed'[k] = billed[k]
    <3> HIDE DEF n
    <3> QED
      BY <1>1, <1>2, <1>3 DEF TypeOK
  <2>5. n <= Caps.cost + c.over
    <3>1. LeaseInv(l)'
      BY <1>1, <1>8 DEF GatewayInv
    <3>2. PICK out : out = OutOn(l)'
      OBVIOUS
    <3>3. SettlementOf(c) = n + out
      BY <1>1, <1>4, <2>4, <3>1, <3>2 DEF LeaseInv, SettlementOf
    <3>4. out \in Nat
      BY <1>1, <1>2, <1>3, <1>5, <3>2, OneRow
    <3> HIDE DEF n
    <3> QED
      BY <1>4, <1>6, <3>3, <3>4, BillIsCovered
  <2>6. /\ [excesses EXCEPT ![l] = c.over][l] = c.over /\ excesses[l] = g.over
        /\ \A k \in Leases \ {l} : [excesses EXCEPT ![l] = c.over][k] = excesses[k]
    BY <1>1
  <2> HIDE DEF n, phases, excesses, statements
  <2> QED
    BY <1>1, <1>2, <1>4, <1>6, <2>1, <2>3, <2>4, <2>5, <2>6
    DEF Account!Bill, phases, excesses, statements
<1>10. [Account!AccountNext]_(Account!accountVars)
  BY <1>1, <1>9 DEF Account!AccountNext
<1> QED
  BY <1>8, <1>10 DEF Sound

LEMMA CompleteIsSound == ASSUME GatewayInv, NEW r \in Requests, Complete(r) PROVE Sound
<1>1. request[r].stage \in {"starting", "running"} /\ request[r].reserved \in Amounts
  BY Known DEF Complete
<1>2. CASE \E usage \in Reports : End(r, usage, TRUE, TRUE)
  <2>1. PICK usage \in Amounts : End(r, usage, TRUE, TRUE)
    BY <1>2, GatewayAssumption
  <2> QED
    BY <1>1, <2>1, EndIsSound
<1>3. CASE End(r, request[r].reserved, TRUE, FALSE)
  BY <1>1, <1>3, EndIsSound
<1> QED
  BY <1>2, <1>3 DEF Complete

LEMMA FailIsSound == ASSUME GatewayInv, NEW r \in Requests, Fail(r) PROVE Sound
<1> DEFINE v == request[r].reserved
<1>1. request[r].stage \in {"starting", "running"} /\ v \in Amounts /\ v.cost \in Nat
  BY Known DEF Fail
<1>2. CASE End(r, v, FALSE, FALSE)
  <2>1. v.cost >= v.cost
    BY <1>1
  <2> QED
    BY <1>1, <1>2, <2>1, EndIsSound
<1>3. CASE \E usage \in Reports : End(r, AtLeast(v, usage), FALSE, TRUE)
  <2>1. PICK usage \in Amounts : End(r, AtLeast(v, usage), FALSE, TRUE)
    BY <1>3, GatewayAssumption
  <2>2. AtLeast(v, usage) \in Amounts /\ AtLeast(v, usage).cost >= v.cost
    <3> HIDE DEF v
    <3>1. AtLeast(v, usage).cost = Greater(v.cost, usage.cost)
      BY DEF AtLeast, Parts
    <3>2. /\ v.input \in Nat /\ v.output \in Nat
          /\ usage.input \in Nat /\ usage.output \in Nat /\ usage.cost \in Nat
      BY <1>1 DEF Amounts
    <3> QED
      BY <1>1, <3>1, <3>2 DEF AtLeast, Amounts, Parts, Greater
  <2> DEFINE more == AtLeast(v, usage)
  <2> HIDE DEF more
  <2>3. more \in Amounts /\ more.cost >= v.cost /\ End(r, more, FALSE, TRUE)
    BY <2>1, <2>2 DEF more
  <2> QED
    BY <1>1, <2>3, EndIsSound
<1> QED
  BY <1>2, <1>3 DEF Fail

LEMMA RevokeStartsIsSound == ASSUME GatewayInv, NEW l \in Leases, RevokeStarts(l) PROVE Sound
<1> DEFINE old == lease[l]
           g == Retired(old)
<1>1. /\ old.phase \in {"live", "retired"} /\ lease' = [lease EXCEPT ![l] = g]
      /\ request' = CancelledOn(l) /\ draining' = draining \union {l} /\ UNCHANGED billed
  BY DEF RevokeStarts, Registered
<1>2. TypeOK /\ draining' \subseteq Leases /\ old \in Grants
  BY <1>1, Known DEF TypeOK
<1>3. /\ g \in Grants /\ g.phase = "retired" /\ g.frozen = old.frozen
      /\ g.over = old.over /\ g.unabsorbed = old.unabsorbed
      /\ SettlementOf(g) = SettlementOf(old)
  BY <1>1, <1>2, RetiredFacts
<1>4. /\ request' \in [Requests -> RequestRows]
      /\ \A r \in Requests :
            /\ request'[r].lease = request[r].lease
            /\ request'[r].reserved = request[r].reserved
            /\ request'[r].stage = request[r].stage
  <2>1. ASSUME NEW r \in Requests
        PROVE  /\ request'[r] \in RequestRows /\ request'[r].lease = request[r].lease
               /\ request'[r].reserved = request[r].reserved
               /\ request'[r].stage = request[r].stage
    <3>1. request[r] \in RequestRows
      BY Known
    <3>2. request'[r] = [request[r] EXCEPT !.cancelled = TRUE] \/ request'[r] = request[r]
      BY <1>1 DEF CancelledOn
    <3> QED
      BY <3>1, <3>2 DEF RequestRows
  <2>2. request' = [r \in Requests |-> request'[r]]
    BY <1>1 DEF CancelledOn
  <2> QED
    BY <2>1, <2>2
<1>5. /\ old.frozen # NoSettlement => On(l) = {}
      /\ g.unabsorbed <= g.over /\ SettlementOf(g) = billed[l] + OutOn(l)
  BY <1>1, <1>3, Known DEF LeaseInv
<1> HIDE DEF g
<1>6. GatewayInv'
  <2>1. g.frozen # NoSettlement => On(l) = {}
    BY <1>3, <1>5
  <2> HIDE DEF old
  <2> QED
    BY <1>1, <1>2, <1>3, <1>4, <1>5, <2>1, GrantStep
<1>7. [Account!AccountNext]_(Account!accountVars)
  <2>1. \/ AccountPhase(old) = "open" /\ AccountPhase(g) = "closing"
        \/ AccountPhase(old) = AccountPhase(g)
    <3>1. CASE old.phase = "retired"
      BY <1>2, <1>3, <3>1, PhasesOfAccount
    <3>2. CASE old.phase = "live"
      <4>1. old.frozen = NoSettlement
        BY <3>2, Known DEF LeaseInv
      <4> QED
        BY <1>2, <1>3, <3>2, <4>1, PhasesOfAccount
    <3> QED
      BY <1>1, <3>1, <3>2
  <2> QED
    BY <1>1, <1>2, <1>3, <2>1, AccountSteps
<1> QED
  BY <1>6, <1>7 DEF Sound

\* With no request left on the lease the settlement is what was billed.
LEMMA RevokeAnswersIsSound == ASSUME GatewayInv, NEW l \in Leases, RevokeAnswers(l) PROVE Sound
<1> DEFINE old == lease[l]
           g == Frozen(old)
<1>1. /\ On(l) = {} /\ lease' = [lease EXCEPT ![l] = g]
      /\ draining' = draining \ {l} /\ UNCHANGED <<request, billed>>
  BY DEF RevokeAnswers, Drained
<1>2. TypeOK /\ draining' \subseteq Leases /\ old \in Grants /\ billed[l] \in Nat /\ LeaseInv(l)
  BY <1>1, Known DEF TypeOK
<1>3. OutOn(l) = 0
  BY <1>1, TotalOfNone, OutOnIsTotal
<1>4. old.phase \in {"live", "retired"} => SettlementOf(old) = billed[l]
  BY <1>2, <1>3 DEF LeaseInv
<1>5. /\ g \in Grants /\ g.phase = old.phase
      /\ g.over = old.over /\ g.unabsorbed = old.unabsorbed
      /\ SettlementOf(g) = SettlementOf(old)
      /\ old.phase = "retired" /\ old.frozen = NoSettlement => g.frozen = SettlementOf(old)
      /\ ~(old.phase = "retired" /\ old.frozen = NoSettlement) => g = old
  BY <1>2, <1>4, FrozenFacts
<1> HIDE DEF g
<1>6. GatewayInv'
  <2>1. /\ g.phase = "none" => g = NoGrant /\ billed[l] = 0
        /\ g.frozen # NoSettlement => g.phase = "retired"
    BY <1>2, <1>5 DEF LeaseInv
  <2>2. g.unabsorbed <= g.over
    BY <1>2, <1>5 DEF LeaseInv
  <2>3. g.phase \in {"live", "retired"} => SettlementOf(g) = billed[l] + OutOn(l)
    BY <1>2, <1>5 DEF LeaseInv
  <2>4. UNCHANGED request /\ UNCHANGED billed
    BY <1>1
  <2> HIDE DEF old
  <2> QED
    BY <1>1, <1>2, <1>5, <2>1, <2>2, <2>3, <2>4, GrantStep, SameRequests
<1>7. [Account!AccountNext]_(Account!accountVars)
  <2>1. CASE old.phase = "retired" /\ old.frozen = NoSettlement
    <3>1. g.frozen = billed[l] /\ g.frozen # NoSettlement
      BY <1>2, <1>4, <1>5, <2>1 DEF NoSettlement
    <3>2. AccountPhase(old) = "closing" /\ AccountPhase(g) = "final"
      BY <1>2, <1>5, <2>1, <3>1, PhasesOfAccount
    <3> QED
      BY <1>1, <1>2, <1>5, <3>1, <3>2, AccountSteps
  <2>2. CASE ~(old.phase = "retired" /\ old.frozen = NoSettlement)
    <3>1. g = old
      BY <1>5, <2>2
    <3> QED
      BY <1>1, <1>2, <3>1, AccountSteps
  <2> QED
    BY <2>1, <2>2
<1> QED
  BY <1>6, <1>7 DEF Sound

LEMMA RestartIsSound == ASSUME GatewayInv, GatewayRestarts PROVE Sound
<1>1. /\ lease' = [l \in Leases |-> Gone(lease[l])] /\ draining' = {} /\ UNCHANGED billed
      /\ request' = [r \in Requests |-> NoRequest]
  BY DEF GatewayRestarts
<1>2. NoRequest \in RequestRows /\ NoRequest.stage = "idle"
  BY DEF NoRequest, NoReservation, RequestRows, Amounts
<1>3. /\ \A r \in Requests : ~Active(r)'
      /\ \A l \in Leases : On(l)' = {}
  BY <1>1, <1>2 DEF Active, On
<1>4. ASSUME NEW l \in Leases
      PROVE  /\ lease'[l] = Gone(lease[l]) /\ lease'[l] \in Grants
             /\ lease'[l].over = lease[l].over /\ lease'[l].frozen = NoSettlement
             /\ lease[l].phase = "none" => lease'[l] = lease[l]
             /\ lease[l].phase # "none" => lease'[l].phase = "gone" /\ lease'[l].unabsorbed = 0
  <2>1. lease'[l] = Gone(lease[l]) /\ lease[l] \in Grants
    BY <1>1, Known
  <2>2. lease[l].phase = "none" => lease[l].frozen = NoSettlement
    BY Known DEF LeaseInv
  <2> QED
    BY <2>1, <2>2, GoneFacts
<1>5. TypeOK'
  <2>1. lease' \in [Leases -> Grants]
    BY <1>1, <1>4
  <2>2. request' \in [Requests -> RequestRows]
    BY <1>1, <1>2
  <2> QED
    BY <1>1, <2>1, <2>2, Known DEF TypeOK
<1>6. ASSUME NEW l \in Leases
      PROVE  LeaseInv(l)'
  <2>1. LeaseInv(l) /\ lease[l].over \in Nat
    BY Known
  <2>2. CASE lease[l].phase = "none"
    <3>1. lease'[l] = lease[l] /\ lease'[l].phase = "none"
      BY <1>4, <2>2
    <3> QED
      BY <1>1, <1>4, <2>1, <2>2, <3>1 DEF LeaseInv
  <2>3. CASE lease[l].phase # "none"
    <3>1. /\ lease'[l].phase = "gone" /\ lease'[l].unabsorbed = 0
          /\ lease'[l].over = lease[l].over /\ lease'[l].frozen = NoSettlement
      BY <1>4, <2>3
    <3>2. lease'[l].unabsorbed <= lease'[l].over
      BY <2>1, <3>1
    <3> QED
      BY <3>1, <3>2 DEF LeaseInv
  <2> QED
    BY <2>2, <2>3
<1>7. GatewayInv'
  BY <1>3, <1>5, <1>6 DEF GatewayInv, RequestsInv
<1>8. Account!LoseAll
  <2>1. \A l \in Leases :
            AccountPhase(lease'[l]) = IF AccountPhase(lease[l]) = "none" THEN "none" ELSE "lost"
    <3> SUFFICES ASSUME NEW l \in Leases
                 PROVE  AccountPhase(lease'[l])
                            = IF AccountPhase(lease[l]) = "none" THEN "none" ELSE "lost"
      OBVIOUS
    <3>1. lease[l] \in Grants /\ lease'[l] \in Grants
      BY <1>4, Known
    <3>2. CASE lease[l].phase = "none"
      BY <1>4, <3>1, <3>2, PhasesOfAccount
    <3>3. CASE lease[l].phase # "none"
      <4>1. AccountPhase(lease[l]) # "none"
        BY <3>1, <3>3 DEF AccountPhase, Grants
      <4> QED
        BY <1>4, <3>1, <3>3, <4>1, PhasesOfAccount
    <3> QED
      BY <3>2, <3>3
  <2>2. \A l \in Leases : [k \in Leases |-> AccountPhase(lease[k])][l] = AccountPhase(lease[l])
    OBVIOUS
  <2>3. [l \in Leases |-> AccountPhase(lease'[l])]
          = [l \in Leases |-> IF [k \in Leases |-> AccountPhase(lease[k])][l] = "none"
                              THEN "none" ELSE "lost"]
    BY <2>1
  <2>4. [l \in Leases |-> lease'[l].frozen] = [l \in Leases |-> Account!NoStatement]
    BY <1>4 DEF Account!NoStatement, NoSettlement
  <2>5. [l \in Leases |-> lease'[l].over] = [l \in Leases |-> lease[l].over]
    BY <1>4
  <2> QED
    BY <1>1, <2>3, <2>4, <2>5 DEF Account!LoseAll
<1>9. [Account!AccountNext]_(Account!accountVars)
  BY <1>8 DEF Account!AccountNext
<1> QED
  BY <1>7, <1>9 DEF Sound

-----------------------------------------------------------------------------
(* The theorems *)

LEMMA InitIsSound == Init => GatewayInv /\ Account!AccountInit
<1> SUFFICES ASSUME Init PROVE GatewayInv /\ Account!AccountInit
  OBVIOUS
<1>1. /\ \A l \in Leases : lease[l] = NoGrant /\ billed[l] = 0
      /\ \A r \in Requests : request[r] = NoRequest
      /\ lease = [l \in Leases |-> NoGrant] /\ billed = [l \in Leases |-> 0]
      /\ request = [r \in Requests |-> NoRequest] /\ draining = {}
  BY DEF Init
<1>2. NoRequest \in RequestRows /\ NoRequest.stage = "idle"
  BY DEF NoRequest, NoReservation, RequestRows, Amounts
<1>3. TypeOK
  BY <1>1, <1>2, NewGrantFacts DEF TypeOK
<1>4. RequestsInv
  BY <1>1, <1>2 DEF RequestsInv, Active
<1>5. ASSUME NEW l \in Leases
      PROVE  LeaseInv(l)
  BY <1>1, NewGrantFacts DEF LeaseInv
<1>6. AccountPhase(NoGrant) = "none"
  BY NewGrantFacts, PhasesOfAccount
<1>7. Account!AccountInit
  <2>1. [l \in Leases |-> AccountPhase(lease[l])] = [l \in Leases |-> "none"]
    BY <1>1, <1>6
  <2>2. [l \in Leases |-> lease[l].over] = [l \in Leases |-> 0]
    BY <1>1, NewGrantFacts
  <2>3. [l \in Leases |-> lease[l].frozen] = [l \in Leases |-> Account!NoStatement]
    BY <1>1, NewGrantFacts DEF Account!NoStatement, NoSettlement
  <2> QED
    BY <1>1, <2>1, <2>2, <2>3 DEF Account!AccountInit
<1> QED
  BY <1>3, <1>4, <1>5, <1>7 DEF GatewayInv

LEMMA NextIsSound == GatewayInv /\ [Next]_vars => Sound
<1> SUFFICES ASSUME GatewayInv, [Next]_vars PROVE Sound
  OBVIOUS
<1>1. ASSUME NEW l \in Leases, Issue(l) \/ Expire(l) \/ Forget(l)
      PROVE  Sound
  BY <1>1, IssueIsSound, ExpireIsSound, ForgetIsSound
<1>2. ASSUME NEW l \in Leases, RevokeStarts(l) \/ RevokeAnswers(l)
      PROVE  Sound
  BY <1>2, RevokeStartsIsSound, RevokeAnswersIsSound
<1>3. ASSUME NEW r \in Requests, NEW l \in Leases, Accept(r, l)
      PROVE  Sound
  BY <1>3, AcceptIsSound
<1>4. ASSUME NEW r \in Requests, Reserve(r) \/ Start(r) \/ Cancel(r)
      PROVE  Sound
  BY <1>4, ReserveIsSound, StartIsSound, CancelIsSound
<1>5. ASSUME NEW r \in Requests, Ends(r)
      PROVE  Sound
  BY <1>5, RefuseIsSound, CompleteIsSound, FailIsSound DEF Ends
<1>6. CASE GatewayRestarts
  BY <1>6, RestartIsSound
<1>7. CASE UNCHANGED vars
  <2>1. UNCHANGED <<lease, request, draining, billed>>
    BY <1>7 DEF vars
  <2>2. TypeOK' /\ RequestsInv'
    BY <2>1, Known DEF TypeOK, RequestsInv, Active, Registered
  <2>3. ASSUME NEW l \in Leases
        PROVE  LeaseInv(l)'
    <3>1. On(l)' = On(l)
      BY <2>1 DEF On, Active
    <3> QED
      BY <2>1, <3>1, Known, SameLease
  <2> QED
    BY <2>1, <2>2, <2>3, NoStepOfAccount DEF Sound, GatewayInv
<1> QED
  BY <1>1, <1>2, <1>3, <1>4, <1>5, <1>6, <1>7 DEF Next

LEMMA GatewayInvHolds == Spec => []GatewayInv
<1>1. Init => GatewayInv
  BY InitIsSound
<1>2. GatewayInv /\ [Next]_vars => GatewayInv'
  BY NextIsSound DEF Sound
<1> QED
  BY <1>1, <1>2, PTL DEF Spec

\* For every choice of prices, sizes and reports: what a lease is settled at is
\* what its requests were charged, plus the reservations still out, through
\* refunds, overruns, failures and a budget that runs dry (reserveBudget, charge,
\* settlementOf).
THEOREM SettlementIsTheBill == Spec => []BudgetBalances
<1>1. GatewayInv => BudgetBalances
  BY DEF GatewayInv, LeaseInv, BudgetBalances
<1> QED
  BY <1>1, GatewayInvHolds, PTL

\* Nothing runs on a lease whose settlement was told, however many requests it
\* had when it was revoked (revokeAndDrain, freezeSettlement).
THEOREM ToldIsQuiet == Spec => []FrozenIsQuiet
<1>1. GatewayInv => FrozenIsQuiet
  BY DEF GatewayInv, LeaseInv, FrozenIsQuiet
<1> QED
  BY <1>1, GatewayInvHolds, PTL

\* Every step of the gateway is one step of the lease account, or none: it opens
\* and closes an account once, states it once, and bills nothing afterwards and
\* nothing beyond the cap and the overruns (LeaseRegistry, budget.ts, revokeAndDrain).
THEOREM GatewayKeepsAccounts == Spec => ImplementsAccount
<1>1. Init => Account!AccountInit
  BY InitIsSound
<1>2. GatewayInv /\ [Next]_vars => [Account!AccountNext]_(Account!accountVars)
  BY NextIsSound DEF Sound
<1> QED
  BY <1>1, <1>2, GatewayInvHolds, PTL DEF Spec, ImplementsAccount, Account!AccountSpec

=============================================================================
