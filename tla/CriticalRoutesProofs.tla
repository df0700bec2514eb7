------------------------ MODULE CriticalRoutesProofs ------------------------
(***************************************************************************)
(* Proofs about the route monitor, for every road network, every placement *)
(* of the facilities and every set of disruptions.  The cached snapshot is *)
(* always one that build could have made of the loaded states at the time  *)
(* it is stamped with, and what the theorems say holds of each of those.   *)
(***************************************************************************)
EXTENDS CriticalRoutes, TLAPS, FiniteSetTheorems, WellFoundedInduction

\* A path has the ends it was asked for.
LEMMA PathEnds ==
  ASSUME NEW edges, NEW o, NEW d, NEW p \in Paths(edges, o, d)
  PROVE  p \in Between(o, d) /\ p[1] = o /\ p[Len(p)] = d /\ Len(p) - 1 \in Nat
<1>1. Cardinality(Nodes) \in Nat
  BY CriticalRoutesAssumption, FS_CardinalityType
<1>2. PICK k \in 0..(Cardinality(Nodes) - 2) :
        \E via \in [1..k -> Nodes \ {o, d}] : p = <<o>> \o via \o <<d>>
  BY DEF Paths, Between
<1>3. PICK via \in [1..k -> Nodes \ {o, d}] : p = <<o>> \o via \o <<d>>
  BY <1>2
<1>4. k \in Nat /\ via \in Seq(Nodes \ {o, d}) /\ Len(via) = k
  BY <1>1, <1>3
<1>5. Len(p) = k + 2 /\ p[1] = o /\ p[k + 2] = d
  BY <1>3, <1>4
<1> QED
  BY <1>5 DEF Paths

\* A path that uses no closed road is a path over the open ones.
LEMMA OpenPath ==
  ASSUME NEW edges, NEW closed, NEW o, NEW d, NEW p \in Paths(edges, o, d),
         OnRoute(p, closed) = {}
  PROVE  p \in Paths(edges \ closed, o, d)
<1> SUFFICES ASSUME NEW i \in 1..(Len(p) - 1)
             PROVE  Hop(edges \ closed, p[i], p[i + 1]) # {}
  BY DEF Paths
<1>1. PICK e \in Hop(edges, p[i], p[i + 1]) : TRUE
  BY DEF Paths
<1>2. {e.source, e.target} = {p[i], p[i + 1]}
  BY <1>1 DEF Hop
<1>3. e \notin closed
  BY <1>2 DEF OnRoute, SegmentsOf
<1> QED
  BY <1>1, <1>3 DEF Hop

\* What a closure lies on it is near, so a closed road on a path matches it.
LEMMA ClosedIsMatched ==
  ASSUME NEW edges, NEW active \in SUBSET Disruptions, NEW p,
         Matched(p, active) = {}
  PROVE  OnRoute(p, Closed(edges, active)) = {}
  BY CriticalRoutesAssumption DEF Matched, OnRoute, Closed
-----------------------------------------------------------------------------
(***************************************************************************)
(* Travel times.  A sum is a recursive function, so what it returns is by  *)
(* induction: a set of the places where it fails has a least element.      *)
(***************************************************************************)
LEMMA LeastElement ==
  ASSUME NEW S \in SUBSET Nat, S # {}
  PROVE  \E x \in S : \A y \in S : x <= y
<1>1. PICK x \in S : \A y \in S : ~(<<y, x>> \in OpToRel(<, Nat))
  BY NatLessThanWellFounded, WFMin
<1>2. \A y \in S : ~(y < x)
  BY <1>1 DEF OpToRel
<1> QED
  BY <1>2

LEMMA MinOf ==
  ASSUME NEW S \in SUBSET Nat, S # {}
  PROVE  Min(S) \in S /\ \A y \in S : Min(S) <= y
BY LeastElement DEF Min

SumsTo(u, times, m) ==
  /\ u \in [0..m -> Nat]
  /\ u[0] = 0
  /\ \A i \in 1..m : u[i] = u[i - 1] + times[i]

LEMMA SumsExist ==
  ASSUME NEW n \in Nat, NEW times \in [1..n -> Nat]
  PROVE  \E u : SumsTo(u, times, n)
<1> DEFINE Without == {m \in 0..n : ~ \E u : SumsTo(u, times, m)}
<1>1. ASSUME Without # {} PROVE FALSE
  <2>0. Without \in SUBSET Nat
    OBVIOUS
  <2>1. PICK m \in Without : \A k \in Without : m <= k
    <3> HIDE DEF Without
    <3> QED BY <1>1, <2>0, LeastElement
  <2>2. SumsTo([i \in 0..0 |-> 0], times, 0)
    BY DEF SumsTo
  <2>3. m \in 1..n /\ m - 1 \in 0..n
    BY <2>1, <2>2
  <2>4. m - 1 \notin Without
    <3> HIDE DEF Without
    <3> QED BY <2>1, <2>3
  <2>5. PICK u : SumsTo(u, times, m - 1)
    BY <2>3, <2>4
  <2> DEFINE w == [i \in 0..m |-> IF i = m THEN u[m - 1] + times[m] ELSE u[i]]
  <2>6. SumsTo(w, times, m)
    BY <2>3, <2>5 DEF SumsTo
  <2>7. \E v : SumsTo(v, times, m)
    <3> HIDE DEF w
    <3> QED BY <2>6
  <2> QED
    BY <2>1, <2>7
<1>2. n \notin Without
  BY <1>1
<1> QED
  BY <1>2

\* Two functions that satisfy the recursion agree: look at the least place
\* where they do not.
LEMMA TotalIs ==
  ASSUME NEW n \in Nat, NEW times \in [1..n -> Nat]
  PROVE  \E u : SumsTo(u, times, n) /\ Total(times) = u[n]
<1> DEFINE Rec(u) == u = [i \in 0..n |-> IF i = 0 THEN 0 ELSE u[i - 1] + times[i]]
           upTo == CHOOSE u : Rec(u)
<1>1. Len(times) = n
  OBVIOUS
<1>2. PICK u : SumsTo(u, times, n)
  BY SumsExist
<1>3. Rec(u)
  BY <1>2 DEF SumsTo
<1>4. Rec(upTo)
  <2> HIDE DEF Rec
  <2> QED BY <1>3
<1>5. Total(times) = upTo[n]
  BY <1>1 DEF Total
<1> HIDE DEF upTo
<1> DEFINE Differ == {m \in 0..n : upTo[m] # u[m]}
<1>6. ASSUME Differ # {} PROVE FALSE
  <2>0. Differ \in SUBSET Nat
    OBVIOUS
  <2>1. PICK m \in Differ : \A k \in Differ : m <= k
    <3> HIDE DEF Differ
    <3> QED BY <1>6, <2>0, LeastElement
  <2>2. upTo[0] = 0
    BY <1>4
  <2>3. m \in 1..n /\ m - 1 \in 0..n
    BY <2>1, <2>2, <1>2 DEF SumsTo
  <2>4. m - 1 \notin Differ
    <3> HIDE DEF Differ
    <3> QED BY <2>1, <2>3
  <2>5. upTo[m - 1] = u[m - 1]
    BY <2>3, <2>4
  <2>6. upTo[m] = upTo[m - 1] + times[m]
    BY <1>4, <2>3
  <2>7. u[m] = u[m - 1] + times[m]
    BY <1>2, <2>3 DEF SumsTo
  <2> QED
    BY <2>1, <2>5, <2>6, <2>7
<1>7. upTo[n] = u[n]
  BY <1>6
<1> QED
  BY <1>2, <1>5, <1>7

LEMMA TotalType ==
  ASSUME NEW n \in Nat, NEW times \in [1..n -> Nat]
  PROVE  Total(times) \in Nat
BY TotalIs DEF SumsTo

LEMMA HopTimeType ==
  ASSUME NEW edges \in SUBSET Roads, NEW u, NEW v, Hop(edges, u, v) # {}
  PROVE  HopTime(edges, u, v) \in Nat
<1> DEFINE times == {e.time : e \in Hop(edges, u, v)}
<1>1. times \in SUBSET Nat /\ times # {}
  BY CriticalRoutesAssumption DEF Hop
<1>2. Min(times) \in times
  <2> HIDE DEF times
  <2> QED BY <1>1, MinOf
<1> QED
  BY <1>1, <1>2 DEF HopTime

LEMMA TimeType ==
  ASSUME NEW edges \in SUBSET Roads, NEW o, NEW d, NEW p \in Paths(edges, o, d)
  PROVE  Time(edges, p) \in Nat
<1>1. Len(p) - 1 \in Nat
  BY PathEnds
<1>2. \A i \in 1..(Len(p) - 1) : HopTime(edges, p[i], p[i + 1]) \in Nat
  BY HopTimeType DEF Paths
<1> QED
  BY <1>1, <1>2, TotalType DEF Time

\* A closure lies on a segment, so where a road is open none is closed.
LEMMA OpenHop ==
  ASSUME NEW edges, NEW active, NEW u, NEW v,
         Hop(edges \ Closed(edges, active), u, v) # {}
  PROVE  Hop(edges \ Closed(edges, active), u, v) = Hop(edges, u, v)
<1> DEFINE closed == Closed(edges, active)
<1>1. PICK x \in Hop(edges \ closed, u, v) : TRUE
  OBVIOUS
<1>2. ASSUME NEW e \in Hop(edges, u, v) PROVE e \notin closed
  <2>1. {e.source, e.target} = {x.source, x.target}
    BY <1>1, <1>2 DEF Hop
  <2>2. x \in edges /\ x \notin closed
    BY <1>1 DEF Hop
  <2> QED
    BY <2>1, <2>2 DEF Closed
<1> QED
  BY <1>2 DEF Hop

\* A way over the open roads takes the same time whether the others are there
\* or not.
LEMMA OpenTime ==
  ASSUME NEW edges, NEW active, NEW o, NEW d,
         NEW p \in Paths(edges \ Closed(edges, active), o, d)
  PROVE  /\ p \in Paths(edges, o, d)
         /\ Time(edges \ Closed(edges, active), p) = Time(edges, p)
<1> DEFINE open == edges \ Closed(edges, active)
<1>1. \A i \in 1..(Len(p) - 1) :
        Hop(open, p[i], p[i + 1]) = Hop(edges, p[i], p[i + 1])
  <2> TAKE i \in 1..(Len(p) - 1)
  <2>1. Hop(open, p[i], p[i + 1]) # {}
    BY DEF Paths
  <2>2. \A u, v : Hop(open, u, v) # {} => Hop(open, u, v) = Hop(edges, u, v)
    BY OpenHop
  <2> QED
    BY <2>1, <2>2
<1>2. p \in Paths(edges, o, d)
  BY <1>1 DEF Paths
<1>3. \A i \in 1..(Len(p) - 1) :
        HopTime(open, p[i], p[i + 1]) = HopTime(edges, p[i], p[i + 1])
  BY <1>1 DEF HopTime
<1>4. [i \in 1..(Len(p) - 1) |-> HopTime(open, p[i], p[i + 1])] =
      [i \in 1..(Len(p) - 1) |-> HopTime(edges, p[i], p[i + 1])]
  BY <1>3
<1> QED
  BY <1>2, <1>4 DEF Time
-----------------------------------------------------------------------------
LEMMA AppliedKind ==
  ASSUME NEW edges, NEW state, NEW t, NEW p, NEW o \in Applied(edges, state, t, p)
  PROVE  o.state \in OutcomeKinds
  BY DEF Applied, Outcome, OutcomeKinds

\* Without a usable traffic state no route is altered.
LEMMA AppliedUnusable ==
  ASSUME NEW edges, NEW state, NEW t, NEW p, NEW o \in Applied(edges, state, t, p),
         ~Usable(state)
  PROVE  o.state = "baseline" /\ o.effective \in {<<>>, p}
<1>1. Active(state, t) = {}
  BY DEF Active
<1>2. Matched(p, Active(state, t)) = {}
  BY <1>1 DEF Matched
<1>3. OnRoute(p, Closed(edges, Active(state, t))) = {}
  BY <1>1 DEF OnRoute, Closed
<1> QED
  BY <1>2, <1>3 DEF Applied, Outcome
-----------------------------------------------------------------------------
(***************************************************************************)
(* What a closure does to a fastest way b from o to d: an outcome is       *)
(* blocked when no way is open, and otherwise a fastest of the open ways,  *)
(* b itself unless it is rerouted.  Both the monitor and the route         *)
(* endpoint give such outcomes.                                            *)
(***************************************************************************)
LeastDelay(edges, active, o, d, b, out) ==
  LET open == edges \ Closed(edges, active)
      ways == Paths(open, o, d)
  IN  /\ out.state = "blocked" <=> ways = {}
      /\ out.state # "blocked" => out.effective \in Fastest(open, ways)
      /\ out.state \in {"baseline", "disrupted"} => out.effective = b

\* A fastest way that is open is a fastest of the open ways.
LEMMA FastestStays ==
  ASSUME NEW edges, NEW active, NEW o, NEW d, NEW b \in Fastest(edges, Paths(edges, o, d)),
         OnRoute(b, Closed(edges, active)) = {}
  PROVE  b \in Fastest(edges \ Closed(edges, active),
                       Paths(edges \ Closed(edges, active), o, d))
<1> DEFINE open == edges \ Closed(edges, active)
<1>1. b \in Paths(edges, o, d) /\ \A q \in Paths(edges, o, d) : Time(edges, b) <= Time(edges, q)
  BY DEF Fastest
<1>2. b \in Paths(open, o, d)
  BY <1>1, OpenPath
<1>3. \A q \in Paths(open, o, d) :
        q \in Paths(edges, o, d) /\ Time(open, q) = Time(edges, q)
  BY OpenTime
<1> QED
  BY <1>1, <1>2, <1>3 DEF Fastest

LEMMA OutcomeLeast ==
  ASSUME NEW edges, NEW active \in SUBSET Disruptions, NEW o, NEW d,
         NEW b \in Fastest(edges, Paths(edges, o, d)), NEW out,
         LET closed == Closed(edges, active)
             open   == edges \ closed
             ways   == Paths(open, o, d)
         IN  \/ OnRoute(b, closed) = {} /\ out.state \in {"baseline", "disrupted"} /\ out.effective = b
             \/ OnRoute(b, closed) # {} /\ ways = {} /\ out.state = "blocked"
             \/ /\ OnRoute(b, closed) # {} /\ ways # {} /\ out.state = "rerouted"
                /\ out.effective \in Fastest(open, ways)
  PROVE  LeastDelay(edges, active, o, d, b, out)
<1> DEFINE closed == Closed(edges, active)
           open   == edges \ closed
           ways   == Paths(open, o, d)
<1>1. CASE OnRoute(b, closed) = {} /\ out.state \in {"baseline", "disrupted"} /\ out.effective = b
  <2>1. b \in Fastest(open, ways)
    BY <1>1, FastestStays
  <2>2. b \in ways
    BY <2>1 DEF Fastest
  <2> QED
    BY <1>1, <2>1, <2>2 DEF LeastDelay
<1>2. CASE OnRoute(b, closed) # {} /\ ways = {} /\ out.state = "blocked"
  BY <1>2 DEF LeastDelay
<1>3. CASE /\ OnRoute(b, closed) # {} /\ ways # {} /\ out.state = "rerouted"
           /\ out.effective \in Fastest(open, ways)
  BY <1>3 DEF LeastDelay
<1> QED
  BY <1>1, <1>2, <1>3

\* _apply_disruptions
LEMMA AppliedLeast ==
  ASSUME NEW edges, NEW state, NEW t, NEW a, NEW d,
         NEW b \in Fastest(edges, Paths(edges, a, d)),
         state.succeeded, state.disruptions \subseteq Disruptions,
         NEW out \in Applied(edges, state, t, b)
  PROVE  LeastDelay(edges, Active(state, t), a, d, b, out)
<1> DEFINE active == Active(state, t)
           closed == Closed(edges, active)
           open   == edges \ closed
           ways   == Paths(open, a, d)
<1>1. active \in SUBSET Disruptions
  BY DEF Active
<1>2. b[1] = a /\ b[Len(b)] = d
  BY PathEnds DEF Fastest
<1>3. Matched(b, active) = {} => OnRoute(b, closed) = {}
  BY <1>1, ClosedIsMatched
<1>4. \/ OnRoute(b, closed) = {} /\ out.state \in {"baseline", "disrupted"} /\ out.effective = b
      \/ OnRoute(b, closed) # {} /\ ways = {} /\ out.state = "blocked"
      \/ /\ OnRoute(b, closed) # {} /\ ways # {} /\ out.state = "rerouted"
         /\ out.effective \in Fastest(open, ways)
  <2>1. CASE OnRoute(b, closed) = {}
    BY <1>2, <2>1 DEF Applied, Outcome
  <2>2. CASE OnRoute(b, closed) # {} /\ ways = {}
    <3>1. out.state = "blocked"
      BY <1>2, <1>3, <2>2 DEF Applied, Avoiding, Outcome
    <3> QED
      BY <2>2, <3>1
  <2>3. CASE OnRoute(b, closed) # {} /\ ways # {}
    <3>1. out \in {Outcome("rerouted", q) : q \in Fastest(open, ways)}
      BY <1>2, <1>3, <2>3 DEF Applied, Avoiding
    <3> QED
      BY <2>3, <3>1 DEF Outcome
  <2> QED
    BY <2>1, <2>2, <2>3
<1> QED
  BY <1>1, <1>4, OutcomeLeast

\* The route endpoint
LEMMA AnswersLeast ==
  ASSUME NEW edges, NEW state, NEW t, NEW a, NEW d,
         state.disruptions \subseteq Disruptions,
         NEW out \in Answers(edges, state, t, a, d)
  PROVE  \E b \in Fastest(edges, Paths(edges, a, d)) :
           LeastDelay(edges, Active(state, t), a, d, b, out)
<1> DEFINE active == Active(state, t)
           closed == Closed(edges, active)
           open   == edges \ closed
           ways   == Paths(open, a, d)
           answer(p) ==
             CASE Matched(p, active) = {} -> {Outcome("baseline", p)}
               [] Matched(p, active) # {} /\ OnRoute(p, closed) = {} ->
                    {Outcome("disrupted", p)}
               [] OnRoute(p, closed) # {} /\ ways = {} -> {Outcome("blocked", <<>>)}
               [] OTHER -> {Outcome("rerouted", q) : q \in Fastest(open, ways)}
<1>1. active \in SUBSET Disruptions
  BY DEF Active
<1>2. PICK b \in Fastest(edges, Paths(edges, a, d)) : out \in answer(b)
  BY DEF Answers, OpenToRequest
<1>3. Matched(b, active) = {} => OnRoute(b, closed) = {}
  BY <1>1, ClosedIsMatched
<1>4. \/ OnRoute(b, closed) = {} /\ out.state \in {"baseline", "disrupted"} /\ out.effective = b
      \/ OnRoute(b, closed) # {} /\ ways = {} /\ out.state = "blocked"
      \/ /\ OnRoute(b, closed) # {} /\ ways # {} /\ out.state = "rerouted"
         /\ out.effective \in Fastest(open, ways)
  <2>1. CASE OnRoute(b, closed) = {}
    BY <1>2, <2>1 DEF Outcome
  <2>2. CASE OnRoute(b, closed) # {} /\ ways = {}
    <3>1. out.state = "blocked"
      BY <1>2, <1>3, <2>2 DEF Outcome
    <3> QED
      BY <2>2, <3>1
  <2>3. CASE OnRoute(b, closed) # {} /\ ways # {}
    <3>1. out \in {Outcome("rerouted", q) : q \in Fastest(open, ways)}
      BY <1>2, <1>3, <2>3
    <3> QED
      BY <2>3, <3>1 DEF Outcome
  <2> QED
    BY <2>1, <2>2, <2>3
<1> QED
  BY <1>1, <1>2, <1>4, OutcomeLeast

\* Two outcomes for the same ends are blocked together, or take the same time.
LEMMA SameDelay ==
  ASSUME NEW edges \in SUBSET Roads, NEW active, NEW o, NEW d,
         NEW b, NEW x, LeastDelay(edges, active, o, d, b, x),
         NEW c, NEW y, LeastDelay(edges, active, o, d, c, y)
  PROVE  /\ x.state = "blocked" <=> y.state = "blocked"
         /\ x.state # "blocked" => Time(edges, x.effective) = Time(edges, y.effective)
<1> DEFINE open == edges \ Closed(edges, active)
           ways == Paths(open, o, d)
<1>1. x.state = "blocked" <=> y.state = "blocked"
  BY DEF LeastDelay
<1>2. ASSUME x.state # "blocked"
      PROVE  Time(edges, x.effective) = Time(edges, y.effective)
  <2>1. x.effective \in Fastest(open, ways) /\ y.effective \in Fastest(open, ways)
    BY <1>1, <1>2 DEF LeastDelay
  <2>2. x.effective \in ways /\ y.effective \in ways
    BY <2>1 DEF Fastest
  <2>3. /\ Time(open, x.effective) <= Time(open, y.effective)
        /\ Time(open, y.effective) <= Time(open, x.effective)
    BY <2>1, <2>2 DEF Fastest
  <2>4. Time(open, x.effective) \in Nat /\ Time(open, y.effective) \in Nat
    BY <2>2, TimeType
  <2>5. /\ Time(open, x.effective) = Time(edges, x.effective)
        /\ Time(open, y.effective) = Time(edges, y.effective)
    BY <2>2, OpenTime
  <2> QED
    BY <2>3, <2>4, <2>5
<1> QED
  BY <1>1, <1>2
-----------------------------------------------------------------------------
\* The fields of a snapshot that build makes.
LEMMA BuiltShape ==
  ASSUME NEW ref, NEW state, NEW t, NEW m \in Built(ref, state, t)
  PROVE  /\ m.at = t
         /\ \A f \in DOMAIN m.routes :
              f \in Routed(ref) /\ m.routes[f] \in RoutesOf(ref, state, t, f)
         /\ Complete(ref) => /\ DOMAIN m.routes = Routed(ref)
                             /\ m.unsnapped = DOMAIN ref.node \ Snapped(ref)
                             /\ m.unreachable = Snapped(ref) \ Routed(ref)
<1>1. CASE ~Complete(ref)
  BY <1>1 DEF Built, Unavailable
<1>2. CASE Complete(ref)
  <2> DEFINE table == [f \in Routed(ref) |-> RoutesOf(ref, state, t, f)]
  <2>1. PICK found \in OneOfEach(table) :
          m = [at          |-> t,
               routes      |-> found,
               unsnapped   |-> DOMAIN ref.node \ Snapped(ref),
               unreachable |-> Snapped(ref) \ Routed(ref)]
    BY <1>2 DEF Built
  <2>2. DOMAIN found = Routed(ref) /\ \A f \in Routed(ref) : found[f] \in table[f]
    BY <2>1 DEF OneOfEach
  <2> QED
    BY <2>1, <2>2
<1> QED
  BY <1>1, <1>2

\* A route is a fastest way to the facility it names, with one of its outcomes.
LEMMA RouteShape ==
  ASSUME NEW ref, NEW state, NEW t, NEW f, NEW r \in RoutesOf(ref, state, t, f)
  PROVE  /\ r.path \in Fastest(ref.edges, Ways(ref, f))
         /\ r.destination \in Targets(ref, f)
         /\ ref.node[r.destination] = r.path[Len(r.path)]
         /\ \E o \in Applied(ref.edges, state, t, r.path) :
              r.state = o.state /\ r.effective = o.effective
<1>1. PICK p \in Fastest(ref.edges, Ways(ref, f)) :
        \E g \in {h \in Targets(ref, f) : ref.node[h] = p[Len(p)]},
           o \in Applied(ref.edges, state, t, p) :
          r = [destination |-> g, path |-> p, state |-> o.state, effective |-> o.effective]
  BY DEF RoutesOf
<1> QED
  BY <1>1

LEMMA RoutePath ==
  ASSUME NEW ref, NEW f, NEW p \in Fastest(ref.edges, Ways(ref, f))
  PROVE  /\ ref.node[f] \notin TargetNodes(ref, f)
         /\ p[1] = ref.node[f]
         /\ p \in Paths(ref.edges, ref.node[f], p[Len(p)])
         /\ p \in Fastest(ref.edges, Paths(ref.edges, p[1], p[Len(p)]))
<1>1. ref.node[f] \notin TargetNodes(ref, f)
  BY DEF Fastest, Ways
<1>2. PICK n \in TargetNodes(ref, f) : p \in Paths(ref.edges, ref.node[f], n)
  BY <1>1 DEF Fastest, Ways
<1>3. p[1] = ref.node[f] /\ p[Len(p)] = n
  BY <1>2, PathEnds
<1>4. Paths(ref.edges, ref.node[f], n) \subseteq Ways(ref, f)
  BY <1>1 DEF Ways
<1>5. p \in Fastest(ref.edges, Paths(ref.edges, ref.node[f], n))
  BY <1>2, <1>4 DEF Fastest
<1> QED
  BY <1>1, <1>2, <1>3, <1>5
-----------------------------------------------------------------------------
StatesOK ==
  /\ clock \in 0..MaxTime
  /\ reference \in References
  /\ traffic \in [succeeded : BOOLEAN, freshness : Freshnesses,
                  disruptions : SUBSET Disruptions]
  /\ monitor.at \in 0..clock

\* The cached snapshot is one that build could have made of the loaded states
\* at the time it is stamped with.
SnapshotOfLoaded == monitor \in Built(reference, traffic, monitor.at)

IInv == StatesOK /\ SnapshotOfLoaded

LEMMA InitIInv == Init => IInv
<1> SUFFICES ASSUME Init PROVE IInv
  OBVIOUS
<1>1. monitor.at = clock
  BY BuiltShape DEF Init
<1>2. StatesOK
  BY <1>1, CriticalRoutesAssumption DEF Init, StatesOK, NoTraffic, Freshnesses
<1>3. SnapshotOfLoaded
  BY <1>1 DEF Init, SnapshotOfLoaded
<1> QED
  BY <1>2, <1>3 DEF IInv

LEMMA NextIInv == IInv /\ [Next]_vars => IInv'
<1> SUFFICES ASSUME IInv, [Next]_vars PROVE IInv'
  OBVIOUS
<1> USE DEF IInv, StatesOK, SnapshotOfLoaded
<1>1. CASE Tick
  BY <1>1, CriticalRoutesAssumption DEF Tick
<1>2. CASE ReplaceReference
  <2>1. monitor'.at = clock
    BY <1>2, BuiltShape DEF ReplaceReference
  <2> QED
    BY <1>2, <2>1 DEF ReplaceReference
<1>3. CASE ReplaceTraffic
  <2>1. monitor'.at = clock
    BY <1>3, BuiltShape DEF ReplaceTraffic
  <2>2. traffic' \in [succeeded : BOOLEAN, freshness : Freshnesses,
                      disruptions : SUBSET Disruptions]
    <3>1. CASE traffic' \in Acquired
      <4>1. PICK fresh \in {"valid", "stale", "unknown"} :
              \E found \in SUBSET Disruptions :
                traffic' = [succeeded |-> TRUE, freshness |-> fresh,
                            disruptions |-> found]
        BY <3>1 DEF Acquired
      <4> QED
        BY <4>1 DEF Freshnesses
    <3>2. CASE traffic' = Kept
      BY <3>2 DEF Kept, Freshnesses
    <3> QED
      BY <1>3, <3>1, <3>2 DEF ReplaceTraffic
  <2> QED
    BY <1>3, <2>1, <2>2 DEF ReplaceTraffic
<1>4. CASE UNCHANGED vars
  BY <1>4 DEF vars
<1> QED
  BY <1>1, <1>2, <1>3, <1>4 DEF Next

LEMMA Invariance == Spec => []IInv
<1> QED
  BY InitIInv, NextIInv, PTL DEF Spec

\* A route of the cached snapshot, with the outcome it shows.
LEMMA MonitoredRoute ==
  ASSUME IInv, NEW f \in DOMAIN monitor.routes
  PROVE  LET found == monitor.routes[f] IN
         /\ f \in Routed(reference)
         /\ found.path \in Fastest(reference.edges, Ways(reference, f))
         /\ found.destination \in Targets(reference, f)
         /\ reference.node[found.destination] = found.path[Len(found.path)]
         /\ \E o \in Applied(reference.edges, traffic, monitor.at, found.path) :
              found.state = o.state /\ found.effective = o.effective
<1>1. f \in Routed(reference)
      /\ monitor.routes[f] \in RoutesOf(reference, traffic, monitor.at, f)
  BY BuiltShape DEF IInv, SnapshotOfLoaded
<1> QED
  BY <1>1, RouteShape

\* The ends of a monitored route, and what the closures do to it.
LEMMA MonitoredLeast ==
  ASSUME IInv, NEW f \in DOMAIN monitor.routes, traffic.succeeded
  PROVE  LET found == monitor.routes[f]
             b     == found.path
         IN  /\ reference.edges \in SUBSET Roads
             /\ b \in Fastest(reference.edges, Paths(reference.edges, b[1], b[Len(b)]))
             /\ LeastDelay(reference.edges, Active(traffic, monitor.at),
                           b[1], b[Len(b)], b, found)
             /\ found.state \in OutcomeKinds
<1> DEFINE found == monitor.routes[f]
           b == found.path
<1>1. PICK out \in Applied(reference.edges, traffic, monitor.at, b) :
        found.state = out.state /\ found.effective = out.effective
  BY MonitoredRoute
<1>2. b \in Fastest(reference.edges, Paths(reference.edges, b[1], b[Len(b)]))
  BY MonitoredRoute, RoutePath
<1>3. traffic.disruptions \subseteq Disruptions
  BY DEF IInv, StatesOK
<1>4. LeastDelay(reference.edges, Active(traffic, monitor.at), b[1], b[Len(b)], b, out)
  BY <1>1, <1>2, <1>3, AppliedLeast
<1>5. reference.edges \in SUBSET Roads
  BY CriticalRoutesAssumption DEF IInv, StatesOK
<1>6. found.state \in OutcomeKinds
  BY <1>1, AppliedKind
<1>7. LeastDelay(reference.edges, Active(traffic, monitor.at), b[1], b[Len(b)], b, found)
  BY <1>1, <1>4 DEF LeastDelay
<1> QED
  BY <1>2, <1>5, <1>6, <1>7
-----------------------------------------------------------------------------
(***************************************************************************)
(* The variables keep their types, and every monitored route is one of a   *)
(* facility of the loaded reference state.                                 *)
(***************************************************************************)
THEOREM TypeCorrect == Spec => []RoutesTypeOK
<1>1. IInv => RoutesTypeOK
  <2> SUFFICES ASSUME IInv PROVE RoutesTypeOK
    OBVIOUS
  <2>1. DOMAIN monitor.routes \subseteq DOMAIN reference.node
    BY MonitoredRoute DEF Routed, Snapped
  <2>2. \A f \in DOMAIN monitor.routes : monitor.routes[f].state \in OutcomeKinds
    BY MonitoredRoute, AppliedKind
  <2> QED
    BY <2>1, <2>2 DEF IInv, StatesOK, RoutesTypeOK
<1> QED
  BY <1>1, Invariance, PTL

(***************************************************************************)
(* A stale, unknown or never acquired traffic state alters no route.       *)
(***************************************************************************)
THEOREM StaleTrafficAltersNothing == Spec => []UnusableAltersNothing
<1>1. IInv => UnusableAltersNothing
  BY MonitoredRoute, AppliedUnusable DEF UnusableAltersNothing, Usable
<1> QED
  BY <1>1, Invariance, PTL

(***************************************************************************)
(* Every facility is monitored to its nearest facility of another category *)
(* or reported as off the network or unreachable, and for cause.           *)
(***************************************************************************)
THEOREM FacilitiesAccountedFor == Spec => []NearestOrReported
<1>1. IInv => NearestOrReported
  <2> SUFFICES ASSUME IInv, Complete(reference), NEW f \in DOMAIN reference.node
               PROVE
      LET node == reference.node
          others == {g \in DOMAIN node : Category[g] # Category[f] /\ node[g] # Far}
          ways(g) == Paths(reference.edges, node[f], node[g])
      IN  CASE f \in monitor.unsnapped -> node[f] = Far
            [] f \in monitor.unreachable ->
                 \/ \A g \in others : ways(g) = {}
                 \/ \E g \in others : node[g] = node[f]
            [] OTHER ->
                 LET found == monitor.routes[f] IN
                 /\ found.destination \in others
                 /\ found.path \in ways(found.destination)
                 /\ \A g \in others : \A p \in ways(g) :
                      Time(reference.edges, found.path) <= Time(reference.edges, p)
    BY DEF NearestOrReported
  <2> DEFINE others == Targets(reference, f)
             ways(g) == Paths(reference.edges, reference.node[f], reference.node[g])
  <2>1. others = {g \in DOMAIN reference.node :
                    Category[g] # Category[f] /\ reference.node[g] # Far}
    BY DEF Targets, Snapped
  <2>2. /\ DOMAIN monitor.routes = Routed(reference)
        /\ monitor.unsnapped = DOMAIN reference.node \ Snapped(reference)
        /\ monitor.unreachable = Snapped(reference) \ Routed(reference)
    BY BuiltShape DEF IInv, SnapshotOfLoaded
  <2>3. CASE f \in monitor.unsnapped
    BY <2>2, <2>3 DEF Snapped, Routed
  <2>4. CASE f \in monitor.unreachable
    <3>1. Ways(reference, f) = {}
      BY <2>2, <2>4 DEF Routed
    <3>2. \/ \A g \in others : ways(g) = {}
          \/ \E g \in others : reference.node[g] = reference.node[f]
      BY <3>1 DEF Ways, TargetNodes
    <3> QED
      BY <2>1, <2>2, <2>4, <3>2
  <2>5. CASE f \notin monitor.unsnapped /\ f \notin monitor.unreachable
    <3> DEFINE found == monitor.routes[f]
    <3>1. f \in DOMAIN monitor.routes
      BY <2>2, <2>5
    <3>2. /\ found.path \in Fastest(reference.edges, Ways(reference, f))
          /\ found.destination \in others
          /\ reference.node[found.destination] = found.path[Len(found.path)]
      BY <3>1, MonitoredRoute
    <3>3. found.path \in ways(found.destination)
      BY <3>2, RoutePath
    <3>4. \A g \in others : ways(g) \subseteq Ways(reference, f)
      <4>1. reference.node[f] \notin TargetNodes(reference, f)
        BY <3>2, RoutePath
      <4>2. Ways(reference, f) =
              UNION {Paths(reference.edges, reference.node[f], n) :
                       n \in TargetNodes(reference, f)}
        BY <4>1 DEF Ways
      <4>3. \A g \in others : reference.node[g] \in TargetNodes(reference, f)
        BY DEF TargetNodes
      <4> QED
        BY <4>2, <4>3
    <3>5. \A g \in others : \A p \in ways(g) :
            Time(reference.edges, found.path) <= Time(reference.edges, p)
      BY <3>2, <3>4 DEF Fastest
    <3> QED
      BY <2>1, <2>5, <3>2, <3>3, <3>5
  <2> QED
    BY <2>3, <2>4, <2>5
<1> QED
  BY <1>1, Invariance, PTL

(***************************************************************************)
(* A route is blocked exactly when every way uses a closed road, and the   *)
(* way it is said to take otherwise uses none.                             *)
(***************************************************************************)
THEOREM RoutesRespectClosures == Spec => []ClosuresRespected
<1>1. IInv => ClosuresRespected
  BY MonitoredLeast DEF ClosuresRespected, ClosedThen, LeastDelay, Fastest
<1> QED
  BY <1>1, Invariance, PTL

(***************************************************************************)
(* The delay of a route is no more than the closures force, is never       *)
(* negative, and is none unless the route is rerouted: closures lie on     *)
(* segments, so a way over open roads takes the time it takes without any. *)
(***************************************************************************)
THEOREM DelaysForced == Spec => []DelayIsForced
<1>1. IInv => DelayIsForced
  <2> SUFFICES ASSUME IInv, NEW f \in DOMAIN monitor.routes, traffic.succeeded,
                      monitor.routes[f].state # "blocked"
               PROVE  LET found == monitor.routes[f]
                          open  == reference.edges \ ClosedThen
                          ways  == Paths(open, found.path[1],
                                         found.path[Len(found.path)])
                          taken == Time(open, found.effective)
                      IN  /\ \A p \in ways : taken <= Time(open, p)
                          /\ Time(reference.edges, found.path) <= taken
                          /\ found.state # "rerouted" =>
                               taken = Time(reference.edges, found.path)
    BY DEF DelayIsForced
  <2> DEFINE found == monitor.routes[f]
             b     == found.path
             edges == reference.edges
             open  == edges \ ClosedThen
             ways  == Paths(open, b[1], b[Len(b)])
  <2>1. /\ b \in Fastest(edges, Paths(edges, b[1], b[Len(b)]))
        /\ LeastDelay(edges, Active(traffic, monitor.at), b[1], b[Len(b)], b, found)
        /\ found.state \in OutcomeKinds
    BY MonitoredLeast
  <2>2. found.effective \in Fastest(open, ways)
    BY <2>1 DEF LeastDelay, ClosedThen
  <2>3. found.effective \in ways
    BY <2>2 DEF Fastest
  <2>4. /\ found.effective \in Paths(edges, b[1], b[Len(b)])
        /\ Time(open, found.effective) = Time(edges, found.effective)
    BY <2>3, OpenTime DEF ClosedThen
  <2>5. Time(edges, b) <= Time(edges, found.effective)
    BY <2>1, <2>4 DEF Fastest
  <2>6. found.state # "rerouted" => found.effective = b
    BY <2>1 DEF LeastDelay, OutcomeKinds
  <2>7. \A p \in ways : Time(open, found.effective) <= Time(open, p)
    BY <2>2 DEF Fastest
  <2> QED
    BY <2>4, <2>5, <2>6, <2>7
<1> QED
  BY <1>1, Invariance, PTL

(***************************************************************************)
(* While the same disruptions are active, a request between the ends of a  *)
(* monitored route and the monitor agree: on whether it is blocked and on  *)
(* the time it takes.                                                      *)
(***************************************************************************)
THEOREM RequestsAgree == Spec => []RequestAgrees
<1>1. IInv => RequestAgrees
  <2> SUFFICES ASSUME IInv, traffic.succeeded,
                      Active(traffic, clock) = Active(traffic, monitor.at),
                      NEW f \in DOMAIN monitor.routes,
                      NEW a \in Answers(reference.edges, traffic, clock,
                                        monitor.routes[f].path[1],
                                        monitor.routes[f].path[Len(monitor.routes[f].path)])
               PROVE  LET found == monitor.routes[f] IN
                      /\ a.state = "blocked" <=> found.state = "blocked"
                      /\ a.state # "blocked" =>
                           Time(reference.edges, a.effective) =
                             Time(reference.edges, found.effective)
    BY DEF RequestAgrees
  <2> DEFINE found  == monitor.routes[f]
             active == Active(traffic, monitor.at)
             b      == found.path
             edges  == reference.edges
  <2>1. LeastDelay(edges, active, b[1], b[Len(b)], b, found) /\ edges \in SUBSET Roads
    BY MonitoredLeast
  <2>2. traffic.disruptions \subseteq Disruptions
    BY DEF IInv, StatesOK
  <2>3. PICK c : LeastDelay(edges, active, b[1], b[Len(b)], c, a)
    BY <2>2, AnswersLeast
  <2> QED
    BY <2>1, <2>3, SameDelay
<1> QED
  BY <1>1, Invariance, PTL
-----------------------------------------------------------------------------
(***************************************************************************)
(* Nothing above is true for want of a snapshot or of an answer.           *)
(***************************************************************************)
LEMMA FastestExists ==
  ASSUME NEW edges, NEW ways, ways # {}, \A p \in ways : Time(edges, p) \in Nat
  PROVE  Fastest(edges, ways) # {}
<1> DEFINE times == {Time(edges, p) : p \in ways}
<1>1. times \in SUBSET Nat /\ times # {}
  OBVIOUS
<1>2. PICK least \in times : \A y \in times : least <= y
  <2> HIDE DEF times
  <2> QED BY <1>1, LeastElement
<1> QED
  BY <1>2 DEF Fastest

LEMMA FastestPath ==
  ASSUME NEW edges \in SUBSET Roads, NEW o, NEW d, Paths(edges, o, d) # {}
  PROVE  Fastest(edges, Paths(edges, o, d)) # {}
<1>1. \A p \in Paths(edges, o, d) : Time(edges, p) \in Nat
  BY TimeType
<1> QED
  BY <1>1, FastestExists

\* _apply_disruptions has an outcome for any path.
LEMMA AppliedExists ==
  ASSUME NEW edges \in SUBSET Roads, NEW state, NEW t, NEW p
  PROVE  Applied(edges, state, t, p) # {}
<1> DEFINE closed == Closed(edges, Active(state, t))
           open   == edges \ closed
           ways   == Paths(open, p[1], p[Len(p)])
<1>1. CASE ways = {}
  BY <1>1 DEF Applied, Avoiding
<1>2. CASE ways # {}
  <2>1. Fastest(open, ways) # {}
    BY <1>2, FastestPath
  <2>2. PICK q : q \in Fastest(open, ways)
    BY <2>1
  <2>3. Outcome("rerouted", q) \in {Outcome("rerouted", x) : x \in Fastest(open, ways)}
    BY <2>2
  <2> HIDE DEF ways, open
  <2>4. {Outcome("rerouted", x) : x \in Fastest(open, ways)} # {}
    BY <2>3
  <2> QED
    BY <1>2, <2>4 DEF Applied, Avoiding, ways, open
<1> QED
  BY <1>1, <1>2

LEMMA RoutesExist ==
  ASSUME NEW ref \in References, NEW state, NEW t, NEW f \in Routed(ref)
  PROVE  RoutesOf(ref, state, t, f) # {}
<1>1. ref.edges \in SUBSET Roads
  BY CriticalRoutesAssumption
<1>2. \A p \in Ways(ref, f) : Time(ref.edges, p) \in Nat
  BY <1>1, TimeType DEF Ways
<1>3. PICK p : p \in Fastest(ref.edges, Ways(ref, f))
  BY <1>2, FastestExists DEF Routed
<1>4. PICK n \in TargetNodes(ref, f) : p \in Paths(ref.edges, ref.node[f], n)
  BY <1>3 DEF Fastest, Ways
<1>5. p[Len(p)] = n
  BY <1>4, PathEnds
<1>6. PICK g \in Targets(ref, f) : ref.node[g] = p[Len(p)]
  BY <1>5 DEF TargetNodes
<1>7. PICK o : o \in Applied(ref.edges, state, t, p)
  BY <1>1, AppliedExists
<1> DEFINE found(x) ==
      {[destination |-> dest, path |-> x, state |-> out.state, effective |-> out.effective] :
         dest \in {h \in Targets(ref, f) : ref.node[h] = x[Len(x)]},
         out \in Applied(ref.edges, state, t, x)}
<1>8. [destination |-> g, path |-> p, state |-> o.state, effective |-> o.effective]
        \in found(p)
  BY <1>6, <1>7
<1>9. RoutesOf(ref, state, t, f) = UNION {found(x) : x \in Fastest(ref.edges, Ways(ref, f))}
  BY DEF RoutesOf
<1> HIDE DEF found
<1> QED
  BY <1>3, <1>8, <1>9

LEMMA OneExists ==
  ASSUME NEW table, \A f \in DOMAIN table : table[f] # {}
  PROVE  OneOfEach(table) # {}
<1> DEFINE pick == [f \in DOMAIN table |-> CHOOSE x : x \in table[f]]
<1>1. \A f \in DOMAIN table : pick[f] \in table[f]
  OBVIOUS
<1>2. pick \in [DOMAIN table -> UNION {table[f] : f \in DOMAIN table}]
  BY <1>1
<1> QED
  BY <1>1, <1>2 DEF OneOfEach

(***************************************************************************)
(* build makes a snapshot exactly when the network is incomplete or all    *)
(* its nodes are placed, whatever the traffic state and the time: only the *)
(* snapping of the facilities can raise, and no search for want of a way.  *)
(***************************************************************************)
THEOREM BuildSucceeds ==
  ASSUME NEW ref \in References, NEW state, NEW t
  PROVE  Built(ref, state, t) # {} <=> ~Complete(ref) \/ ref.placed
<1>1. CASE ~Complete(ref)
  BY <1>1 DEF Built
<1>2. CASE Complete(ref) /\ ~ref.placed
  BY <1>2 DEF Built
<1>3. CASE Complete(ref) /\ ref.placed
  <2> DEFINE table == [f \in Routed(ref) |-> RoutesOf(ref, state, t, f)]
  <2>1. PICK found : found \in OneOfEach(table)
    <3>1. \A f \in DOMAIN table : table[f] # {}
      BY RoutesExist
    <3> HIDE DEF table
    <3> QED BY <3>1, OneExists
  <2> DEFINE made(x) == [at          |-> t,
                         routes      |-> x,
                         unsnapped   |-> DOMAIN ref.node \ Snapped(ref),
                         unreachable |-> Snapped(ref) \ Routed(ref)]
  <2>2. Built(ref, state, t) = UNION {{made(x) : x \in OneOfEach(y)} : y \in {table}}
    BY <1>3 DEF Built
  <2> HIDE DEF table, made
  <2> QED
    BY <1>3, <2>1, <2>2
<1> QED
  BY <1>1, <1>2, <1>3

(***************************************************************************)
(* The route endpoint has an answer exactly when the network has a way.    *)
(***************************************************************************)
THEOREM WaysAreAnswered ==
  ASSUME NEW edges \in SUBSET Roads, NEW state, NEW t, NEW o, NEW d
  PROVE  Answers(edges, state, t, o, d) # {} <=> Paths(edges, o, d) # {}
<1> DEFINE active == Active(state, t)
           closed == Closed(edges, active)
           open   == edges \ closed
           ways   == Paths(open, o, d)
           answer(p) ==
             CASE Matched(p, active) = {} -> {Outcome("baseline", p)}
               [] Matched(p, active) # {} /\ OnRoute(p, closed) = {} ->
                    {Outcome("disrupted", p)}
               [] OnRoute(p, closed) # {} /\ ways = {} -> {Outcome("blocked", <<>>)}
               [] OTHER -> {Outcome("rerouted", q) : q \in Fastest(open, ways)}
<1>1. Answers(edges, state, t, o, d) =
        UNION {answer(p) : p \in Fastest(edges, Paths(edges, o, d))}
  BY DEF Answers, OpenToRequest
<1>2. ASSUME Paths(edges, o, d) = {} PROVE Answers(edges, state, t, o, d) = {}
  BY <1>2 DEF Answers, Fastest
<1>3. ASSUME Paths(edges, o, d) # {} PROVE Answers(edges, state, t, o, d) # {}
  <2>1. PICK p : p \in Fastest(edges, Paths(edges, o, d))
    BY <1>3, FastestPath
  <2>2. answer(p) # {}
    <3>1. CASE ways = {}
      BY <3>1
    <3>2. CASE ways # {}
      <4>1. PICK q : q \in Fastest(open, ways)
        BY <3>2, FastestPath
      <4>2. Outcome("rerouted", q) \in {Outcome("rerouted", x) : x \in Fastest(open, ways)}
        BY <4>1
      <4> HIDE DEF ways, open
      <4>3. {Outcome("rerouted", x) : x \in Fastest(open, ways)} # {}
        BY <4>2
      <4> QED
        BY <3>2, <4>3
    <3> QED
      BY <3>1, <3>2
  <2> HIDE DEF answer
  <2> QED
    BY <1>1, <2>1, <2>2
<1> QED
  BY <1>2, <1>3

(***************************************************************************)
(* A request between the ends of a monitored route is always answered, so  *)
(* there is an answer for RequestAgrees to compare.                        *)
(***************************************************************************)
MonitoredIsAnswered ==
  \A f \in DOMAIN monitor.routes :
    LET path == monitor.routes[f].path IN
    Answers(reference.edges, traffic, clock, path[1], path[Len(path)]) # {}

THEOREM MonitoredAnswered == Spec => []MonitoredIsAnswered
<1>1. IInv => MonitoredIsAnswered
  <2> SUFFICES ASSUME IInv, NEW f \in DOMAIN monitor.routes
               PROVE  LET path == monitor.routes[f].path IN
                      Answers(reference.edges, traffic, clock,
                              path[1], path[Len(path)]) # {}
    BY DEF MonitoredIsAnswered
  <2> DEFINE path == monitor.routes[f].path
  <2>1. path \in Fastest(reference.edges,
                         Paths(reference.edges, path[1], path[Len(path)]))
    BY MonitoredRoute, RoutePath
  <2>2. Paths(reference.edges, path[1], path[Len(path)]) # {}
    BY <2>1 DEF Fastest
  <2>3. reference.edges \in SUBSET Roads
    BY CriticalRoutesAssumption DEF IInv, StatesOK
  <2> QED
    BY <2>2, <2>3, WaysAreAnswered
<1> QED
  BY <1>1, Invariance, PTL
=============================================================================
