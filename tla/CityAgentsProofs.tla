-------------------------- MODULE CityAgentsProofs --------------------------
(***************************************************************************)
(* Proofs about CityAgents, for any stores, road networks, scenarios,      *)
(* loads, times and numbers of threads and rebuilds.  An answer that a     *)
(* client has not read yet is one that would be given now: what it was     *)
(* computed from has not changed since.                                    *)
(***************************************************************************)
EXTENDS CityAgents, TLAPS, FiniteSetTheorems, WellFoundedInduction

\* The agents are those of the stores that were read last, and the graph of
\* the resilience agent is as it was built.
AgentsOK ==
  /\ clock \in FirstTime..MaxTime
  /\ generation \in 0..MaxReloads
  /\ served.runtime \in Runtimes
  /\ served.reference \in References
  /\ roads = served.reference.edges

\* A saved energy state is that of a load that could be evaluated.
EnergyFileOK ==
  energyFile # None =>
    \E load \in Loads, scores \in Scores, negative \in BOOLEAN :
      Evaluated(load, scores) /\ energyFile = EnergyStateOf(load, scores, negative)

\* The fields of a request at each step.
Shaped(r) ==
  \/ r = Idle
  \/ /\ r.pc = "collect"
     /\ r = [pc |-> r.pc, of |-> r.of, agents |-> r.agents, others |-> r.others]
  \/ /\ r.pc \in {"summarise", "answer"}
     /\ r = [pc |-> r.pc, of |-> r.of, health |-> r.health, others |-> r.others]
  \/ /\ r.pc = "answered"
     /\ r = [pc |-> r.pc, of |-> r.of, health |-> r.health, others |-> r.others,
             live |-> r.live]

RequestsShaped ==
  /\ request = [t \in Threads |-> request[t]]
  /\ summary = [g \in 0..MaxReloads |-> summary[g]]
  /\ \A t \in Threads : Shaped(request[t])
  /\ \A t \in Threads : Active(t) => request[t].of \in 0..MaxReloads

\* What another request has collected while this one is under way is noted.
OthersNoted ==
  \A t, u \in Threads :
    t # u /\ Active(t) /\ Collected(u) => OverallOf(request[u].health) \in request[t].others

\* Since a request has summarised, only requests that overlap it have.
SummaryNoted ==
  \A t \in Threads :
    request[t].pc = "answer" =>
      summary[request[t].of] \in {OverallOf(request[t].health)} \cup request[t].others

RequestsInv == RequestsShaped /\ OthersNoted /\ SummaryNoted /\ SummaryOfOverlapping

AssessmentOfNow ==
  answer.asked = "assess" =>
    \E o \in Nodes \cup {None}, budget \in Budgets, s \in Scenarios :
      /\ Accepts(s)
      /\ answer = [asked |-> "assess", from |-> o, scenario |-> s,
                   result |-> Assessment(o, budget, s)]

ComparisonOfNow ==
  answer.asked = "compare" =>
    \E o, d \in Nodes, s \in Scenarios :
      answer = [asked |-> "compare", from |-> o, to |-> d, scenario |-> s,
                result |-> IF Comparable(roads, o, d, s)
                           THEN Comparison(roads, o, d, s) ELSE None]

AccessOfNow ==
  answer.asked = "access" =>
    \E o \in Nodes, budget \in Budgets, s \in Scenarios :
      answer = [asked |-> "access", from |-> o, budget |-> budget, scenario |-> s,
                result |-> Accessibility(o, budget, s)]

AnswerOfNow == AssessmentOfNow /\ ComparisonOfNow /\ AccessOfNow

IInv == AgentsOK /\ EnergyFileOK /\ RequestsInv /\ AnswerOfNow
-----------------------------------------------------------------------------
LEMMA InitIInv == Init => IInv
<1> SUFFICES ASSUME Init PROVE IInv
  OBVIOUS
<1>1. AgentsOK
  BY CityAssumption DEF Init, AgentsOK
<1>2. EnergyFileOK
  BY DEF Init, EnergyFileOK
<1>3. RequestsInv
  BY DEF Init, RequestsInv, RequestsShaped, OthersNoted, SummaryNoted,
         SummaryOfOverlapping, Shaped, Active, Collected, Idle
<1>4. AnswerOfNow
  BY CityAssumption DEF Init, NoAnswer, Questions, AnswerOfNow, AssessmentOfNow,
         ComparisonOfNow, AccessOfNow
<1> QED
  BY <1>1, <1>2, <1>3, <1>4 DEF IInv

\* What holds of an answer goes on to hold until a part of its situation
\* changes, and then there is no answer.
LEMMA AnswerStays ==
  ASSUME AnswerOfNow, UNCHANGED <<clock, served, roads, answer>>
  PROVE  AnswerOfNow'
<1>1. \A o, budget, s : Assessment(o, budget, s)' = Assessment(o, budget, s)
  BY DEF Assessment, EachDimension, HeatDimension, HasBaseline, EnergyDimension,
         HasForecast, ResilienceDimension, Ref
<1>2. \A o, budget, s : Accessibility(o, budget, s)' = Accessibility(o, budget, s)
  BY DEF Accessibility, Ref
<1>3. AssessmentOfNow'
  BY <1>1 DEF AnswerOfNow, AssessmentOfNow
<1>4. ComparisonOfNow'
  BY DEF AnswerOfNow, ComparisonOfNow
<1>5. AccessOfNow'
  BY <1>2 DEF AnswerOfNow, AccessOfNow
<1> QED
  BY <1>3, <1>4, <1>5 DEF AnswerOfNow

LEMMA AnswerGone ==
  ASSUME answer' = NoAnswer
  PROVE  AnswerOfNow'
  BY CityAssumption DEF NoAnswer, Questions, AnswerOfNow, AssessmentOfNow,
     ComparisonOfNow, AccessOfNow

\* Another endpoint answers.
LEMMA AnswerGiven ==
  ASSUME AgentsOK, EnergyFileOK, RequestsInv, Compare \/ AskAccess \/ Orchestrate \/ Assess
  PROVE  IInv'
<1>1. UNCHANGED <<clock, energyFile, served, generation, summary, request, roads>>
  BY DEF Compare, AskAccess, Orchestrate, Assess, Answered, GraphKept
<1>2. AgentsOK' /\ EnergyFileOK'
  BY <1>1 DEF AgentsOK, EnergyFileOK
<1>3. RequestsInv'
  BY <1>1 DEF RequestsInv, RequestsShaped, OthersNoted, SummaryNoted,
     SummaryOfOverlapping, Active, Collected
<1> SUFFICES AnswerOfNow'
  BY <1>2, <1>3 DEF IInv
<1>4. \A o, budget, s : Assessment(o, budget, s)' = Assessment(o, budget, s)
  BY <1>1 DEF Assessment, EachDimension, HeatDimension, HasBaseline, EnergyDimension,
         HasForecast, ResilienceDimension, Ref
<1>5. \A o, budget, s : Accessibility(o, budget, s)' = Accessibility(o, budget, s)
  BY <1>1 DEF Accessibility, Ref
<1>6. CASE Compare
  <2>1. PICK o \in Nodes, d \in Nodes, s \in Scenarios :
          answer' = [asked |-> "compare", from |-> o, to |-> d, scenario |-> s,
                     result |-> IF Comparable(roads, o, d, s)
                                THEN Comparison(roads, o, d, s) ELSE None]
    BY <1>6 DEF Compare, Answered
  <2>2. answer'.asked = "compare"
    BY <2>1
  <2>3. ComparisonOfNow'
    BY <1>1, <2>1 DEF ComparisonOfNow
  <2> QED
    BY <2>2, <2>3 DEF AnswerOfNow, AssessmentOfNow, AccessOfNow
<1>7. CASE AskAccess
  <2>1. PICK o \in Nodes, budget \in Budgets, s \in Scenarios :
          answer' = [asked |-> "access", from |-> o, budget |-> budget, scenario |-> s,
                     result |-> Accessibility(o, budget, s)]
    BY <1>7 DEF AskAccess, Answered
  <2>2. answer'.asked = "access"
    BY <2>1
  <2>3. AccessOfNow'
    BY <1>5, <2>1 DEF AccessOfNow
  <2> QED
    BY <2>2, <2>3 DEF AnswerOfNow, AssessmentOfNow, ComparisonOfNow
<1>8. CASE Orchestrate
  <2>1. answer'.asked = "workflow"
    BY <1>8 DEF Orchestrate, Answered
  <2> QED
    BY <2>1 DEF AnswerOfNow, AssessmentOfNow, ComparisonOfNow, AccessOfNow
<1>9. CASE Assess
  <2>1. PICK o \in Nodes \cup {None}, budget \in Budgets, s \in Scenarios :
          /\ Accepts(s)
          /\ answer' = [asked |-> "assess", from |-> o, scenario |-> s,
                        result |-> Assessment(o, budget, s)]
    BY <1>9 DEF Assess, Answered
  <2>2. answer'.asked = "assess"
    BY <2>1
  <2>3. AssessmentOfNow'
    BY <1>4, <2>1 DEF AssessmentOfNow
  <2> QED
    BY <2>2, <2>3 DEF AnswerOfNow, ComparisonOfNow, AccessOfNow
<1> QED
  BY <1>6, <1>7, <1>8, <1>9
-----------------------------------------------------------------------------
\* The steps of agents/health.
LEMMA TakeInv ==
  ASSUME AgentsOK, RequestsInv, NEW t \in Threads, TakeAgents(t)
  PROVE  RequestsInv'
<1> DEFINE heard == {OverallOf(request[u].health) : u \in {v \in Threads : Collected(v)}}
           new == [pc |-> "collect", of |-> generation, agents |-> served, others |-> heard]
<1>1. /\ ~Active(t)
      /\ request' = [request EXCEPT ![t] = new]
      /\ summary' = summary
  BY DEF TakeAgents
<1>2. /\ new.pc = "collect" /\ new.of = generation /\ new.others = heard
      /\ Shaped(new)
  BY DEF Shaped
<1>3. \A u \in Threads : Collected(u) => OverallOf(request[u].health) \in heard
  OBVIOUS
<1> HIDE DEF heard, new
<1>4. request'[t] = new /\ \A u \in Threads \ {t} : request'[u] = request[u]
  BY <1>1 DEF RequestsInv, RequestsShaped
<1>5. RequestsShaped'
  BY <1>1, <1>2, <1>4 DEF AgentsOK, RequestsInv, RequestsShaped, Active
<1>6. OthersNoted'
  <2> SUFFICES ASSUME NEW a \in Threads, NEW b \in Threads, a # b, Active(a)', Collected(b)'
               PROVE  OverallOf(request'[b].health) \in request'[a].others
    BY DEF OthersNoted
  <2>1. b # t
    BY <1>2, <1>4 DEF Collected
  <2>2. Collected(b) /\ request'[b] = request[b]
    BY <1>4, <2>1 DEF Collected
  <2>3. CASE a = t
    BY <1>2, <1>3, <1>4, <2>2, <2>3
  <2>4. CASE a # t
    BY <1>4, <2>2, <2>4 DEF RequestsInv, OthersNoted, Active
  <2> QED
    BY <2>3, <2>4
<1>7. SummaryNoted' /\ SummaryOfOverlapping'
  <2> SUFFICES ASSUME NEW a \in Threads, request'[a].pc \in {"answer", "answered"}
               PROVE  a # t
    BY <1>1, <1>4 DEF RequestsInv, SummaryNoted, SummaryOfOverlapping
  <2> QED
    BY <1>2, <1>4
<1> QED
  BY <1>5, <1>6, <1>7 DEF RequestsInv

LEMMA CollectInv ==
  ASSUME RequestsInv, NEW t \in Threads, CollectHealth(t)
  PROVE  RequestsInv'
<1> DEFINE health == DomainHealth(request[t].agents)
           new == [pc |-> "summarise", of |-> request[t].of, health |-> health,
                   others |-> request[t].others]
           told(u) == [request[u] EXCEPT !.others = @ \cup {OverallOf(health)}]
<1>1. /\ request[t].pc = "collect" /\ Active(t) /\ summary' = summary
      /\ request' = [u \in Threads |->
                       IF u = t THEN new ELSE IF Active(u) THEN told(u) ELSE request[u]]
  BY DEF CollectHealth, Active
<1>2. /\ Shaped(new)
      /\ new.pc = "summarise" /\ new.of = request[t].of /\ new.health = health
      /\ new.others = request[t].others
  BY DEF Shaped
<1>3. ASSUME NEW u \in Threads, Active(u)
      PROVE  /\ Shaped(told(u))
             /\ told(u).pc = request[u].pc /\ told(u).of = request[u].of
             /\ told(u).others = request[u].others \cup {OverallOf(health)}
             /\ Collected(u) => told(u).health = request[u].health
             /\ request[u].pc = "answered" => told(u).live = request[u].live
  <2> HIDE DEF health
  <2> DEFINE r == request[u]
             more == r.others \cup {OverallOf(health)}
  <2>1. Shaped(r) /\ r.pc # "idle"
    BY <1>3 DEF RequestsInv, RequestsShaped, Active
  <2> HIDE DEF r
  <2>2. told(u) = [r EXCEPT !.others = more]
    BY DEF r
  <2>3. CASE r = [pc |-> "collect", of |-> r.of, agents |-> r.agents, others |-> r.others]
    <3>1. told(u) = [pc |-> "collect", of |-> r.of, agents |-> r.agents, others |-> more]
      BY <2>2, <2>3
    <3> QED
      BY <2>3, <3>1 DEF Shaped, Collected, r
  <2>4. CASE /\ r.pc \in {"summarise", "answer"}
             /\ r = [pc |-> r.pc, of |-> r.of, health |-> r.health, others |-> r.others]
    <3>1. told(u) = [pc |-> r.pc, of |-> r.of, health |-> r.health, others |-> more]
      BY <2>2, <2>4
    <3> QED
      BY <2>4, <3>1 DEF Shaped, Collected, r
  <2>5. CASE r = [pc |-> "answered", of |-> r.of, health |-> r.health,
                  others |-> r.others, live |-> r.live]
    <3>1. told(u) = [pc |-> "answered", of |-> r.of, health |-> r.health,
                     others |-> more, live |-> r.live]
      BY <2>2, <2>5
    <3> QED
      BY <2>5, <3>1 DEF Shaped, Collected, r
  <2> QED
    BY <2>1, <2>3, <2>4, <2>5 DEF Shaped, Idle
<1> HIDE DEF health, new, told
<1>4. /\ request'[t] = new
      /\ \A u \in Threads \ {t} :
           request'[u] = IF Active(u) THEN told(u) ELSE request[u]
  BY <1>1
<1>5. /\ \A u \in Threads : Active(u)' <=> Active(u)
      /\ \A u \in Threads : Collected(u)' <=> Collected(u) \/ u = t
      /\ \A u \in Threads : request'[u].of = request[u].of
      /\ \A u \in Threads : request[u].others \subseteq request'[u].others
      /\ \A u \in Threads : Collected(u) => request'[u].health = request[u].health
  <2> SUFFICES ASSUME NEW u \in Threads
               PROVE  /\ Active(u)' <=> Active(u)
                      /\ Collected(u)' <=> Collected(u) \/ u = t
                      /\ request'[u].of = request[u].of
                      /\ request[u].others \subseteq request'[u].others
                      /\ Collected(u) => request'[u].health = request[u].health
    OBVIOUS
  <2>1. CASE u = t
    BY <1>1, <1>2, <1>4, <2>1 DEF Active, Collected
  <2>2. CASE u # t /\ Active(u)
    BY <1>3, <1>4, <2>2 DEF Active, Collected
  <2>3. CASE u # t /\ ~Active(u)
    BY <1>4, <2>3 DEF Active, Collected
  <2> QED
    BY <2>1, <2>2, <2>3
<1>6. RequestsShaped'
  <2>1. \A u \in Threads : Shaped(request'[u])
    BY <1>2, <1>3, <1>4 DEF RequestsInv, RequestsShaped
  <2> QED
    BY <1>1, <1>5, <2>1 DEF RequestsInv, RequestsShaped
<1>7. OthersNoted'
  <2> SUFFICES ASSUME NEW a \in Threads, NEW b \in Threads, a # b, Active(a)', Collected(b)'
               PROVE  OverallOf(request'[b].health) \in request'[a].others
    BY DEF OthersNoted
  <2>1. CASE b = t
    BY <1>2, <1>3, <1>4, <1>5, <2>1
  <2>2. CASE b # t
    BY <1>5, <2>2 DEF RequestsInv, OthersNoted
  <2> QED
    BY <2>1, <2>2
<1>8. SummaryNoted' /\ SummaryOfOverlapping'
  <2> SUFFICES ASSUME NEW a \in Threads, request'[a].pc \in {"answer", "answered"}
               PROVE  /\ a # t /\ Active(a) /\ Collected(a)
                      /\ request'[a].pc = request[a].pc
                      /\ request[a].pc = "answered" => request'[a].live = request[a].live
    BY <1>1, <1>5 DEF RequestsInv, SummaryNoted, SummaryOfOverlapping
  <2> QED
    BY <1>2, <1>3, <1>4, <1>5 DEF Active, Collected
<1> QED
  BY <1>6, <1>7, <1>8 DEF RequestsInv

LEMMA SummariseInv ==
  ASSUME RequestsInv, NEW t \in Threads, Summarise(t)
  PROVE  RequestsInv'
<1>1. /\ request[t].pc = "summarise" /\ Active(t) /\ Collected(t)
      /\ summary' = [summary EXCEPT ![request[t].of] = OverallOf(request[t].health)]
      /\ request' = [request EXCEPT ![t].pc = "answer"]
  BY DEF Summarise, Active, Collected
<1>2. /\ request'[t].pc = "answer" /\ request'[t].of = request[t].of
      /\ request'[t].health = request[t].health /\ request'[t].others = request[t].others
      /\ Shaped(request'[t])
      /\ \A u \in Threads \ {t} : request'[u] = request[u]
  BY <1>1 DEF RequestsInv, RequestsShaped, Shaped, Idle
<1>3. \A u \in Threads : (Active(u)' <=> Active(u)) /\ (Collected(u)' <=> Collected(u))
  BY <1>1, <1>2 DEF Active, Collected
<1>4. RequestsShaped'
  BY <1>1, <1>2, <1>3 DEF RequestsInv, RequestsShaped
<1>5. OthersNoted'
  <2> SUFFICES ASSUME NEW a \in Threads, NEW b \in Threads, a # b, Active(a)', Collected(b)'
               PROVE  OverallOf(request'[b].health) \in request'[a].others
    BY DEF OthersNoted
  <2> QED
    BY <1>2, <1>3 DEF RequestsInv, OthersNoted
<1>6. SummaryNoted'
  <2> SUFFICES ASSUME NEW a \in Threads, request'[a].pc = "answer"
               PROVE  summary'[request'[a].of] \in
                        {OverallOf(request'[a].health)} \cup request'[a].others
    BY DEF SummaryNoted
  <2>1. request[t].of \in 0..MaxReloads
    BY <1>1 DEF RequestsInv, RequestsShaped
  <2>2. summary'[request[t].of] = OverallOf(request[t].health)
    BY <1>1, <2>1 DEF RequestsInv, RequestsShaped
  <2>3. CASE a = t
    BY <1>2, <2>2, <2>3
  <2>4. CASE a # t
    <3>1. request'[a] = request[a] /\ Active(a) /\ request[a].of \in 0..MaxReloads
      BY <1>2, <2>4 DEF Active, RequestsInv, RequestsShaped
    <3>2. CASE request[a].of = request[t].of
      BY <1>1, <2>2, <2>4, <3>1, <3>2 DEF RequestsInv, OthersNoted
    <3>3. CASE request[a].of # request[t].of
      <4>1. summary'[request[a].of] = summary[request[a].of]
        BY <1>1, <3>1, <3>3 DEF RequestsInv, RequestsShaped
      <4> QED
        BY <3>1, <4>1 DEF RequestsInv, SummaryNoted
    <3> QED
      BY <3>2, <3>3
  <2> QED
    BY <2>3, <2>4
<1>7. SummaryOfOverlapping'
  <2> SUFFICES ASSUME NEW a \in Threads, request'[a].pc = "answered"
               PROVE  request'[a].live \in
                        {OverallOf(request'[a].health)} \cup request'[a].others
    BY DEF SummaryOfOverlapping
  <2>1. a # t
    BY <1>2
  <2> QED
    BY <1>2, <2>1 DEF RequestsInv, SummaryOfOverlapping
<1> QED
  BY <1>4, <1>5, <1>6, <1>7 DEF RequestsInv

LEMMA AnswerHealthInv ==
  ASSUME RequestsInv, NEW t \in Threads, AnswerHealth(t)
  PROVE  RequestsInv'
<1> DEFINE r == request[t]
           new == [pc |-> "answered", of |-> r.of, health |-> r.health,
                   others |-> r.others, live |-> summary[r.of]]
<1>1. /\ r.pc = "answer" /\ Active(t) /\ Collected(t)
      /\ summary' = summary
      /\ request' = [request EXCEPT ![t] = new]
  BY DEF AnswerHealth, Active, Collected, RequestsInv, RequestsShaped
<1>2. /\ new.pc = "answered" /\ new.of = r.of /\ new.health = r.health
      /\ new.others = r.others /\ new.live = summary[r.of] /\ Shaped(new)
  BY DEF Shaped
<1> HIDE DEF new
<1>3. request'[t] = new /\ \A u \in Threads \ {t} : request'[u] = request[u]
  BY <1>1 DEF RequestsInv, RequestsShaped
<1>4. \A u \in Threads : (Active(u)' <=> Active(u)) /\ (Collected(u)' <=> Collected(u))
  BY <1>1, <1>2, <1>3 DEF Active, Collected
<1>5. RequestsShaped'
  BY <1>1, <1>2, <1>3, <1>4 DEF RequestsInv, RequestsShaped
<1>6. OthersNoted'
  <2> SUFFICES ASSUME NEW a \in Threads, NEW b \in Threads, a # b, Active(a)', Collected(b)'
               PROVE  OverallOf(request'[b].health) \in request'[a].others
    BY DEF OthersNoted
  <2> QED
    BY <1>2, <1>3, <1>4 DEF RequestsInv, OthersNoted
<1>7. SummaryNoted'
  <2> SUFFICES ASSUME NEW a \in Threads, request'[a].pc = "answer"
               PROVE  summary'[request'[a].of] \in
                        {OverallOf(request'[a].health)} \cup request'[a].others
    BY DEF SummaryNoted
  <2>1. a # t
    BY <1>2, <1>3
  <2> QED
    BY <1>1, <1>3, <2>1 DEF RequestsInv, SummaryNoted
<1>8. SummaryOfOverlapping'
  <2> SUFFICES ASSUME NEW a \in Threads, request'[a].pc = "answered"
               PROVE  request'[a].live \in
                        {OverallOf(request'[a].health)} \cup request'[a].others
    BY DEF SummaryOfOverlapping
  <2>1. CASE a = t
    BY <1>1, <1>2, <1>3, <2>1 DEF RequestsInv, SummaryNoted
  <2>2. CASE a # t
    BY <1>3, <2>2 DEF RequestsInv, SummaryOfOverlapping
  <2> QED
    BY <2>1, <2>2
<1> QED
  BY <1>5, <1>6, <1>7, <1>8 DEF RequestsInv

LEMMA LeaveInv ==
  ASSUME RequestsInv, NEW t \in Threads, Leave(t)
  PROVE  RequestsInv'
<1>1. /\ request' = [request EXCEPT ![t] = Idle] /\ summary' = summary
  BY DEF Leave
<1>2. request'[t] = Idle /\ \A u \in Threads \ {t} : request'[u] = request[u]
  BY <1>1 DEF RequestsInv, RequestsShaped
<1>3. /\ \A u \in Threads : Active(u)' => u # t /\ Active(u) /\ request'[u] = request[u]
      /\ \A u \in Threads : Collected(u)' => u # t /\ Collected(u) /\ request'[u] = request[u]
  BY <1>2 DEF Active, Collected, Idle
<1>4. RequestsShaped'
  BY <1>1, <1>2, <1>3 DEF RequestsInv, RequestsShaped, Shaped
<1>5. OthersNoted'
  BY <1>3 DEF RequestsInv, OthersNoted
<1>6. SummaryNoted' /\ SummaryOfOverlapping'
  BY <1>1, <1>2 DEF RequestsInv, SummaryNoted, SummaryOfOverlapping, Idle
<1> QED
  BY <1>4, <1>5, <1>6 DEF RequestsInv
-----------------------------------------------------------------------------
LEMMA NextIInv == IInv /\ [Next]_vars => IInv'
<1> SUFFICES ASSUME IInv, [Next]_vars PROVE IInv'
  OBVIOUS
<1>1. AgentsOK /\ EnergyFileOK /\ RequestsInv /\ AnswerOfNow
  BY DEF IInv
<1>2. ASSUME UNCHANGED <<summary, request>> PROVE RequestsInv'
  BY <1>1, <1>2 DEF RequestsInv, RequestsShaped, OthersNoted, SummaryNoted,
     SummaryOfOverlapping, Active, Collected
<1>3. CASE Tick
  <2>1. AgentsOK' /\ EnergyFileOK'
    BY <1>1, <1>3, CityAssumption DEF Tick, AgentsOK, EnergyFileOK
  <2>2. RequestsInv' /\ AnswerOfNow'
    BY <1>2, <1>3, AnswerGone DEF Tick
  <2> QED
    BY <2>1, <2>2 DEF IInv
<1>4. CASE EvaluateEnergy
  <2>1. AgentsOK' /\ EnergyFileOK'
    BY <1>1, <1>4 DEF EvaluateEnergy, Results, AgentsOK, EnergyFileOK
  <2>2. RequestsInv' /\ AnswerOfNow'
    BY <1>2, <1>4, AnswerGone DEF EvaluateEnergy
  <2> QED
    BY <2>1, <2>2 DEF IInv
<1>5. CASE Rebuild
  <2>1. AgentsOK' /\ EnergyFileOK'
    BY <1>1, <1>5, CityAssumption DEF Rebuild, AgentsOK, EnergyFileOK
  <2>2. RequestsInv' /\ AnswerOfNow'
    BY <1>2, <1>5, AnswerGone DEF Rebuild
  <2> QED
    BY <2>1, <2>2 DEF IInv
<1>6. ASSUME NEW t \in Threads, TakeAgents(t)
      PROVE  IInv'
  <2>1. AgentsOK' /\ EnergyFileOK'
    BY <1>1, <1>6 DEF TakeAgents, AgentsOK, EnergyFileOK
  <2>2. RequestsInv' /\ AnswerOfNow'
    BY <1>1, <1>6, TakeInv, AnswerGone DEF TakeAgents
  <2> QED
    BY <2>1, <2>2 DEF IInv
<1>7. ASSUME NEW t \in Threads,
             CollectHealth(t) \/ Summarise(t) \/ AnswerHealth(t) \/ Leave(t)
      PROVE  IInv'
  <2>1. UNCHANGED <<clock, energyFile, served, roads, generation, answer>>
    BY <1>7 DEF CollectHealth, Summarise, AnswerHealth, Leave
  <2>2. AgentsOK' /\ EnergyFileOK'
    BY <1>1, <2>1 DEF AgentsOK, EnergyFileOK
  <2>3. RequestsInv' /\ AnswerOfNow'
    BY <1>1, <1>7, <2>1, CollectInv, SummariseInv, AnswerHealthInv, LeaveInv, AnswerStays
  <2> QED
    BY <2>2, <2>3 DEF IInv
<1>8. CASE Compare \/ AskAccess \/ Orchestrate \/ Assess
  BY <1>1, <1>8, AnswerGiven
<1>9. CASE ReadAnswer
  <2>1. AgentsOK' /\ EnergyFileOK'
    BY <1>1, <1>9 DEF ReadAnswer, AgentsOK, EnergyFileOK
  <2>2. RequestsInv' /\ AnswerOfNow'
    BY <1>2, <1>9, AnswerGone DEF ReadAnswer
  <2> QED
    BY <2>1, <2>2 DEF IInv
<1>10. CASE UNCHANGED vars
  <2>1. AgentsOK' /\ EnergyFileOK'
    BY <1>1, <1>10 DEF vars, AgentsOK, EnergyFileOK
  <2>2. RequestsInv' /\ AnswerOfNow'
    BY <1>1, <1>2, <1>10, AnswerStays DEF vars
  <2> QED
    BY <2>1, <2>2 DEF IInv
<1> QED
  BY <1>3, <1>4, <1>5, <1>6, <1>7, <1>8, <1>9, <1>10 DEF Next

LEMMA Invariance == Spec => []IInv
<1> QED
  BY InitIInv, NextIInv, PTL DEF Spec

(***************************************************************************)
(* agents/health: the summary of the shared live-state agent in an answer  *)
(* is one of this request or of one that overlaps it, for any number of    *)
(* threads and rebuilds.                                                   *)
(***************************************************************************)
THEOREM SummariesOverlap == Spec => []SummaryOfOverlapping
<1>1. IInv => SummaryOfOverlapping
  BY DEF IInv, RequestsInv
<1> QED
  BY <1>1, Invariance, PTL
-----------------------------------------------------------------------------
\* What one dimension may be answered.
LEMMA DimensionAnswers ==
  ASSUME NEW o, NEW budget, NEW s
  PROVE  /\ HeatDimension \in {"result", "unavailable", "raises"}
         /\ EnergyDimension \in {"result", "unavailable", "raises"}
         /\ ResilienceDimension(o, budget, s) \in {"result", "unavailable", "raises"}
         /\ HeatDimension = "raises" <=>
              HasBaseline(served.runtime) /\ served.runtime.temperature = "foreign"
         /\ EnergyDimension = "raises" <=>
              HasForecast(served.energy) /\ served.energy.negative
         /\ ResilienceDimension(o, budget, s) = "raises" <=>
              Routable(Ref) /\ Ref.placed /\ ~InGraph(roads, o)
         /\ ResilienceDimension(o, budget, s) = "result" => InGraph(roads, o)
BY DEF HeatDimension, EnergyDimension, ResilienceDimension

\* Where a dimension has a result its agent is healthy.
LEMMA ResultIsHealthy ==
  ASSUME AgentsOK, NEW o, NEW budget, NEW s
  PROVE  /\ HeatDimension = "result" =>
               HeatHealth(served) = Health("available", "valid")
         /\ EnergyDimension = "result" =>
               EnergyHealth(served) = Health("available", "valid")
         /\ ResilienceDimension(o, budget, s) = "result" =>
               ResilienceHealth(served) = Health("available", "unknown")
<1>1. clock \in Int /\ HeatThreshold \in Int
  BY CityAssumption DEF AgentsOK
<1>2. HeatDimension = "result" => HeatHealth(served) = Health("available", "valid")
  <2> SUFFICES ASSUME HeatDimension = "result"
               PROVE  HeatHealth(served) = Health("available", "valid")
    OBVIOUS
  <2>1. served.runtime.heat # None /\ clock - served.runtime.heat \in 0..HeatThreshold
    BY DEF HeatDimension, HasBaseline
  <2>2. served.runtime.heat \in Int
    BY <2>1, CityAssumption DEF AgentsOK
  <2>3. Freshness(served.runtime.heat, HeatThreshold) = "valid"
    BY <1>1, <2>1, <2>2 DEF Freshness
  <2> QED
    BY <2>1, <2>3 DEF HeatHealth, Observing
<1>3. EnergyDimension = "result" => EnergyHealth(served) = Health("available", "valid")
  <2> SUFFICES ASSUME EnergyDimension = "result"
               PROVE  EnergyHealth(served) = Health("available", "valid")
    OBVIOUS
  <2>1. served.energy # None /\ clock \in served.energy.issued..served.energy.valid
    BY DEF EnergyDimension, HasForecast
  <2>2. served.energy.valid >= clock
    BY <1>1, <2>1
  <2> QED
    BY <2>1, <2>2 DEF EnergyHealth
<1>4. ResilienceDimension(o, budget, s) = "result" =>
        ResilienceHealth(served) = Health("available", "unknown")
  <2>1. InGraph(roads, o) => served.reference.edges # {}
    BY DEF AgentsOK, InGraph
  <2> QED
    BY <2>1, DimensionAnswers DEF ResilienceHealth
<1> QED
  BY <1>2, <1>3, <1>4

\* An assessment that is given answers each dimension on its own.
LEMMA AssessmentShape ==
  ASSUME NEW o, NEW budget, NEW s, Assessment(o, budget, s) # None
  PROVE  LET each == Assessment(o, budget, s) IN
         /\ DOMAIN each = DimensionsOf(s)
         /\ \A d \in DimensionsOf(s) :
              /\ each[d] # "raises"
              /\ each[d] = CASE d = "heat"   -> HeatDimension
                             [] d = "energy" -> EnergyDimension
                             [] OTHER        -> ResilienceDimension(o, budget, s)
<1>1. Assessment(o, budget, s) = EachDimension(o, budget, s)
  BY DEF Assessment
<1>2. ~ \E d \in DOMAIN EachDimension(o, budget, s) :
          EachDimension(o, budget, s)[d] = "raises"
  BY DEF Assessment
<1> QED
  BY <1>1, <1>2 DEF EachDimension

LEMMA DimensionNames ==
  ASSUME NEW s
  PROVE  /\ DimensionsOf(s) \in SUBSET Domains
         /\ DimensionsOf(s) \subseteq {"heat", "energy", "resilience"}
BY DEF DimensionsOf, Domains

(***************************************************************************)
(* orchestrator/assessment.py with the agents: a dimension has a result    *)
(* only while its agent is available and its baseline is fresh, and then a *)
(* workflow of just these domains is available.                            *)
(***************************************************************************)
THEOREM ResultsAreHealthy == Spec => []AssessedOnlyIfHealthy
<1>1. IInv => AssessedOnlyIfHealthy
  <2> SUFFICES ASSUME IInv, answer.asked = "assess", answer.result # None
               PROVE
      LET given == {d \in DOMAIN answer.result : answer.result[d] = "result"} IN
      /\ \A d \in given :
           /\ DomainHealth(served)[d].status = "available"
           /\ DomainHealth(served)[d].freshness \in {"valid", "unknown"}
           /\ d # "resilience" => DomainHealth(served)[d].freshness = "valid"
      /\ \A w \in DOMAIN Workflows : Workflows[w] \subseteq given =>
           WorkflowStatus(w) = "available"
    BY DEF AssessedOnlyIfHealthy
  <2> DEFINE given == {d \in DOMAIN answer.result : answer.result[d] = "result"}
  <2>1. PICK o \in Nodes \cup {None}, budget \in Budgets, s \in Scenarios :
          answer.result = Assessment(o, budget, s)
    BY DEF IInv, AnswerOfNow, AssessmentOfNow
  <2>2. ASSUME NEW d \in given
        PROVE  /\ DomainHealth(served)[d].status = "available"
               /\ DomainHealth(served)[d].freshness \in {"valid", "unknown"}
               /\ d # "resilience" => DomainHealth(served)[d].freshness = "valid"
    <3>1. /\ d \in DimensionsOf(s)
          /\ "result" = CASE d = "heat"   -> HeatDimension
                         [] d = "energy" -> EnergyDimension
                         [] OTHER        -> ResilienceDimension(o, budget, s)
      BY <2>1, AssessmentShape
    <3>2. d \in {"heat", "energy", "resilience"}
      BY <3>1, DimensionNames
    <3>3. AgentsOK
      BY DEF IInv
    <3>4. CASE d = "heat"
      <4>1. DomainHealth(served)[d] = Health("available", "valid")
        BY <3>1, <3>3, <3>4, ResultIsHealthy DEF DomainHealth
      <4> QED
        BY <4>1 DEF Health
    <3>5. CASE d = "energy"
      <4>1. DomainHealth(served)[d] = Health("available", "valid")
        BY <3>1, <3>3, <3>5, ResultIsHealthy DEF DomainHealth
      <4> QED
        BY <4>1 DEF Health
    <3>6. CASE d = "resilience"
      <4>1. DomainHealth(served)[d] = Health("available", "unknown")
        BY <3>1, <3>3, <3>6, ResultIsHealthy DEF DomainHealth
      <4> QED
        BY <3>6, <4>1 DEF Health
    <3> QED
      BY <3>2, <3>4, <3>5, <3>6
  <2>3. ASSUME NEW w \in DOMAIN Workflows, Workflows[w] \subseteq given
        PROVE  WorkflowStatus(w) = "available"
    <3>1. Workflows[w] # {}
      BY DEF Workflows
    <3>2. \A a \in Workflows[w] : DomainHealth(served)[a].status = "available"
      BY <2>2, <2>3
    <3>3. {DomainHealth(served)[a].status : a \in Workflows[w]} = {"available"}
      BY <3>1, <3>2
    <3> QED
      BY <3>3 DEF WorkflowStatus, Overall
  <2> QED
    BY <2>2, <2>3
<1> QED
  BY <1>1, Invariance, PTL

\* An agent's notion of what is current is that of its dimension.
LEMMA CurrentMeansFresh ==
  ASSUME AgentsOK
  PROVE  /\ HasBaseline(served.runtime) <=>
              /\ served.runtime.temperature \in {"celsius", "foreign"}
              /\ HeatHealth(served).freshness = "valid"
         /\ HasForecast(served.energy) <=>
              /\ served.energy # None
              /\ EnergyHealth(served).freshness = "valid"
              /\ served.energy.issued <= clock
<1>1. clock \in Int /\ HeatThreshold \in Int
  BY CityAssumption DEF AgentsOK
<1>2. HeatHealth(served).freshness = "valid" <=>
        served.runtime.heat # None /\ clock - served.runtime.heat \in 0..HeatThreshold
  <2>1. CASE served.runtime.heat = None
    BY <2>1 DEF HeatHealth, Unavailable, Health
  <2>2. CASE served.runtime.heat # None
    <3>1. served.runtime.heat \in Int
      BY <2>2, CityAssumption DEF AgentsOK
    <3>2. HeatHealth(served).freshness = Freshness(served.runtime.heat, HeatThreshold)
      BY <2>2 DEF HeatHealth, Observing, Health
    <3> QED
      BY <1>1, <2>2, <3>1, <3>2 DEF Freshness
  <2> QED
    BY <2>1, <2>2
<1>3. HasForecast(served.energy) <=>
        /\ served.energy # None
        /\ EnergyHealth(served).freshness = "valid"
        /\ served.energy.issued <= clock
  <2>1. CASE served.energy = None
    BY <2>1 DEF HasForecast
  <2>2. CASE served.energy # None
    <3>1. EnergyHealth(served).freshness = "valid" <=> served.energy.valid >= clock
      BY <2>2 DEF EnergyHealth, Health
    <3> QED
      BY <1>1, <2>2, <3>1 DEF HasForecast
  <2> QED
    BY <2>1, <2>2
<1> QED
  BY <1>2, <1>3 DEF HasBaseline

\* The assessment fails as a whole when a dimension that was asked for raises.
LEMMA FailsWhenOneRaises ==
  ASSUME AgentsOK, NEW o, NEW budget, NEW s
  PROVE  FailsAsAWhole(o, s) <=>
           \E d \in DimensionsOf(s) : EachDimension(o, budget, s)[d] = "raises"
<1> DEFINE each == EachDimension(o, budget, s)
<1>1. \A d \in DimensionsOf(s) :
        each[d] = CASE d = "heat"   -> HeatDimension
                    [] d = "energy" -> EnergyDimension
                    [] OTHER        -> ResilienceDimension(o, budget, s)
  BY DEF EachDimension
<1>2. /\ HeatDimension = "raises" <=>
           /\ served.runtime.temperature = "foreign"
           /\ HeatHealth(served).freshness = "valid"
      /\ EnergyDimension = "raises" <=>
           /\ served.energy # None /\ served.energy.negative
           /\ EnergyHealth(served).freshness = "valid"
           /\ served.energy.issued <= clock
      /\ ResilienceDimension(o, budget, s) = "raises" <=>
           Routable(Ref) /\ Ref.placed /\ ~InGraph(Ref.edges, o)
  <2>1. roads = Ref.edges
    BY DEF AgentsOK, Ref
  <2> QED
    BY <2>1, DimensionAnswers, CurrentMeansFresh
<1>3. (\E d \in DimensionsOf(s) : each[d] = "raises") <=>
        \/ "heat" \in DimensionsOf(s) /\ HeatDimension = "raises"
        \/ "energy" \in DimensionsOf(s) /\ EnergyDimension = "raises"
        \/ "resilience" \in DimensionsOf(s) /\ ResilienceDimension(o, budget, s) = "raises"
  <2> HIDE DEF each
  <2> QED
    BY <1>1, DimensionNames
<1> QED
  BY <1>2, <1>3 DEF FailsAsAWhole

(***************************************************************************)
(* orchestrator/assessment.py: a dimension that was asked for is answered  *)
(* or named as unavailable, whatever is missing, stale or broken in the    *)
(* others.  The assessment fails exactly when one of the three exceptions  *)
(* is raised that the code does not catch: for a temperature that is no    *)
(* number in Celsius, a negative forecast, an origin without a road.       *)
(***************************************************************************)
THEOREM DimensionsAreIndependent == Spec => []DimensionsIndependent
<1>1. IInv => DimensionsIndependent
  <2> SUFFICES ASSUME IInv, answer.asked = "assess"
               PROVE  LET s == answer.scenario IN
                      IF FailsAsAWhole(answer.from, s)
                      THEN answer.result = None
                      ELSE /\ answer.result # None
                           /\ DOMAIN answer.result = DimensionsOf(s)
                           /\ \A d \in DOMAIN answer.result : answer.result[d] # "raises"
    BY DEF DimensionsIndependent
  <2>1. PICK o \in Nodes \cup {None}, budget \in Budgets, s \in Scenarios :
          answer = [asked |-> "assess", from |-> o, scenario |-> s,
                    result |-> Assessment(o, budget, s)]
    BY DEF IInv, AnswerOfNow, AssessmentOfNow
  <2>2. answer.result = Assessment(o, budget, s) /\ answer.scenario = s /\ answer.from = o
    BY <2>1
  <2> DEFINE each == EachDimension(o, budget, s)
  <2>3. DOMAIN each = DimensionsOf(s)
    BY DEF EachDimension
  <2>4. FailsAsAWhole(o, s) <=> \E d \in DimensionsOf(s) : each[d] = "raises"
    BY FailsWhenOneRaises DEF IInv
  <2>5. CASE FailsAsAWhole(o, s)
    <3>1. Assessment(o, budget, s) = None
      BY <2>3, <2>4, <2>5 DEF Assessment
    <3> QED
      BY <2>2, <2>5, <3>1
  <2>6. CASE ~FailsAsAWhole(o, s)
    <3>1. Assessment(o, budget, s) = each
      BY <2>3, <2>4, <2>6 DEF Assessment
    <3>2. \A d \in DimensionsOf(s) : each[d] \in {"result", "unavailable"}
      <4>1. \A d \in DimensionsOf(s) : each[d] \in {"result", "unavailable", "raises"}
        BY DimensionAnswers DEF EachDimension
      <4> QED
        BY <2>4, <2>6, <4>1
    <3>3. each \in [DimensionsOf(s) -> {"result", "unavailable"}]
      BY <3>2 DEF EachDimension
    <3>4. each \in AnswersByDimension
      BY <3>3, DimensionNames DEF AnswersByDimension
    <3>5. each # None
      BY <3>4, CityAssumption
    <3> HIDE DEF each
    <3> QED
      BY <2>2, <2>3, <2>6, <3>1, <3>2, <3>5
  <2> QED
    BY <2>5, <2>6
<1> QED
  BY <1>1, Invariance, PTL
-----------------------------------------------------------------------------
LEMMA LeastElement ==
  ASSUME NEW S \in SUBSET Nat, S # {}
  PROVE  \E x \in S : \A y \in S : x <= y
<1>1. PICK x \in S : \A y \in S : ~(<<y, x>> \in OpToRel(<, Nat))
  BY NatLessThanWellFounded, WFMin
<1>2. \A y \in S : ~(y < x)
  BY <1>1 DEF OpToRel
<1> QED
  BY <1>2

LEMMA SmallerSet ==
  ASSUME NEW T, IsFiniteSet(T), NEW U \in SUBSET T
  PROVE  /\ IsFiniteSet(U)
         /\ Cardinality(U) \in Nat /\ Cardinality(T) \in Nat
         /\ Cardinality(U) <= Cardinality(T)
         /\ U # T => Cardinality(U) < Cardinality(T)
<1>1. IsFiniteSet(U) /\ Cardinality(U) <= Cardinality(T)
      /\ (Cardinality(T) = Cardinality(U) => T = U)
  BY FS_Subset
<1>2. Cardinality(U) \in Nat /\ Cardinality(T) \in Nat
  BY <1>1, FS_CardinalityType
<1> QED
  BY <1>1, <1>2

LEMMA GreatestElement ==
  ASSUME NEW n \in Nat, NEW S \in SUBSET (0..n), S # {}
  PROVE  \E x \in S : \A y \in S : x >= y
<1> DEFINE T == {n - x : x \in S}
<1>1. T \in SUBSET Nat /\ T # {}
  <2>1. PICK x : x \in S
    OBVIOUS
  <2>2. n - x \in T
    BY <2>1
  <2>3. \A y \in S : n - y \in Nat
    OBVIOUS
  <2> QED
    BY <2>2, <2>3
<1>2. PICK t \in T : \A u \in T : t <= u
  <2> HIDE DEF T
  <2> QED BY <1>1, LeastElement
<1>3. PICK x \in S : t = n - x
  BY <1>2
<1>4. ASSUME NEW y \in S PROVE x >= y
  <2>1. n - y \in T
    OBVIOUS
  <2>2. n - x <= n - y
    BY <1>2, <1>3, <2>1
  <2> QED
    BY <2>2
<1> QED
  BY <1>4

\* The first and the last of the times that a label may stand for.
LEMMA CandidatesOrdered ==
  ASSUME NEW label, Candidates(label) # {}
  PROVE  /\ Candidates(label) \subseteq 0..Rows
         /\ FirstOf(Candidates(label)) \in Candidates(label)
         /\ LastOf(Candidates(label)) \in Candidates(label)
         /\ \A t \in Candidates(label) :
              FirstOf(Candidates(label)) <= t /\ LastOf(Candidates(label)) >= t
<1> DEFINE C == Candidates(label)
<1>1. C \in SUBSET (0..Rows) /\ C \in SUBSET Nat /\ Rows \in Nat
  BY EnergyAssumption DEF Candidates
<1> HIDE DEF C
<1>2. C # {}
  BY DEF C
<1>3. \E x \in C : \A y \in C : x <= y
  BY <1>1, <1>2, LeastElement
<1>4. \E x \in C : \A y \in C : x >= y
  BY <1>1, <1>2, GreatestElement
<1>5. FirstOf(C) \in C /\ \A y \in C : FirstOf(C) <= y
  BY <1>3 DEF FirstOf
<1>6. LastOf(C) \in C /\ \A y \in C : LastOf(C) >= y
  BY <1>4 DEF LastOf
<1> QED
  BY <1>1, <1>5, <1>6 DEF C

\* Localizing takes one of the times of the label.
LEMMA LocalTimeTaken ==
  ASSUME NEW labels, Localizable(labels), NEW i \in DOMAIN labels
  PROVE  LocalTime(labels, i) \in Candidates(labels[i]) /\ LocalTime(labels, i) \in Int
<1>1. Candidates(labels[i]) # {}
  BY DEF Localizable
<1>2. LocalTime(labels, i) \in Candidates(labels[i])
  BY <1>1, CandidatesOrdered DEF LocalTime
<1> QED
  BY <1>1, <1>2, CandidatesOrdered

\* The times of a load that is accepted go up.
LEMMA TimesGoUp ==
  ASSUME NEW load \in Loads, Accepted(load)
  PROVE  LET times == TimesOf(load) IN
         /\ Len(times) \in Nat /\ \A i \in 1..Len(times) : times[i] \in Int
         /\ \A i, j \in 1..Len(times) : i < j => times[i] < times[j]
<1> DEFINE times == TimesOf(load)
<1>1. CASE load.format = "annual"
  <2>1. times = [i \in 1..Rows |-> i - 1]
    BY <1>1 DEF TimesOf
  <2>2. Rows \in Nat
    BY EnergyAssumption
  <2> HIDE DEF times
  <2>3. Len(times) = Rows /\ \A i \in 1..Rows : times[i] = i - 1
    BY <2>1, <2>2
  <2> QED
    BY <2>2, <2>3 DEF times
<1>2. CASE load.format # "annual"
  <2>1. load.format \in {"local", "aware"} /\ load.labels \in Seq(Int)
    BY <1>2, CityAssumption
  <2>2. Len(load.labels) \in Nat /\ DOMAIN load.labels = 1..Len(load.labels)
    BY <2>1
  <2>3. /\ Len(times) = Len(load.labels)
        /\ Len(times) \in Nat /\ \A i \in 1..Len(times) : times[i] \in Int
    <3>1. CASE load.format = "local"
      <4>1. times = [i \in 1..Len(load.labels) |-> LocalTime(load.labels, i)]
        BY <2>2, <3>1 DEF TimesOf
      <4>2. Localizable(load.labels)
        BY <1>2, <3>1 DEF Accepted, Tabulated
      <4>3. \A i \in 1..Len(load.labels) : LocalTime(load.labels, i) \in Int
        BY <2>2, <4>2, LocalTimeTaken
      <4> HIDE DEF times
      <4> QED
        BY <2>2, <4>1, <4>3
    <3>2. CASE load.format = "aware"
      <4>1. times = load.labels
        BY <3>2 DEF TimesOf
      <4> HIDE DEF times
      <4> QED
        BY <2>1, <2>2, <4>1
    <3> QED
      BY <2>1, <3>1, <3>2
  <2>4. \A i \in 2..Len(times) : times[i - 1] < times[i]
    BY <1>2, <2>3 DEF Accepted, Tabulated
  <2> HIDE DEF times
  <2>5. ASSUME NEW i \in 1..Len(times)
        PROVE  \A j \in 1..Len(times) : i < j => times[i] < times[j]
    <3> DEFINE Wrong == {j \in 1..Len(times) : i < j /\ ~(times[i] < times[j])}
    <3>1. ASSUME Wrong # {} PROVE FALSE
      <4>1. Wrong \in SUBSET Nat
        BY <2>3
      <4>2. PICK j \in Wrong : \A k \in Wrong : j <= k
        <5> HIDE DEF Wrong
        <5> QED BY <3>1, <4>1, LeastElement
      <4>3. j \in 2..Len(times) /\ j - 1 \in 1..Len(times) /\ i <= j - 1
        BY <2>3, <4>2
      <4>4. j - 1 \notin Wrong
        <5> HIDE DEF Wrong
        <5> QED BY <4>1, <4>2
      <4>5. i = j - 1 \/ times[i] < times[j - 1]
        BY <4>3, <4>4
      <4>6. times[j - 1] < times[j]
        BY <2>4, <4>3
      <4>7. times[i] \in Int /\ times[j - 1] \in Int /\ times[j] \in Int
        BY <2>3, <4>3
      <4>8. times[i] < times[j]
        BY <4>5, <4>6, <4>7
      <4> QED
        BY <4>2, <4>8
    <3> QED
      BY <3>1
  <2> QED
    BY <2>3, <2>5 DEF times
<1> QED
  BY <1>1, <1>2, CityAssumption

\* Features look back.
LEMMA FeaturesLookBack ==
  ASSUME NEW n \in Nat, NEW i \in UsableRows(n), NEW f \in FeatureNames,
         NEW j \in FeatureRows(f, i)
  PROVE  i \in 1..n /\ j \in 1..n /\ j < i
<1>1. i \in 1..n /\ j \in 1..n
  BY DEF UsableRows
<1>2. /\ SeasonalLag \in Nat /\ SeasonalLag >= 2
      /\ ShortWindow \in Nat /\ LongWindow \in Nat
  BY EnergyAssumption
<1>3. j < i
  BY <1>1, <1>2 DEF FeatureNames, FeatureRows, Window
<1> QED
  BY <1>1, <1>3

\* A row after a usable one is usable.
LEMMA LaterIsUsable ==
  ASSUME NEW n \in Nat, NEW i \in UsableRows(n), NEW k \in 1..n, i <= k
  PROVE  k \in UsableRows(n)
<1>1. /\ SeasonalLag \in Nat /\ SeasonalLag >= 2
      /\ ShortWindow \in Nat /\ ShortWindow >= 1
      /\ LongWindow \in Nat /\ LongWindow >= 1
  BY EnergyAssumption
<1>2. /\ i \in 1..n
      /\ \A f \in FeatureNames : FeatureRows(f, i) \subseteq 1..n
  BY DEF UsableRows
<1>3. /\ i - 1 \in FeatureRows("lag_1", i)
      /\ i - SeasonalLag \in FeatureRows("lag_seasonal", i)
      /\ i - ShortWindow \in FeatureRows("rolling_mean_4", i)
      /\ i - LongWindow \in FeatureRows("rolling_mean_16", i)
  BY <1>1, <1>2 DEF FeatureRows, Window
<1>4. /\ i - 1 \in 1..n /\ i - SeasonalLag \in 1..n
      /\ i - ShortWindow \in 1..n /\ i - LongWindow \in 1..n
  BY <1>2, <1>3 DEF FeatureNames
<1>5. ASSUME NEW f \in FeatureNames, NEW j \in FeatureRows(f, k)
      PROVE  j \in 1..n
  BY <1>1, <1>2, <1>4, <1>5 DEF FeatureNames, FeatureRows, Window
<1> QED
  BY <1>5 DEF UsableRows

\* The split: what is held out is after what was trained on, up to the end.
LEMMA SplitIsChronological ==
  ASSUME NEW n \in Nat, Evaluable(n)
  PROVE  /\ FirstOf(HeldOut(n)) \in HeldOut(n)
         /\ \A i \in UsableRows(n) \ HeldOut(n) : i < FirstOf(HeldOut(n))
         /\ LastOf(HeldOut(n)) = n
         /\ HeldOut(n) \subseteq 1..n /\ UsableRows(n) \subseteq 1..n
<1> DEFINE U == UsableRows(n)
           H == HeldOut(n)
           upTo(i) == {j \in U : j <= i}
<1>1. U \subseteq 1..n /\ IsFiniteSet(U) /\ H \subseteq U
  <2>1. U \in SUBSET (1..n) /\ H \subseteq U
    BY DEF UsableRows, HeldOut
  <2>2. IsFiniteSet(1..n)
    BY FS_Interval
  <2> QED
    BY <2>1, <2>2, SmallerSet
<1>2. ASSUME NEW i \in U, NEW k \in H, k <= i PROVE i \in H
  <2>1. upTo(k) \in SUBSET upTo(i) /\ upTo(i) \in SUBSET U
    BY <1>1, <1>2
  <2>2. Cardinality(upTo(k)) > TrainCount(n)
    BY <1>2 DEF HeldOut
  <2>3. /\ Cardinality(upTo(k)) \in Nat /\ Cardinality(upTo(i)) \in Nat
        /\ Cardinality(upTo(k)) <= Cardinality(upTo(i))
    <3> HIDE DEF upTo, U
    <3> QED BY <1>1, <2>1, SmallerSet
  <2>4. Cardinality(U) \in Nat /\ TrainCount(n) \in Int
    <3>1. Cardinality(U) \in Nat /\ 100 - TestShare \in Int
      BY <1>1, FS_CardinalityType, EnergyAssumption
    <3> QED
      BY <3>1 DEF TrainCount
  <2>5. Cardinality(upTo(i)) > TrainCount(n)
    <3> HIDE DEF upTo
    <3> QED BY <2>2, <2>3, <2>4
  <2> QED
    BY <1>2, <2>5 DEF HeldOut
<1>3. H # {}
  <2>1. Cardinality(H) >= MinTest
    BY DEF Evaluable
  <2>2. MinTest \in Nat \ {0}
    BY EnergyAssumption
  <2>3. Cardinality({}) = 0
    BY FS_EmptySet
  <2> HIDE DEF H
  <2> QED
    BY <2>1, <2>2, <2>3
<1> HIDE DEF U, H
<1>4. H \in SUBSET Nat
  BY <1>1
<1>5. FirstOf(H) \in H /\ \A y \in H : FirstOf(H) <= y
  <2>1. \E x \in H : \A y \in H : x <= y
    BY <1>3, <1>4, LeastElement
  <2> QED
    BY <2>1 DEF FirstOf
<1>6. ASSUME NEW i \in U \ H PROVE i < FirstOf(H)
  <2>1. i \in 1..n
    BY <1>1
  <2>2. FirstOf(H) \in Nat
    BY <1>4, <1>5
  <2>3. ~(FirstOf(H) <= i)
    BY <1>2, <1>5
  <2> QED
    BY <2>1, <2>2, <2>3
<1>7. n \in H
  <2>1. PICK i \in H : i \in 1..n /\ i \in U
    BY <1>1, <1>3
  <2>2. n \in U
    BY <2>1, LaterIsUsable DEF U
  <2> QED
    BY <1>2, <2>1, <2>2
<1>8. LastOf(H) = n
  <2>1. \A y \in H : n >= y
    BY <1>1
  <2>2. LastOf(H) \in H /\ \A y \in H : LastOf(H) >= y
    BY <1>7, <2>1 DEF LastOf
  <2>3. LastOf(H) \in Nat /\ LastOf(H) >= n /\ n >= LastOf(H)
    BY <1>4, <1>7, <2>1, <2>2
  <2> QED
    BY <2>3
<1> QED
  BY <1>1, <1>5, <1>6, <1>8 DEF U, H

(***************************************************************************)
(* energy/pipeline.py: no evaluated row uses itself or a later one, what   *)
(* is held out is later than what was trained on, and the forecast is of a *)
(* time after everything it uses; for every length of the curve, lag,      *)
(* window and share of test rows.                                          *)
(***************************************************************************)
THEOREM NothingLooksAhead == Spec => []NoLookAhead
<1>1. IInv => NoLookAhead
  <2> SUFFICES ASSUME IInv, energyFile # None
               PROVE  LET times == energyFile.times IN
      /\ \A i \in UsableRows(Len(times)), f \in FeatureNames :
           \A j \in FeatureRows(f, i) : times[j] < times[i]
      /\ \A t \in energyFile.trained : t < energyFile.evaluation[1]
      /\ \A f \in FeatureNames : \A t \in energyFile.inputs[f] : t < energyFile.valid
      /\ energyFile.evaluation[2] = energyFile.issued
    BY DEF NoLookAhead
  <2>1. PICK load \in Loads, scores \in Scores, negative \in BOOLEAN :
          Evaluated(load, scores) /\ energyFile = EnergyStateOf(load, scores, negative)
    BY DEF IInv, EnergyFileOK
  <2> DEFINE times == TimesOf(load)
             n     == Len(times)
             U     == UsableRows(n)
             H     == HeldOut(n)
  <2>2. /\ energyFile.times = times
        /\ energyFile.evaluation = <<times[FirstOf(H)], times[LastOf(H)]>>
        /\ energyFile.trained = {times[i] : i \in U \ H}
        /\ energyFile.issued = times[n]
        /\ energyFile.valid = times[n] + times[n] - times[n - 1]
        /\ energyFile.inputs = [f \in FeatureNames |-> {times[i] : i \in ForecastRows(f, n)}]
    BY <2>1 DEF EnergyStateOf
  <2>3. /\ Accepted(load) /\ Evaluable(n)
        /\ n > SeasonalLag + LongWindow
    BY <2>1 DEF Evaluated, Forecastable
  <2>4. /\ n \in Nat /\ \A i \in 1..n : times[i] \in Int
        /\ \A i, j \in 1..n : i < j => times[i] < times[j]
    BY <2>3, TimesGoUp
  <2>5. /\ FirstOf(H) \in H
        /\ \A i \in U \ H : i < FirstOf(H)
        /\ LastOf(H) = n
        /\ H \subseteq 1..n /\ U \subseteq 1..n
    BY <2>3, <2>4, SplitIsChronological
  <2> HIDE DEF times, n, U, H
  <2>6. ASSUME NEW i \in U, NEW f \in FeatureNames, NEW j \in FeatureRows(f, i)
        PROVE  times[j] < times[i]
    <3>1. i \in 1..n /\ j \in 1..n /\ j < i
      BY <2>4, FeaturesLookBack DEF U
    <3> QED
      BY <2>4, <3>1
  <2>7. ASSUME NEW t \in energyFile.trained
        PROVE  t < energyFile.evaluation[1]
    <3>1. PICK i \in U \ H : t = times[i]
      BY <2>2
    <3>2. energyFile.evaluation[1] = times[FirstOf(H)]
      BY <2>2
    <3>3. i \in 1..n /\ FirstOf(H) \in 1..n /\ i < FirstOf(H)
      BY <2>5
    <3> QED
      BY <2>4, <3>1, <3>2, <3>3
  <2>8. ASSUME NEW f \in FeatureNames, NEW t \in energyFile.inputs[f]
        PROVE  t < energyFile.valid
    <3>1. PICK i \in ForecastRows(f, n) : t = times[i]
      BY <2>2
    <3>2. /\ SeasonalLag \in Nat /\ SeasonalLag >= 2
          /\ ShortWindow \in Nat /\ ShortWindow >= 1 /\ ShortWindow <= LongWindow
          /\ LongWindow \in Nat
      BY EnergyAssumption
    <3>3. i \in 1..n
      BY <2>3, <2>4, <3>1, <3>2 DEF FeatureNames, ForecastRows, SeasonalRow
    <3>4. n \in 1..n /\ n - 1 \in 1..n
      BY <2>3, <2>4, <3>2
    <3>5. times[n - 1] < times[n] /\ times[n] \in Int /\ times[n - 1] \in Int
      BY <2>4, <3>4
    <3>6. times[i] <= times[n] /\ times[i] \in Int
      BY <2>4, <3>3, <3>4
    <3> QED
      BY <2>2, <3>1, <3>5, <3>6
  <2> QED
    BY <2>2, <2>5, <2>6, <2>7, <2>8 DEF times, n, U, H
<1> QED
  BY <1>1, Invariance, PTL
-----------------------------------------------------------------------------
\* Routes under a scenario.  Data is inducted over by its least
\* counterexample: a set of numbers that is not empty has a least element.
LEMMA MinOf ==
  ASSUME NEW S \in SUBSET Nat, S # {}
  PROVE  Min(S) \in S /\ \A y \in S : Min(S) <= y
BY LeastElement DEF Min

\* What starts in Q and is led from Q to Q at each step is there throughout.
LEMMA StepsStay ==
  ASSUME NEW n \in Nat, NEW Q, NEW u, u[0] \in Q,
         \A i \in 1..n : u[i - 1] \in Q => u[i] \in Q
  PROVE  \A i \in 0..n : u[i] \in Q
<1> DEFINE Without == {i \in 0..n : u[i] \notin Q}
<1> SUFFICES ASSUME Without # {} PROVE FALSE
  OBVIOUS
<1>1. Without \in SUBSET Nat
  OBVIOUS
<1>2. PICK m \in Without : \A i \in Without : m <= i
  <2> HIDE DEF Without
  <2> QED BY <1>1, LeastElement
<1>3. m \in 1..n /\ m - 1 \in 0..n
  BY <1>2
<1>4. m - 1 \notin Without
  <2> HIDE DEF Without
  <2> QED BY <1>1, <1>2, <1>3
<1> QED
  BY <1>2, <1>3, <1>4

\* A function that is defined by its value at zero and a step exists.
Steps(u, Q, base, step, n) ==
  /\ u \in [0..n -> Q]
  /\ u[0] = base
  /\ \A i \in 1..n : u[i] = step[i][u[i - 1]]

LEMMA StepsExist ==
  ASSUME NEW n \in Nat, NEW Q, NEW base \in Q, NEW step \in [1..n -> [Q -> Q]]
  PROVE  \E u : Steps(u, Q, base, step, n)
<1> DEFINE Without == {m \in 0..n : ~ \E u : Steps(u, Q, base, step, m)}
<1>1. ASSUME Without # {} PROVE FALSE
  <2>1. Without \in SUBSET Nat
    OBVIOUS
  <2>2. PICK m \in Without : \A k \in Without : m <= k
    <3> HIDE DEF Without
    <3> QED BY <1>1, <2>1, LeastElement
  <2>3. Steps([i \in 0..0 |-> base], Q, base, step, 0)
    BY DEF Steps
  <2>4. m \in 1..n /\ m - 1 \in 0..n
    BY <2>2, <2>3
  <2>5. m - 1 \notin Without
    <3> HIDE DEF Without
    <3> QED BY <2>1, <2>2, <2>4
  <2>6. PICK u : Steps(u, Q, base, step, m - 1)
    BY <2>4, <2>5
  <2> DEFINE w == [i \in 0..m |-> IF i = m THEN step[m][u[m - 1]] ELSE u[i]]
  <2>7. u[m - 1] \in Q
    BY <2>4, <2>6 DEF Steps
  <2>8. step[m][u[m - 1]] \in Q
    BY <2>4, <2>7
  <2>9. Steps(w, Q, base, step, m)
    <3>1. w \in [0..m -> Q] /\ w[0] = base
      BY <2>4, <2>6, <2>8 DEF Steps
    <3>2. ASSUME NEW i \in 1..m PROVE w[i] = step[i][w[i - 1]]
      BY <2>4, <2>6 DEF Steps
    <3> QED
      BY <3>1, <3>2 DEF Steps
  <2>10. \E v : Steps(v, Q, base, step, m)
    <3> HIDE DEF w
    <3> QED BY <2>9
  <2> QED
    BY <2>2, <2>10
<1>2. n \notin Without
  BY <1>1
<1> QED
  BY <1>2

SumsTo(u, times, n) ==
  /\ u \in [0..n -> Nat]
  /\ u[0] = 0
  /\ \A i \in 1..n : u[i] = u[i - 1] + times[i]

LEMMA TotalIs ==
  ASSUME NEW n \in Nat, NEW times \in [1..n -> Nat]
  PROVE  \E u : SumsTo(u, times, n) /\ Total(times) = u[n]
<1> DEFINE Rec(u) == u = [i \in 0..n |-> IF i = 0 THEN 0 ELSE u[i - 1] + times[i]]
           upTo == CHOOSE u : Rec(u)
           step == [i \in 1..n |-> [x \in Nat |-> x + times[i]]]
<1>1. Len(times) = n
  OBVIOUS
<1>2. PICK u : Steps(u, Nat, 0, step, n)
  <2>1. step \in [1..n -> [Nat -> Nat]]
    OBVIOUS
  <2> HIDE DEF step
  <2> QED
    BY <2>1, StepsExist
<1>3. ASSUME NEW i \in 1..n PROVE u[i] = u[i - 1] + times[i]
  <2>1. u[i - 1] \in Nat
    BY <1>2 DEF Steps
  <2>2. u[i] = step[i][u[i - 1]]
    <3> HIDE DEF step
    <3> QED BY <1>2 DEF Steps
  <2> QED
    BY <2>1, <2>2
<1>4. Rec(u)
  BY <1>2, <1>3 DEF Steps
<1>5. Rec(upTo)
  <2> HIDE DEF Rec
  <2> QED BY <1>4
<1>6. Total(times) = upTo[n]
  BY <1>1 DEF Total
<1> HIDE DEF upTo
<1>7. \A i \in 0..n : upTo[i] \in Nat
  <2>1. upTo[0] \in Nat
    BY <1>5
  <2>2. ASSUME NEW i \in 1..n, upTo[i - 1] \in Nat PROVE upTo[i] \in Nat
    BY <1>5, <2>2
  <2> QED
    BY <2>1, <2>2, StepsStay
<1>8. SumsTo(upTo, times, n)
  BY <1>5, <1>7 DEF SumsTo
<1> QED
  BY <1>6, <1>8

\* Sums go up.
LEMMA SumsUp ==
  ASSUME NEW n \in Nat, NEW times \in [1..n -> Nat], NEW u, SumsTo(u, times, n),
         NEW k \in 0..n
  PROVE  u[k] <= u[n]
<1> DEFINE Below == {i \in Nat : i >= u[k]}
           v == [i \in 0..(n - k) |-> u[k + i]]
<1>1. v[0] \in Below
  BY DEF SumsTo
<1>0. n - k \in Nat
  OBVIOUS
<1>2. ASSUME NEW i \in 1..(n - k), v[i - 1] \in Below PROVE v[i] \in Below
  <2>1. k + i \in 1..n /\ v[i - 1] = u[k + i - 1] /\ v[i] = u[k + i]
    OBVIOUS
  <2>2. u[k + i] = u[k + i - 1] + times[k + i]
    BY <2>1 DEF SumsTo
  <2>3. u[k + i - 1] \in Nat /\ u[k] \in Nat /\ times[k + i] \in Nat
    BY <2>1 DEF SumsTo
  <2> QED
    BY <1>2, <2>1, <2>2, <2>3
<1>3. \A i \in 0..(n - k) : v[i] \in Below
  <2> HIDE DEF v, Below
  <2> QED BY <1>0, <1>1, <1>2, StepsStay
<1>4. n - k \in 0..(n - k) /\ v[n - k] = u[n]
  OBVIOUS
<1> QED
  BY <1>3, <1>4

\* Sums of smaller times are smaller.
LEMMA TotalMonotone ==
  ASSUME NEW n \in Nat, NEW f \in [1..n -> Nat], NEW g \in [1..n -> Nat],
         \A i \in 1..n : f[i] <= g[i]
  PROVE  Total(f) \in Nat /\ Total(g) \in Nat /\ Total(f) <= Total(g)
<1>1. PICK u : SumsTo(u, f, n) /\ Total(f) = u[n]
  BY TotalIs
<1>2. PICK w : SumsTo(w, g, n) /\ Total(g) = w[n]
  BY TotalIs
<1> DEFINE Below == {q \in Nat \X Nat : q[1] <= q[2]}
           v == [i \in 0..n |-> <<u[i], w[i]>>]
<1>3. v[0] \in Below
  BY <1>1, <1>2 DEF SumsTo
<1>4. ASSUME NEW i \in 1..n, v[i - 1] \in Below PROVE v[i] \in Below
  <2>1. u[i] = u[i - 1] + f[i] /\ w[i] = w[i - 1] + g[i]
    BY <1>1, <1>2 DEF SumsTo
  <2>2. u[i - 1] \in Nat /\ w[i - 1] \in Nat /\ u[i - 1] <= w[i - 1]
    BY <1>4
  <2>3. f[i] \in Nat /\ g[i] \in Nat /\ f[i] <= g[i]
    OBVIOUS
  <2>4. u[i] \in Nat /\ w[i] \in Nat /\ u[i] <= w[i]
    BY <2>1, <2>2, <2>3
  <2> QED
    BY <2>4
<1>5. \A i \in 0..n : v[i] \in Below
  <2> HIDE DEF v, Below
  <2> QED BY <1>3, <1>4, StepsStay
<1>6. v[n] \in Below
  BY <1>5
<1> QED
  BY <1>1, <1>2, <1>6

\* A path: from o to d, over other nodes, and no longer than there are nodes.
LEMMA BetweenIs ==
  ASSUME NEW o \in Nodes, NEW d \in Nodes, NEW p
  PROVE  p \in Between(o, d) <=>
           /\ p \in Seq(Nodes) /\ Len(p) \in 2..Cardinality(Nodes)
           /\ p[1] = o /\ p[Len(p)] = d
           /\ \A i \in 2..(Len(p) - 1) : p[i] \in Nodes \ {o, d}
<1> DEFINE N == Cardinality(Nodes)
<1>1. N \in Nat
  BY CityAssumption, FS_CardinalityType
<1> HIDE DEF N
<1>2. ASSUME p \in Between(o, d)
      PROVE  /\ p \in Seq(Nodes) /\ Len(p) \in 2..N
             /\ p[1] = o /\ p[Len(p)] = d
             /\ \A i \in 2..(Len(p) - 1) : p[i] \in Nodes \ {o, d}
  <2>1. PICK k \in 0..(N - 2) : \E via \in [1..k -> Nodes \ {o, d}] :
                                   p = <<o>> \o via \o <<d>>
    BY <1>2 DEF Between, N
  <2>2. PICK via \in [1..k -> Nodes \ {o, d}] : p = <<o>> \o via \o <<d>>
    BY <2>1
  <2>3. k \in Nat /\ via \in Seq(Nodes) /\ Len(via) = k
    BY <1>1
  <2>4. p \in Seq(Nodes) /\ Len(p) = k + 2 /\ p[1] = o /\ p[k + 2] = d
    BY <2>2, <2>3
  <2>5. ASSUME NEW i \in 2..(k + 1) PROVE p[i] = via[i - 1]
    BY <2>2, <2>3
  <2> QED
    BY <1>1, <2>3, <2>4, <2>5
<1>3. ASSUME p \in Seq(Nodes), Len(p) \in 2..N, p[1] = o, p[Len(p)] = d,
             \A i \in 2..(Len(p) - 1) : p[i] \in Nodes \ {o, d}
      PROVE  p \in Between(o, d)
  <2> DEFINE k == Len(p) - 2
             via == [i \in 1..k |-> p[i + 1]]
             q == <<o>> \o via \o <<d>>
  <2>1. k \in Nat /\ k \in 0..(N - 2)
    BY <1>1, <1>3
  <2>2. via \in [1..k -> Nodes \ {o, d}]
    BY <1>1, <1>3
  <2>3. via \in Seq(Nodes) /\ Len(via) = k
    <3> HIDE DEF via, k
    <3> QED BY <2>1, <2>2
  <2>4. q \in Seq(Nodes) /\ Len(q) = Len(p)
    BY <1>3, <2>3
  <2>5. ASSUME NEW i \in 1..Len(p) PROVE q[i] = p[i]
    <3> HIDE DEF k
    <3>1. CASE i = 1
      BY <1>3, <2>1, <2>3, <3>1
    <3>2. CASE i \in 2..(Len(p) - 1)
      <4>1. i - 1 \in 1..k /\ i \in Nat
        BY <3>2 DEF k
      <4>2. q[i] = via[i - 1]
        <5> HIDE DEF via
        <5> QED BY <2>1, <2>3, <4>1
      <4>3. via[i - 1] = p[i - 1 + 1] /\ i - 1 + 1 = i
        BY <4>1
      <4> QED
        BY <4>2, <4>3
    <3>3. CASE i = Len(p)
      <4>1. Len(p) = k + 2
        BY <1>3 DEF k
      <4>2. q[k + 2] = d
        <5> HIDE DEF via
        <5> QED BY <2>1, <2>3
      <4> QED
        BY <1>3, <3>3, <4>1, <4>2
    <3>4. Len(p) \in Nat
      BY <1>1, <1>3
    <3>5. i = 1 \/ i \in 2..(Len(p) - 1) \/ i = Len(p)
      BY <3>4
    <3> QED
      BY <3>1, <3>2, <3>3, <3>5
  <2>6. q = p
    <3> HIDE DEF q
    <3> QED BY <1>3, <2>4, <2>5
  <2> QED
    BY <2>1, <2>2, <2>6 DEF Between, N
<1> QED
  BY <1>2, <1>3 DEF N

IsGraph(edges) ==
  \A e \in edges : e.source \in Nodes /\ e.target \in Nodes /\ e.time \in Nat

\* The fastest of parallel roads is one of them.
LEMMA HopTimeIs ==
  ASSUME NEW edges, IsGraph(edges), NEW u, NEW v, Hop(edges, u, v) # {}
  PROVE  /\ HopTime(edges, u, v) \in Nat
         /\ \E e \in Hop(edges, u, v) : HopTime(edges, u, v) = e.time
         /\ \A e \in Hop(edges, u, v) : HopTime(edges, u, v) <= e.time
<1> DEFINE times == {e.time : e \in Hop(edges, u, v)}
<1>1. times \in SUBSET Nat /\ times # {}
  BY DEF Hop, IsGraph
<1>2. Min(times) \in times /\ \A t \in times : Min(times) <= t
  <2> HIDE DEF times
  <2> QED BY <1>1, MinOf
<1> QED
  BY <1>1, <1>2 DEF HopTime

Legs(edges, p) == [i \in 1..(Len(p) - 1) |-> HopTime(edges, p[i], p[i + 1])]

LEMMA PathIs ==
  ASSUME NEW edges, IsGraph(edges), NEW o \in Nodes, NEW d \in Nodes,
         NEW p \in Paths(edges, o, d)
  PROVE  /\ p \in Seq(Nodes) /\ Len(p) \in 2..Cardinality(Nodes) /\ Len(p) - 1 \in Nat
         /\ p[1] = o /\ p[Len(p)] = d
         /\ Legs(edges, p) \in [1..(Len(p) - 1) -> Nat]
         /\ Time(edges, p) = Total(Legs(edges, p)) /\ Time(edges, p) \in Nat
<1>1. Cardinality(Nodes) \in Nat
  BY CityAssumption, FS_CardinalityType
<1>2. /\ p \in Seq(Nodes) /\ Len(p) \in 2..Cardinality(Nodes)
      /\ p[1] = o /\ p[Len(p)] = d
  BY BetweenIs DEF Paths
<1>3. Len(p) - 1 \in Nat
  BY <1>1, <1>2
<1>4. ASSUME NEW i \in 1..(Len(p) - 1) PROVE HopTime(edges, p[i], p[i + 1]) \in Nat
  BY HopTimeIs DEF Paths
<1>5. Legs(edges, p) \in [1..(Len(p) - 1) -> Nat]
  BY <1>4 DEF Legs
<1>6. Time(edges, p) = Total(Legs(edges, p))
  BY DEF Time, Legs
<1>7. Total(Legs(edges, p)) \in Nat
  BY <1>3, <1>5, TotalMonotone
<1> QED
  BY <1>2, <1>3, <1>5, <1>6, <1>7

\* The edges under a scenario are those that are not closed, with times that
\* are no shorter.
LEMMA ScenarioGraph ==
  ASSUME NEW edges, NEW s, Accepts(s),
         \A e \in edges : e \in [id : {e.id}, source : Nodes, target : Nodes,
                                 both : BOOLEAN, time : Nat]
  PROVE  /\ IsGraph(edges) /\ IsGraph(ScenarioEdges(edges, s))
         /\ \A u, v : \A x \in Hop(ScenarioEdges(edges, s), u, v) :
              \E e \in Hop(edges, u, v) : x = Slowed(e, s) /\ e.time <= x.time
<1>1. \A a, b \in Nat : b >= 1 => a * b \in Nat /\ a <= a * b
  OBVIOUS
<1>2. ASSUME NEW e \in edges
      PROVE  /\ Slowed(e, s).source = e.source /\ Slowed(e, s).target = e.target
             /\ Slowed(e, s).both = e.both
             /\ Slowed(e, s).time \in Nat /\ e.time <= Slowed(e, s).time
  <2>1. e \in [id : {e.id}, source : Nodes, target : Nodes, both : BOOLEAN, time : Nat]
    OBVIOUS
  <2>2. CASE e.id \in DOMAIN s.penalties
    <3>1. s.penalties[e.id] \in Nat /\ s.penalties[e.id] >= 1
      BY <2>2, CityAssumption DEF Accepts, PenaltyInRange
    <3>2. e.time * s.penalties[e.id] \in Nat /\ e.time <= e.time * s.penalties[e.id]
      BY <1>1, <2>1, <3>1
    <3> DEFINE long == e.time * s.penalties[e.id]
    <3>3. Slowed(e, s) = [e EXCEPT !.time = long]
      BY <2>2 DEF Slowed
    <3> HIDE DEF long
    <3>4. /\ Slowed(e, s).source = e.source /\ Slowed(e, s).target = e.target
          /\ Slowed(e, s).both = e.both /\ Slowed(e, s).time = long
      BY <2>1, <3>3
    <3> QED
      BY <3>2, <3>4 DEF long
  <2>3. CASE e.id \notin DOMAIN s.penalties
    BY <2>1, <2>3 DEF Slowed
  <2> QED
    BY <2>2, <2>3
<1>3. IsGraph(edges) /\ IsGraph(ScenarioEdges(edges, s))
  BY <1>2 DEF IsGraph, ScenarioEdges
<1>4. ASSUME NEW u, NEW v, NEW x \in Hop(ScenarioEdges(edges, s), u, v)
      PROVE  \E e \in Hop(edges, u, v) : x = Slowed(e, s) /\ e.time <= x.time
  <2>1. PICK e \in edges : x = Slowed(e, s)
    BY DEF Hop, ScenarioEdges
  <2>2. e \in Hop(edges, u, v)
    BY <1>2, <2>1 DEF Hop
  <2> QED
    BY <1>2, <2>1, <2>2
<1> QED
  BY <1>3, <1>4

\* A route under a scenario is one without it, and takes no less time.
LEMMA ScenarioPath ==
  ASSUME NEW edges, NEW s, Accepts(s),
         \A e \in edges : e \in [id : {e.id}, source : Nodes, target : Nodes,
                                 both : BOOLEAN, time : Nat],
         NEW o \in Nodes, NEW d \in Nodes, NEW p \in Paths(ScenarioEdges(edges, s), o, d)
  PROVE  /\ p \in Paths(edges, o, d)
         /\ Time(edges, p) <= Time(ScenarioEdges(edges, s), p)
<1> DEFINE changed == ScenarioEdges(edges, s)
           n == Len(p) - 1
<1>1. /\ IsGraph(edges) /\ IsGraph(changed)
      /\ \A u, v : \A x \in Hop(changed, u, v) :
           \E e \in Hop(edges, u, v) : x = Slowed(e, s) /\ e.time <= x.time
  BY ScenarioGraph
<1> HIDE DEF changed
<1>2. ASSUME NEW i \in 1..n
      PROVE  /\ Hop(edges, p[i], p[i + 1]) # {}
             /\ HopTime(edges, p[i], p[i + 1]) <= HopTime(changed, p[i], p[i + 1])
  <2>1. Hop(changed, p[i], p[i + 1]) # {}
    BY DEF Paths, changed
  <2>2. PICK x \in Hop(changed, p[i], p[i + 1]) :
          HopTime(changed, p[i], p[i + 1]) = x.time
    BY <1>1, <2>1, HopTimeIs
  <2>3. PICK e \in Hop(edges, p[i], p[i + 1]) : e.time <= x.time
    BY <1>1
  <2>4. HopTime(edges, p[i], p[i + 1]) <= e.time /\ HopTime(edges, p[i], p[i + 1]) \in Nat
    BY <1>1, HopTimeIs
  <2>5. e.time \in Nat /\ x.time \in Nat
    BY <1>1 DEF IsGraph, Hop
  <2> QED
    BY <2>2, <2>3, <2>4, <2>5
<1>3. p \in Paths(edges, o, d)
  BY <1>2 DEF Paths
<1>4. /\ n \in Nat
      /\ Legs(edges, p) \in [1..n -> Nat]
      /\ Time(edges, p) = Total(Legs(edges, p))
  BY <1>1, <1>3, PathIs
<1>5. /\ Legs(changed, p) \in [1..n -> Nat]
      /\ Time(changed, p) = Total(Legs(changed, p))
  BY <1>1, PathIs DEF changed
<1>6. \A i \in 1..n : Legs(edges, p)[i] <= Legs(changed, p)[i]
  BY <1>2 DEF Legs
<1>7. Total(Legs(edges, p)) <= Total(Legs(changed, p))
  <2> HIDE DEF n
  <2> QED BY <1>4, <1>5, <1>6, TotalMonotone
<1> QED
  BY <1>3, <1>4, <1>5, <1>7 DEF changed

\* A way that avoids what a scenario touches is as fast as before.
LEMMA UntouchedPath ==
  ASSUME NEW edges, NEW s, Accepts(s),
         \A e \in edges : e \in [id : {e.id}, source : Nodes, target : Nodes,
                                 both : BOOLEAN, time : Nat],
         NEW o \in Nodes, NEW d \in Nodes, NEW p \in Paths(edges, o, d),
         \A e \in edges : e.id \in s.closed \cup DOMAIN s.penalties =>
                            {e.source, e.target} \notin SegmentsOf(p)
  PROVE  /\ p \in Paths(ScenarioEdges(edges, s), o, d)
         /\ Time(ScenarioEdges(edges, s), p) = Time(edges, p)
<1> DEFINE changed == ScenarioEdges(edges, s)
           n == Len(p) - 1
<1>1. ASSUME NEW i \in 1..n
      PROVE  Hop(changed, p[i], p[i + 1]) = Hop(edges, p[i], p[i + 1])
  <2>1. {p[i], p[i + 1]} \in SegmentsOf(p)
    BY DEF SegmentsOf
  <2>2. ASSUME NEW e \in Hop(edges, p[i], p[i + 1])
        PROVE  e.id \notin s.closed /\ Slowed(e, s) = e
    <3>1. e \in edges /\ {e.source, e.target} = {p[i], p[i + 1]}
      BY DEF Hop
    <3>2. e.id \notin s.closed \cup DOMAIN s.penalties
      BY <2>1, <3>1
    <3> QED
      BY <3>2 DEF Slowed
  <2>3. Hop(edges, p[i], p[i + 1]) \subseteq Hop(changed, p[i], p[i + 1])
    BY <2>2 DEF Hop, ScenarioEdges
  <2>4. ASSUME NEW x \in Hop(changed, p[i], p[i + 1])
        PROVE  x \in Hop(edges, p[i], p[i + 1])
    <3>1. PICK e \in Hop(edges, p[i], p[i + 1]) : x = Slowed(e, s)
      BY ScenarioGraph
    <3> QED
      BY <2>2, <3>1
  <2> QED
    BY <2>3, <2>4
<1>2. p \in Paths(changed, o, d)
  BY <1>1 DEF Paths
<1>3. \A i \in 1..n : HopTime(changed, p[i], p[i + 1]) = HopTime(edges, p[i], p[i + 1])
  BY <1>1 DEF HopTime
<1>4. [i \in 1..n |-> HopTime(changed, p[i], p[i + 1])] =
      [i \in 1..n |-> HopTime(edges, p[i], p[i + 1])]
  BY <1>3
<1> QED
  BY <1>2, <1>4 DEF Time

\* The times of the routes between two nodes, and the least of them.
LEMMA LeastTime ==
  ASSUME NEW edges, IsGraph(edges), NEW o \in Nodes, NEW d \in Nodes,
         o # d, PathTimes(edges, o, d) # {}
  PROVE  /\ \E p \in Paths(edges, o, d) : Min(PathTimes(edges, o, d)) = Time(edges, p)
         /\ \A p \in Paths(edges, o, d) : Min(PathTimes(edges, o, d)) <= Time(edges, p)
         /\ Min(PathTimes(edges, o, d)) \in Nat
<1> DEFINE times == PathTimes(edges, o, d)
<1>1. times = {Time(edges, p) : p \in Paths(edges, o, d)}
  BY DEF PathTimes
<1>2. times \in SUBSET Nat /\ times # {}
  BY <1>1, PathIs
<1>3. Min(times) \in times /\ \A t \in times : Min(times) <= t
  <2> HIDE DEF times
  <2> QED BY <1>2, MinOf
<1> QED
  BY <1>1, <1>2, <1>3

(***************************************************************************)
(* agents/resilience.py compare_route: the time without the scenario is    *)
(* that of a fastest route over the roads of the loaded reference state,   *)
(* the time under it is no less, and it is the same if some fastest route  *)
(* avoids every road the scenario touches.                                 *)
(***************************************************************************)
THEOREM ScenariosOnlyDelay == Spec => []ScenarioNeverFaster
<1>1. IInv => ScenarioNeverFaster
  <2> SUFFICES ASSUME IInv, answer.asked = "compare", answer.result # None
               PROVE
      LET s     == answer.scenario
          paths == Paths(Ref.edges, answer.from, answer.to)
          hit   == {e \in Ref.edges : e.id \in s.closed \cup DOMAIN s.penalties}
      IN  /\ \E p \in Fastest(Ref.edges, paths) : answer.result.baseline = Time(Ref.edges, p)
          /\ answer.result.scenario >= answer.result.baseline
          /\ (\E p \in Fastest(Ref.edges, paths) :
                \A e \in hit : {e.source, e.target} \notin SegmentsOf(p))
             => answer.result.scenario = answer.result.baseline
    BY DEF ScenarioNeverFaster
  <2>1. PICK o \in Nodes, d \in Nodes, s \in Scenarios :
          answer = [asked |-> "compare", from |-> o, to |-> d, scenario |-> s,
                    result |-> IF Comparable(roads, o, d, s)
                               THEN Comparison(roads, o, d, s) ELSE None]
    BY DEF IInv, AnswerOfNow, ComparisonOfNow
  <2> DEFINE edges   == Ref.edges
             changed == ScenarioEdges(edges, s)
  <2>2. roads = edges /\ served.reference \in References
    BY DEF IInv, AgentsOK, Ref
  <2>3. /\ answer.from = o /\ answer.to = d /\ answer.scenario = s
        /\ Comparable(edges, o, d, s) /\ answer.result = Comparison(edges, o, d, s)
    BY <2>1, <2>2
  <2>4. /\ Accepts(s) /\ o # d
        /\ PathTimes(edges, o, d) # {} /\ PathTimes(changed, o, d) # {}
    BY <2>3 DEF Comparable
  <2>5. \A e \in edges : e \in [id : {e.id}, source : Nodes, target : Nodes,
                                both : BOOLEAN, time : Nat]
    BY <2>2, CityAssumption DEF Ref
  <2>6. IsGraph(edges) /\ IsGraph(changed)
    BY <2>4, <2>5, ScenarioGraph
  <2>7. /\ answer.result.baseline = Min(PathTimes(edges, o, d))
        /\ answer.result.scenario = Min(PathTimes(changed, o, d))
    BY <2>3 DEF Comparison
  <2> HIDE DEF edges
  <2>8. PICK p \in Paths(edges, o, d) :
          /\ answer.result.baseline = Time(edges, p)
          /\ \A r \in Paths(edges, o, d) : answer.result.baseline <= Time(edges, r)
          /\ answer.result.baseline \in Nat
    BY <2>4, <2>6, <2>7, LeastTime
  <2>9. PICK q \in Paths(changed, o, d) :
          /\ answer.result.scenario = Time(changed, q)
          /\ \A r \in Paths(changed, o, d) : answer.result.scenario <= Time(changed, r)
          /\ answer.result.scenario \in Nat
    <3> HIDE DEF changed
    <3> QED BY <2>4, <2>6, <2>7, LeastTime
  <2>10. p \in Fastest(edges, Paths(edges, o, d))
    BY <2>8 DEF Fastest
  <2>11. answer.result.scenario >= answer.result.baseline
    <3>1. q \in Paths(edges, o, d) /\ Time(edges, q) <= Time(changed, q)
      BY <2>4, <2>5, <2>9, ScenarioPath
    <3>2. Time(edges, q) \in Nat
      BY <2>6, <3>1, PathIs
    <3> QED
      BY <2>8, <2>9, <3>1, <3>2
  <2>12. ASSUME NEW r \in Fastest(edges, Paths(edges, o, d)),
                \A e \in {x \in edges : x.id \in s.closed \cup DOMAIN s.penalties} :
                  {e.source, e.target} \notin SegmentsOf(r)
         PROVE  answer.result.scenario = answer.result.baseline
    <3>1. r \in Paths(edges, o, d) /\ Time(edges, r) <= answer.result.baseline
      BY <2>8 DEF Fastest
    <3>2. r \in Paths(changed, o, d) /\ Time(changed, r) = Time(edges, r)
      BY <2>4, <2>5, <2>12, <3>1, UntouchedPath
    <3>3. answer.result.scenario <= Time(changed, r) /\ Time(edges, r) \in Nat
      BY <2>6, <2>9, <3>1, <3>2, PathIs
    <3> QED
      BY <2>8, <2>9, <2>11, <3>1, <3>2, <3>3
  <2> QED
    BY <2>3, <2>8, <2>10, <2>11, <2>12 DEF edges
<1> QED
  BY <1>1, Invariance, PTL
-----------------------------------------------------------------------------
\* The search with a cutoff and the routes.

\* The sum of the first legs is what the sums of all of them had come to.
Prefix(f, k, times, n) ==
  /\ n \in Nat /\ k \in 0..n
  /\ f \in [1..k -> Nat] /\ times \in [1..n -> Nat]
  /\ \A i \in 1..k : f[i] = times[i]

LEMMA PrefixTotal ==
  ASSUME NEW n, NEW times, NEW u, NEW k, NEW f, Prefix(f, k, times, n), SumsTo(u, times, n)
  PROVE  Total(f) = u[k]
<1> USE DEF Prefix
<1>1. PICK w : SumsTo(w, f, k) /\ Total(f) = w[k]
  BY TotalIs
<1> DEFINE Same == {q \in Nat \X Nat : q[1] = q[2]}
           v == [i \in 0..k |-> <<w[i], u[i]>>]
<1>2. v[0] \in Same
  BY <1>1 DEF SumsTo
<1>3. ASSUME NEW i \in 1..k, v[i - 1] \in Same PROVE v[i] \in Same
  <2>1. w[i] = w[i - 1] + f[i] /\ u[i] = u[i - 1] + times[i]
    BY <1>1 DEF SumsTo
  <2>2. w[i - 1] \in Nat /\ u[i - 1] = w[i - 1] /\ f[i] \in Nat /\ f[i] = times[i]
    BY <1>3
  <2>3. w[i] \in Nat /\ u[i] = w[i]
    BY <2>1, <2>2
  <2> QED
    BY <2>3
<1>4. \A i \in 0..k : v[i] \in Same
  <2>1. k \in Nat
    OBVIOUS
  <2> HIDE DEF v, Same
  <2> QED BY <1>2, <1>3, <2>1, StepsStay
<1>5. v[k] \in Same
  BY <1>4
<1> QED
  BY <1>1, <1>5

Reaches(by, edges, o, cutoff, m) ==
  /\ by \in [0..m -> SUBSET (Nodes \X Nat)]
  /\ by[0] = {<<o, 0>>}
  /\ \A k \in 1..m :
       by[k] = by[k - 1] \cup
         {r \in UNION {{<<n, q[2] + e.time>> : e \in Hop(edges, q[1], n)} :
                          q \in by[k - 1], n \in Nodes} : r[2] \in Within(cutoff)}

LEMMA ReachedIs ==
  ASSUME NEW edges, IsGraph(edges), NEW o \in Nodes, NEW cutoff \in Nat
  PROVE  /\ Cardinality(Nodes) - 1 \in Nat
         /\ \E by : /\ Reaches(by, edges, o, cutoff, Cardinality(Nodes) - 1)
                    /\ Reached(edges, o, cutoff) = {r[1] : r \in by[Cardinality(Nodes) - 1]}
<1> DEFINE m == Cardinality(Nodes) - 1
           Q == SUBSET (Nodes \X Nat)
           onward(x) == UNION {{<<n, q[2] + e.time>> : e \in Hop(edges, q[1], n)} :
                                 q \in x, n \in Nodes}
           next(x) == x \cup {r \in onward(x) : r[2] \in Within(cutoff)}
           Rec(by) == by = [k \in 0..m |-> IF k = 0 THEN {<<o, 0>>} ELSE next(by[k - 1])]
           by == CHOOSE x : Rec(x)
           step == [k \in 1..m |-> [x \in Q |-> next(x)]]
<1>1. m \in Nat
  <2>1. Cardinality(Nodes) \in Nat /\ Cardinality(Nodes) # 0
    BY CityAssumption, FS_CardinalityType, FS_EmptySet
  <2> QED
    BY <2>1
<1>2. ASSUME NEW x \in Q PROVE next(x) \in Q
  <2>1. ASSUME NEW q \in x, NEW n \in Nodes, NEW e \in Hop(edges, q[1], n)
        PROVE  <<n, q[2] + e.time>> \in Nodes \X Nat
    <3>1. q[2] \in Nat /\ e.time \in Nat
      BY DEF Hop, IsGraph
    <3> QED
      BY <3>1
  <2>2. onward(x) \in Q
    BY <2>1
  <2> QED
    BY <2>2
<1>3. step \in [1..m -> [Q -> Q]]
  <2> HIDE DEF next, Q, m
  <2> QED BY <1>2
<1>4. {<<o, 0>>} \in Q
  OBVIOUS
<1>5. PICK u : Steps(u, Q, {<<o, 0>>}, step, m)
  <2> HIDE DEF step, Q, m
  <2> QED BY <1>1, <1>3, <1>4, StepsExist
<1>6. ASSUME NEW k \in 1..m PROVE u[k] = next(u[k - 1])
  <2> HIDE DEF next, Q, m
  <2>1. k - 1 \in 0..m
    BY <1>1
  <2>2. u[k - 1] \in Q
    BY <1>5, <2>1 DEF Steps
  <2>3. u[k] = step[k][u[k - 1]]
    <3> HIDE DEF step
    <3> QED BY <1>5 DEF Steps
  <2> QED
    BY <2>2, <2>3
<1>7. Rec(u)
  <2> HIDE DEF next, Q, m, step
  <2> QED BY <1>1, <1>5, <1>6 DEF Steps
<1>8. Rec(by)
  <2> HIDE DEF Rec
  <2> QED BY <1>7
<1>9. Reached(edges, o, cutoff) = {r[1] : r \in by[m]}
  BY DEF Reached
<1> HIDE DEF by
<1>10. by[0] = {<<o, 0>>} /\ \A k \in 1..m : by[k] = next(by[k - 1])
  <2> HIDE DEF next, m
  <2>1. 0 \in 0..m /\ \A k \in 1..m : k \in 0..m /\ k # 0
    BY <1>1
  <2> QED
    BY <1>8, <2>1
<1>11. \A k \in 0..m : by[k] \in Q
  <2> HIDE DEF next, Q, m
  <2>1. ASSUME NEW k \in 1..m, by[k - 1] \in Q PROVE by[k] \in Q
    BY <1>2, <1>10, <2>1
  <2> QED
    BY <1>1, <1>4, <1>10, <2>1, StepsStay
<1>12. by \in [0..m -> Q]
  <2> HIDE DEF next, Q, m
  <2>1. DOMAIN by = 0..m /\ by = [k \in 0..m |-> by[k]]
    BY <1>8
  <2> HIDE DEF Rec
  <2> QED
    BY <1>11, <2>1
<1>13. Reaches(by, edges, o, cutoff, m)
  <2>1. ASSUME NEW k \in 1..m
        PROVE  by[k] = by[k - 1] \cup
          {r \in UNION {{<<n, q[2] + e.time>> : e \in Hop(edges, q[1], n)} :
                           q \in by[k - 1], n \in Nodes} : r[2] \in Within(cutoff)}
    <3>1. by[k] = next(by[k - 1])
      <4> HIDE DEF next, m
      <4> QED BY <1>10
    <3> QED
      BY <3>1
  <2> HIDE DEF m
  <2> QED
    BY <1>10, <1>12, <2>1 DEF Reaches
<1> QED
  BY <1>1, <1>9, <1>13

\* What is reached over some roads is reached over more.
LEMMA ReachesMore ==
  ASSUME NEW edges, NEW o, NEW cutoff, NEW m \in Nat, NEW by,
         Reaches(by, edges, o, cutoff, m), NEW k \in 0..m
  PROVE  by[k] \subseteq by[m]
<1> DEFINE More == {x \in SUBSET (Nodes \X Nat) : by[k] \subseteq x}
           v == [i \in 0..(m - k) |-> by[k + i]]
<1>1. m - k \in Nat /\ m - k \in 0..(m - k) /\ v[m - k] = by[m]
  OBVIOUS
<1>2. v[0] \in More
  BY DEF Reaches
<1>3. ASSUME NEW i \in 1..(m - k), v[i - 1] \in More PROVE v[i] \in More
  <2>1. k + i \in 1..m /\ v[i - 1] = by[k + i - 1] /\ v[i] = by[k + i]
    OBVIOUS
  <2>2. by[k + i - 1] \subseteq by[k + i] /\ by[k + i] \in SUBSET (Nodes \X Nat)
    BY <2>1 DEF Reaches
  <2> QED
    BY <1>3, <2>1, <2>2
<1>4. \A i \in 0..(m - k) : v[i] \in More
  <2> HIDE DEF v, More
  <2> QED BY <1>1, <1>2, <1>3, StepsStay
<1> QED
  BY <1>1, <1>4

\* A route within the cutoff is followed, node by node.
LEMMA RouteReached ==
  ASSUME NEW edges, IsGraph(edges), NEW o \in Nodes, NEW d \in Nodes, NEW cutoff \in Nat,
         NEW p \in Paths(edges, o, d), Time(edges, p) <= cutoff
  PROVE  d \in Reached(edges, o, cutoff)
<1> DEFINE m == Cardinality(Nodes) - 1
           n == Len(p) - 1
           times == Legs(edges, p)
<1>1. /\ p \in Seq(Nodes) /\ n \in Nat /\ n \in 0..m /\ p[1] = o /\ p[n + 1] = d
      /\ times \in [1..n -> Nat] /\ Time(edges, p) = Total(times)
  <2>1. Cardinality(Nodes) \in Nat
    BY CityAssumption, FS_CardinalityType
  <2> QED
    BY <2>1, PathIs
<1>2. PICK by : /\ Reaches(by, edges, o, cutoff, m)
                /\ Reached(edges, o, cutoff) = {r[1] : r \in by[m]}
  BY ReachedIs
<1>3. m \in Nat
  BY ReachedIs
<1>4. \A i \in 1..n : p[i] \in Nodes /\ p[i + 1] \in Nodes
                      /\ Hop(edges, p[i], p[i + 1]) # {}
                      /\ times[i] = HopTime(edges, p[i], p[i + 1])
  BY <1>1 DEF Paths, Legs
<1> HIDE DEF m, n, times
<1>5. PICK u : SumsTo(u, times, n) /\ Total(times) = u[n]
  BY <1>1, TotalIs
<1> DEFINE Followed == {i \in 0..n : <<p[i + 1], u[i]>> \in by[i]}
           v == [i \in 0..n |-> i]
<1>6. v[0] \in Followed
  BY <1>1, <1>2, <1>5 DEF Reaches, SumsTo
<1>7. ASSUME NEW i \in 1..n, v[i - 1] \in Followed PROVE v[i] \in Followed
  <2>1. i - 1 \in 0..n /\ i - 1 + 1 = i /\ i \in 0..n /\ i \in 1..m
    BY <1>1, <1>3
  <2>2. <<p[i], u[i - 1]>> \in by[i - 1]
    BY <1>7, <2>1
  <2>3. PICK e \in Hop(edges, p[i], p[i + 1]) : times[i] = e.time
    BY <1>4, HopTimeIs
  <2>4. u[i] = u[i - 1] + e.time /\ u[i] \in Nat
    BY <1>5, <2>3 DEF SumsTo
  <2>5. u[i] <= u[n]
    BY <1>1, <1>5, <2>1, SumsUp
  <2>6. u[i] \in Within(cutoff)
    BY <1>1, <1>5, <2>4, <2>5 DEF Within, SumsTo
  <2> DEFINE q == <<p[i], u[i - 1]>>
             r == <<p[i + 1], u[i]>>
  <2>a. q[1] = p[i] /\ q[2] = u[i - 1] /\ r[2] = u[i]
    OBVIOUS
  <2>b. r = <<p[i + 1], q[2] + e.time>>
    BY <2>4
  <2> HIDE DEF q
  <2>7. /\ p[i + 1] \in Nodes /\ q \in by[i - 1] /\ e \in Hop(edges, q[1], p[i + 1])
        /\ r = <<p[i + 1], q[2] + e.time>> /\ r[2] \in Within(cutoff)
    BY <1>4, <2>2, <2>6, <2>a, <2>b DEF q
  <2> HIDE DEF r
  <2> DEFINE onto(x, k) == {<<k, x[2] + y.time>> : y \in Hop(edges, x[1], k)}
  <2>8. r \in onto(q, p[i + 1])
    BY <2>7
  <2>9. r \in UNION {onto(x, k) : x \in by[i - 1], k \in Nodes}
    <3> HIDE DEF onto
    <3> QED BY <2>7, <2>8
  <2>10. r \in by[i]
    BY <1>2, <2>1, <2>7, <2>9 DEF Reaches
  <2> QED
    BY <2>1, <2>10 DEF r
<1>8. \A i \in 0..n : v[i] \in Followed
  <2> HIDE DEF v, Followed
  <2> QED BY <1>1, <1>6, <1>7, StepsStay
<1>9. <<d, u[n]>> \in by[n]
  BY <1>1, <1>8
<1>10. <<d, u[n]>> \in by[m]
  BY <1>1, <1>2, <1>3, <1>9, ReachesMore
<1> QED
  BY <1>2, <1>10

\* A way to a node: over roads, and over nodes that are neither end.
Way(edges, o, d, m, p) ==
  /\ m \in 2..Cardinality(Nodes)
  /\ p \in [1..m -> Nodes]
  /\ p[1] = o /\ p[m] = d
  /\ \A i \in 2..(m - 1) : p[i] \in Nodes \ {o, d}
  /\ \A i \in 1..(m - 1) : Hop(edges, p[i], p[i + 1]) # {}

LEMMA WayIsPath ==
  ASSUME NEW edges, NEW o \in Nodes, NEW d \in Nodes, NEW m, NEW p,
         Way(edges, o, d, m, p)
  PROVE  p \in Paths(edges, o, d) /\ Len(p) = m
<1>1. m \in Nat
  BY CityAssumption, FS_CardinalityType DEF Way
<1>2. p \in Seq(Nodes) /\ Len(p) = m
  BY <1>1 DEF Way
<1>3. p \in Between(o, d)
  BY <1>2, BetweenIs DEF Way
<1> QED
  BY <1>2, <1>3 DEF Paths, Way

LEMMA PathIsWay ==
  ASSUME NEW edges, NEW o \in Nodes, NEW d \in Nodes, NEW p \in Paths(edges, o, d)
  PROVE  p \in Seq(Nodes) /\ Len(p) \in Nat /\ Way(edges, o, d, Len(p), p)
<1>1. p \in Between(o, d)
  BY DEF Paths
<1>2. p \in Seq(Nodes)
  BY <1>1, BetweenIs
<1>3. p \in [1..Len(p) -> Nodes] /\ Len(p) \in Nat
  BY <1>2
<1> QED
  BY <1>1, <1>2, <1>3, BetweenIs DEF Paths, Way

\* What the search reaches over k roads, a route of no more roads reaches.
Witnessed(edges, o, cutoff, k, r) ==
  /\ r[2] <= cutoff
  /\ \/ r[1] = o
     \/ \E p \in Paths(edges, o, r[1]) : Len(p) <= k + 1 /\ Time(edges, p) <= r[2]

LEMMA LaterWitnessed ==
  ASSUME NEW edges, IsGraph(edges), NEW o \in Nodes, NEW cutoff, NEW k \in Nat,
         NEW r \in Nodes \X Nat, Witnessed(edges, o, cutoff, k, r)
  PROVE  Witnessed(edges, o, cutoff, k + 1, r)
<1> SUFFICES ASSUME r[1] # o
             PROVE  \E p \in Paths(edges, o, r[1]) :
                      Len(p) <= k + 2 /\ Time(edges, p) <= r[2]
  BY DEF Witnessed
<1>1. PICK p \in Paths(edges, o, r[1]) : Len(p) <= k + 1 /\ Time(edges, p) <= r[2]
  BY DEF Witnessed
<1>2. Len(p) \in Nat
  BY <1>1, PathIs
<1> QED
  BY <1>1, <1>2

\* From a neighbour of the origin.
LEMMA FirstRoad ==
  ASSUME NEW edges, IsGraph(edges), NEW o \in Nodes, NEW n \in Nodes, n # o,
         NEW e \in Hop(edges, o, n), Cardinality(Nodes) >= 2
  PROVE  \E p \in Paths(edges, o, n) : Len(p) = 2 /\ Time(edges, p) <= e.time
<1> DEFINE p == [i \in 1..2 |-> IF i = 1 THEN o ELSE n]
<1>1. 2 \in 2..Cardinality(Nodes)
  BY CityAssumption, FS_CardinalityType
<1>2. p \in [1..2 -> Nodes] /\ p[1] = o /\ p[2] = n
  OBVIOUS
<1> HIDE DEF p
<1>3. p \in Paths(edges, o, n) /\ Len(p) = 2
  <2>1. \A i \in 2..(2 - 1) : p[i] \in Nodes \ {o, n}
    OBVIOUS
  <2>2. \A i \in 1..(2 - 1) : Hop(edges, p[i], p[i + 1]) # {}
    BY <1>2
  <2>3. Way(edges, o, n, 2, p)
    BY <1>1, <1>2, <2>1, <2>2 DEF Way
  <2>4. \A m : Way(edges, o, n, m, p) => p \in Paths(edges, o, n) /\ Len(p) = m
    BY WayIsPath
  <2> QED
    BY <2>3, <2>4
<1>4. /\ Legs(edges, p) \in [1..1 -> Nat] /\ Time(edges, p) = Total(Legs(edges, p))
      /\ Legs(edges, p)[1] = HopTime(edges, o, n)
  <2>1. Len(p) - 1 = 1
    BY <1>3
  <2>2. /\ Legs(edges, p) \in [1..(Len(p) - 1) -> Nat]
        /\ Time(edges, p) = Total(Legs(edges, p))
    BY <1>3, PathIs
  <2>3. 1 \in 1..(Len(p) - 1) /\ 1 + 1 = 2
    BY <2>1
  <2>4. Legs(edges, p)[1] = HopTime(edges, p[1], p[2])
    <3>1. \A i \in 1..(Len(p) - 1) :
            Legs(edges, p)[i] = HopTime(edges, p[i], p[i + 1])
      BY DEF Legs
    <3> QED
      BY <2>3, <3>1
  <2> QED
    BY <1>2, <2>1, <2>2, <2>4
<1>5. PICK u : SumsTo(u, Legs(edges, p), 1) /\ Total(Legs(edges, p)) = u[1]
  BY <1>4, TotalIs
<1>6. u[1] = u[0] + HopTime(edges, o, n) /\ u[0] = 0
  BY <1>4, <1>5 DEF SumsTo
<1>7. HopTime(edges, o, n) \in Nat /\ HopTime(edges, o, n) <= e.time
  BY HopTimeIs
<1>8. Time(edges, p) <= e.time
  BY <1>4, <1>5, <1>6, <1>7
<1> QED
  BY <1>3, <1>8

\* A route over n, cut off there.
LEMMA CutPath ==
  ASSUME NEW edges, IsGraph(edges), NEW o \in Nodes, NEW d \in Nodes,
         NEW p \in Paths(edges, o, d), NEW n \in Nodes, n # o,
         NEW at \in 1..Len(p), p[at] = n
  PROVE  \E w \in Paths(edges, o, n) :
           /\ Len(w) <= Len(p) /\ Time(edges, w) <= Time(edges, p)
           /\ \A i \in 1..Len(w) : w[i] = p[i]
<1> DEFINE places == {i \in 1..Len(p) : p[i] = n}
           len == Len(p)
<1>1. /\ p \in Seq(Nodes) /\ len \in 2..Cardinality(Nodes) /\ len \in Nat /\ p[1] = o
      /\ Legs(edges, p) \in [1..(len - 1) -> Nat]
      /\ Time(edges, p) = Total(Legs(edges, p))
      /\ \A i \in 2..(len - 1) : p[i] \in Nodes \ {o, d}
      /\ \A i \in 1..(len - 1) : Hop(edges, p[i], p[i + 1]) # {}
  <2>1. /\ Legs(edges, p) \in [1..(len - 1) -> Nat]
        /\ Time(edges, p) = Total(Legs(edges, p))
    BY PathIs
  <2>2. p \in Seq(Nodes) /\ len \in Nat /\ Way(edges, o, d, len, p)
    BY PathIsWay
  <2> QED
    BY <2>1, <2>2 DEF Way
<1>2. PICK m \in places : \A i \in places : m <= i
  <2>1. places \in SUBSET Nat /\ places # {}
    OBVIOUS
  <2> HIDE DEF places
  <2> QED
    BY <2>1, LeastElement
<1>3. m \in 2..len /\ m \in Nat /\ m \in 2..Cardinality(Nodes) /\ p[m] = n
  <2>1. Cardinality(Nodes) \in Nat
    BY CityAssumption, FS_CardinalityType
  <2>2. m \in 1..len /\ p[m] = n /\ m # 1
    BY <1>1, <1>2
  <2> HIDE DEF len, places
  <2> QED
    BY <1>1, <2>1, <2>2
<1>4. ASSUME NEW i \in 2..(m - 1) PROVE p[i] \in Nodes \ {o, n}
  <2>1. i \in 2..(len - 1) /\ i \in 1..len /\ ~(m <= i)
    <3> HIDE DEF len, places
    <3> QED BY <1>1, <1>3
  <2>2. p[i] # n
    BY <1>2, <2>1
  <2> QED
    BY <1>1, <2>1, <2>2
<1> HIDE DEF places, len
<1> DEFINE w == [i \in 1..m |-> p[i]]
<1>5. /\ w \in [1..m -> Nodes]
      /\ \A i \in 1..m : w[i] = p[i]
      /\ \A i \in 1..(m - 1) : i \in 1..(len - 1) /\ i \in 1..m /\ i + 1 \in 1..m
  <2>1. \A i \in 1..m : p[i] \in Nodes
    <3>1. \A i \in 1..len : p[i] \in Nodes
      BY <1>1 DEF len
    <3> QED
      BY <1>1, <1>3, <3>1
  <2> QED
    BY <1>1, <1>3, <2>1
<1> HIDE DEF w
<1>6. w \in Paths(edges, o, n) /\ Len(w) = m
  <2>1. w[1] = o /\ w[m] = n
    BY <1>1, <1>3, <1>5
  <2>2. \A i \in 2..(m - 1) : w[i] \in Nodes \ {o, n}
    BY <1>3, <1>4, <1>5
  <2>3. \A i \in 1..(m - 1) : Hop(edges, w[i], w[i + 1]) # {}
    BY <1>1, <1>5
  <2>4. Way(edges, o, n, m, w)
    BY <1>3, <1>5, <2>1, <2>2, <2>3 DEF Way
  <2> QED
    BY <2>4, WayIsPath
<1>7. /\ Legs(edges, w) \in [1..(m - 1) -> Nat] /\ Time(edges, w) = Total(Legs(edges, w))
      /\ \A i \in 1..(m - 1) : Legs(edges, w)[i] = Legs(edges, p)[i]
  <2>1. Legs(edges, w) \in [1..(m - 1) -> Nat] /\ Time(edges, w) = Total(Legs(edges, w))
    BY <1>6, PathIs
  <2>2. ASSUME NEW i \in 1..(m - 1) PROVE Legs(edges, w)[i] = Legs(edges, p)[i]
    BY <1>5, <1>6 DEF Legs, len
  <2> QED
    BY <2>1, <2>2
<1>8. len - 1 \in Nat /\ m - 1 \in 0..(len - 1)
  BY <1>1, <1>3
<1>9. PICK u : SumsTo(u, Legs(edges, p), len - 1) /\ Total(Legs(edges, p)) = u[len - 1]
  BY <1>1, <1>8, TotalIs
<1>10. Total(Legs(edges, w)) = u[m - 1]
  <2>1. Prefix(Legs(edges, w), m - 1, Legs(edges, p), len - 1)
    BY <1>1, <1>7, <1>8 DEF Prefix
  <2> QED
    BY <1>9, <2>1, PrefixTotal
<1>11. u[m - 1] <= u[len - 1]
  BY <1>1, <1>8, <1>9, SumsUp
<1>12. Len(w) <= Len(p)
  BY <1>1, <1>3, <1>6 DEF len
<1> QED
  BY <1>1, <1>5, <1>6, <1>7, <1>9, <1>10, <1>11, <1>12

\* A route that goes on over a road to a node it has not met.
LEMMA LongerPath ==
  ASSUME NEW edges, IsGraph(edges), NEW o \in Nodes, NEW d \in Nodes, o # d,
         NEW p \in Paths(edges, o, d), NEW n \in Nodes, n # o,
         \A i \in 1..Len(p) : p[i] # n, Len(p) < Cardinality(Nodes),
         NEW e \in Hop(edges, d, n)
  PROVE  \E w \in Paths(edges, o, n) :
           /\ Len(w) = Len(p) + 1 /\ Time(edges, w) <= Time(edges, p) + e.time
           /\ \A i \in 1..Len(p) : w[i] = p[i]
<1> DEFINE len == Len(p)
           m == len + 1
           w == [i \in 1..m |-> IF i = m THEN n ELSE p[i]]
<1>1. /\ p \in Seq(Nodes) /\ len \in 2..Cardinality(Nodes) /\ len \in Nat
      /\ p[1] = o /\ p[len] = d
      /\ Legs(edges, p) \in [1..(len - 1) -> Nat]
      /\ Time(edges, p) = Total(Legs(edges, p)) /\ Time(edges, p) \in Nat
      /\ \A i \in 2..(len - 1) : p[i] \in Nodes \ {o, d}
      /\ \A i \in 1..(len - 1) : Hop(edges, p[i], p[i + 1]) # {}
      /\ \A i \in 1..len : p[i] \in Nodes /\ p[i] # n
  <2>1. /\ Legs(edges, p) \in [1..(len - 1) -> Nat]
        /\ Time(edges, p) = Total(Legs(edges, p)) /\ Time(edges, p) \in Nat
    BY PathIs
  <2>2. p \in Seq(Nodes) /\ len \in Nat /\ Way(edges, o, d, len, p)
    BY PathIsWay
  <2>3. \A i \in 1..len : p[i] \in Nodes /\ p[i] # n
    BY <2>2
  <2> QED
    BY <2>1, <2>2, <2>3 DEF Way
<1>2. m \in 2..Cardinality(Nodes) /\ m \in Nat /\ m - 1 = len
  <2>1. Cardinality(Nodes) \in Nat /\ len < Cardinality(Nodes)
    BY CityAssumption, FS_CardinalityType
  <2> HIDE DEF len
  <2> QED
    BY <1>1, <2>1
<1> HIDE DEF len
<1>3. w \in [1..m -> Nodes] /\ w[m] = n /\ \A i \in 1..len : w[i] = p[i]
  <2>1. \A i \in 1..m : i # m => i \in 1..len
    BY <1>1
  <2>2. m \in 1..m /\ \A i \in 1..len : i \in 1..m /\ i # m
    BY <1>1
  <2> HIDE DEF m
  <2> QED
    BY <1>1, <2>1, <2>2
<1> HIDE DEF w, m
<1>4. \A i \in 1..len : Hop(edges, w[i], w[i + 1]) # {}
  <2> TAKE i \in 1..len
  <2>1. CASE i = len
    <3>1. w[i] = d /\ w[i + 1] = n
      BY <1>1, <1>3, <2>1 DEF m
    <3> QED
      BY <3>1
  <2>2. CASE i # len
    <3>1. i \in 1..(len - 1) /\ i + 1 \in 1..len
      BY <1>1, <2>2
    <3> QED
      BY <1>1, <1>3, <3>1
  <2> QED
    BY <2>1, <2>2
<1>5. w \in Paths(edges, o, n) /\ Len(w) = m
  <2>1. w[1] = o
    BY <1>1, <1>3
  <2>2. ASSUME NEW i \in 2..(m - 1) PROVE w[i] \in Nodes \ {o, n}
    <3>1. i \in 1..len /\ (i = len \/ i \in 2..(len - 1))
      BY <1>1, <1>2
    <3> QED
      BY <1>1, <1>3, <3>1
  <2>3. \A i \in 1..(m - 1) : Hop(edges, w[i], w[i + 1]) # {}
    BY <1>2, <1>4
  <2>4. Way(edges, o, n, m, w)
    BY <1>2, <1>3, <2>1, <2>2, <2>3 DEF Way
  <2> QED
    BY <2>4, WayIsPath
<1>6. /\ Legs(edges, w) \in [1..len -> Nat] /\ Time(edges, w) = Total(Legs(edges, w))
      /\ \A i \in 1..(len - 1) : Legs(edges, p)[i] = Legs(edges, w)[i]
      /\ Legs(edges, w)[len] = HopTime(edges, d, n)
  <2>1. Legs(edges, w) \in [1..(Len(w) - 1) -> Nat] /\ Time(edges, w) = Total(Legs(edges, w))
    BY <1>5, PathIs
  <2>2. Len(w) - 1 = len
    BY <1>2, <1>5
  <2>3. ASSUME NEW i \in 1..(len - 1) PROVE Legs(edges, p)[i] = Legs(edges, w)[i]
    <3>1. i \in 1..len /\ i + 1 \in 1..len
      BY <1>1
    <3>2. w[i] = p[i] /\ w[i + 1] = p[i + 1]
      BY <1>3, <3>1
    <3> QED
      BY <2>2, <3>1, <3>2 DEF Legs, len
  <2>4. Legs(edges, w)[len] = HopTime(edges, d, n)
    <3>1. len \in 1..len /\ w[len] = d /\ w[len + 1] = n
      BY <1>1, <1>3 DEF m
    <3> QED
      BY <2>2, <3>1 DEF Legs
  <2> QED
    BY <2>1, <2>2, <2>3, <2>4
<1>7. PICK u : SumsTo(u, Legs(edges, w), len) /\ Total(Legs(edges, w)) = u[len]
  BY <1>1, <1>6, TotalIs
<1>8. Total(Legs(edges, p)) = u[len - 1]
  <2>1. len - 1 \in 0..len
    BY <1>1
  <2>2. Prefix(Legs(edges, p), len - 1, Legs(edges, w), len)
    BY <1>1, <1>6, <2>1 DEF Prefix
  <2> QED
    BY <1>7, <2>2, PrefixTotal
<1>9. u[len] = u[len - 1] + HopTime(edges, d, n)
  BY <1>1, <1>6, <1>7 DEF SumsTo
<1>10. HopTime(edges, d, n) \in Nat /\ HopTime(edges, d, n) <= e.time /\ e.time \in Nat
  BY HopTimeIs DEF Hop, IsGraph
<1>11. Time(edges, w) <= Time(edges, p) + e.time
  BY <1>1, <1>6, <1>7, <1>8, <1>9, <1>10
<1> QED
  BY <1>2, <1>3, <1>5, <1>11 DEF m, len

LEMMA OnwardWitnessed ==
  ASSUME NEW edges, IsGraph(edges), NEW o \in Nodes, NEW cutoff \in Nat, NEW k \in Nat,
         k + 1 <= Cardinality(Nodes) - 1,
         NEW q \in Nodes \X Nat, Witnessed(edges, o, cutoff, k, q),
         NEW n \in Nodes, NEW e \in Hop(edges, q[1], n), q[2] + e.time \in Within(cutoff)
  PROVE  Witnessed(edges, o, cutoff, k + 1, <<n, q[2] + e.time>>)
<1> DEFINE r == <<n, q[2] + e.time>>
<1>1. r[1] = n /\ r[2] = q[2] + e.time /\ r[2] <= cutoff
      /\ q[1] \in Nodes /\ q[2] \in Nat /\ e.time \in Nat
  BY DEF Within, Hop, IsGraph
<1>2. Cardinality(Nodes) \in Nat
  BY CityAssumption, FS_CardinalityType
<1> HIDE DEF r
<1> SUFFICES ASSUME n # o
             PROVE  \E p \in Paths(edges, o, n) :
                      Len(p) <= k + 2 /\ Time(edges, p) <= r[2]
  BY <1>1 DEF Witnessed, r
<1>3. CASE q[1] = o
  <2>1. PICK p \in Paths(edges, o, n) : Len(p) = 2 /\ Time(edges, p) <= e.time
    BY <1>2, <1>3, FirstRoad
  <2>2. Time(edges, p) \in Nat
    BY <2>1, PathIs
  <2>3. Len(p) <= k + 2
    BY <2>1
  <2>4. Time(edges, p) <= r[2]
    BY <1>1, <2>1, <2>2
  <2> QED
    BY <2>1, <2>3, <2>4
<1>4. CASE q[1] # o
  <2>1. PICK p \in Paths(edges, o, q[1]) : Len(p) <= k + 1 /\ Time(edges, p) <= q[2]
    BY <1>4 DEF Witnessed
  <2>2. Len(p) \in Nat /\ Time(edges, p) \in Nat
    BY <1>1, <2>1, PathIs
  <2>3. CASE \E at \in 1..Len(p) : p[at] = n
    <3>1. PICK w \in Paths(edges, o, n) :
            Len(w) <= Len(p) /\ Time(edges, w) <= Time(edges, p)
      BY <1>1, <2>1, <2>3, CutPath
    <3>2. Len(w) \in Nat /\ Time(edges, w) \in Nat
      BY <3>1, PathIs
    <3> QED
      BY <1>1, <2>1, <2>2, <3>1, <3>2
  <2>4. CASE \A at \in 1..Len(p) : p[at] # n
    <3>1. Len(p) < Cardinality(Nodes)
      BY <1>2, <2>1, <2>2
    <3>2. PICK w \in Paths(edges, o, n) :
            Len(w) = Len(p) + 1 /\ Time(edges, w) <= Time(edges, p) + e.time
      BY <1>1, <1>4, <2>1, <2>4, <3>1, LongerPath
    <3>3. Len(w) \in Nat /\ Time(edges, w) \in Nat
      BY <3>2, PathIs
    <3> QED
      BY <1>1, <2>1, <2>2, <3>2, <3>3
  <2> QED
    BY <2>3, <2>4
<1> QED
  BY <1>3, <1>4

LEMMA ReachedWitnessed ==
  ASSUME NEW edges, IsGraph(edges), NEW o \in Nodes, NEW cutoff \in Nat,
         NEW d \in Reached(edges, o, cutoff), d # o
  PROVE  d \in Nodes /\ \E p \in Paths(edges, o, d) : Time(edges, p) <= cutoff
<1> DEFINE m == Cardinality(Nodes) - 1
<1>1. PICK by : /\ Reaches(by, edges, o, cutoff, m)
                /\ Reached(edges, o, cutoff) = {r[1] : r \in by[m]}
  BY ReachedIs
<1>2. m \in Nat
  BY ReachedIs
<1> HIDE DEF m
<1>3. \A k \in 0..m : by[k] \in SUBSET (Nodes \X Nat)
  BY <1>1 DEF Reaches
<1> DEFINE Sound == {k \in 0..m : \A r \in by[k] : Witnessed(edges, o, cutoff, k, r)}
           v == [k \in 0..m |-> k]
<1>4. v[0] \in Sound
  BY <1>1, <1>2 DEF Reaches, Witnessed
<1>5. ASSUME NEW k \in 1..m, v[k - 1] \in Sound PROVE v[k] \in Sound
  <2>1. k - 1 \in 0..m /\ k - 1 \in Nat /\ k - 1 + 1 = k /\ k \in 0..m
        /\ k - 1 + 1 <= Cardinality(Nodes) - 1
    BY <1>2 DEF m
  <2>2. \A q \in by[k - 1] : q \in Nodes \X Nat /\ Witnessed(edges, o, cutoff, k - 1, q)
    BY <1>3, <1>5, <2>1
  <2>3. ASSUME NEW r \in by[k] PROVE Witnessed(edges, o, cutoff, k, r)
    <3>1. CASE r \in by[k - 1]
      <4>1. Witnessed(edges, o, cutoff, k - 1 + 1, r)
        BY <2>1, <2>2, <3>1, LaterWitnessed
      <4> QED
        BY <2>1, <4>1
    <3>2. CASE r \notin by[k - 1]
      <4> DEFINE onto(x, n) == {<<n, x[2] + y.time>> : y \in Hop(edges, x[1], n)}
      <4>1. r \in UNION {onto(x, n) : x \in by[k - 1], n \in Nodes} /\ r[2] \in Within(cutoff)
        BY <1>1, <3>2 DEF Reaches
      <4>2. PICK q \in by[k - 1], n \in Nodes : r \in onto(q, n)
        <5> HIDE DEF onto
        <5> QED BY <4>1
      <4>3. PICK e \in Hop(edges, q[1], n) : r = <<n, q[2] + e.time>>
        BY <4>2
      <4>4. q[2] + e.time \in Within(cutoff)
        BY <4>1, <4>3
      <4>5. Witnessed(edges, o, cutoff, k - 1 + 1, r)
        BY <2>1, <2>2, <4>3, <4>4, OnwardWitnessed
      <4> QED
        BY <2>1, <4>5
    <3> QED
      BY <3>1, <3>2
  <2> QED
    BY <2>1, <2>3
<1>6. \A k \in 0..m : v[k] \in Sound
  <2> HIDE DEF v, Sound
  <2> QED BY <1>2, <1>4, <1>5, StepsStay
<1>7. m \in Sound
  BY <1>2, <1>6
<1>8. PICK r \in by[m] : d = r[1]
  BY <1>1
<1>9. r \in Nodes \X Nat /\ Witnessed(edges, o, cutoff, m, r)
  BY <1>2, <1>3, <1>7, <1>8
<1>10. PICK p \in Paths(edges, o, d) : Time(edges, p) <= r[2]
  BY <1>8, <1>9 DEF Witnessed
<1>11. d \in Nodes /\ r[2] \in Nat /\ r[2] <= cutoff
  BY <1>8, <1>9 DEF Witnessed
<1>12. Time(edges, p) \in Nat
  BY <1>10, <1>11, PathIs
<1> QED
  BY <1>10, <1>11, <1>12

\* The origin is reached without a road.
LEMMA OriginReached ==
  ASSUME NEW edges, IsGraph(edges), NEW o \in Nodes, NEW cutoff \in Nat
  PROVE  o \in Reached(edges, o, cutoff)
<1> DEFINE m == Cardinality(Nodes) - 1
<1>1. PICK by : /\ Reaches(by, edges, o, cutoff, m)
                /\ Reached(edges, o, cutoff) = {r[1] : r \in by[m]}
  BY ReachedIs
<1>2. m \in Nat /\ 0 \in 0..m
  BY ReachedIs
<1> HIDE DEF m
<1>3. <<o, 0>> \in by[0]
  BY <1>1 DEF Reaches
<1>4. <<o, 0>> \in by[m]
  BY <1>1, <1>2, <1>3, ReachesMore
<1> QED
  BY <1>1, <1>4

(***************************************************************************)
(* agents/resilience.py accessibility_links: the search that is cut off at *)
(* the budget reaches exactly the facilities in service that have a route  *)
(* under the scenario within it, for any network, scenario and budget; and *)
(* every facility is reached, not reached or not on the network.           *)
(***************************************************************************)
THEOREM SearchesAgree == Spec => []AccessAgreesWithRoutes
<1>1. IInv => AccessAgreesWithRoutes
  <2> SUFFICES ASSUME IInv, answer.asked = "access", answer.result # None
               PROVE
      LET s == answer.scenario
          times(f) == PathTimes(ScenarioEdges(Ref.edges, s), answer.from, Ref.node[f])
      IN  /\ answer.result.reachable =
               {f \in SnappedTo(Ref) \ s.unavailable :
                  \E time \in times(f) : time <= answer.budget}
          /\ answer.result.reachable \cup answer.result.unreachable
                \cup answer.result.unsnapped = DOMAIN Ref.node
          /\ answer.result.reachable \cap answer.result.unreachable = {}
    BY DEF AccessAgreesWithRoutes
  <2>1. PICK o \in Nodes, budget \in Budgets, s \in Scenarios :
          answer = [asked |-> "access", from |-> o, budget |-> budget, scenario |-> s,
                    result |-> Accessibility(o, budget, s)]
    BY DEF IInv, AnswerOfNow, AccessOfNow
  <2> DEFINE edges == ScenarioEdges(Ref.edges, s)
             near  == Reached(edges, o, budget)
             times(f) == PathTimes(edges, o, Ref.node[f])
             found == {f \in SnappedTo(Ref) : f \notin s.unavailable /\ Ref.node[f] \in near}
  <2>2. roads = Ref.edges /\ Ref \in References /\ budget \in Nat
    BY CityAssumption DEF IInv, AgentsOK, Ref
  <2>3. /\ answer.from = o /\ answer.scenario = s /\ answer.budget = budget
        /\ answer.result = Accessibility(o, budget, s)
    BY <2>1
  <2>4. Accepts(s) /\ answer.result = Access(Ref, roads, o, budget, s)
    BY <2>3 DEF Accessibility
  <2>5. \A e \in Ref.edges : e \in [id : {e.id}, source : Nodes, target : Nodes,
                                    both : BOOLEAN, time : Nat]
    BY <2>2, CityAssumption
  <2>6. IsGraph(edges)
    BY <2>4, <2>5, ScenarioGraph
  <2>7. answer.result = [reachable   |-> found,
                         unreachable |-> SnappedTo(Ref) \ found,
                         unsnapped   |-> DOMAIN Ref.node \ SnappedTo(Ref)]
    BY <2>2, <2>4 DEF Access
  <2> HIDE DEF edges
  <2>8. ASSUME NEW f \in SnappedTo(Ref)
        PROVE  Ref.node[f] \in near <=> \E time \in times(f) : time <= budget
    <3>1. Ref.node[f] \in Nodes
      BY <2>2, CityAssumption DEF SnappedTo
    <3>2. CASE Ref.node[f] = o
      <4>1. times(f) = {0} /\ 0 <= budget
        BY <2>2, <3>2 DEF PathTimes
      <4> QED
        BY <2>2, <2>6, <3>2, <4>1, OriginReached
    <3>3. CASE Ref.node[f] # o
      <4>1. times(f) = {Time(edges, p) : p \in Paths(edges, o, Ref.node[f])}
        BY <3>3 DEF PathTimes
      <4>2. ASSUME Ref.node[f] \in near PROVE \E time \in times(f) : time <= budget
        BY <2>2, <2>6, <3>3, <4>1, <4>2, ReachedWitnessed
      <4>3. ASSUME NEW p \in Paths(edges, o, Ref.node[f]), Time(edges, p) <= budget
            PROVE  Ref.node[f] \in near
        BY <2>2, <2>6, <3>1, <4>3, RouteReached
      <4> QED
        BY <4>1, <4>2, <4>3
    <3> QED
      BY <3>2, <3>3
  <2>9. found = {f \in SnappedTo(Ref) \ s.unavailable : \E time \in times(f) : time <= budget}
    <3> HIDE DEF near, times
    <3> QED BY <2>8
  <2>10. SnappedTo(Ref) \subseteq DOMAIN Ref.node /\ found \subseteq SnappedTo(Ref)
    BY DEF SnappedTo
  <2> HIDE DEF found
  <2> QED
    BY <2>3, <2>7, <2>9, <2>10 DEF edges
<1> QED
  BY <1>1, Invariance, PTL
-----------------------------------------------------------------------------
\* What the forecast looks back on.

\* Of regular times, those that are c rows apart are equally far apart.
LEMMA RegularSpans ==
  ASSUME NEW times, Regular(times), Len(times) \in Nat,
         \A i \in 1..Len(times) : times[i] \in Int,
         NEW a \in 1..Len(times), NEW b \in 1..Len(times), NEW c \in Nat,
         a + c <= Len(times), b + c <= Len(times)
  PROVE  times[a + c] - times[a] = times[b + c] - times[b]
<1> DEFINE n == Len(times)
           Same == {k \in 0..c : times[a + k] - times[a] = times[b + k] - times[b]}
           v == [k \in 0..c |-> k]
<1>1. v[0] \in Same
  OBVIOUS
<1>2. ASSUME NEW k \in 1..c, v[k - 1] \in Same PROVE v[k] \in Same
  <2>1. /\ k - 1 \in 0..c /\ k \in 0..c
        /\ a + k \in 2..n /\ b + k \in 2..n /\ a + k - 1 \in 1..n /\ b + k - 1 \in 1..n
        /\ a + (k - 1) = a + k - 1 /\ b + (k - 1) = b + k - 1
    OBVIOUS
  <2>2. times[a + k - 1] - times[a] = times[b + k - 1] - times[b]
    BY <1>2, <2>1
  <2>3. \A i \in 2..n : times[i] - times[i - 1] = times[2] - times[1]
    BY DEF Regular
  <2>4. /\ times[a + k] - times[a + k - 1] = times[2] - times[1]
        /\ times[b + k] - times[b + k - 1] = times[2] - times[1]
    BY <2>1, <2>3
  <2>5. /\ times[a] \in Int /\ times[b] \in Int /\ times[a + k] \in Int /\ times[b + k] \in Int
        /\ times[a + k - 1] \in Int /\ times[b + k - 1] \in Int
        /\ times[2] \in Int /\ times[1] \in Int
    <3>1. 1 \in 1..n /\ 2 \in 1..n /\ a + k \in 1..n /\ b + k \in 1..n
      BY <2>1
    <3> QED
      BY <2>1, <3>1
  <2>6. times[a + k] - times[a] = times[b + k] - times[b]
    <3> DEFINE x == times[a]          y == times[b]
               x1 == times[a + k - 1] y1 == times[b + k - 1]
               x2 == times[a + k]     y2 == times[b + k]
    <3>1. /\ x1 - x = y1 - y /\ x2 - x1 = y2 - y1
          /\ x \in Int /\ x1 \in Int /\ x2 \in Int /\ y \in Int /\ y1 \in Int /\ y2 \in Int
      BY <2>2, <2>4, <2>5
    <3> HIDE DEF x, x1, x2, y, y1, y2
    <3>2. x2 - x = y2 - y
      BY <3>1
    <3> QED
      BY <3>2 DEF x, x2, y, y2
  <2> QED
    BY <2>1, <2>6
<1>3. \A k \in 0..c : v[k] \in Same
  <2> HIDE DEF v, Same
  <2> QED BY <1>1, <1>2, StepsStay
<1> QED
  BY <1>3

\* The rows of a feature are so many rows before the one it is for.
LookBack(f) ==
  CASE f = "lag_1"           -> {1}
    [] f = "lag_seasonal"    -> {SeasonalLag}
    [] f = "rolling_mean_4"  -> 1..ShortWindow
    [] f = "rolling_mean_16" -> 1..LongWindow

LEMMA RowsLookBack ==
  ASSUME NEW f \in FeatureNames, NEW i \in Int
  PROVE  /\ FeatureRows(f, i) = {i - k : k \in LookBack(f)}
         /\ ForecastRows(f, i) = {i + 1 - k : k \in LookBack(f)}
         /\ LookBack(f) \subseteq Nat \ {0}
<1>1. SeasonalLag \in Nat \ {0} /\ ShortWindow \in Nat /\ LongWindow \in Nat
  BY EnergyAssumption
<1>2. ASSUME NEW w \in Nat
      PROVE  /\ (i - w)..(i - 1) = {i - k : k \in 1..w}
             /\ (i - w + 1)..i = {i + 1 - k : k \in 1..w}
  <2>1. ASSUME NEW x \in (i - w)..(i - 1) PROVE x \in {i - k : k \in 1..w}
    <3>1. i - x \in 1..w /\ x = i - (i - x)
      OBVIOUS
    <3> QED
      BY <3>1
  <2>2. ASSUME NEW x \in (i - w + 1)..i PROVE x \in {i + 1 - k : k \in 1..w}
    <3>1. i + 1 - x \in 1..w /\ x = i + 1 - (i + 1 - x)
      OBVIOUS
    <3> QED
      BY <3>1
  <2>3. /\ \A k \in 1..w : i - k \in (i - w)..(i - 1)
        /\ \A k \in 1..w : i + 1 - k \in (i - w + 1)..i
    OBVIOUS
  <2> QED
    BY <2>1, <2>2, <2>3
<1>3. CASE f = "lag_1"
  BY <1>3 DEF FeatureRows, ForecastRows, LookBack
<1>4. CASE f = "lag_seasonal"
  BY <1>1, <1>4 DEF FeatureRows, ForecastRows, LookBack, SeasonalRow
<1>5. CASE f = "rolling_mean_4"
  <2>1. /\ FeatureRows(f, i) = (i - ShortWindow)..(i - 1)
        /\ ForecastRows(f, i) = (i - ShortWindow + 1)..i
        /\ LookBack(f) = 1..ShortWindow
    BY <1>5 DEF FeatureRows, ForecastRows, LookBack, Window
  <2>2. /\ (i - ShortWindow)..(i - 1) = {i - k : k \in 1..ShortWindow}
        /\ (i - ShortWindow + 1)..i = {i + 1 - k : k \in 1..ShortWindow}
    BY <1>1, <1>2
  <2>3. LookBack(f) \subseteq Nat \ {0}
    BY <1>1, <2>1
  <2> QED
    BY <2>1, <2>2, <2>3
<1>6. CASE f = "rolling_mean_16"
  <2>1. /\ FeatureRows(f, i) = (i - LongWindow)..(i - 1)
        /\ ForecastRows(f, i) = (i - LongWindow + 1)..i
        /\ LookBack(f) = 1..LongWindow
    BY <1>6 DEF FeatureRows, ForecastRows, LookBack, Window
  <2>2. /\ (i - LongWindow)..(i - 1) = {i - k : k \in 1..LongWindow}
        /\ (i - LongWindow + 1)..i = {i + 1 - k : k \in 1..LongWindow}
    BY <1>1, <1>2
  <2>3. LookBack(f) \subseteq Nat \ {0}
    BY <1>1, <2>1
  <2> QED
    BY <2>1, <2>2, <2>3
<1> QED
  BY <1>3, <1>4, <1>5, <1>6 DEF FeatureNames

\* Among the scores of the models there is a first best one.
LEMMA CandidateIs ==
  ASSUME NEW scores \in [1..4 -> [mae : Nat, rmse : Nat]]
  PROVE  /\ Candidate(scores) \in DOMAIN Models
         /\ \A k \in DOMAIN Models : ~Better(scores[k], scores[Candidate(scores)])
         /\ \A k \in 1..(Candidate(scores) - 1) : Better(scores[Candidate(scores)], scores[k])
<1> DEFINE First(m, n) == /\ m \in 1..n
                          /\ \A k \in 1..n : ~Better(scores[k], scores[m])
                          /\ \A k \in 1..(m - 1) : Better(scores[m], scores[k])
<1>1. \A k \in 1..4 : scores[k].mae \in Nat /\ scores[k].rmse \in Nat
  OBVIOUS
<1>2. ASSUME NEW n \in 1..3, NEW m, First(m, n) PROVE \E x : First(x, n + 1)
  <2>1. \A k \in 1..(n + 1) : k \in 1..4 /\ (k \in 1..n \/ k = n + 1)
    OBVIOUS
  <2>2. m \in 1..n /\ m \in 1..4 /\ n + 1 \in 1..4
    BY <1>2
  <2>3. CASE Better(scores[n + 1], scores[m])
    <3>1. ASSUME NEW k \in 1..n PROVE Better(scores[n + 1], scores[k])
      BY <1>1, <1>2, <2>2, <2>3 DEF Better
    <3>2. ASSUME NEW k \in 1..(n + 1) PROVE ~Better(scores[k], scores[n + 1])
      BY <1>1, <2>1, <2>2, <3>1 DEF Better
    <3>3. n + 1 \in 1..(n + 1) /\ n + 1 - 1 = n
      OBVIOUS
    <3>4. First(n + 1, n + 1)
      BY <3>1, <3>2, <3>3
    <3> QED
      BY <3>4
  <2>4. CASE ~Better(scores[n + 1], scores[m])
    <3>1. First(m, n + 1)
      BY <1>2, <2>1, <2>2, <2>4
    <3> QED
      BY <3>1
  <2> QED
    BY <2>3, <2>4
<1>3. First(1, 1)
  BY <1>1 DEF Better
<1> HIDE DEF First
<1>4. \E m : First(m, 2)
  <2>1. 1 \in 1..3 /\ 1 + 1 = 2
    OBVIOUS
  <2> QED
    BY <1>2, <1>3, <2>1
<1>5. \E m : First(m, 3)
  <2>1. 2 \in 1..3 /\ 2 + 1 = 3
    OBVIOUS
  <2> QED
    BY <1>2, <1>4, <2>1
<1>6. \E m : First(m, 4)
  <2>1. 3 \in 1..3 /\ 3 + 1 = 4
    OBVIOUS
  <2> QED
    BY <1>2, <1>5, <2>1
<1>7. DOMAIN Models = 1..4
  BY DEF Models
<1>8. \E m \in DOMAIN Models :
        /\ \A k \in DOMAIN Models : ~Better(scores[k], scores[m])
        /\ \A k \in 1..(m - 1) : Better(scores[m], scores[k])
  BY <1>6, <1>7 DEF First
<1> QED
  BY <1>8 DEF Candidate

(***************************************************************************)
(* energy/pipeline.py: the features of a saved forecast look back from the *)
(* time it is for exactly as far as those of every evaluated row look back *)
(* from theirs, and its model is the first of the best by the evaluation.  *)
(***************************************************************************)
THEOREM ForecastsAsEvaluated == Spec => []ForecastFollowsEvaluation
<1>1. IInv => ForecastFollowsEvaluation
  <2> SUFFICES ASSUME IInv, energyFile # None
               PROVE
      LET times == energyFile.times
          scores == energyFile.scores
      IN
      /\ \A f \in FeatureNames, i \in UsableRows(Len(times)) :
           {energyFile.valid - t : t \in energyFile.inputs[f]} =
             {times[i] - times[j] : j \in FeatureRows(f, i)}
      /\ \A m \in DOMAIN Models :
           /\ ~Better(scores[m], scores[energyFile.model])
           /\ m < energyFile.model => Better(scores[energyFile.model], scores[m])
    BY DEF ForecastFollowsEvaluation
  <2> DEFINE load   == energyFile.load
             scores == energyFile.scores
             times  == TimesOf(load)
             n      == Len(times)
  <2>1. /\ load \in Loads /\ scores \in Scores
        /\ Evaluated(load, scores)
        /\ \E negative : energyFile = EnergyStateOf(load, scores, negative)
    <3>1. PICK l \in Loads, s \in Scores, negative \in BOOLEAN :
            Evaluated(l, s) /\ energyFile = EnergyStateOf(l, s, negative)
      BY DEF IInv, EnergyFileOK
    <3>2. load = l /\ scores = s
      BY <3>1 DEF EnergyStateOf
    <3> HIDE DEF load, scores
    <3> QED
      BY <3>1, <3>2
  <2> HIDE DEF load, scores
  <2>2. /\ energyFile.model = Candidate(scores) /\ energyFile.times = times
        /\ energyFile.valid = times[n] + times[n] - times[n - 1]
        /\ energyFile.inputs = [f \in FeatureNames |-> {times[i] : i \in ForecastRows(f, n)}]
    BY <2>1 DEF EnergyStateOf
  <2>3. Accepted(load) /\ n > SeasonalLag + LongWindow /\ Regular(times)
    BY <2>1 DEF Evaluated, Forecastable
  <2>4. /\ n \in Nat /\ \A i \in 1..n : times[i] \in Int
        /\ \A i, j \in 1..n : i < j => times[i] < times[j]
    BY <2>1, <2>3, TimesGoUp
  <2> HIDE DEF times
  <2>5. /\ SeasonalLag \in Nat /\ SeasonalLag >= 2
        /\ ShortWindow \in Nat /\ ShortWindow >= 1 /\ ShortWindow <= LongWindow
        /\ LongWindow \in Nat
    BY EnergyAssumption
  <2>6. ASSUME NEW f \in FeatureNames, NEW i \in UsableRows(n)
        PROVE  {energyFile.valid - t : t \in energyFile.inputs[f]} =
                 {times[i] - times[j] : j \in FeatureRows(f, i)}
    <3> DEFINE last == times[n] + times[n] - times[n - 1]
    <3>1. /\ i \in 1..n /\ FeatureRows(f, i) \subseteq 1..n
          /\ FeatureRows(f, i) = {i - k : k \in LookBack(f)}
          /\ ForecastRows(f, n) = {n + 1 - k : k \in LookBack(f)}
          /\ LookBack(f) \subseteq Nat \ {0}
      BY <2>4, RowsLookBack DEF UsableRows
    <3>2. ASSUME NEW k \in LookBack(f)
          PROVE  last - times[n + 1 - k] = times[i] - times[i - k]
      <4>1. k \in Nat /\ k >= 1 /\ i - k \in 1..n /\ i - k + k = i
        BY <2>4, <3>1
      <4>2. /\ n + 1 - k \in 1..n /\ n + 1 - k + (k - 1) = n
            /\ i - k + (k - 1) = i - 1 /\ k - 1 \in Nat /\ i - 1 \in 1..n
            /\ n - 1 \in 1..n /\ n - 1 + 1 = n /\ i - 1 + 1 = i
        BY <2>4, <3>1, <4>1
      <4>3. times[n] - times[n + 1 - k] = times[i - 1] - times[i - k]
        <5>1. times[n + 1 - k + (k - 1)] - times[n + 1 - k]
                = times[i - k + (k - 1)] - times[i - k]
          <6>1. n + 1 - k + (k - 1) <= n /\ i - k + (k - 1) <= n
            BY <2>4, <4>2
          <6> QED
            BY <2>3, <2>4, <4>1, <4>2, <6>1, RegularSpans
        <5> QED
          BY <4>2, <5>1
      <4>4. times[n] - times[n - 1] = times[i] - times[i - 1]
        <5>1. n \in 2..n /\ i \in 2..n
          BY <2>4, <3>1, <4>2
        <5>2. \A j \in 2..n : times[j] - times[j - 1] = times[2] - times[1]
          BY <2>3 DEF Regular
        <5> HIDE DEF n
        <5> QED
          BY <5>1, <5>2
      <4>5. /\ times[n] \in Int /\ times[n - 1] \in Int /\ times[i] \in Int
            /\ times[i - 1] \in Int /\ times[i - k] \in Int /\ times[n + 1 - k] \in Int
        <5>1. n \in 1..n
          BY <2>4, <4>2
        <5> HIDE DEF n
        <5> QED
          BY <2>4, <3>1, <4>1, <4>2, <5>1
      <4> DEFINE a == times[n]
                 b == times[n - 1]
                 c == times[n + 1 - k]
                 d == times[i]
                 e == times[i - 1]
                 g == times[i - k]
      <4>6. /\ a - c = e - g /\ a - b = d - e
            /\ a \in Int /\ b \in Int /\ c \in Int /\ d \in Int /\ e \in Int /\ g \in Int
        BY <4>3, <4>4, <4>5
      <4> HIDE DEF a, b, c, d, e, g
      <4>7. a + a - b - c = d - g
        BY <4>6
      <4> HIDE DEF n
      <4>8. last - c = d - g
        <5>1. last = a + a - b
          BY DEF last, a, b
        <5> HIDE DEF last
        <5> QED
          BY <4>6, <4>7, <5>1
      <4> HIDE DEF last
      <4> QED
        BY <4>8 DEF c, d, g
    <3>3. /\ energyFile.valid = last
          /\ energyFile.inputs[f] = {times[n + 1 - k] : k \in LookBack(f)}
      BY <2>2, <3>1
    <3>4. {times[i] - times[j] : j \in FeatureRows(f, i)} =
            {times[i] - times[i - k] : k \in LookBack(f)}
      BY <3>1
    <3>5. {energyFile.valid - t : t \in energyFile.inputs[f]} =
            {last - times[n + 1 - k] : k \in LookBack(f)}
      <4> HIDE DEF last, n
      <4> QED BY <3>3
    <3> DEFINE ahead(k) == last - times[n + 1 - k]
               behind(k) == times[i] - times[i - k]
    <3>6. {ahead(k) : k \in LookBack(f)} = {behind(k) : k \in LookBack(f)}
      <4>1. \A k \in LookBack(f) : ahead(k) = behind(k)
        BY <3>2
      <4> HIDE DEF ahead, behind
      <4> QED
        BY <4>1
    <3> QED
      BY <3>4, <3>5, <3>6
  <2>7. ASSUME NEW m \in DOMAIN Models
        PROVE  /\ ~Better(scores[m], scores[energyFile.model])
               /\ m < energyFile.model => Better(scores[energyFile.model], scores[m])
    <3>1. scores \in [1..4 -> [mae : Nat, rmse : Nat]] /\ DOMAIN Models = 1..4
      BY <2>1, CityAssumption DEF Models
    <3>2. /\ Candidate(scores) \in 1..4
          /\ \A k \in DOMAIN Models : ~Better(scores[k], scores[Candidate(scores)])
          /\ \A k \in 1..(Candidate(scores) - 1) : Better(scores[Candidate(scores)], scores[k])
      BY <3>1, CandidateIs
    <3>3. m < Candidate(scores) => m \in 1..(Candidate(scores) - 1)
      BY <3>1, <3>2
    <3> QED
      BY <2>2, <3>2, <3>3
  <2> QED
    BY <2>2, <2>6, <2>7 DEF times, scores
<1> QED
  BY <1>1, Invariance, PTL
-----------------------------------------------------------------------------
\* In order, each row is at least as late as there are rows before it, and
\* leaves room for those after it.
LEMMA RowsLeaveRoom ==
  ASSUME NEW n \in Nat, NEW times \in [1..n -> Int],
         \A i \in 2..n : times[i - 1] < times[i]
  PROVE  \A i \in 1..n : times[i] - times[1] >= i - 1 /\ times[n] - times[i] >= n - i
<1> DEFINE Early == {i \in 1..n : ~(times[i] - times[1] >= i - 1)}
           Late  == {k \in 0..(n - 1) : ~(times[n] - times[n - k] >= k)}
<1>1. ASSUME Early # {} PROVE FALSE
  <2>1. Early \in SUBSET Nat
    OBVIOUS
  <2>2. PICK i \in Early : \A k \in Early : i <= k
    <3> HIDE DEF Early
    <3> QED BY <1>1, <2>1, LeastElement
  <2>3. i \in 2..n /\ i - 1 \in 1..n /\ 1 \in 1..n
    BY <2>2
  <2>4. i - 1 \notin Early
    <3> HIDE DEF Early
    <3> QED BY <2>2, <2>3
  <2>5. times[i - 1] - times[1] >= i - 2
    BY <2>3, <2>4
  <2>6. times[i - 1] < times[i] /\ times[i] \in Int /\ times[i - 1] \in Int
        /\ times[1] \in Int
    BY <2>3
  <2>7. times[i] - times[1] >= i - 1
    BY <2>3, <2>5, <2>6
  <2> QED
    BY <2>2, <2>7
<1>2. ASSUME Late # {} PROVE FALSE
  <2>1. Late \in SUBSET Nat
    OBVIOUS
  <2>2. PICK k \in Late : \A l \in Late : k <= l
    <3> HIDE DEF Late
    <3> QED BY <1>2, <2>1, LeastElement
  <2>3. k \in 1..(n - 1) /\ n - k \in 1..n /\ n - (k - 1) \in 2..n
        /\ n - (k - 1) - 1 = n - k
    BY <2>2
  <2>4. k - 1 \notin Late
    <3> HIDE DEF Late
    <3> QED BY <2>2, <2>3
  <2>5. times[n] - times[n - (k - 1)] >= k - 1
    BY <2>3, <2>4
  <2>6. times[n - k] < times[n - (k - 1)] /\ times[n - k] \in Int
        /\ times[n - (k - 1)] \in Int /\ times[n] \in Int
    BY <2>3
  <2>7. times[n] - times[n - k] >= k
    BY <2>3, <2>5, <2>6
  <2> QED
    BY <2>2, <2>7
<1>3. ASSUME NEW i \in 1..n
      PROVE  times[i] - times[1] >= i - 1 /\ times[n] - times[i] >= n - i
  <2>1. i \notin Early
    BY <1>1
  <2>2. times[i] - times[1] >= i - 1
    BY <2>1
  <2> DEFINE k == n - i
  <2>3. k \in 0..(n - 1) /\ n - k = i
    OBVIOUS
  <2>4. k \notin Late
    BY <1>2
  <2> HIDE DEF k
  <2>5. times[n] - times[n - k] >= k
    BY <2>3, <2>4
  <2>6. times[n] - times[i] >= k
    BY <2>3, <2>5
  <2> QED
    BY <2>2, <2>6 DEF k
<1> QED
  BY <1>3

\* The label of the last row, whichever way it is meant, is of the last
\* interval of the year or of one before it.
LEMMA LastLabel ==
  ASSUME YearEndsAsItBegan, Rows >= 2,
         NEW t \in 0..Rows, WallTime(Rows) \in Labels(t)
  PROVE  t <= Rows - 1
<1>1. Rows \in Nat /\ Offset[0] \in Int /\ Rows - 1 \in 0..Rows /\ Rows - 2 \in 0..Rows
  BY EnergyAssumption
<1>2. /\ Offset[Rows] = Offset[0]
      /\ Offset[Rows - 1] = Offset[0]
      /\ Offset[Rows - 2] = Offset[0]
  BY DEF YearEndsAsItBegan
<1>3. WallTime(Rows) = Rows - 1 + Offset[0]
  BY <1>2 DEF WallTime
<1>4. ASSUME t = Rows PROVE FALSE
  <2>1. Labels(t) = {Rows + Offset[0]}
    BY <1>1, <1>2, <1>4 DEF Labels
  <2> QED
    BY <1>1, <1>3, <2>1
<1> QED
  BY <1>1, <1>4

LEMMA ElementsOfSeq ==
  ASSUME NEW S, NEW seq \in Seq(S)
  PROVE  \A i \in 1..Len(seq) : seq[i] \in S
OBVIOUS

\* The clocks went back between two times that have the same label.
LEMMA BackBetween ==
  ASSUME NEW back \in 0..Rows,
         \A t, u \in 0..Rows : t < u /\ (u < back \/ back <= t) => Offset[t] <= Offset[u],
         NEW t \in 0..Rows, NEW u \in 0..Rows, t < u, u + Offset[u] <= t + Offset[t]
  PROVE  t < back /\ back <= u
<1>1. Rows \in Nat /\ Offset[t] \in Int /\ Offset[u] \in Int
  BY EnergyAssumption
<1>2. ~(Offset[t] <= Offset[u])
  BY <1>1
<1> QED
  BY <1>1, <1>2

\* A table of local times that is not refused is read as it was meant: before
\* the row where the labels begin anew the clocks had not gone back yet.
LEMMA LocalTimesMeant ==
  ASSUME ClocksGoBackOnce, NEW labels \in Seq(Int), Localizable(labels),
         NEW times \in Seq(0..Rows), Len(labels) = Len(times),
         \A i, j \in 1..Len(times) : i < j => times[i] < times[j],
         \A i \in 1..Len(times) :
           labels[i] = times[i] + Offset[times[i]] \/ Candidates(labels[i]) = {},
         NEW i \in 1..Len(times)
  PROVE  LocalTime(labels, i) = times[i]
<1>1. PICK back \in 0..Rows :
        \A t, u \in 0..Rows : t < u /\ (u < back \/ back <= t) => Offset[t] <= Offset[u]
  BY DEF ClocksGoBackOnce
<1>2. /\ DOMAIN labels = 1..Len(times) /\ Len(times) \in Nat /\ Rows \in Nat
      /\ \A j \in 1..Len(times) : times[j] \in 0..Rows
  <2>1. DOMAIN labels = 1..Len(times) /\ Len(times) \in Nat
    OBVIOUS
  <2>2. \A j \in 1..Len(times) : times[j] \in 0..Rows
    BY ElementsOfSeq
  <2> QED
    BY <2>1, <2>2, EnergyAssumption
<1>3. \A j \in 1..Len(times) :
        /\ Candidates(labels[j]) # {}
        /\ labels[j] = times[j] + Offset[times[j]]
        /\ times[j] \in Candidates(labels[j])
  BY <1>2 DEF Localizable, Candidates
<1> DEFINE C == Candidates(labels[i])
<1>4. /\ C \subseteq 0..Rows /\ FirstOf(C) \in C /\ LastOf(C) \in C /\ times[i] \in C
      /\ FirstOf(C) <= times[i] /\ times[i] <= LastOf(C)
  BY <1>3, CandidatesOrdered
<1>5. \A t, u \in C : t < u => t < back /\ back <= u
  <2> SUFFICES ASSUME NEW t \in C, NEW u \in C, t < u PROVE t < back /\ back <= u
    OBVIOUS
  <2>1. t \in 0..Rows /\ u \in 0..Rows /\ t + Offset[t] = u + Offset[u]
    BY DEF Candidates
  <2>2. u + Offset[u] <= t + Offset[t]
    <3>1. Offset[t] \in Int
      BY <2>1, EnergyAssumption
    <3> QED
      BY <1>2, <2>1, <3>1
  <2> QED
    BY <1>1, <2>1, <2>2, BackBetween
<1>6. /\ times[i] < back => FirstOf(C) = times[i]
      /\ back <= times[i] => LastOf(C) = times[i]
  <2> HIDE DEF C
  <2>1. /\ FirstOf(C) \in Int /\ LastOf(C) \in Int /\ times[i] \in Int
        /\ back \in Int
    <3>1. 0..Rows \subseteq Int
      BY <1>2
    <3> QED
      BY <1>4, <3>1
  <2>2. FirstOf(C) < times[i] => back <= times[i]
    BY <1>4, <1>5
  <2>3. times[i] < LastOf(C) => times[i] < back
    BY <1>4, <1>5
  <2> QED
    BY <1>4, <2>1, <2>2, <2>3
<1>7. CASE ~Ambiguous(labels[i])
  <2>1. LocalTime(labels, i) \in C /\ times[i] \in C /\ C \subseteq 0..Rows
    BY <1>2, <1>4, LocalTimeTaken
  <2>2. \A t, u \in C : ~(t < u)
    BY <1>7 DEF Ambiguous
  <2>3. LocalTime(labels, i) \in Int /\ times[i] \in Int
    BY <1>2, <2>1
  <2> HIDE DEF C
  <2> QED
    BY <2>1, <2>2, <2>3
<1>8. CASE Ambiguous(labels[i])
  <2>1. PICK r \in DOMAIN labels : Repeats(labels, i) = {r}
    BY <1>2, <1>8 DEF Localizable
  <2>2. r \in 1..Len(times) /\ r - 1 \in 1..Len(times) /\ labels[r] <= labels[r - 1]
    BY <1>2, <2>1 DEF Repeats, RunOf
  <2>3. times[r - 1] < back /\ back <= times[r]
    <3>1. times[r - 1] < times[r]
      BY <2>2
    <3>2. times[r] + Offset[times[r]] <= times[r - 1] + Offset[times[r - 1]]
      BY <1>3, <2>2
    <3> QED
      BY <1>1, <1>2, <2>2, <3>1, <3>2, BackBetween
  <2>4. CASE r <= i
    <3>1. LocalTime(labels, i) = LastOf(C)
      BY <2>1, <2>4 DEF LocalTime
    <3>2. r = i \/ times[r] < times[i]
      BY <2>2, <2>4
    <3>3. times[r] \in Nat /\ times[i] \in Nat /\ back \in Nat
      BY <1>2, <2>2
    <3>4. back <= times[i]
      BY <2>3, <3>2, <3>3
    <3> QED
      BY <1>6, <3>1, <3>4
  <2>5. CASE ~(r <= i)
    <3>1. LocalTime(labels, i) = FirstOf(C)
      BY <2>1, <2>5 DEF LocalTime
    <3>2. i = r - 1 \/ times[i] < times[r - 1]
      BY <1>2, <2>2, <2>5
    <3>3. times[r - 1] \in Nat /\ times[i] \in Nat /\ back \in Nat
      BY <1>2, <2>2
    <3>4. times[i] < back
      BY <2>3, <3>2, <3>3
    <3> QED
      BY <1>6, <3>1, <3>4
  <2> QED
    BY <2>4, <2>5
<1> QED
  BY <1>7, <1>8

(***************************************************************************)
(* adapters/stromnetz_berlin.py: "rejected rather than reconstructed": a   *)
(* file that is accepted has the times its publisher meant.  An annual one *)
(* for any length of the year, changes of the offset and mixture of        *)
(* conventions; that labels are ambiguous or rows missing makes no         *)
(* difference.  A table of local times whichever rows it has: a label that *)
(* is ambiguous is resolved to the right one of its times, or refused.     *)
(***************************************************************************)
THEOREM TimesAreMeant ==
  ASSUME LabelledAsKnown, YearEndsAsItBegan, ClocksGoBackOnce
  PROVE  Spec => []TimesAsPublished
<1>1. IInv => TimesAsPublished
  <2> SUFFICES ASSUME IInv, energyFile # None
               PROVE  energyFile.times = energyFile.load.times
    BY DEF TimesAsPublished
  <2>1. PICK load \in Loads, scores \in Scores, negative \in BOOLEAN :
          Evaluated(load, scores) /\ energyFile = EnergyStateOf(load, scores, negative)
    BY DEF IInv, EnergyFileOK
  <2>2. /\ energyFile.load = load /\ energyFile.times = TimesOf(load)
        /\ Accepted(load) /\ Len(TimesOf(load)) > SeasonalLag + LongWindow
    BY <2>1 DEF EnergyStateOf, Evaluated, Forecastable
  <2>3. /\ load.times \in Seq(0..Rows) /\ load.labels \in Seq(Int)
        /\ Len(load.labels) = Len(load.times)
        /\ \A i, j \in 1..Len(load.times) : i < j => load.times[i] < load.times[j]
        /\ \A i \in 1..Len(load.times) :
             KnownLabel(load.format, load.labels[i], load.times[i])
        /\ load.format \in {"annual", "local", "aware"}
    BY CityAssumption DEF LabelledAsKnown
  <2>4. CASE load.format = "aware"
    <3>1. TimesOf(load) = load.labels
      BY <2>4 DEF TimesOf
    <3>2. \A i \in 1..Len(load.times) : load.labels[i] = load.times[i]
      BY <2>3, <2>4 DEF KnownLabel
    <3>3. load.labels = load.times
      BY <2>3, <3>2
    <3> QED
      BY <2>2, <3>1, <3>3
  <2>5. CASE load.format = "local"
    <3>1. TimesOf(load) = [i \in 1..Len(load.times) |-> LocalTime(load.labels, i)]
      BY <2>3, <2>5 DEF TimesOf
    <3>2. Localizable(load.labels)
      BY <2>2, <2>5 DEF Accepted, Tabulated
    <3>3. \A i \in 1..Len(load.times) :
            \/ load.labels[i] = load.times[i] + Offset[load.times[i]]
            \/ Candidates(load.labels[i]) = {}
      BY <2>3, <2>5 DEF KnownLabel
    <3>4. \A i \in 1..Len(load.times) : LocalTime(load.labels, i) = load.times[i]
      BY <2>3, <3>2, <3>3, LocalTimesMeant
    <3>5. load.times = [i \in 1..Len(load.times) |-> load.times[i]]
      BY <2>3
    <3> QED
      BY <2>2, <3>1, <3>4, <3>5
  <2>6. CASE load.format = "annual"
    <3> DEFINE times == load.times
    <3>1. /\ times \in Seq(0..Rows) /\ Len(load.labels) = Len(times)
          /\ \A i \in 2..Len(times) : times[i - 1] < times[i]
          /\ \A i \in 1..Len(times) : load.labels[i] \in Labels(times[i])
      <4>1. \A i \in 2..Len(times) : i - 1 \in 1..Len(times) /\ i \in 1..Len(times) /\ i - 1 < i
        BY <2>3
      <4>2. \A i \in 1..Len(times) : load.labels[i] \in Labels(times[i])
        BY <2>3, <2>6 DEF KnownLabel
      <4> QED
        BY <2>3, <4>1, <4>2
    <3>2. Len(times) = Rows /\ \A i \in 1..Rows : load.labels[i] = WallTime(i)
      BY <2>2, <2>6, <3>1 DEF Accepted, WellPublished
    <3>3. TimesOf(load) = [i \in 1..Rows |-> i - 1]
      BY <2>6 DEF TimesOf
    <3>4. Rows \in Nat /\ Rows >= 2
      <4>1. Rows \in Nat /\ SeasonalLag \in Nat /\ SeasonalLag >= 2 /\ LongWindow \in Nat
        BY EnergyAssumption
      <4>2. Len(TimesOf(load)) = Rows
        BY <3>3, <4>1
      <4> QED
        BY <2>2, <4>1, <4>2
    <3>5. times \in [1..Rows -> 0..Rows]
      BY <3>1, <3>2
    <3>6. \A i \in 1..Rows :
            times[i] - times[1] >= i - 1 /\ times[Rows] - times[i] >= Rows - i
      <4>1. times \in [1..Rows -> Int] /\ \A i \in 2..Rows : times[i - 1] < times[i]
        BY <3>1, <3>2, <3>5
      <4> HIDE DEF times
      <4> QED
        BY <3>4, <4>1, RowsLeaveRoom
    <3>7. times[Rows] <= Rows - 1
      <4>1. Rows \in 1..Rows
        BY <3>4
      <4>2. times[Rows] \in 0..Rows /\ WallTime(Rows) \in Labels(times[Rows])
        BY <3>1, <3>2, <3>5, <4>1
      <4> HIDE DEF times
      <4> QED
        BY <3>4, <4>2, LastLabel
    <3>8. \A i \in 1..Rows : times[i] = i - 1
      <4> SUFFICES ASSUME NEW i \in 1..Rows PROVE times[i] = i - 1
        OBVIOUS
      <4>1. times[i] \in Int /\ times[1] \in Nat /\ times[Rows] \in Int
        BY <3>4, <3>5
      <4> HIDE DEF times
      <4> QED
        BY <3>4, <3>6, <3>7, <4>1
    <3> QED
      BY <2>2, <3>3, <3>5, <3>8
  <2> QED
    BY <2>3, <2>4, <2>5, <2>6
<1> QED
  BY <1>1, Invariance, PTL
-----------------------------------------------------------------------------
\* Roads one after another, over any nodes and any number of times.
Walk(edges, w) ==
  /\ w \in Seq(Nodes) /\ Len(w) >= 1
  /\ \A i \in 1..(Len(w) - 1) : Hop(edges, w[i], w[i + 1]) # {}

Simple(p) == \A i, j \in 1..Len(p) : p[i] = p[j] => i = j

\* A path that meets no node twice leaves room for one it has not met.
LEMMA SimpleFits ==
  ASSUME NEW n \in Nodes, NEW p \in Seq(Nodes), Simple(p), \A i \in 1..Len(p) : p[i] # n
  PROVE  Len(p) < Cardinality(Nodes)
<1> DEFINE len  == Len(p)
           rest == Nodes \ {n}
<1>1. len \in Nat /\ p \in [1..len -> rest]
  OBVIOUS
<1>2. /\ IsFiniteSet(rest) /\ Cardinality(rest) \in Nat /\ Cardinality(Nodes) \in Nat
      /\ Cardinality(rest) < Cardinality(Nodes)
  <2>1. IsFiniteSet(Nodes) /\ rest \in SUBSET Nodes /\ rest # Nodes
    BY CityAssumption
  <2> HIDE DEF rest
  <2> QED
    BY <2>1, SmallerSet
<1>3. IsFiniteSet(1..len) /\ Cardinality(1..len) = len
  <2>1. 1 \in Int /\ len \in Int /\ (1 > len => len = 0)
    BY <1>1
  <2> HIDE DEF len
  <2> QED
    BY <1>1, <2>1, FS_Interval
<1>4. \A i, j \in 1..len : p[i] = p[j] => i = j
  BY DEF Simple
<1> HIDE DEF len, rest
<1>5. ASSUME Cardinality(rest) < len PROVE FALSE
  BY <1>1, <1>2, <1>3, <1>4, <1>5, FS_PigeonHole
<1> QED
  BY <1>1, <1>2, <1>5 DEF len

\* One road further from a path that meets no node twice, there is such a path.
LEMMA SimpleOnward ==
  ASSUME NEW edges, IsGraph(edges), NEW o \in Nodes, NEW q \in Nodes, o # q,
         NEW p \in Paths(edges, o, q), Simple(p), NEW n \in Nodes, n # o,
         NEW e \in Hop(edges, q, n)
  PROVE  \E w \in Paths(edges, o, n) : Simple(w) /\ Time(edges, w) <= Time(edges, p) + e.time
<1>1. /\ p \in Seq(Nodes) /\ Len(p) \in Nat /\ Time(edges, p) \in Nat
      /\ e.time \in Nat
  <2>1. p \in Seq(Nodes) /\ Time(edges, p) \in Nat
    BY PathIs
  <2>2. e.time \in Nat
    BY DEF Hop, IsGraph
  <2> QED
    BY <2>1, <2>2
<1>2. CASE \E at \in 1..Len(p) : p[at] = n
  <2>1. PICK w \in Paths(edges, o, n) :
          /\ Len(w) <= Len(p) /\ Time(edges, w) <= Time(edges, p)
          /\ \A i \in 1..Len(w) : w[i] = p[i]
    BY <1>2, CutPath
  <2>2. Len(w) \in Nat /\ Time(edges, w) \in Nat
    BY <2>1, PathIs
  <2>3. Simple(w)
    BY <1>1, <2>1, <2>2 DEF Simple
  <2> QED
    BY <1>1, <2>1, <2>2, <2>3
<1>3. CASE \A at \in 1..Len(p) : p[at] # n
  <2>1. Len(p) < Cardinality(Nodes)
    BY <1>1, <1>3, SimpleFits
  <2>2. PICK w \in Paths(edges, o, n) :
          /\ Len(w) = Len(p) + 1 /\ Time(edges, w) <= Time(edges, p) + e.time
          /\ \A i \in 1..Len(p) : w[i] = p[i]
    BY <1>3, <2>1, LongerPath
  <2>3. w[Len(w)] = n
    BY <2>2, PathIs
  <2>4. ASSUME NEW i \in 1..Len(w), NEW j \in 1..Len(w), w[i] = w[j]
        PROVE  i = j
    <3>1. /\ i \in 1..Len(p) \/ i = Len(p) + 1
          /\ j \in 1..Len(p) \/ j = Len(p) + 1
      BY <1>1, <2>2
    <3> QED
      BY <1>3, <2>2, <2>3, <2>4, <3>1 DEF Simple
  <2> QED
    BY <2>2, <2>4 DEF Simple
<1> QED
  BY <1>2, <1>3

\* One road from the origin.
LEMMA SimpleStart ==
  ASSUME NEW edges, IsGraph(edges), NEW o \in Nodes, NEW n \in Nodes, n # o,
         NEW e \in Hop(edges, o, n)
  PROVE  \E w \in Paths(edges, o, n) : Simple(w) /\ Time(edges, w) <= e.time
<1>1. Cardinality(Nodes) >= 2
  <2>1. /\ IsFiniteSet(Nodes) /\ {o} \in SUBSET Nodes /\ {o} # Nodes
        /\ Cardinality({o}) = 1
    <3>1. IsFiniteSet(Nodes)
      BY CityAssumption
    <3>2. Cardinality({o}) = 1
      BY FS_Singleton
    <3> QED
      BY <3>1, <3>2
  <2> QED
    BY <2>1, SmallerSet
<1>2. PICK w \in Paths(edges, o, n) : Len(w) = 2 /\ Time(edges, w) <= e.time
  BY <1>1, FirstRoad
<1>3. w[1] = o /\ w[2] = n
  BY <1>2, PathIs
<1> QED
  BY <1>2, <1>3 DEF Simple

(***************************************************************************)
(* Paths is what shortest paths are over: it only has ways of at most as   *)
(* many nodes as there are, that do not come back to their ends, but of    *)
(* all walks over the roads, of any length, none is faster than all of     *)
(* them.  So what is fastest here is what networkx finds.                  *)
(***************************************************************************)
THEOREM WalksHavePaths ==
  ASSUME NEW edges, IsGraph(edges), NEW walk, Walk(edges, walk),
         walk[Len(walk)] # walk[1]
  PROVE  \E p \in Paths(edges, walk[1], walk[Len(walk)]) :
           Time(edges, p) <= Time(edges, walk)
<1> DEFINE m    == Len(walk) - 1
           o    == walk[1]
           legs == Legs(edges, walk)
<1>1. m \in Nat /\ o \in Nodes /\ \A k \in 0..m : walk[k + 1] \in Nodes
  BY DEF Walk
<1>2. legs \in [1..m -> Nat] /\ Time(edges, walk) = Total(legs)
      /\ \A k \in 1..m : legs[k] = HopTime(edges, walk[k], walk[k + 1])
  <2>1. ASSUME NEW k \in 1..m PROVE HopTime(edges, walk[k], walk[k + 1]) \in Nat
    BY HopTimeIs DEF Walk
  <2> QED
    BY <2>1 DEF Legs, Time
<1> HIDE DEF legs
<1>3. PICK u : SumsTo(u, legs, m) /\ Total(legs) = u[m]
  BY <1>1, <1>2, TotalIs
<1> DEFINE Good(k) == \/ walk[k + 1] = o
                      \/ \E p \in Paths(edges, o, walk[k + 1]) :
                           Simple(p) /\ Time(edges, p) <= u[k]
           Q == {k \in 0..m : Good(k)}
           v == [k \in 0..m |-> k]
<1>4. v[0] \in Q
  BY <1>1
<1>5. ASSUME NEW k \in 1..m, v[k - 1] \in Q PROVE v[k] \in Q
  <2>1. k \in 0..m /\ k - 1 \in 0..m /\ k - 1 + 1 = k /\ v[k - 1] = k - 1 /\ v[k] = k
    BY <1>1
  <2>2. walk[k] \in Nodes /\ walk[k + 1] \in Nodes /\ Hop(edges, walk[k], walk[k + 1]) # {}
    <3>1. walk[k - 1 + 1] \in Nodes /\ walk[k + 1] \in Nodes
      BY <1>1, <2>1
    <3> QED
      BY <2>1, <3>1 DEF Walk
  <2>3. /\ u[k] = u[k - 1] + legs[k]
        /\ u[k] \in Nat /\ u[k - 1] \in Nat /\ legs[k] \in Nat
    BY <1>2, <1>3, <2>1 DEF SumsTo
  <2>4. PICK e \in Hop(edges, walk[k], walk[k + 1]) : legs[k] = e.time
    BY <1>2, <2>2, HopTimeIs
  <2>5. walk[k] = o \/ \E p \in Paths(edges, o, walk[k]) : Simple(p) /\ Time(edges, p) <= u[k - 1]
    BY <1>5, <2>1
  <2>6. ASSUME walk[k + 1] # o
        PROVE  \E p \in Paths(edges, o, walk[k + 1]) : Simple(p) /\ Time(edges, p) <= u[k]
    <3>1. CASE walk[k] = o
      <4>1. PICK p \in Paths(edges, o, walk[k + 1]) : Simple(p) /\ Time(edges, p) <= e.time
        BY <1>1, <2>2, <2>4, <2>6, <3>1, SimpleStart
      <4>2. Time(edges, p) \in Nat
        BY <1>1, <2>2, <4>1, PathIs
      <4> QED
        BY <2>3, <2>4, <4>1, <4>2
    <3>2. CASE walk[k] # o
      <4>1. PICK q \in Paths(edges, o, walk[k]) : Simple(q) /\ Time(edges, q) <= u[k - 1]
        BY <2>5, <3>2
      <4>2. PICK p \in Paths(edges, o, walk[k + 1]) :
              Simple(p) /\ Time(edges, p) <= Time(edges, q) + e.time
        BY <1>1, <2>2, <2>4, <2>6, <3>2, <4>1, SimpleOnward
      <4>3. Time(edges, p) \in Nat /\ Time(edges, q) \in Nat
        BY <1>1, <2>2, <4>1, <4>2, PathIs
      <4> QED
        BY <2>3, <2>4, <4>1, <4>2, <4>3
    <3> QED
      BY <3>1, <3>2
  <2> QED
    BY <2>1, <2>6
<1>6. \A k \in 0..m : v[k] \in Q
  <2> HIDE DEF v, Q, m
  <2> QED BY <1>1, <1>4, <1>5, StepsStay
<1>7. m \in 0..m /\ v[m] = m /\ m + 1 = Len(walk)
  BY <1>1 DEF Walk
<1>8. Good(m)
  BY <1>6, <1>7
<1> QED
  BY <1>2, <1>3, <1>7, <1>8
=============================================================================
