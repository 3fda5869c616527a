------------------------- MODULE AcquisitionProofs -------------------------
(***************************************************************************)
(* Theorems about acquire for any calendar, request, policy and answer:    *)
(* what it serves meets the policy, a fresh hit is fresh, and the error it *)
(* raises follows from the attempts.                                       *)
(***************************************************************************)
EXTENDS Acquisition, FiniteSetTheorems, WellFoundedInduction, TLAPS

Kinds == {"transient", "terminal", "quota", "entitlement", "quality"}

LineageSegment == [first : Days, last : Days, provider : Providers, at : Nat]

CandidateLists == {<<>>, <<"yfinance">>, <<"alpha_vantage">>, <<"yfinance", "alpha_vantage">>}

Logs == Seq([provider : Providers, kind : Kinds])

Fetches ==
    [range : Days \X Days, candidates : CandidateLists, index : Nat, attempt : Nat,
     errors : SUBSET {"provider", "quality"}, log : Logs]

Acquisitions ==
    [request : Requests, alphaFrom : AlphaFroms, expected : SUBSET Sessions,
     planned : SUBSET (Days \X Days), left : SUBSET (Days \X Days),
     accepted : [Days -> AcceptedRow \cup {None}], warned : BOOLEAN, calls : Nat,
     fetch : Fetches \cup {None}]

\* The types of the variables.
TypeOK ==
    /\ now \in Nat
    /\ cache \in [Days -> Row \cup {None}]
    /\ lineage \in SUBSET LineageSegment
    /\ completed \in Nat \cup {None}
    /\ foreign \in SUBSET Days
    /\ acq # None => acq \in Acquisitions

\* An acquisition in progress fetches one of the ranges left of its plan, and
\* accepts rows only in the plan; the last outcome is not reported during one.
PlanInv ==
    acq # None =>
      /\ outcome = [kind |-> "none"]
      /\ acq.expected # {}
      /\ acq.left \subseteq acq.planned
      /\ acq.left # {} => acq.fetch \in Fetches /\ acq.fetch.range \in acq.left
      /\ \A d \in Days : acq.accepted[d] # None => InPlanned(d)

\* Every cached row not relabelled by a bypassing acquisition is covered by
\* segments of its own provider that claim no more than it has.
LineageInv ==
    \A d \in Present(cache) \ foreign :
      /\ Covering(lineage, d) # {}
      /\ \A g \in Covering(lineage, d) : g.provider = cache[d].provider /\ g.at <= cache[d].at

\* The log of a range in progress: the providers before the current one were
\* given up on, and the current one has only had transient failures.
LogOK(candidates, index, attempt, errors, log) ==
    /\ index \in 1..(Len(candidates) + 1)
    /\ attempt \in 1..MaxAttempts
    /\ index > 1 => errors # {}
    /\ \A p \in Providers : Cardinality(AttemptsOf(log, p)) <= MaxAttempts
    /\ \A i \in DOMAIN log : log[i].kind # "terminal"
    /\ \A i \in DOMAIN log : ~IsLast(log, i) => log[i].kind = "transient"
    /\ \A i \in DOMAIN log :
         \E j \in DOMAIN candidates : j <= index /\ log[i].provider = candidates[j]
    /\ \A j \in DOMAIN candidates : j < index => GivenUp(log, candidates[j])
    /\ index <= Len(candidates) => Cardinality(AttemptsOf(log, candidates[index])) = attempt - 1
    /\ index <= Len(candidates) =>
         \A i \in AttemptsOf(log, candidates[index]) : log[i].kind = "transient"
    /\ "provider" \in errors =>
         \E i \in DOMAIN log :
           /\ IsLast(log, i)
           /\ log[i].kind # "quality"
           /\ \E j \in DOMAIN candidates : j < index /\ log[i].provider = candidates[j]
    /\ "provider" \notin errors =>
         \A i \in DOMAIN log : IsLast(log, i) =>
           \/ log[i].kind = "quality"
           \/ index <= Len(candidates) /\ log[i].provider = candidates[index]

LogInv(f) == LogOK(f.candidates, f.index, f.attempt, f.errors, f.log)

FetchInv ==
    acq # None /\ acq.left # {} =>
      /\ LogInv(acq.fetch)
      /\ acq.request.source # "auto" => Len(acq.fetch.candidates) <= 1

IInv == TypeOK /\ PlanInv /\ LineageInv /\ FetchInv

-----------------------------------------------------------------------------
(* Least and greatest elements.                                            *)

LEMMA MinExists ==
    ASSUME NEW S \in SUBSET Nat, S # {}
    PROVE  \E s \in S : \A k \in S : s <= k
<1> DEFINE R == OpToRel(<, Nat)
<1>1. IsWellFoundedOn(R, Nat)
  BY NatLessThanWellFounded, Zenon
<1>2. \A k \in Nat, s \in Nat : k < s => <<k, s>> \in R
  BY DEF OpToRel
<1> HIDE DEF R
<1>3. PICK s \in S : \A k \in S : ~(<<k, s>> \in R)
  BY <1>1, WFMin, Zenon
<1>4. \A k \in S : ~(k < s)
  BY <1>2, <1>3
<1> QED BY <1>4

\* The greatest element has the fewest elements above it.
LEMMA MaxExists ==
    ASSUME NEW S \in SUBSET Nat, S # {}, IsFiniteSet(S)
    PROVE  \E s \in S : \A k \in S : k <= s
<1> DEFINE Above(s) == {k \in S : s < k}
           Sizes == {Cardinality(Above(s)) : s \in S}
<1>1. \A s \in S : IsFiniteSet(Above(s)) /\ Cardinality(Above(s)) \in Nat
  <2> SUFFICES ASSUME NEW s \in S PROVE IsFiniteSet(Above(s)) /\ Cardinality(Above(s)) \in Nat
    OBVIOUS
  <2>1. Above(s) \in SUBSET S
    OBVIOUS
  <2> QED BY <2>1, FS_Subset, FS_CardinalityType
<1>2. Sizes \in SUBSET Nat /\ Sizes # {}
  BY <1>1
<1> HIDE DEF Sizes
<1>3. PICK n \in Sizes : \A k \in Sizes : n <= k
  BY <1>2, MinExists
<1>4. PICK s \in S : n = Cardinality(Above(s))
  BY <1>3 DEF Sizes
<1>5. ASSUME NEW k \in S, s < k PROVE FALSE
  <2>1. Above(k) \in SUBSET Above(s)
    <3>1. \A j \in S : j \in Nat /\ k \in Nat /\ s \in Nat
      OBVIOUS
    <3>2. \A j \in S : k < j => s < j
      BY <1>5, <3>1
    <3> QED BY <3>2
  <2>2. k \in Above(s) /\ k \notin Above(k)
    BY <1>5
  <2>3. Cardinality(Above(k)) < Cardinality(Above(s))
    BY <2>1, <2>2, <1>1, FS_Subset
  <2>4. Cardinality(Above(k)) \in Sizes
    BY DEF Sizes
  <2> QED BY <2>3, <2>4, <1>1, <1>3, <1>4
<1> QED BY <1>5

LEMMA CardinalityMonotone ==
    ASSUME NEW S, IsFiniteSet(S), NEW T \in SUBSET S
    PROVE  /\ IsFiniteSet(T) /\ Cardinality(T) \in Nat /\ Cardinality(S) \in Nat
           /\ Cardinality(T) <= Cardinality(S)
BY FS_Subset, FS_CardinalityType

-----------------------------------------------------------------------------
(* Calendars.                                                              *)

LEMMA ExpectedType ==
    ASSUME NEW first, NEW last
    PROVE  ExpectedSessions(first, last) \in SUBSET Sessions
BY DEF ExpectedSessions

LEMMA SessionsFinite ==
    ASSUME NEW S \in SUBSET Sessions
    PROVE  S \in SUBSET Nat /\ IsFiniteSet(S) /\ S \in SUBSET Days
<1>1. S \in SUBSET Days /\ Days \in SUBSET Nat /\ IsFiniteSet(Days)
  BY AcquisitionAssumption
<1> QED BY <1>1, FS_Subset

\* Every needed session is in a group: the longest run of needed sessions
\* around it.
LEMMA GroupExists ==
    ASSUME NEW expected \in SUBSET Sessions, NEW needed \in SUBSET expected, NEW s \in needed
    PROVE  \E g \in GroupContiguous(expected, needed) : InRange(s, g)
<1> DEFINE Run(a, b) == \A k \in expected : a <= k /\ k <= b => k \in needed
           Left == {a \in needed : a <= s /\ Run(a, s)}
           Right == {b \in needed : s <= b /\ Run(s, b)}
<1>1. expected \in SUBSET Nat /\ needed \in SUBSET Nat /\ IsFiniteSet(needed) /\ s \in Nat
  BY SessionsFinite
<1>2. s \in Left /\ s \in Right
  BY <1>1
<1>3. Left \in SUBSET Nat /\ Right \in SUBSET Nat /\ IsFiniteSet(Right)
  <2>1. Left \in SUBSET needed /\ Right \in SUBSET needed
    OBVIOUS
  <2> QED BY <1>1, <2>1, FS_Subset
<1> HIDE DEF Left, Right
<1>4. PICK a \in Left : \A k \in Left : a <= k
  BY <1>2, <1>3, MinExists
<1>5. PICK b \in Right : \A k \in Right : k <= b
  BY <1>2, <1>3, MaxExists
<1>6. /\ a \in needed /\ a <= s /\ Run(a, s) /\ a \in Nat
      /\ b \in needed /\ s <= b /\ Run(s, b) /\ b \in Nat
  BY <1>1 DEF Left, Right
<1>7. Run(a, b)
  BY <1>1, <1>6
<1>8. ASSUME NEW k \in needed, k < a
      PROVE  \E j \in expected \ needed : k < j /\ j < a
  <2>1. k \notin Left
    BY <1>1, <1>4, <1>6, <1>8
  <2>2. ~Run(k, s)
    BY <1>1, <1>6, <1>8, <2>1 DEF Left
  <2>3. PICK j \in expected : k <= j /\ j <= s /\ j \notin needed
    BY <2>2
  <2>4. j < a
    BY <1>1, <1>6, <2>3
  <2>5. k < j
    BY <1>1, <1>8, <2>3
  <2> QED BY <2>3, <2>4, <2>5
<1>9. ASSUME NEW k \in needed, b < k
      PROVE  \E j \in expected \ needed : b < j /\ j < k
  <2>1. k \notin Right
    BY <1>1, <1>5, <1>6, <1>9
  <2>2. ~Run(s, k)
    BY <1>1, <1>6, <1>9, <2>1 DEF Right
  <2>3. PICK j \in expected : s <= j /\ j <= k /\ j \notin needed
    BY <2>2
  <2>4. b < j
    BY <1>1, <1>6, <2>3
  <2>5. j < k
    BY <1>1, <1>9, <2>3
  <2> QED BY <2>3, <2>4, <2>5
<1>10. a <= b
  BY <1>1, <1>6
<1>11. <<a, b>> \in GroupContiguous(expected, needed)
  BY <1>6, <1>7, <1>8, <1>9, <1>10 DEF GroupContiguous
<1> QED BY <1>6, <1>11 DEF InRange

LEMMA GroupType ==
    ASSUME NEW expected \in SUBSET Sessions, NEW needed \in SUBSET expected
    PROVE  GroupContiguous(expected, needed) \in SUBSET (Days \X Days)
<1>1. needed \in SUBSET Days
  BY SessionsFinite
<1> QED BY <1>1 DEF GroupContiguous

-----------------------------------------------------------------------------
(* What is served meets the policy.                                        *)

LEMMA ScaleMonotone ==
    ASSUME NEW a \in Nat, NEW b \in Nat, a <= b, NEW c \in Nat
    PROVE  a * c <= b * c
OBVIOUS

\* A window without a served session lies in one group of missing ones.
LEMMA PolicyHolds ==
    ASSUME NEW expected \in SUBSET Sessions, NEW days \in SUBSET expected,
           NEW served \in SUBSET expected, days \subseteq served,
           ~CompleteIsFatal(days, expected)
    PROVE  /\ Cardinality(served) * CoverageDen >= CoverageNum * Cardinality(expected)
           /\ \A a \in expected, b \in expected :
                LET window == {s \in expected : a <= s /\ s <= b}
                IN  Cardinality(window) > MaxGap => window \cap served # {}
<1>1. /\ expected \in SUBSET Nat /\ IsFiniteSet(expected)
      /\ MaxGap \in Nat /\ CoverageNum \in Nat /\ CoverageDen \in Nat
  BY SessionsFinite, AcquisitionAssumption
<1>2. /\ Cardinality(days) \in Nat /\ Cardinality(served) \in Nat /\ Cardinality(expected) \in Nat
      /\ Cardinality(days) <= Cardinality(served)
  BY <1>1, CardinalityMonotone, FS_Subset
<1>3. ~(Cardinality(days) * CoverageDen < CoverageNum * Cardinality(expected))
  BY DEF CompleteIsFatal
<1>4. Cardinality(days) * CoverageDen <= Cardinality(served) * CoverageDen
  BY <1>1, <1>2, ScaleMonotone
<1>5. Cardinality(served) * CoverageDen >= CoverageNum * Cardinality(expected)
  <2> DEFINE x == Cardinality(days) * CoverageDen
             y == Cardinality(served) * CoverageDen
             z == CoverageNum * Cardinality(expected)
  <2>1. x \in Nat /\ y \in Nat /\ z \in Nat
    BY <1>1, <1>2
  <2>2. ~(x < z) /\ x <= y
    BY <1>3, <1>4
  <2> HIDE DEF x, y, z
  <2>3. y >= z
    BY <2>1, <2>2
  <2> QED BY <2>3 DEF y, z
<1>6. ASSUME NEW a \in expected, NEW b \in expected
      PROVE  LET window == {s \in expected : a <= s /\ s <= b}
             IN  Cardinality(window) > MaxGap => window \cap served # {}
  <2> DEFINE window == {s \in expected : a <= s /\ s <= b}
             needed == expected \ days
  <2> SUFFICES ASSUME Cardinality(window) > MaxGap, window \cap served = {} PROVE FALSE
    OBVIOUS
  <2>1. window # {}
    <3>1. Cardinality({}) = 0
      BY FS_EmptySet
    <3> QED BY <3>1, <1>1
  <2>2. window \subseteq needed
    OBVIOUS
  <2>3. a \in window
    <3>1. PICK s \in window : TRUE
      BY <2>1
    <3>2. a \in Nat /\ b \in Nat /\ s \in Nat /\ a <= s /\ s <= b
      BY <1>1, <3>1
    <3> QED BY <3>2
  <2>4. PICK g \in GroupContiguous(expected, needed) : InRange(a, g)
    BY <2>2, <2>3, GroupExists
  <2>5. /\ g[1] \in needed /\ g[2] \in needed
        /\ \A s \in needed : g[2] < s => \E k \in expected \ needed : g[2] < k /\ k < s
    BY DEF GroupContiguous
  <2>6. g[1] \in Nat /\ g[2] \in Nat /\ g[1] <= a /\ a <= g[2]
    BY <1>1, <2>4, <2>5 DEF InRange
  <2>7. ASSUME NEW k \in window PROVE InRange(k, g)
    <3>1. k \in Nat /\ a \in Nat /\ b \in Nat /\ a <= k /\ k <= b
      BY <1>1
    <3>2. k <= g[2]
      <4> SUFFICES ASSUME g[2] < k PROVE FALSE
        BY <2>6, <3>1
      <4>1. PICK j \in expected \ needed : g[2] < j /\ j < k
        BY <2>2, <2>5
      <4>2. j \in window
        BY <4>1, <1>1, <2>6, <3>1
      <4> QED BY <2>2, <4>1, <4>2
    <3> QED BY <2>6, <3>1, <3>2 DEF InRange
  <2>8. window \in SUBSET {s \in expected : InRange(s, g)}
    BY <2>7
  <2>9. IsFiniteSet({s \in expected : InRange(s, g)})
    BY <1>1, FS_Subset
  <2>10. Cardinality(window) <= GapLength(expected, g) /\ GapLength(expected, g) \in Nat
    BY <2>8, <2>9, CardinalityMonotone DEF GapLength
  <2>11. ~(GapLength(expected, g) > MaxGap)
    BY <2>4 DEF CompleteIsFatal
  <2>12. Cardinality(window) \in Nat
    BY <2>8, <2>9, CardinalityMonotone
  <2> QED BY <1>1, <2>10, <2>11, <2>12
<1> QED BY <1>5, <1>6

-----------------------------------------------------------------------------
(* Lineage.                                                                *)

LEMMA FirstIn ==
    ASSUME NEW ranges \in SUBSET (Days \X Days), ranges # {}
    PROVE  First(ranges) \in ranges
<1> DEFINE Starts == {g[1] : g \in ranges}
<1>1. Starts \in SUBSET Nat /\ Starts # {}
  BY AcquisitionAssumption
<1>2. PICK s \in Starts : \A k \in Starts : s <= k
  BY <1>1, MinExists
<1>3. PICK g \in ranges : g[1] = s
  BY <1>2
<1>4. \A k \in ranges : g[1] <= k[1]
  BY <1>2, <1>3
<1> QED BY <1>4 DEF First

LEMMA LeftmostIn ==
    ASSUME NEW segments \in SUBSET LineageSegment, segments # {}
    PROVE  Leftmost(segments) \in segments
<1> DEFINE Starts == {g.first : g \in segments}
<1>1. Starts \in SUBSET Nat /\ Starts # {}
  <2>1. \A g \in segments : g.first \in Days
    BY DEF LineageSegment
  <2>2. Days \in SUBSET Nat
    BY AcquisitionAssumption
  <2> QED BY <2>1, <2>2
<1>2. PICK s \in Starts : \A k \in Starts : s <= k
  BY <1>1, MinExists
<1>3. PICK g \in segments : g.first = s
  BY <1>2
<1>4. \A k \in segments : g.first <= k.first
  BY <1>2, <1>3
<1> QED BY <1>4 DEF Leftmost

LEMMA CoveringIn ==
    ASSUME NEW segments \in SUBSET LineageSegment, NEW d
    PROVE  Covering(segments, d) \in SUBSET segments /\ Covering(segments, d) \in SUBSET LineageSegment
BY DEF Covering

\* A segment has the provenance of every day it covers, and every day is
\* covered: by the longest run of its provenance around it.
LEMMA GroupByProvenanceFacts ==
    ASSUME NEW days \in SUBSET Days, NEW prov, DOMAIN prov = days,
           \A d \in days : prov[d].provider \in Providers /\ prov[d].at \in Nat
    PROVE  /\ GroupByProvenance(prov) \in SUBSET LineageSegment
           /\ \A d \in days :
                /\ Covering(GroupByProvenance(prov), d) # {}
                /\ \A g \in Covering(GroupByProvenance(prov), d) :
                     g.provider = prov[d].provider /\ g.at = prov[d].at
<1> DEFINE Same(a, b) == \A d \in days : a <= d /\ d <= b => prov[d] = prov[a]
           Following(d) == {k \in days : d < k /\ \A j \in days : d < j => k <= j}
           Starts == {d \in days : \A k \in days : Following(k) = {d} => prov[k] # prov[d]}
           Runs == {p \in Starts \X days :
                      /\ p[1] <= p[2] /\ Same(p[1], p[2])
                      /\ \A k \in Following(p[2]) : prov[k] # prov[p[1]]}
           Seg(p) == Segment(p[1], p[2], prov[p[1]].provider, prov[p[1]].at)
<1>1. GroupByProvenance(prov) = {Seg(p) : p \in Runs}
  BY DEF GroupByProvenance
<1>2. days \in SUBSET Nat /\ IsFiniteSet(days)
  BY AcquisitionAssumption, FS_Subset
<1>3. ASSUME NEW p \in Runs
      PROVE  /\ p[1] \in days /\ p[2] \in days /\ Same(p[1], p[2])
             /\ Seg(p) \in LineageSegment
             /\ Seg(p).first = p[1] /\ Seg(p).last = p[2]
             /\ Seg(p).provider = prov[p[1]].provider /\ Seg(p).at = prov[p[1]].at
  <2>1. p[1] \in days /\ p[2] \in days /\ Same(p[1], p[2])
    OBVIOUS
  <2> QED BY <2>1 DEF Segment, LineageSegment
<1>4. GroupByProvenance(prov) \in SUBSET LineageSegment
  BY <1>1, <1>3
<1>5. ASSUME NEW d \in days, NEW g \in Covering(GroupByProvenance(prov), d)
      PROVE  g.provider = prov[d].provider /\ g.at = prov[d].at
  <2>1. PICK p \in Runs : g = Seg(p)
    BY <1>1 DEF Covering
  <2>2. p[1] <= d /\ d <= p[2]
    BY <1>3, <2>1 DEF Covering, Covers
  <2>3. prov[d] = prov[p[1]]
    BY <1>3, <2>2
  <2> QED BY <1>3, <2>1, <2>3
<1>6. ASSUME NEW d \in days PROVE Covering(GroupByProvenance(prov), d) # {}
  <2> DEFINE Left == {a \in days : a <= d /\ \A j \in days : a <= j /\ j <= d => prov[j] = prov[d]}
             Right == {b \in days : d <= b /\ \A j \in days : d <= j /\ j <= b => prov[j] = prov[d]}
  <2>1. d \in Left /\ d \in Right /\ d \in Nat
    <3>1. d \in Nat /\ d <= d /\ \A j \in days : d <= j /\ j <= d => j = d
      BY <1>2
    <3> QED BY <3>1
  <2>2. Left \in SUBSET Nat /\ Right \in SUBSET Nat /\ IsFiniteSet(Right)
    <3>1. Left \in SUBSET days /\ Right \in SUBSET days
      OBVIOUS
    <3> QED BY <1>2, <3>1, FS_Subset
  <2> HIDE DEF Left, Right
  <2>3. PICK a \in Left : \A k \in Left : a <= k
    BY <2>1, <2>2, MinExists
  <2>4. PICK b \in Right : \A k \in Right : k <= b
    BY <2>1, <2>2, MaxExists
  <2>5. /\ a \in days /\ a \in Nat /\ a <= d
        /\ \A j \in days : a <= j /\ j <= d => prov[j] = prov[d]
        /\ b \in days /\ b \in Nat /\ d <= b
        /\ \A j \in days : d <= j /\ j <= b => prov[j] = prov[d]
    BY <1>2 DEF Left, Right
  <2>6. \A j \in days : a <= j /\ j <= b => prov[j] = prov[d]
    <3>1. \A j \in days : j <= d \/ d <= j
      BY <1>2, <2>1
    <3> QED BY <2>5, <3>1
  <2>7. prov[a] = prov[d]
    BY <2>5
  <2>8. a \in Starts
    <3> SUFFICES ASSUME NEW k \in days, Following(k) = {a}, prov[k] = prov[a] PROVE FALSE
      BY <2>5
    <3>1. a \in Following(k)
      OBVIOUS
    <3>2. k < a /\ \A j \in days : k < j => a <= j
      BY <3>1
    <3>3. k \in Nat
      BY <1>2
    <3>4. ASSUME NEW j \in days, k <= j, j <= d PROVE prov[j] = prov[d]
      <4>1. j \in Nat
        BY <1>2
      <4>2. CASE j = k
        BY <4>2, <2>7
      <4>3. CASE j # k
        BY <4>1, <4>3, <3>2, <3>3, <3>4, <2>5
      <4> QED BY <4>2, <4>3
    <3>5. k \in Left
      BY <3>2, <3>3, <3>4, <2>1, <2>5 DEF Left
    <3> QED BY <3>2, <3>3, <3>5, <2>3, <2>5
  <2>9. \A k \in Following(b) : prov[k] # prov[a]
    <3> SUFFICES ASSUME NEW k \in Following(b), prov[k] = prov[a] PROVE FALSE
      OBVIOUS
    <3>1. k \in days /\ b < k /\ \A j \in days : b < j => k <= j
      OBVIOUS
    <3>2. k \in Nat
      BY <1>2, <3>1
    <3>3. ASSUME NEW j \in days, d <= j, j <= k PROVE prov[j] = prov[d]
      <4>1. j \in Nat
        BY <1>2
      <4>2. CASE j = k
        BY <4>2, <2>7
      <4>3. CASE j # k
        BY <4>1, <4>3, <3>1, <3>2, <3>3, <2>5
      <4> QED BY <4>2, <4>3
    <3>4. k \in Right
      BY <3>1, <3>2, <3>3, <2>1, <2>5 DEF Right
    <3> QED BY <3>1, <3>2, <3>4, <2>4, <2>5
  <2>10. a <= b /\ Same(a, b)
    BY <2>1, <2>5, <2>6, <2>7
  <2>11. <<a, b>> \in Starts \X days
    BY <2>5, <2>8
  <2>12. <<a, b>> \in Runs
    BY <2>9, <2>10, <2>11
  <2> HIDE DEF Starts, Runs, Same, Following
  <2>13. Seg(<<a, b>>) \in GroupByProvenance(prov)
    BY <1>1, <2>12
  <2>14. Covers(Seg(<<a, b>>), d)
    BY <2>5 DEF Segment, Covers
  <2> QED BY <2>13, <2>14 DEF Covering
<1> QED BY <1>4, <1>5, <1>6

-----------------------------------------------------------------------------
(* The parts of a step.                                                    *)

\* The cached segments _rebuild_lineage may keep for a day.
Kept(rows, d) == {g \in Covering(Base.lineage, d) : g.provider = rows[d].provider}

LEMMA BaseType ==
    ASSUME TypeOK
    PROVE  /\ Base.rows \in [Days -> Row \cup {None}]
           /\ Base.lineage \in SUBSET LineageSegment
           /\ Base.completed \in Nat \cup {None}
           /\ Bypass => Base.rows = NoRows
           /\ ~Bypass => Base.rows = cache /\ Base.lineage = lineage
BY DEF TypeOK, Base, NoRows

\* A refreshed day has the provenance of its row, another one that of a segment
\* it could keep.
Rebuilt(rows, segments) ==
    /\ segments \in SUBSET LineageSegment
    /\ \A d \in Present(rows) :
         /\ Covering(segments, d) # {}
         /\ \A g \in Covering(segments, d) :
              /\ acq.accepted[d] # None =>
                   g.provider = acq.accepted[d].provider /\ g.at = acq.accepted[d].at
              /\ acq.accepted[d] = None /\ Kept(rows, d) # {} =>
                   \E h \in Kept(rows, d) : g.provider = h.provider /\ g.at = h.at

LEMMA RebuildFacts ==
    ASSUME TypeOK, acq # None, NEW rows \in [Days -> Row \cup {None}]
    PROVE  Rebuilt(rows, RebuildLineage(rows))
<1> DEFINE At == IF Base.completed = None THEN now ELSE Base.completed
           New(d) == Segment(acq.accepted[d].range[1], acq.accepted[d].range[2],
                             acq.accepted[d].provider, acq.accepted[d].at)
           Choice(d) == IF acq.accepted[d] # None THEN New(d)
                        ELSE IF Kept(rows, d) # {} THEN Leftmost(Kept(rows, d))
                        ELSE Segment(d, d, rows[d].provider, At)
           prov == [d \in Present(rows) |-> Choice(d)]
<1>1. RebuildLineage(rows) = GroupByProvenance(prov)
  BY DEF RebuildLineage, Kept
<1>2. acq \in Acquisitions /\ now \in Nat
  BY DEF TypeOK
<1>3. \A d \in Days : acq.accepted[d] \in AcceptedRow \cup {None}
  BY <1>2 DEF Acquisitions
<1>4. At \in Nat
  BY <1>2, BaseType, SMTT(30)
<1>5. ASSUME NEW d \in Present(rows)
      PROVE  /\ d \in Days
             /\ Choice(d).provider \in Providers /\ Choice(d).at \in Nat
             /\ acq.accepted[d] # None =>
                  /\ Choice(d).provider = acq.accepted[d].provider
                  /\ Choice(d).at = acq.accepted[d].at
             /\ acq.accepted[d] = None /\ Kept(rows, d) # {} => Choice(d) \in Kept(rows, d)
  <2>1. d \in Days /\ rows[d] # None /\ rows[d] \in Row
    BY DEF Present
  <2>2. CASE acq.accepted[d] # None
    <3>1. acq.accepted[d] \in AcceptedRow /\ Choice(d) = New(d)
      BY <1>3, <2>1, <2>2
    <3>2. acq.accepted[d].provider \in Providers /\ acq.accepted[d].at \in Nat
      BY <3>1 DEF AcceptedRow
    <3>3. New(d).provider = acq.accepted[d].provider /\ New(d).at = acq.accepted[d].at
      BY DEF Segment
    <3> QED BY <2>1, <2>2, <3>1, <3>2, <3>3
  <2>3. CASE acq.accepted[d] = None /\ Kept(rows, d) # {}
    <3>1. Kept(rows, d) \in SUBSET LineageSegment
      BY BaseType, CoveringIn DEF Kept
    <3>2. Choice(d) \in Kept(rows, d)
      BY <2>3, <3>1, LeftmostIn
    <3>3. Choice(d) \in LineageSegment
      BY <3>1, <3>2
    <3> HIDE DEF Choice
    <3> QED BY <2>1, <2>3, <3>2, <3>3 DEF LineageSegment
  <2>4. CASE acq.accepted[d] = None /\ Kept(rows, d) = {}
    <3>1. rows[d].provider \in Providers
      BY <2>1 DEF Row
    <3>2. Choice(d) = Segment(d, d, rows[d].provider, At)
      BY <2>4
    <3> HIDE DEF At
    <3>3. Segment(d, d, rows[d].provider, At).provider = rows[d].provider
      BY DEF Segment
    <3>4. Segment(d, d, rows[d].provider, At).at = At
      BY DEF Segment
    <3> QED BY <1>4, <2>1, <2>4, <3>1, <3>2, <3>3, <3>4
  <2> QED BY <2>2, <2>3, <2>4
<1> HIDE DEF Choice
<1>6. DOMAIN prov = Present(rows) /\ Present(rows) \in SUBSET Days
  BY DEF Present
<1>7. \A d \in Present(rows) : prov[d] = Choice(d)
  OBVIOUS
<1>8. \A d \in Present(rows) : prov[d].provider \in Providers /\ prov[d].at \in Nat
  BY <1>5, <1>7
<1> HIDE DEF prov
<1>9. /\ GroupByProvenance(prov) \in SUBSET LineageSegment
      /\ \A d \in Present(rows) :
           /\ Covering(GroupByProvenance(prov), d) # {}
           /\ \A g \in Covering(GroupByProvenance(prov), d) :
                g.provider = prov[d].provider /\ g.at = prov[d].at
  BY <1>6, <1>8, GroupByProvenanceFacts
<1> QED BY <1>1, <1>5, <1>7, <1>9 DEF Rebuilt

\* A rebased lineage has, for every day, the provenance of one of its sources.
Rebased(incoming, rows, segments) ==
    /\ segments \in SUBSET LineageSegment
    /\ \A d \in Present(rows) :
         /\ Covering(segments, d) # {}
         /\ \A g \in Covering(segments, d) :
              \E h \in RebaseSource(incoming, d) : g.provider = h.provider /\ g.at = h.at

LEMMA RebaseFacts ==
    ASSUME TypeOK, NEW incoming \in SUBSET LineageSegment,
           NEW rows \in [Days -> Row \cup {None}],
           \A d \in Present(rows) : RebaseSource(incoming, d) # {}
    PROVE  Rebased(incoming, rows, RebaseLineage(incoming, rows))
<1> DEFINE prov == [d \in Present(rows) |-> Leftmost(RebaseSource(incoming, d))]
<1>1. RebaseLineage(incoming, rows) = GroupByProvenance(prov)
  BY DEF RebaseLineage
<1>2. ASSUME NEW d \in Present(rows)
      PROVE  /\ prov[d] \in RebaseSource(incoming, d)
             /\ prov[d].provider \in Providers /\ prov[d].at \in Nat
  <2>1. RebaseSource(incoming, d) \in SUBSET LineageSegment
    <3>1. lineage \in SUBSET LineageSegment
      BY DEF TypeOK
    <3> QED BY <3>1, CoveringIn DEF RebaseSource
  <2>2. prov[d] \in RebaseSource(incoming, d)
    BY <2>1, LeftmostIn
  <2>3. prov[d] \in LineageSegment
    BY <2>1, <2>2
  <2> HIDE DEF prov
  <2> QED BY <2>2, <2>3 DEF LineageSegment
<1>3. DOMAIN prov = Present(rows) /\ Present(rows) \in SUBSET Days
  BY DEF Present
<1> HIDE DEF prov
<1>4. /\ GroupByProvenance(prov) \in SUBSET LineageSegment
      /\ \A d \in Present(rows) :
           /\ Covering(GroupByProvenance(prov), d) # {}
           /\ \A g \in Covering(GroupByProvenance(prov), d) :
                g.provider = prov[d].provider /\ g.at = prov[d].at
  BY <1>2, <1>3, GroupByProvenanceFacts, ZenonT(40)
<1>5. ASSUME NEW d \in Present(rows), NEW g \in Covering(GroupByProvenance(prov), d)
      PROVE  \E h \in RebaseSource(incoming, d) : g.provider = h.provider /\ g.at = h.at
  <2>1. prov[d] \in RebaseSource(incoming, d)
    BY <1>2
  <2>2. g.provider = prov[d].provider /\ g.at = prov[d].at
    BY <1>4
  <2> QED BY <2>1, <2>2
<1>6. Rebased(incoming, rows, GroupByProvenance(prov))
  BY <1>4, <1>5 DEF Rebased
<1> QED BY <1>1, <1>6

LEMMA NeededType ==
    ASSUME NEW request, NEW expected
    PROVE  Needed(request, expected) \in SUBSET expected
BY DEF Needed, StaleSessions

LEMMA WholeRangeType ==
    ASSUME TypeOK, PlanInv, acq # None
    PROVE  WholeRange \in Days \X Days
<1>1. acq.expected \in SUBSET Sessions /\ acq.expected # {}
  BY DEF TypeOK, PlanInv, Acquisitions
<1>2. acq.expected \in SUBSET Nat /\ IsFiniteSet(acq.expected) /\ acq.expected \in SUBSET Days
  BY <1>1, SessionsFinite
<1>3. \E s \in acq.expected : \A k \in acq.expected : s <= k
  BY <1>1, <1>2, MinExists
<1>4. \E s \in acq.expected : \A k \in acq.expected : k <= s
  BY <1>1, <1>2, MaxExists
<1> QED BY <1>2, <1>3, <1>4 DEF WholeRange

LEMMA UntriedType ==
    ASSUME NEW request \in Requests, NEW alphaFrom \in AlphaFroms, NEW range \in Days \X Days
    PROVE  /\ Untried(request, alphaFrom, range) \in Fetches
           /\ Untried(request, alphaFrom, range).range = range
           /\ LogInv(Untried(request, alphaFrom, range))
           /\ request.source # "auto" => Len(Untried(request, alphaFrom, range).candidates) <= 1
<1> DEFINE C == Candidates(request, alphaFrom, range)
           U == [range |-> range, candidates |-> C, index |-> 1, attempt |-> 1,
                 errors |-> {}, log |-> <<>>]
<1>1. /\ C \in CandidateLists
      /\ request.source # "auto" => Len(C) <= 1
      /\ Len(C) \in Nat
  BY AcquisitionAssumption DEF Candidates, ProviderOrder, Providers, CandidateLists
<1>2. Untried(request, alphaFrom, range) = U
  BY DEF Untried
<1> HIDE DEF C
<1>3. U \in Fetches
  BY <1>1 DEF Fetches, Logs
<1>4. \A p \in Providers : Cardinality(AttemptsOf(U.log, p)) = 0
  BY FS_EmptySet DEF AttemptsOf
<1>5. MaxAttempts \in Nat /\ MaxAttempts > 0
  BY AcquisitionAssumption
<1>6. Cardinality(AttemptsOf(U.log, C[1])) = 0
  BY FS_EmptySet DEF AttemptsOf
<1>7. LogInv(U)
  BY <1>1, <1>4, <1>5, <1>6 DEF LogInv, LogOK, AttemptsOf
<1> QED BY <1>1, <1>2, <1>3, <1>7

-----------------------------------------------------------------------------
(* The log of a range.                                                     *)

LEMMA CandidatesDistinct ==
    ASSUME NEW f \in Fetches
    PROVE  /\ Len(f.candidates) \in Nat /\ DOMAIN f.candidates = 1..Len(f.candidates)
           /\ \A j \in DOMAIN f.candidates : f.candidates[j] \in Providers
           /\ \A i \in DOMAIN f.candidates, j \in DOMAIN f.candidates :
                f.candidates[i] = f.candidates[j] => i = j
<1>1. f.candidates \in {<<>>, <<"yfinance">>, <<"alpha_vantage">>, <<"yfinance", "alpha_vantage">>}
  BY DEF Fetches, CandidateLists
<1> QED BY <1>1 DEF Providers

LEMMA AttemptsFinite ==
    ASSUME NEW f \in Fetches, NEW p
    PROVE  IsFiniteSet(AttemptsOf(f.log, p)) /\ Cardinality(AttemptsOf(f.log, p)) \in Nat
<1>1. f.log \in Seq([provider : Providers, kind : Kinds])
  BY DEF Fetches, Logs
<1>2. DOMAIN f.log = 1..Len(f.log) /\ Len(f.log) \in Nat
  BY <1>1
<1>3. IsFiniteSet(1..Len(f.log))
  BY <1>2, FS_Interval
<1>4. AttemptsOf(f.log, p) \in SUBSET (1..Len(f.log))
  BY <1>2 DEF AttemptsOf
<1> QED BY <1>3, <1>4, FS_Subset, FS_CardinalityType

\* What one more attempt of kind k with the current provider p makes of a log.
LogFacts(f, p, k, L) ==
    /\ L \in Logs
    /\ Len(L) \in DOMAIN L /\ L[Len(L)].kind = k /\ L[Len(L)].provider = p
    /\ \A i \in DOMAIN L : i = Len(L) \/ (i \in DOMAIN f.log /\ L[i] = f.log[i])
    /\ \A i \in DOMAIN f.log : i \in DOMAIN L /\ L[i] = f.log[i]
    /\ \A q \in Providers : Cardinality(AttemptsOf(L, q)) <= MaxAttempts
    /\ Cardinality(AttemptsOf(L, p)) = f.attempt
    /\ IsLast(L, Len(L))
    /\ \A i \in DOMAIN f.log : f.log[i].provider = p => ~IsLast(L, i)
    /\ \A i \in DOMAIN f.log : f.log[i].provider # p => (IsLast(L, i) <=> IsLast(f.log, i))
    /\ \A i \in DOMAIN L : ~IsLast(L, i) => L[i].kind = "transient"
    /\ \A i \in DOMAIN L :
         \E j \in DOMAIN f.candidates : j <= f.index /\ L[i].provider = f.candidates[j]
    /\ \A j \in DOMAIN f.candidates : j < f.index => GivenUp(L, f.candidates[j])

LEMMA LogStep ==
    ASSUME NEW f \in Fetches, LogInv(f), f.index <= Len(f.candidates), NEW k \in Kinds
    PROVE  LogFacts(f, f.candidates[f.index], k,
                    Append(f.log, [provider |-> f.candidates[f.index], kind |-> k]))
<1> DEFINE p == f.candidates[f.index]
           L == Append(f.log, [provider |-> p, kind |-> k])
           n == Len(f.log) + 1
<1>1. f.log \in Seq([provider : Providers, kind : Kinds]) /\ Len(f.log) \in Nat
  BY DEF Fetches, Logs
<1>2. f.index \in Nat /\ f.attempt \in Nat /\ f.attempt <= MaxAttempts
  BY AcquisitionAssumption DEF Fetches, LogInv, LogOK
<1>3. /\ f.index \in DOMAIN f.candidates
      /\ \A j \in DOMAIN f.candidates : f.candidates[j] \in Providers
      /\ \A j \in DOMAIN f.candidates : j < f.index => f.candidates[j] # p
      /\ p \in Providers
  <2>1. /\ Len(f.candidates) \in Nat /\ DOMAIN f.candidates = 1..Len(f.candidates)
        /\ \A j \in DOMAIN f.candidates : f.candidates[j] \in Providers
        /\ \A i \in DOMAIN f.candidates, j \in DOMAIN f.candidates :
             f.candidates[i] = f.candidates[j] => i = j
    BY CandidatesDistinct
  <2>2. f.index \in DOMAIN f.candidates
    BY <1>2, <2>1 DEF LogInv, LogOK
  <2> QED BY <1>2, <2>1, <2>2
<1> HIDE DEF p
<1>4. /\ L \in Logs /\ Len(L) = n /\ L[n] = [provider |-> p, kind |-> k]
      /\ DOMAIN L = DOMAIN f.log \cup {n} /\ n \notin DOMAIN f.log /\ n \in Nat
      /\ \A i \in DOMAIN f.log : L[i] = f.log[i] /\ i \in Nat /\ i < n
  BY <1>1, <1>3 DEF Logs
<1>5. L[n].provider = p /\ L[n].kind = k
  BY <1>4
<1> HIDE DEF L, n
<1>6. /\ \A q \in Providers : Cardinality(AttemptsOf(f.log, q)) <= MaxAttempts
      /\ Cardinality(AttemptsOf(f.log, p)) = f.attempt - 1
      /\ \A i \in AttemptsOf(f.log, p) : f.log[i].kind = "transient"
  BY DEF LogInv, LogOK, p
<1>7. \A q : q # p => AttemptsOf(L, q) = AttemptsOf(f.log, q)
  BY <1>4, <1>5 DEF AttemptsOf
<1>8. AttemptsOf(L, p) = AttemptsOf(f.log, p) \cup {n} /\ n \notin AttemptsOf(f.log, p)
  BY <1>4, <1>5 DEF AttemptsOf
<1>9. Cardinality(AttemptsOf(L, p)) = f.attempt
  <2>1. IsFiniteSet(AttemptsOf(f.log, p))
    BY AttemptsFinite
  <2>2. Cardinality(AttemptsOf(L, p)) = Cardinality(AttemptsOf(f.log, p)) + 1
    BY <1>8, <2>1, FS_AddElement
  <2> QED BY <1>2, <1>6, <2>2
<1>10. \A q \in Providers : Cardinality(AttemptsOf(L, q)) <= MaxAttempts
  BY <1>2, <1>6, <1>7, <1>9
<1>11. IsLast(L, n)
  <2>1. \A j \in AttemptsOf(L, p) : j <= n
    BY <1>4 DEF AttemptsOf
  <2> QED BY <1>5, <2>1 DEF IsLast
<1>12. ASSUME NEW i \in DOMAIN f.log, f.log[i].provider = p PROVE ~IsLast(L, i)
  <2>1. n \in AttemptsOf(L, L[i].provider)
    BY <1>4, <1>8, <1>12
  <2>2. ~(n <= i)
    BY <1>4
  <2> QED BY <2>1, <2>2 DEF IsLast
<1>13. ASSUME NEW i \in DOMAIN f.log, f.log[i].provider # p
       PROVE  IsLast(L, i) <=> IsLast(f.log, i)
  BY <1>4, <1>7, <1>13 DEF IsLast
<1>14. ASSUME NEW i \in DOMAIN L, ~IsLast(L, i) PROVE L[i].kind = "transient"
  <2>1. i \in DOMAIN f.log /\ L[i] = f.log[i]
    BY <1>4, <1>11, <1>14
  <2>2. CASE f.log[i].provider = p
    BY <1>6, <2>1, <2>2 DEF AttemptsOf
  <2>3. CASE f.log[i].provider # p
    <3>1. ~IsLast(f.log, i)
      BY <1>13, <1>14, <2>1, <2>3
    <3> QED BY <2>1, <3>1 DEF LogInv, LogOK
  <2> QED BY <2>2, <2>3
<1>15. ASSUME NEW i \in DOMAIN L
       PROVE  \E j \in DOMAIN f.candidates : j <= f.index /\ L[i].provider = f.candidates[j]
  <2>1. CASE i = n
    <3>1. L[i].provider = f.candidates[f.index] /\ f.index <= f.index
      BY <1>2, <1>5, <2>1 DEF p
    <3> QED BY <1>3, <3>1
  <2>2. CASE i \in DOMAIN f.log
    <3>1. L[i] = f.log[i]
      BY <1>4, <2>2
    <3>2. \E j \in DOMAIN f.candidates : j <= f.index /\ f.log[i].provider = f.candidates[j]
      BY <2>2 DEF LogInv, LogOK
    <3> QED BY <3>1, <3>2
  <2> QED BY <1>4, <2>1, <2>2
<1>16. ASSUME NEW j \in DOMAIN f.candidates, j < f.index PROVE GivenUp(L, f.candidates[j])
  <2> DEFINE q == f.candidates[j]
  <2>1. q # p /\ GivenUp(f.log, q)
    BY <1>3, <1>16 DEF LogInv, LogOK
  <2> HIDE DEF q
  <2>2. PICK i \in AttemptsOf(f.log, q) :
          /\ IsLast(f.log, i)
          /\ \/ f.log[i].kind \in {"quality", "quota", "entitlement"}
             \/ f.log[i].kind = "transient" /\ Cardinality(AttemptsOf(f.log, q)) = MaxAttempts
    BY <2>1 DEF GivenUp
  <2>3. i \in DOMAIN f.log /\ f.log[i].provider = q
    BY DEF AttemptsOf
  <2>4. IsLast(L, i) /\ L[i] = f.log[i] /\ AttemptsOf(L, q) = AttemptsOf(f.log, q)
    BY <1>4, <1>7, <1>13, <2>1, <2>2, <2>3
  <2>5. GivenUp(L, q)
    BY <2>2, <2>4 DEF GivenUp
  <2> QED BY <2>5 DEF q
<1>17. \A i \in DOMAIN L : i = n \/ (i \in DOMAIN f.log /\ L[i] = f.log[i])
  BY <1>4
<1>18. LogFacts(f, p, k, L)
  BY <1>4, <1>5, <1>9, <1>10, <1>11, <1>12, <1>13, <1>14, <1>15, <1>16, <1>17 DEF LogFacts
<1> QED BY <1>18 DEF p, L

\* The log of an error is explained once its attempts are.
Explained(error, log, candidates) ==
    /\ \A p \in Providers : Cardinality(AttemptsOf(log, p)) <= MaxAttempts
    /\ \A i \in DOMAIN log : ~IsLast(log, i) => log[i].kind = "transient"
    /\ \A i \in DOMAIN candidates, j \in DOMAIN candidates :
         i < j /\ AttemptsOf(log, candidates[j]) # {} => GivenUp(log, candidates[i])
    /\ error = "exhausted" =>
         /\ \A i \in DOMAIN candidates : GivenUp(log, candidates[i])
         /\ \E i \in DOMAIN log : IsLast(log, i) /\ log[i].kind # "quality"
    /\ error = "no_usable_data" =>
         \A i \in DOMAIN log : IsLast(log, i) => log[i].kind = "quality"
    /\ error = "terminal" <=> log[Len(log)].kind = "terminal"
    /\ error = "quota" => log[Len(log)].kind = "quota" /\ Len(candidates) = 1

\* A transient failure that is not the last attempt.
LEMMA RetryKeepsLog ==
    ASSUME NEW f \in Fetches, LogInv(f), f.index <= Len(f.candidates), f.attempt < MaxAttempts,
           NEW L, L = Append(f.log, [provider |-> f.candidates[f.index], kind |-> "transient"]),
           NEW h, h = [f EXCEPT !.attempt = @ + 1, !.log = L]
    PROVE  h \in Fetches /\ h.range = f.range /\ h.candidates = f.candidates /\ LogInv(h)
<1> DEFINE p == f.candidates[f.index]
<1>1. /\ f.index \in Nat /\ f.attempt \in Nat /\ MaxAttempts \in Nat
      /\ f.index \in 1..(Len(f.candidates) + 1) /\ f.attempt \in 1..MaxAttempts
      /\ f.index > 1 => f.errors # {}
  BY AcquisitionAssumption DEF Fetches, LogInv, LogOK
<1>2. "transient" \in Kinds
  BY DEF Kinds
<1>3. LogFacts(f, p, "transient", L)
  BY <1>2, LogStep
<1>4. /\ h.range = f.range /\ h.candidates = f.candidates /\ h.index = f.index
      /\ h.attempt = f.attempt + 1 /\ h.errors = f.errors /\ h.log = L
  BY DEF Fetches
<1>5. h \in Fetches
  <2>1. f.attempt + 1 \in Nat /\ L \in Logs
    BY <1>1, <1>3 DEF LogFacts
  <2> QED BY <2>1 DEF Fetches
<1>6. \A i \in DOMAIN L : L[i].kind # "terminal"
  <2>1. \A i \in DOMAIN f.log : f.log[i].kind # "terminal"
    BY DEF LogInv, LogOK
  <2>2. /\ L[Len(L)].kind = "transient"
        /\ \A i \in DOMAIN L : i = Len(L) \/ (i \in DOMAIN f.log /\ L[i] = f.log[i])
    BY <1>3 DEF LogFacts
  <2>3. "transient" # "terminal"
    OBVIOUS
  <2> QED BY <2>1, <2>2, <2>3
<1>7. \A i \in AttemptsOf(L, p) : L[i].kind = "transient"
  <2> TAKE i \in AttemptsOf(L, p)
  <2>1. i \in DOMAIN L /\ L[i].provider = p
    BY DEF AttemptsOf
  <2>2. CASE i = Len(L)
    BY <1>3, <2>2 DEF LogFacts
  <2>3. CASE i \in DOMAIN f.log /\ L[i] = f.log[i]
    BY <2>1, <2>3 DEF LogInv, LogOK, AttemptsOf
  <2> QED BY <1>3, <2>1, <2>2, <2>3 DEF LogFacts
<1>8. ASSUME "provider" \in f.errors
      PROVE  \E i \in DOMAIN L : /\ IsLast(L, i)
                                 /\ L[i].kind # "quality"
                                 /\ \E j \in DOMAIN f.candidates :
                                      j < f.index /\ L[i].provider = f.candidates[j]
  <2>1. PICK i \in DOMAIN f.log : /\ IsLast(f.log, i)
                                  /\ f.log[i].kind # "quality"
                                  /\ \E j \in DOMAIN f.candidates :
                                       j < f.index /\ f.log[i].provider = f.candidates[j]
    BY <1>8 DEF LogInv, LogOK
  <2>2. PICK j \in DOMAIN f.candidates : j < f.index /\ f.log[i].provider = f.candidates[j]
    BY <2>1
  <2>3. f.log[i].provider # p
    BY <1>1, <2>2, CandidatesDistinct
  <2>4. i \in DOMAIN L /\ L[i] = f.log[i] /\ IsLast(L, i)
    BY <1>3, <2>1, <2>3 DEF LogFacts
  <2> QED BY <2>1, <2>2, <2>4
<1>9. ASSUME "provider" \notin f.errors, NEW i \in DOMAIN L, IsLast(L, i)
      PROVE  L[i].kind = "quality" \/ L[i].provider = p
  <2>1. CASE i = Len(L)
    BY <1>3, <2>1 DEF LogFacts
  <2>2. CASE i \in DOMAIN f.log /\ L[i] = f.log[i]
    <3>1. CASE f.log[i].provider = p
      BY <2>2, <3>1
    <3>2. CASE f.log[i].provider # p
      <4>1. IsLast(f.log, i)
        BY <1>3, <1>9, <2>2, <3>2 DEF LogFacts
      <4> QED BY <1>9, <2>2, <3>2, <4>1 DEF LogInv, LogOK
    <3> QED BY <3>1, <3>2
  <2> QED BY <1>3, <2>1, <2>2 DEF LogFacts
<1>10. f.attempt + 1 \in 1..MaxAttempts /\ f.attempt = (f.attempt + 1) - 1
  BY <1>1
<1>11. LogOK(f.candidates, f.index, f.attempt + 1, f.errors, L)
  <2>1. Cardinality(AttemptsOf(L, p)) = (f.attempt + 1) - 1
    BY <1>1, <1>3 DEF LogFacts
  <2>2. /\ \A q \in Providers : Cardinality(AttemptsOf(L, q)) <= MaxAttempts
        /\ \A i \in DOMAIN L : ~IsLast(L, i) => L[i].kind = "transient"
        /\ \A i \in DOMAIN L :
             \E j \in DOMAIN f.candidates : j <= f.index /\ L[i].provider = f.candidates[j]
        /\ \A j \in DOMAIN f.candidates : j < f.index => GivenUp(L, f.candidates[j])
    BY <1>3 DEF LogFacts
  <2>3. "provider" \notin f.errors =>
          \A i \in DOMAIN L : IsLast(L, i) =>
            \/ L[i].kind = "quality"
            \/ f.index <= Len(f.candidates) /\ L[i].provider = f.candidates[f.index]
    BY <1>9
  <2>4. \A i \in AttemptsOf(L, f.candidates[f.index]) : L[i].kind = "transient"
    BY <1>7
  <2> HIDE DEF p
  <2>5. Cardinality(AttemptsOf(L, f.candidates[f.index])) = (f.attempt + 1) - 1
    BY <2>1 DEF p
  <2>6. "provider" \in f.errors =>
          \E i \in DOMAIN L :
            /\ IsLast(L, i)
            /\ L[i].kind # "quality"
            /\ \E j \in DOMAIN f.candidates : j < f.index /\ L[i].provider = f.candidates[j]
    BY <1>8
  <2>7. f.index \in 1..(Len(f.candidates) + 1) /\ f.attempt + 1 \in 1..MaxAttempts
    BY <1>1, <1>10
  <2>8. f.index > 1 => f.errors # {}
    BY <1>1
  <2> QED BY <1>6, <2>2, <2>3, <2>4, <2>5, <2>6, <2>7, <2>8, Zenon DEF LogOK
<1>12. LogInv(h)
  BY <1>4, <1>11 DEF LogInv
<1> QED BY <1>4, <1>5, <1>12

\* The current provider is given up on and the next one's turn comes.
LEMMA FallBackKeepsLog ==
    ASSUME NEW f \in Fetches, LogInv(f), f.index <= Len(f.candidates), NEW k \in Kinds,
           \/ k \in {"quality", "quota", "entitlement"}
           \/ k = "transient" /\ f.attempt = MaxAttempts,
           NEW e \in {"provider", "quality"}, e = "quality" <=> k = "quality",
           NEW L, L = Append(f.log, [provider |-> f.candidates[f.index], kind |-> k]),
           NEW h, h = [f EXCEPT !.index = @ + 1, !.attempt = 1, !.errors = @ \cup {e}, !.log = L]
    PROVE  h \in Fetches /\ h.range = f.range /\ h.candidates = f.candidates /\ LogInv(h)
<1> DEFINE p == f.candidates[f.index]
<1>1. /\ f.index \in Nat /\ f.attempt \in Nat /\ MaxAttempts \in Nat /\ MaxAttempts > 0
      /\ Len(f.candidates) \in Nat /\ DOMAIN f.candidates = 1..Len(f.candidates)
      /\ f.index \in DOMAIN f.candidates
  <2>1. f.index \in Nat /\ f.attempt \in Nat
    BY DEF Fetches
  <2>2. MaxAttempts \in Nat /\ MaxAttempts > 0
    BY AcquisitionAssumption
  <2>3. Len(f.candidates) \in Nat /\ DOMAIN f.candidates = 1..Len(f.candidates)
    BY CandidatesDistinct
  <2>4. f.index \in 1..(Len(f.candidates) + 1)
    BY DEF LogInv, LogOK
  <2> QED BY <2>1, <2>2, <2>3, <2>4
<1>2. \A i \in DOMAIN f.candidates, j \in DOMAIN f.candidates :
        f.candidates[i] = f.candidates[j] => i = j
  BY CandidatesDistinct
<1>3. LogFacts(f, p, k, L)
  BY LogStep
<1>4. /\ h.range = f.range /\ h.candidates = f.candidates /\ h.index = f.index + 1
      /\ h.attempt = 1 /\ h.errors = f.errors \cup {e} /\ h.log = L
  BY DEF Fetches
<1>5. h \in Fetches
  <2>1. f.index + 1 \in Nat /\ f.errors \cup {e} \in SUBSET {"provider", "quality"}
    BY <1>1 DEF Fetches
  <2>2. L \in Logs
    BY <1>3 DEF LogFacts
  <2> QED BY <2>1, <2>2 DEF Fetches
<1>6. \A i \in DOMAIN L : L[i].kind # "terminal"
  <2>1. \A i \in DOMAIN f.log : f.log[i].kind # "terminal"
    BY DEF LogInv, LogOK
  <2>2. /\ L[Len(L)].kind = k
        /\ \A i \in DOMAIN L : i = Len(L) \/ (i \in DOMAIN f.log /\ L[i] = f.log[i])
    BY <1>3 DEF LogFacts
  <2>3. k # "terminal"
    OBVIOUS
  <2> QED BY <2>1, <2>2, <2>3
<1>7. GivenUp(L, p)
  <2>1. /\ Len(L) \in DOMAIN L /\ L[Len(L)].kind = k /\ L[Len(L)].provider = p
        /\ Cardinality(AttemptsOf(L, p)) = f.attempt /\ IsLast(L, Len(L))
    BY <1>3 DEF LogFacts
  <2>2. Len(L) \in AttemptsOf(L, p)
    BY <2>1 DEF AttemptsOf
  <2> QED BY <2>1, <2>2 DEF GivenUp
<1>8. \A j \in DOMAIN f.candidates : j < f.index + 1 => GivenUp(L, f.candidates[j])
  <2> TAKE j \in DOMAIN f.candidates
  <2>1. CASE j < f.index
    BY <1>3, <2>1 DEF LogFacts
  <2>2. CASE ~(j < f.index)
    BY <1>1, <1>7, <2>2
  <2> QED BY <2>1, <2>2
<1>9. ASSUME f.index + 1 <= Len(f.candidates)
      PROVE  AttemptsOf(L, f.candidates[f.index + 1]) = {}
  <2> SUFFICES ASSUME NEW i \in DOMAIN L, L[i].provider = f.candidates[f.index + 1] PROVE FALSE
    BY DEF AttemptsOf
  <2>1. PICK j \in DOMAIN f.candidates : j <= f.index /\ L[i].provider = f.candidates[j]
    BY <1>3 DEF LogFacts
  <2>2. f.index + 1 \in DOMAIN f.candidates
    BY <1>1, <1>9
  <2>3. j = f.index + 1
    BY <1>2, <2>1, <2>2
  <2> QED BY <1>1, <2>1, <2>3
<1>10. Cardinality({}) = 0 /\ 0 = 1 - 1
  BY FS_EmptySet
<1>11. ASSUME "provider" \in f.errors \cup {e}
       PROVE  \E i \in DOMAIN L : /\ IsLast(L, i)
                                  /\ L[i].kind # "quality"
                                  /\ \E j \in DOMAIN f.candidates :
                                       j < f.index + 1 /\ L[i].provider = f.candidates[j]
  <2>1. CASE e = "provider"
    <3>1. L[Len(L)].kind # "quality" /\ f.index < f.index + 1
      BY <1>1, <1>3, <2>1 DEF LogFacts
    <3> QED BY <1>1, <1>3, <3>1 DEF LogFacts
  <2>2. CASE "provider" \in f.errors
    <3>1. PICK i \in DOMAIN f.log : /\ IsLast(f.log, i)
                                    /\ f.log[i].kind # "quality"
                                    /\ \E j \in DOMAIN f.candidates :
                                         j < f.index /\ f.log[i].provider = f.candidates[j]
      BY <2>2 DEF LogInv, LogOK
    <3>2. PICK j \in DOMAIN f.candidates : j < f.index /\ f.log[i].provider = f.candidates[j]
      BY <3>1
    <3>3. f.log[i].provider # p
      BY <1>1, <1>2, <3>2
    <3>4. j < f.index + 1
      BY <1>1, <3>2
    <3> QED BY <1>3, <3>1, <3>2, <3>3, <3>4 DEF LogFacts
  <2> QED BY <1>11, <2>1, <2>2
<1>12. ASSUME "provider" \notin f.errors \cup {e}, NEW i \in DOMAIN L, IsLast(L, i)
       PROVE  L[i].kind = "quality"
  <2>1. CASE i = Len(L)
    BY <1>3, <1>12, <2>1 DEF LogFacts
  <2>2. CASE i \in DOMAIN f.log /\ L[i] = f.log[i]
    <3>1. f.log[i].provider # p
      BY <1>3, <1>12, <2>2 DEF LogFacts
    <3>2. IsLast(f.log, i)
      BY <1>3, <1>12, <2>2, <3>1 DEF LogFacts
    <3> QED BY <1>12, <2>2, <3>1, <3>2 DEF LogInv, LogOK
  <2> QED BY <1>3, <2>1, <2>2 DEF LogFacts
<1>13. \A i \in DOMAIN L :
         \E j \in DOMAIN f.candidates : j <= f.index + 1 /\ L[i].provider = f.candidates[j]
  <2> TAKE i \in DOMAIN L
  <2>1. PICK j \in DOMAIN f.candidates : j <= f.index /\ L[i].provider = f.candidates[j]
    BY <1>3 DEF LogFacts
  <2>2. j <= f.index + 1
    BY <1>1, <2>1
  <2> QED BY <2>1, <2>2
<1>14. f.index + 1 \in 1..(Len(f.candidates) + 1) /\ 1 \in 1..MaxAttempts /\ f.errors \cup {e} # {}
  BY <1>1
<1>15. LogOK(f.candidates, f.index + 1, 1, f.errors \cup {e}, L)
  BY <1>3, <1>6, <1>8, <1>9, <1>10, <1>11, <1>12, <1>13, <1>14 DEF LogOK, LogFacts
<1>16. LogInv(h)
  BY <1>4, <1>15 DEF LogInv
<1> QED BY <1>4, <1>5, <1>16

-----------------------------------------------------------------------------
(* The steps of an acquisition.                                            *)

SameData == UNCHANGED <<now, cache, lineage, completed, foreign>>

LEMMA AcquireStep ==
    ASSUME TypeOK, NEW request \in Requests, NEW alphaFrom \in AlphaFroms,
           Acquire(request, alphaFrom)
    PROVE  SameData /\ TypeOK' /\ PlanInv' /\ FetchInv'
<1> DEFINE expected == ExpectedSessions(request.first, request.last)
           needed == Needed(request, expected)
           ranges == GroupContiguous(expected, needed)
<1>1. SameData /\ acq = None
  BY DEF Acquire, SameData
<1>2. expected \in SUBSET Sessions /\ needed \in SUBSET expected
  BY ExpectedType, NeededType
<1>3. ranges \in SUBSET (Days \X Days)
  BY <1>2, GroupType
<1>4. CASE ranges = {}
  <2>1. acq' = None
    BY <1>4 DEF Acquire
  <2> QED BY <1>1, <2>1 DEF TypeOK, SameData, PlanInv, FetchInv
<1>5. CASE ranges # {}
  <2> DEFINE u == Untried(request, alphaFrom, First(ranges))
             a == [request |-> request, alphaFrom |-> alphaFrom,
                   expected |-> expected, planned |-> ranges, left |-> ranges,
                   accepted |-> NoRows, warned |-> FALSE, calls |-> 0, fetch |-> u]
  <2>1. acq' = a /\ outcome' = [kind |-> "none"]
    BY <1>5 DEF Acquire
  <2>2. expected # {}
    BY <1>2, <1>5 DEF GroupContiguous
  <2> HIDE DEF expected, needed, ranges
  <2>3. First(ranges) \in ranges /\ First(ranges) \in Days \X Days
    BY <1>3, <1>5, FirstIn
  <2>4. /\ u \in Fetches /\ u.range = First(ranges) /\ LogInv(u)
        /\ request.source # "auto" => Len(u.candidates) <= 1
    BY <2>3, UntriedType
  <2> HIDE DEF u
  <2>5. NoRows \in [Days -> AcceptedRow \cup {None}] /\ \A d \in Days : NoRows[d] = None
    BY DEF NoRows
  <2>6. a \in Acquisitions
    BY <1>2, <1>3, <2>4, <2>5 DEF Acquisitions
  <2>7. TypeOK'
    BY <1>1, <2>1, <2>6 DEF TypeOK, SameData
  <2>8. PlanInv'
    BY <2>1, <2>2, <2>3, <2>4, <2>5 DEF PlanInv
  <2>9. FetchInv'
    BY <2>1, <2>4 DEF FetchInv
  <2> QED BY <1>1, <2>7, <2>8, <2>9
<1> QED BY <1>4, <1>5

\* The fetch in progress.
LEMMA FetchingFacts ==
    ASSUME TypeOK, PlanInv, FetchInv, Fetching
    PROVE  /\ acq # None /\ acq.left # {} /\ acq \in Acquisitions
           /\ acq.fetch \in Fetches /\ LogInv(acq.fetch)
           /\ acq.fetch.range \in acq.left /\ acq.left \subseteq acq.planned
           /\ acq.request.source # "auto" => Len(acq.fetch.candidates) <= 1
           /\ Calls \in Nat
           /\ Tried => CurrentProvider \in Providers
<1>1. /\ acq # None /\ acq.left # {} /\ acq \in Acquisitions
      /\ acq.fetch \in Fetches /\ LogInv(acq.fetch)
      /\ acq.fetch.range \in acq.left /\ acq.left \subseteq acq.planned
      /\ acq.request.source # "auto" => Len(acq.fetch.candidates) <= 1
  BY DEF Fetching, TypeOK, PlanInv, FetchInv
<1>2. Calls \in Nat
  BY <1>1 DEF Calls, Acquisitions
<1>3. ASSUME Tried PROVE CurrentProvider \in Providers
  <2>1. acq.fetch.index \in 1..(Len(acq.fetch.candidates) + 1)
    BY <1>1 DEF LogInv, LogOK
  <2>2. acq.fetch.index \in DOMAIN acq.fetch.candidates
    BY <1>1, <1>3, <2>1, CandidatesDistinct DEF Tried
  <2> QED BY <1>1, <2>2, CandidatesDistinct DEF CurrentProvider
<1> QED BY <1>1, <1>2, <1>3

LEMMA ContinueStep ==
    ASSUME TypeOK, PlanInv, FetchInv, Fetching, SameData,
           NEW f \in Fetches, f.range = acq.fetch.range,
           f.candidates = acq.fetch.candidates, LogInv(f), Continue(f)
    PROVE  TypeOK' /\ PlanInv' /\ FetchInv'
<1>1. /\ acq # None /\ acq.left # {} /\ acq \in Acquisitions
      /\ acq.fetch.range \in acq.left /\ acq.left \subseteq acq.planned
      /\ acq.request.source # "auto" => Len(acq.fetch.candidates) <= 1
      /\ Calls \in Nat
  BY FetchingFacts
<1>2. acq' = [acq EXCEPT !.fetch = f, !.calls = Calls] /\ outcome' = outcome
  BY DEF Continue
<1>3. /\ acq' \in Acquisitions
      /\ acq'.fetch = f /\ acq'.left = acq.left /\ acq'.planned = acq.planned
      /\ acq'.expected = acq.expected /\ acq'.accepted = acq.accepted
      /\ acq'.request = acq.request
  BY <1>1, <1>2 DEF Acquisitions
<1>4. TypeOK'
  BY <1>3 DEF TypeOK, SameData
<1>5. PlanInv'
  BY <1>1, <1>2, <1>3 DEF PlanInv, InPlanned
<1>6. FetchInv'
  BY <1>1, <1>3 DEF FetchInv
<1> QED BY <1>4, <1>5, <1>6

LEMMA FallBackStep ==
    ASSUME TypeOK, PlanInv, FetchInv, Fetching, Tried, SameData, NEW k \in Kinds,
           \/ k \in {"quality", "quota", "entitlement"}
           \/ k = "transient" /\ ~Retries,
           NEW e \in {"provider", "quality"}, e = "quality" <=> k = "quality", FallBack(e, k)
    PROVE  TypeOK' /\ PlanInv' /\ FetchInv'
<1> DEFINE f == acq.fetch
           L == Append(f.log, [provider |-> f.candidates[f.index], kind |-> k])
           h == [f EXCEPT !.index = @ + 1, !.attempt = 1, !.errors = @ \cup {e}, !.log = L]
<1>1. f \in Fetches /\ LogInv(f)
  BY FetchingFacts
<1>2. f.index <= Len(f.candidates)
  BY DEF Tried
<1>3. k = "transient" => f.attempt = MaxAttempts
  <2>1. f.attempt \in 1..MaxAttempts /\ MaxAttempts \in Nat
    BY <1>1, AcquisitionAssumption DEF LogInv, LogOK
  <2> QED BY <2>1 DEF Retries
<1>4. Continue(h)
  BY DEF FallBack, Logged, CurrentProvider
<1> HIDE DEF f
<1>5. h \in Fetches /\ h.range = f.range /\ h.candidates = f.candidates /\ LogInv(h)
  BY <1>1, <1>2, <1>3, FallBackKeepsLog
<1> HIDE DEF h
<1> QED BY <1>4, <1>5, ContinueStep DEF f

\* An error that ends the acquisition at once.
LEMMA LastErrorExplained ==
    ASSUME NEW f \in Fetches, LogInv(f), f.index <= Len(f.candidates),
           NEW k \in {"terminal", "quota"}, k = "quota" => Len(f.candidates) <= 1
    PROVE  Explained(k, Append(f.log, [provider |-> f.candidates[f.index], kind |-> k]),
                     f.candidates)
<1> DEFINE p == f.candidates[f.index]
           L == Append(f.log, [provider |-> p, kind |-> k])
<1>1. LogFacts(f, p, k, L)
  BY LogStep DEF Kinds
<1>2. /\ Len(f.candidates) \in Nat /\ DOMAIN f.candidates = 1..Len(f.candidates)
      /\ \A i \in DOMAIN f.candidates, j \in DOMAIN f.candidates :
           f.candidates[i] = f.candidates[j] => i = j
  BY CandidatesDistinct
<1>3. f.index \in 1..Len(f.candidates)
  <2>1. f.index \in 1..(Len(f.candidates) + 1)
    BY DEF LogInv, LogOK
  <2> QED BY <1>2, <2>1
<1> HIDE DEF p, L
<1>4. ASSUME NEW i \in DOMAIN f.candidates, NEW j \in DOMAIN f.candidates, i < j,
             AttemptsOf(L, f.candidates[j]) # {}
      PROVE  GivenUp(L, f.candidates[i])
  <2>1. PICK x \in DOMAIN L : L[x].provider = f.candidates[j]
    BY <1>4 DEF AttemptsOf
  <2>2. PICK y \in DOMAIN f.candidates : y <= f.index /\ L[x].provider = f.candidates[y]
    BY <1>1 DEF LogFacts
  <2>3. y = j
    BY <1>2, <2>1, <2>2
  <2>4. i < f.index
    BY <1>2, <1>3, <1>4, <2>2, <2>3
  <2> QED BY <1>1, <2>4 DEF LogFacts
<1>5. k = "quota" => Len(f.candidates) = 1
  <2> DEFINE n == Len(f.candidates)
  <2>1. n \in Nat /\ f.index \in 1..n /\ (k = "quota" => n <= 1)
    BY <1>2, <1>3
  <2> HIDE DEF n
  <2>2. k = "quota" => n = 1
    BY <2>1
  <2> QED BY <2>2 DEF n
<1>6. /\ \A q \in Providers : Cardinality(AttemptsOf(L, q)) <= MaxAttempts
      /\ \A i \in DOMAIN L : ~IsLast(L, i) => L[i].kind = "transient"
      /\ L[Len(L)].kind = k
  BY <1>1 DEF LogFacts
<1>7. Explained(k, L, f.candidates)
  BY <1>4, <1>5, <1>6 DEF Explained
<1> QED BY <1>7 DEF L, p

\* Every candidate was given up on.
LEMMA ExhaustionExplained ==
    ASSUME NEW f \in Fetches, LogInv(f), ~(f.index <= Len(f.candidates)), f.log # <<>>
    PROVE  Explained(IF f.errors = {"quality"} THEN "no_usable_data" ELSE "exhausted",
                     f.log, f.candidates)
<1> DEFINE error == IF f.errors = {"quality"} THEN "no_usable_data" ELSE "exhausted"
<1>1. Len(f.candidates) \in Nat /\ DOMAIN f.candidates = 1..Len(f.candidates)
  BY CandidatesDistinct
<1>2. f.index = Len(f.candidates) + 1
  <2>1. f.index \in 1..(Len(f.candidates) + 1)
    BY DEF LogInv, LogOK
  <2> QED BY <1>1, <2>1
<1>3. f.log \in Seq([provider : Providers, kind : Kinds]) /\ f.errors \in SUBSET {"provider", "quality"}
  BY DEF Fetches, Logs
<1>4. Len(f.log) \in DOMAIN f.log /\ 1 \in DOMAIN f.log
  BY <1>3
<1>5. f.index > 1
  <2>1. \E j \in DOMAIN f.candidates : f.log[1].provider = f.candidates[j]
    BY <1>4 DEF LogInv, LogOK
  <2> QED BY <1>1, <1>2, <2>1
<1>6. \A j \in DOMAIN f.candidates : GivenUp(f.log, f.candidates[j])
  <2>1. \A j \in DOMAIN f.candidates : j < f.index
    BY <1>1, <1>2
  <2> QED BY <2>1 DEF LogInv, LogOK
<1>7. /\ \A p \in Providers : Cardinality(AttemptsOf(f.log, p)) <= MaxAttempts
      /\ \A i \in DOMAIN f.log : ~IsLast(f.log, i) => f.log[i].kind = "transient"
      /\ \A i \in DOMAIN f.log : f.log[i].kind # "terminal"
  BY DEF LogInv, LogOK
<1>8. ASSUME error = "exhausted"
      PROVE  \E i \in DOMAIN f.log : IsLast(f.log, i) /\ f.log[i].kind # "quality"
  <2>1. f.errors # {}
    BY <1>5 DEF LogInv, LogOK
  <2>2. "provider" \in f.errors
    BY <1>3, <1>8, <2>1
  <2> QED BY <2>2 DEF LogInv, LogOK
<1>9. ASSUME error = "no_usable_data"
      PROVE  \A i \in DOMAIN f.log : IsLast(f.log, i) => f.log[i].kind = "quality"
  <2>1. "provider" \notin f.errors
    BY <1>9
  <2> QED BY <2>1 DEF LogInv, LogOK
<1>10. error \in {"exhausted", "no_usable_data"}
  OBVIOUS
<1> HIDE DEF error
<1>11. Explained(error, f.log, f.candidates)
  BY <1>4, <1>6, <1>7, <1>8, <1>9, <1>10 DEF Explained
<1> QED BY <1>11 DEF error

LEMMA ExplainedFailure ==
    ASSUME NEW error, NEW log, NEW candidates, outcome' = Failed(error, log, candidates),
           log # <<>> => Explained(error, log, candidates)
    PROVE  FailureIsExplained'
<1>1. outcome'.log = log /\ outcome'.candidates = candidates /\ outcome'.error = error
  BY DEF Failed
<1> QED BY <1>1 DEF FailureIsExplained, Explained

LEMMA FetchRaisesStep ==
    ASSUME TypeOK, PlanInv, FetchInv, FailureIsExplained,
           NEW kind \in {"transient", "terminal", "quota", "entitlement"}, FetchRaises(kind)
    PROVE  SameData /\ TypeOK' /\ PlanInv' /\ FetchInv' /\ FailureIsExplained'
<1> DEFINE f == acq.fetch
<1>1. SameData /\ Fetching /\ Tried
  BY DEF FetchRaises, SameData
<1>2. /\ f \in Fetches /\ LogInv(f) /\ f.index <= Len(f.candidates)
      /\ acq.request.source # "auto" => Len(f.candidates) <= 1
  BY <1>1, FetchingFacts DEF Tried
<1>3. kind \in Kinds
  BY DEF Kinds
<1>4. outcome' = outcome => FailureIsExplained'
  BY DEF FailureIsExplained
<1>5. CASE kind = "transient" /\ Retries
           /\ Continue([acq.fetch EXCEPT !.attempt = @ + 1, !.log = Logged(kind)])
  <2> DEFINE L == Append(f.log, [provider |-> f.candidates[f.index], kind |-> "transient"])
             h == [f EXCEPT !.attempt = @ + 1, !.log = L]
  <2>1. Continue(h)
    BY <1>5 DEF Logged, CurrentProvider
  <2>2. f.attempt < MaxAttempts
    BY <1>5 DEF Retries
  <2> HIDE DEF f
  <2>3. h \in Fetches /\ h.range = f.range /\ h.candidates = f.candidates /\ LogInv(h)
    BY <1>2, <2>2, RetryKeepsLog
  <2> HIDE DEF h
  <2>4. TypeOK' /\ PlanInv' /\ FetchInv'
    BY <1>1, <2>1, <2>3, ContinueStep DEF f
  <2> QED BY <1>1, <1>4, <2>1, <2>4 DEF Continue
<1>6. CASE kind = "transient" /\ ~Retries /\ FallBack("provider", kind)
  <2>1. TypeOK' /\ PlanInv' /\ FetchInv'
    BY <1>1, <1>3, <1>6, FallBackStep
  <2> QED BY <1>1, <1>4, <1>6, <2>1 DEF FallBack, Continue
<1>7. CASE kind \in {"quota", "entitlement"} /\ FallBack("provider", kind)
  <2>1. TypeOK' /\ PlanInv' /\ FetchInv'
    BY <1>1, <1>3, <1>7, FallBackStep
  <2> QED BY <1>1, <1>4, <1>7, <2>1 DEF FallBack, Continue
<1>8. CASE /\ kind \in {"terminal", "quota"} /\ End(kind, Logged(kind), acq.fetch.candidates)
           /\ kind = "quota" => acq.request.source # "auto"
  <2>1. acq' = None /\ outcome' = Failed(kind, Logged(kind), f.candidates)
    BY <1>8 DEF End
  <2>2. Explained(kind, Logged(kind), f.candidates)
    BY <1>2, <1>8, LastErrorExplained DEF Logged, CurrentProvider
  <2>3. FailureIsExplained'
    BY <2>1, <2>2, ExplainedFailure
  <2> QED BY <1>1, <2>1, <2>3 DEF SameData, TypeOK, PlanInv, FetchInv
<1> QED BY <1>5, <1>6, <1>7, <1>8 DEF FetchRaises

LEMMA FetchReturnsStep ==
    ASSUME TypeOK, PlanInv, FetchInv, FailureIsExplained, NEW reply \in Replies, FetchReturns(reply)
    PROVE  SameData /\ TypeOK' /\ PlanInv' /\ FetchInv' /\ FailureIsExplained'
<1> DEFINE f == acq.fetch
           left == acq.left \ {acq.fetch.range}
           next == IF left = {} THEN None ELSE Untried(acq.request, acq.alphaFrom, First(left))
           warned == acq.warned \/ RangeWarns(reply, acq.fetch.range)
<1>1. SameData /\ Fetching /\ Tried
  BY DEF FetchReturns, SameData
<1>2. /\ acq # None /\ acq.left # {} /\ acq \in Acquisitions
      /\ f \in Fetches /\ f.range \in acq.left /\ acq.left \subseteq acq.planned
      /\ Calls \in Nat /\ CurrentProvider \in Providers
  BY <1>1, FetchingFacts
<1>3. outcome' = outcome => FailureIsExplained'
  BY DEF FailureIsExplained
<1>4. CASE RangeIsFatal(reply, acq.fetch.range)
  <2>1. FallBack("quality", "quality") /\ "quality" \in Kinds
    BY <1>4 DEF FetchReturns, Kinds
  <2>2. TypeOK' /\ PlanInv' /\ FetchInv'
    BY <1>1, <2>1, FallBackStep
  <2> QED BY <1>1, <1>3, <2>1, <2>2 DEF FallBack, Continue
<1>5. CASE ~RangeIsFatal(reply, acq.fetch.range)
  <2>1. /\ acq' = [acq EXCEPT !.accepted = AcceptedRows(reply), !.left = left,
                     !.calls = Calls, !.warned = warned, !.fetch = next]
        /\ outcome' = outcome
    BY <1>5 DEF FetchReturns
  <2>2. /\ acq.request \in Requests /\ acq.alphaFrom \in AlphaFroms
        /\ acq.planned \in SUBSET (Days \X Days) /\ acq.left \in SUBSET (Days \X Days)
        /\ acq.accepted \in [Days -> AcceptedRow \cup {None}] /\ acq.warned \in BOOLEAN
    BY <1>2 DEF Acquisitions
  <2>3. now \in Nat /\ f.range \in Days \X Days
    BY <1>2 DEF TypeOK, Fetches
  <2>4. AcceptedRows(reply) \in [Days -> AcceptedRow \cup {None}]
    <3> DEFINE row == [provider |-> CurrentProvider, at |-> now, action |-> reply.action,
                       range |-> f.range]
    <3>1. row \in AcceptedRow
      BY <1>2, <2>2, <2>3 DEF AcceptedRow
    <3> HIDE DEF row
    <3>2. AcceptedRows(reply) =
            [d \in Days |-> IF d \in CandidateRows(reply, f.range) THEN row ELSE acq.accepted[d]]
      BY DEF AcceptedRows, row
    <3> QED BY <2>2, <3>1, <3>2
  <2>5. warned \in BOOLEAN
    BY <2>2 DEF RangeWarns
  <2>6. left \in SUBSET (Days \X Days) /\ left \subseteq acq.planned
    BY <1>2, <2>2
  <2>7. ASSUME left # {}
        PROVE  /\ next \in Fetches /\ next.range \in left /\ LogInv(next)
               /\ acq.request.source # "auto" => Len(next.candidates) <= 1
    <3>1. First(left) \in left /\ First(left) \in Days \X Days
      BY <2>6, <2>7, FirstIn
    <3> QED BY <2>2, <2>7, <3>1, UntriedType
  <2>8. next \in Fetches \cup {None}
    BY <2>7
  <2> HIDE DEF next, left, warned
  <2>9. /\ acq' \in Acquisitions
        /\ acq'.fetch = next /\ acq'.left = left /\ acq'.planned = acq.planned
        /\ acq'.expected = acq.expected /\ acq'.accepted = AcceptedRows(reply)
        /\ acq'.request = acq.request
    BY <1>2, <2>1, <2>4, <2>5, <2>6, <2>8 DEF Acquisitions
  <2>10. ASSUME NEW d \in Days, AcceptedRows(reply)[d] # None
         PROVE  \E g \in acq.planned : InRange(d, g)
    <3>1. CASE d \in CandidateRows(reply, acq.fetch.range)
      <4>1. InRange(d, acq.fetch.range)
        BY <3>1 DEF CandidateRows
      <4> QED BY <1>2, <4>1
    <3>2. CASE d \notin CandidateRows(reply, acq.fetch.range)
      <4>1. acq.accepted[d] # None
        BY <2>10, <3>2 DEF AcceptedRows
      <4> QED BY <1>2, <4>1 DEF PlanInv, InPlanned
    <3> QED BY <3>1, <3>2
  <2>11. PlanInv'
    BY <1>2, <2>1, <2>6, <2>7, <2>9, <2>10 DEF PlanInv, InPlanned
  <2>12. FetchInv'
    BY <2>7, <2>9 DEF FetchInv
  <2>13. TypeOK'
    BY <1>1, <2>9 DEF TypeOK, SameData
  <2> QED BY <1>1, <1>3, <2>1, <2>11, <2>12, <2>13
<1> QED BY <1>4, <1>5

LEMMA ExhaustedStep ==
    ASSUME TypeOK, PlanInv, FetchInv, ProvidersExhausted
    PROVE  SameData /\ TypeOK' /\ PlanInv' /\ FetchInv' /\ FailureIsExplained'
<1> DEFINE f == acq.fetch
           error == IF f.errors = {"quality"} THEN "no_usable_data" ELSE "exhausted"
<1>1. /\ SameData /\ Fetching /\ ~Tried
      /\ acq' = None /\ outcome' = Failed(error, f.log, f.candidates)
  BY DEF ProvidersExhausted, End, SameData
<1>2. f \in Fetches /\ LogInv(f) /\ ~(f.index <= Len(f.candidates))
  BY <1>1, FetchingFacts DEF Tried
<1>3. f.log # <<>> => Explained(error, f.log, f.candidates)
  BY <1>2, ExhaustionExplained
<1> HIDE DEF error
<1>4. FailureIsExplained'
  BY <1>1, <1>3, ExplainedFailure
<1> QED BY <1>1, <1>4 DEF SameData, TypeOK, PlanInv, FetchInv

LEMMA WidenStep ==
    ASSUME TypeOK, PlanInv, FetchInv, Widen
    PROVE  SameData /\ outcome' = outcome /\ TypeOK' /\ PlanInv' /\ FetchInv'
<1> DEFINE u == Untried(acq.request, acq.alphaFrom, WholeRange)
<1>1. /\ SameData /\ outcome' = outcome /\ acq # None
      /\ acq' = [acq EXCEPT !.planned = {WholeRange}, !.left = {WholeRange}, !.accepted = NoRows,
                            !.warned = FALSE, !.fetch = u]
  BY DEF Widen, SameData, Assembling
<1>2. acq \in Acquisitions /\ WholeRange \in Days \X Days
  BY <1>1, WholeRangeType DEF TypeOK
<1>3. acq.request \in Requests /\ acq.alphaFrom \in AlphaFroms
  BY <1>2 DEF Acquisitions
<1>4. /\ u \in Fetches /\ u.range = WholeRange /\ LogInv(u)
      /\ acq.request.source # "auto" => Len(u.candidates) <= 1
  BY <1>2, <1>3, UntriedType
<1>5. NoRows \in [Days -> AcceptedRow \cup {None}] /\ \A d \in Days : NoRows[d] = None
  BY DEF NoRows
<1> DEFINE w == WholeRange
<1>6. {w} \in SUBSET (Days \X Days) /\ w \in {w}
  BY <1>2
<1> HIDE DEF u, w
<1>7. acq' = [acq EXCEPT !.planned = {w}, !.left = {w}, !.accepted = NoRows,
                         !.warned = FALSE, !.fetch = u]
  BY <1>1 DEF w
<1>8. /\ acq' \in Acquisitions
      /\ acq'.fetch = u /\ acq'.left = {w} /\ acq'.planned = {w}
      /\ acq'.expected = acq.expected /\ acq'.accepted = NoRows /\ acq'.request = acq.request
  BY <1>2, <1>4, <1>5, <1>6, <1>7 DEF Acquisitions
<1>9. u.range \in {w}
  BY <1>4 DEF w
<1>10. PlanInv'
  BY <1>1, <1>4, <1>5, <1>8, <1>9 DEF PlanInv
<1>11. FetchInv'
  BY <1>4, <1>8 DEF FetchInv
<1>12. TypeOK'
  BY <1>1, <1>8 DEF TypeOK, SameData
<1> QED BY <1>1, <1>10, <1>11, <1>12

LEMMA MergeFacts ==
    ASSUME NEW old \in [Days -> Row \cup {None}], NEW incoming \in [Days -> Row \cup {None}]
    PROVE  /\ Merge(old, incoming) \in [Days -> Row \cup {None}]
           /\ Present(old) \subseteq Present(Merge(old, incoming))
           /\ Present(incoming) \subseteq Present(Merge(old, incoming))
           /\ \A d \in Present(incoming) : Merge(old, incoming)[d] = incoming[d]
           /\ \A d \in Present(Merge(old, incoming)) \ Present(incoming) :
                d \in Present(old) /\ Merge(old, incoming)[d] = old[d]
BY DEF Merge, Present

\* The rows an acquisition fetched, as they go into the cache.
LEMMA FetchedFacts ==
    ASSUME TypeOK, acq # None, NEW fetched, fetched = [d \in Days |-> Plain(acq.accepted[d])]
    PROVE  /\ fetched \in [Days -> Row \cup {None}]
           /\ \A d \in Days : d \in Present(fetched) <=> acq.accepted[d] # None
           /\ \A d \in Present(fetched) : /\ fetched[d].provider = acq.accepted[d].provider
                                          /\ fetched[d].at = acq.accepted[d].at
<1>1. acq.accepted \in [Days -> AcceptedRow \cup {None}]
  BY DEF TypeOK, Acquisitions
<1>2. None \notin Row
  BY AcquisitionAssumption
<1>3. ASSUME NEW d \in Days
      PROVE  /\ Plain(acq.accepted[d]) \in Row \cup {None}
             /\ Plain(acq.accepted[d]) # None <=> acq.accepted[d] # None
             /\ acq.accepted[d] # None =>
                  /\ Plain(acq.accepted[d]).provider = acq.accepted[d].provider
                  /\ Plain(acq.accepted[d]).at = acq.accepted[d].at
  <2>1. CASE acq.accepted[d] = None
    BY <2>1 DEF Plain
  <2>2. CASE acq.accepted[d] # None
    <3> DEFINE a == acq.accepted[d]
               row == [provider |-> a.provider, at |-> a.at, action |-> a.action]
    <3>1. a \in AcceptedRow /\ Plain(a) = row
      BY <1>1, <2>2 DEF Plain
    <3>2. row \in Row
      BY <3>1 DEF AcceptedRow, Row
    <3>3. row.provider = a.provider /\ row.at = a.at
      OBVIOUS
    <3> HIDE DEF row
    <3> QED BY <1>2, <2>2, <3>1, <3>2, <3>3
  <2> QED BY <2>1, <2>2
<1> QED BY <1>3 DEF Present

LEMMA LineageOf ==
    ASSUME NEW rows, NEW segments, cache' = rows, lineage' = segments,
           \A d \in Present(rows) \ foreign' :
             /\ Covering(segments, d) # {}
             /\ \A g \in Covering(segments, d) :
                  g.provider = rows[d].provider /\ g.at <= rows[d].at
    PROVE  LineageInv'
<1>1. Present(cache)' = Present(rows)
  BY DEF Present
<1>2. \A d : Covering(lineage, d)' = Covering(segments, d)
  BY DEF Covering, Covers
<1> QED BY <1>1, <1>2 DEF LineageInv

\* Publication keeps every row's lineage honest, except of the days it relabels.
LEMMA PublicationKeepsLineage ==
    ASSUME TypeOK, PlanInv, LineageInv, acq # None,
           NEW fetched, fetched = [d \in Days |-> Plain(acq.accepted[d])],
           NEW assembled, assembled = Merge(Base.rows, fetched),
           NEW rows, rows = IF Rebases THEN Merge(cache, assembled) ELSE assembled,
           NEW incoming, incoming = RebuildLineage(assembled),
           Rebases => \A d \in Present(rows) : RebaseSource(incoming, d) # {},
           cache' = rows,
           lineage' = IF Rebases THEN RebaseLineage(incoming, rows) ELSE incoming,
           foreign' = (foreign \ Present(fetched))
                        \cup {d \in Present(rows) \ Present(fetched) : Rebases /\ InPlanned(d)}
    PROVE  /\ Present(assembled) \subseteq Present(rows)
           /\ rows \in [Days -> Row \cup {None}]
           /\ lineage' \in SUBSET LineageSegment
           /\ foreign' \in SUBSET Days
           /\ LineageInv'
<1>1. /\ fetched \in [Days -> Row \cup {None}]
      /\ \A d \in Days : d \in Present(fetched) <=> acq.accepted[d] # None
      /\ \A d \in Present(fetched) : /\ fetched[d].provider = acq.accepted[d].provider
                                     /\ fetched[d].at = acq.accepted[d].at
  BY FetchedFacts
<1>2. /\ Base.rows \in [Days -> Row \cup {None}]
      /\ Bypass => Base.rows = NoRows
      /\ ~Bypass => Base.rows = cache /\ Base.lineage = lineage
  BY BaseType
<1>3. cache \in [Days -> Row \cup {None}] /\ foreign \in SUBSET Days
  BY DEF TypeOK
<1>4. /\ assembled \in [Days -> Row \cup {None}]
      /\ Present(fetched) \subseteq Present(assembled)
      /\ \A d \in Present(fetched) : assembled[d] = fetched[d]
      /\ \A d \in Present(assembled) \ Present(fetched) :
           d \in Present(Base.rows) /\ assembled[d] = Base.rows[d]
  BY <1>1, <1>2, MergeFacts
<1>5. Present(NoRows) = {}
  BY DEF Present, NoRows
<1>6. Bypass => Present(assembled) = Present(fetched)
  BY <1>2, <1>4, <1>5
<1>7. /\ rows \in [Days -> Row \cup {None}]
      /\ Present(assembled) \subseteq Present(rows)
      /\ \A d \in Present(assembled) : rows[d] = assembled[d]
      /\ \A d \in Present(rows) \ Present(assembled) :
           Rebases /\ d \in Present(cache) /\ rows[d] = cache[d]
  <2>1. CASE Rebases
    BY <1>3, <1>4, <2>1, MergeFacts
  <2>2. CASE ~Rebases
    BY <1>4, <2>2
  <2> QED BY <2>1, <2>2
<1>8. Present(rows) \in SUBSET Days
  BY DEF Present
<1>9. Rebuilt(assembled, incoming)
  BY <1>4, RebuildFacts
<1>10. ASSUME NEW d \in Present(fetched)
       PROVE  /\ rows[d].provider = acq.accepted[d].provider /\ rows[d].at = acq.accepted[d].at
              /\ rows[d].at \in Nat
              /\ acq.accepted[d] # None /\ InPlanned(d)
  <2>1. d \in Days /\ acq.accepted[d] # None /\ d \in Present(assembled)
    BY <1>1, <1>4 DEF Present
  <2>2. acq.accepted[d] \in AcceptedRow
    BY <2>1 DEF TypeOK, Acquisitions
  <2>3. acq.accepted[d].at \in Nat
    BY <2>2 DEF AcceptedRow
  <2>4. rows[d] = fetched[d]
    BY <1>4, <1>7, <2>1
  <2>5. InPlanned(d)
    BY <2>1 DEF PlanInv
  <2> QED BY <1>1, <2>1, <2>3, <2>4, <2>5
<1>11. ASSUME NEW d \in Present(rows) \ foreign', d \notin Present(fetched)
       PROVE  /\ d \notin foreign /\ ~(Rebases /\ InPlanned(d))
              /\ d \in Present(cache) /\ rows[d] = cache[d]
              /\ Covering(lineage, d) # {}
              /\ \A g \in Covering(lineage, d) :
                   g.provider = rows[d].provider /\ g.at <= rows[d].at
  <2>1. d \notin foreign /\ ~(Rebases /\ InPlanned(d))
    BY <1>11
  <2>2. d \in Present(cache) /\ rows[d] = cache[d]
    <3>1. CASE d \in Present(assembled)
      <4>1. d \in Present(Base.rows) /\ rows[d] = Base.rows[d] /\ ~Bypass
        BY <1>2, <1>4, <1>5, <1>7, <1>11, <3>1
      <4> QED BY <1>2, <4>1
    <3>2. CASE d \notin Present(assembled)
      BY <1>7, <1>11, <3>2
    <3> QED BY <3>1, <3>2
  <2> QED BY <2>1, <2>2 DEF LineageInv
<1>12. CASE ~Rebases
  <2>1. lineage' = incoming /\ rows = assembled
    BY <1>12
  <2>2. ASSUME NEW d \in Present(rows) \ foreign'
        PROVE  /\ Covering(incoming, d) # {}
               /\ \A g \in Covering(incoming, d) :
                    g.provider = rows[d].provider /\ g.at <= rows[d].at
    <3>1. CASE d \in Present(fetched)
      BY <1>4, <1>9, <1>10, <3>1 DEF Rebuilt
    <3>2. CASE d \notin Present(fetched)
      <4>1. /\ d \in Present(cache) /\ rows[d] = cache[d]
            /\ Covering(lineage, d) # {}
            /\ \A g \in Covering(lineage, d) : g.provider = rows[d].provider /\ g.at <= rows[d].at
        BY <1>11, <3>2
      <4>2. ~Bypass
        BY <1>6, <2>1, <3>2
      <4>3. Kept(assembled, d) = Covering(lineage, d)
        BY <1>2, <2>1, <4>1, <4>2 DEF Kept
      <4>4. acq.accepted[d] = None
        BY <1>1, <1>8, <3>2
      <4> QED BY <1>9, <2>1, <4>1, <4>3, <4>4 DEF Rebuilt
    <3> QED BY <3>1, <3>2
  <2>3. LineageInv'
    BY <2>1, <2>2, LineageOf
  <2> QED BY <1>3, <1>7, <1>8, <1>9, <2>1, <2>3 DEF Rebuilt
<1>13. CASE Rebases
  <2> DEFINE new == RebaseLineage(incoming, rows)
  <2>1. lineage' = new /\ \A d \in Present(rows) : RebaseSource(incoming, d) # {}
    BY <1>13
  <2>2. incoming \in SUBSET LineageSegment
    BY <1>9 DEF Rebuilt
  <2>3. Rebased(incoming, rows, new)
    BY <1>7, <2>1, <2>2, RebaseFacts
  <2>4. ASSUME NEW d \in Present(rows) \ foreign', NEW h \in RebaseSource(incoming, d)
        PROVE  h.provider = rows[d].provider /\ h.at <= rows[d].at
    <3>1. CASE d \in Present(fetched)
      <4>1. h \in Covering(incoming, d)
        BY <1>10, <3>1 DEF RebaseSource
      <4> QED BY <1>4, <1>9, <1>10, <3>1, <4>1 DEF Rebuilt
    <3>2. CASE d \notin Present(fetched)
      <4>1. ~InPlanned(d)
        BY <1>11, <1>13, <3>2
      <4>2. h \in Covering(lineage, d)
        BY <4>1 DEF RebaseSource
      <4> QED BY <1>11, <3>2, <4>2
    <3> QED BY <3>1, <3>2
  <2> HIDE DEF new
  <2>5. ASSUME NEW d \in Present(rows) \ foreign'
        PROVE  /\ Covering(new, d) # {}
               /\ \A g \in Covering(new, d) :
                    g.provider = rows[d].provider /\ g.at <= rows[d].at
    BY <2>4, <2>3 DEF Rebased
  <2>6. LineageInv'
    BY <2>1, <2>5, LineageOf
  <2> QED BY <1>3, <1>7, <1>8, <2>1, <2>6, <2>3 DEF Rebased
<1> QED BY <1>12, <1>13

LEMMA PublishStep ==
    ASSUME TypeOK, PlanInv, LineageInv, Publish
    PROVE  /\ TypeOK' /\ PlanInv' /\ FetchInv' /\ LineageInv'
           /\ FailureIsExplained' /\ ServedMeetsPolicy' /\ outcome'.kind # "full_hit"
<1> DEFINE fetched == [d \in Days |-> Plain(acq.accepted[d])]
           assembled == Merge(Base.rows, fetched)
           incoming == RebuildLineage(assembled)
           rows == IF Rebases THEN Merge(cache, assembled) ELSE assembled
           served == Present(assembled) \cap acq.expected
<1>1. acq # None /\ now' = now /\ acq.expected \in SUBSET Sessions
  BY DEF Publish, Assembling, TypeOK, Acquisitions
<1>2. CASE \E error : End(error, <<>>, <<>>) /\ UNCHANGED <<cache, lineage, completed, foreign>>
  <2>1. PICK error : End(error, <<>>, <<>>) /\ UNCHANGED <<cache, lineage, completed, foreign>>
    BY <1>2
  <2>2. acq' = None /\ outcome' = Failed(error, <<>>, <<>>)
    BY <2>1 DEF End
  <2>3. FailureIsExplained'
    BY <2>2, ExplainedFailure
  <2>4. TypeOK' /\ PlanInv' /\ FetchInv'
    BY <1>1, <2>1, <2>2 DEF TypeOK, PlanInv, FetchInv
  <2>5. LineageInv'
    BY <2>1 DEF LineageInv, Present, Covering, Covers
  <2>6. outcome'.kind = "failed"
    BY <2>2 DEF Failed
  <2> QED BY <2>3, <2>4, <2>5, <2>6 DEF ServedMeetsPolicy
<1>3. CASE /\ ~CompleteIsFatal(served, acq.expected)
           /\ Rebases => \A d \in Present(rows) : RebaseSource(incoming, d) # {}
           /\ cache' = rows
           /\ lineage' = IF Rebases THEN RebaseLineage(incoming, rows) ELSE incoming
           /\ completed' = now
           /\ foreign' = (foreign \ Present(fetched))
                           \cup {d \in Present(rows) \ Present(fetched) : Rebases /\ InPlanned(d)}
           /\ acq' = None
           /\ outcome' = [kind |-> "published", expected |-> acq.expected,
                          status |-> Status(acq.warned, Present(assembled), acq.expected)]
  <2>1. /\ Present(assembled) \subseteq Present(rows)
        /\ rows \in [Days -> Row \cup {None}]
        /\ lineage' \in SUBSET LineageSegment
        /\ foreign' \in SUBSET Days
        /\ LineageInv'
    BY <1>1, <1>3, PublicationKeepsLineage
  <2> HIDE DEF rows, assembled
  <2>2. now \in Nat
    BY DEF TypeOK
  <2>3. TypeOK' /\ PlanInv' /\ FetchInv'
    BY <1>1, <1>3, <2>1, <2>2 DEF TypeOK, PlanInv, FetchInv
  <2>4. outcome'.kind = "published" /\ outcome'.expected = acq.expected
        /\ outcome'.status = Status(acq.warned, Present(assembled), acq.expected)
    BY <1>3
  <2>5. FailureIsExplained'
    BY <2>4 DEF FailureIsExplained
  <2> DEFINE all == Present(rows) \cap acq.expected
  <2>6. served \in SUBSET acq.expected /\ all \in SUBSET acq.expected /\ served \subseteq all
    BY <2>1
  <2>7. /\ Cardinality(all) * CoverageDen >= CoverageNum * Cardinality(acq.expected)
        /\ \A a \in acq.expected, b \in acq.expected :
             LET window == {s \in acq.expected : a <= s /\ s <= b}
             IN  Cardinality(window) > MaxGap => window \cap all # {}
    BY <1>1, <1>3, <2>6, PolicyHolds
  <2>8. outcome'.status = "success" => all = acq.expected
    BY <2>1, <2>4 DEF Status
  <2>9. Present(cache') = Present(rows)
    BY <1>3
  <2>10. ServedMeetsPolicy'
    BY <2>4, <2>7, <2>8, <2>9 DEF ServedMeetsPolicy, Present
  <2> QED BY <2>1, <2>3, <2>4, <2>5, <2>10
<1> QED BY <1>2, <1>3 DEF Publish

\* A hit means nothing was needed, so nothing served was stale.
LEMMA HitIsFreshAndComplete ==
    ASSUME TypeOK, LineageInv, NEW request \in Requests, NEW alphaFrom \in AlphaFroms,
           Acquire(request, alphaFrom)
    PROVE  FreshHitIsFresh' /\ ServedMeetsPolicy' /\ FailureIsExplained'
<1> DEFINE expected == ExpectedSessions(request.first, request.last)
           needed == Needed(request, expected)
           ranges == GroupContiguous(expected, needed)
           served == Present(cache) \cap expected
<1>1. SameData
  BY DEF Acquire, SameData
<1>2. expected \in SUBSET Sessions /\ needed \in SUBSET expected
  BY ExpectedType, NeededType
<1>3. CASE ranges # {}
  <2>1. outcome' = [kind |-> "none"]
    BY <1>3 DEF Acquire
  <2> QED BY <2>1 DEF FreshHitIsFresh, ServedMeetsPolicy, FailureIsExplained
<1>4. CASE ranges = {} /\ CompleteIsFatal(served, expected)
  <2>1. outcome' = Failed("no_usable_data", <<>>, <<>>)
    BY <1>4 DEF Acquire
  <2>2. FailureIsExplained'
    BY <2>1, ExplainedFailure
  <2>3. outcome'.kind = "failed"
    BY <2>1 DEF Failed
  <2> QED BY <2>2, <2>3 DEF FreshHitIsFresh, ServedMeetsPolicy
<1>5. CASE ranges = {} /\ ~CompleteIsFatal(served, expected)
  <2>1. outcome' = [kind |-> "full_hit", expected |-> expected,
                    status |-> Status(FALSE, Present(cache), expected)]
    BY <1>5 DEF Acquire
  <2> HIDE DEF expected
  <2>2. /\ outcome'.kind = "full_hit" /\ outcome'.expected = expected
        /\ outcome'.status = Status(FALSE, Present(cache), expected)
    BY <2>1
  <2>3. needed = {}
    BY <1>2, <1>5, GroupExists
  <2>4. /\ cache' = cache /\ foreign' = foreign /\ now' = now /\ now \in Nat
        /\ Present(cache') = Present(cache)
    BY <1>1 DEF SameData, TypeOK
  <2>5. ASSUME NEW d \in served \ foreign
        PROVE  now - cache[d].at <= TTL(expected, d)
    <3>1. d \in expected /\ d \in Present(cache) /\ d \in Days
      BY DEF Present
    <3>2. StaleSessions(expected) = {}
      BY <2>3, <3>1 DEF Needed
    <3>3. /\ \A g \in lineage : ~(Covers(g, d) /\ now - g.at > TTL(expected, d))
          /\ Present(cache) # {} /\ lineage # {}
      BY <3>1, <3>2 DEF StaleSessions
    <3>4. PICK g \in Covering(lineage, d) : g.at <= cache[d].at
      BY <2>5, <3>1 DEF LineageInv
    <3>5. g \in lineage /\ Covers(g, d)
      BY <3>4 DEF Covering
    <3>6. g.at \in Nat /\ cache[d].at \in Nat
      <4>1. g \in LineageSegment /\ cache[d] \in Row
        BY <3>1, <3>5 DEF TypeOK, Present
      <4> QED BY <4>1 DEF LineageSegment, Row
    <3>7. TTL(expected, d) \in Nat
      BY AcquisitionAssumption DEF TTL
    <3>8. ~(now - g.at > TTL(expected, d))
      BY <3>3, <3>5
    <3> QED BY <2>4, <3>4, <3>6, <3>7, <3>8
  <2>6. \A d : TTL(expected, d)' = TTL(expected, d)
    BY <2>4 DEF TTL, RecentWindow, LatestCompleted
  <2>7. FreshHitIsFresh'
    BY <2>2, <2>4, <2>5, <2>6 DEF FreshHitIsFresh
  <2>8. /\ Cardinality(served) * CoverageDen >= CoverageNum * Cardinality(expected)
        /\ \A a \in expected, b \in expected :
             LET window == {s \in expected : a <= s /\ s <= b}
             IN  Cardinality(window) > MaxGap => window \cap served # {}
    BY <1>2, <1>5, PolicyHolds
  <2>9. outcome'.status = "success" => served = expected
    BY <2>2 DEF Status
  <2>10. ServedMeetsPolicy'
    <3>1. Present(cache)' = Present(cache)
      BY <2>4 DEF Present
    <3>2. Present(cache)' \cap outcome'.expected = served
      BY <2>2, <3>1
    <3> HIDE DEF served
    <3> QED BY <2>2, <2>8, <2>9, <3>2 DEF ServedMeetsPolicy
  <2>11. FailureIsExplained'
    BY <2>2 DEF FailureIsExplained
  <2> QED BY <2>7, <2>10, <2>11
<1> QED BY <1>3, <1>4, <1>5

-----------------------------------------------------------------------------
(* The theorems.                                                           *)

Properties == FreshHitIsFresh /\ FailureIsExplained /\ ServedMeetsPolicy

LEMMA QuietOutcome ==
    ASSUME outcome'.kind \in {"none", "failed"}
    PROVE  FreshHitIsFresh' /\ ServedMeetsPolicy'
BY DEF FreshHitIsFresh, ServedMeetsPolicy

LEMMA SameDataKeepsLineage ==
    ASSUME LineageInv, cache' = cache, lineage' = lineage, foreign' = foreign
    PROVE  LineageInv'
BY DEF LineageInv, Present, Covering, Covers

LEMMA InvariantStep ==
    ASSUME IInv, Properties, Next
    PROVE  IInv' /\ Properties'
<1> USE DEF IInv, Properties
<1>1. \A error, log, candidates : Failed(error, log, candidates).kind = "failed"
  BY DEF Failed
<1>2. acq # None => outcome.kind = "none"
  BY DEF PlanInv
<1>3. SameData => LineageInv'
  BY SameDataKeepsLineage DEF SameData
<1>4. ASSUME NEW request \in Requests, NEW alphaFrom \in AlphaFroms, Acquire(request, alphaFrom)
      PROVE  IInv' /\ Properties'
  <2>1. SameData /\ TypeOK' /\ PlanInv' /\ FetchInv'
    BY <1>4, AcquireStep
  <2>2. FreshHitIsFresh' /\ ServedMeetsPolicy' /\ FailureIsExplained'
    BY <1>4, HitIsFreshAndComplete
  <2> QED BY <1>3, <2>1, <2>2
<1>5. ASSUME NEW kind \in {"transient", "terminal", "quota", "entitlement"}, FetchRaises(kind)
      PROVE  IInv' /\ Properties'
  <2>1. SameData /\ TypeOK' /\ PlanInv' /\ FetchInv' /\ FailureIsExplained'
    BY <1>5, FetchRaisesStep
  <2>2. acq # None /\ (outcome' = outcome \/ \E e, l, c : outcome' = Failed(e, l, c))
    BY <1>5 DEF FetchRaises, Fetching, Continue, FallBack, End
  <2>3. outcome'.kind \in {"none", "failed"}
    BY <1>1, <1>2, <2>2
  <2> QED BY <1>3, <2>1, <2>3, QuietOutcome
<1>6. ASSUME NEW reply \in Replies, FetchReturns(reply)
      PROVE  IInv' /\ Properties'
  <2>1. SameData /\ TypeOK' /\ PlanInv' /\ FetchInv' /\ FailureIsExplained'
    BY <1>6, FetchReturnsStep
  <2>2. acq # None /\ outcome' = outcome
    BY <1>6 DEF FetchReturns, Fetching, Continue, FallBack
  <2>3. outcome'.kind \in {"none", "failed"}
    BY <1>2, <2>2
  <2> QED BY <1>3, <2>1, <2>3, QuietOutcome
<1>7. ASSUME ProvidersExhausted
      PROVE  IInv' /\ Properties'
  <2>1. SameData /\ TypeOK' /\ PlanInv' /\ FetchInv' /\ FailureIsExplained'
    BY <1>7, ExhaustedStep
  <2>2. \E e, l, c : outcome' = Failed(e, l, c)
    BY <1>7 DEF ProvidersExhausted, End
  <2>3. outcome'.kind \in {"none", "failed"}
    BY <1>1, <2>2
  <2> QED BY <1>3, <2>1, <2>3, QuietOutcome
<1>8. ASSUME Widen
      PROVE  IInv' /\ Properties'
  <2>1. SameData /\ outcome' = outcome /\ TypeOK' /\ PlanInv' /\ FetchInv'
    BY <1>8, WidenStep
  <2>2. acq # None
    BY <1>8 DEF Widen, Assembling
  <2>3. outcome'.kind \in {"none", "failed"} /\ FailureIsExplained'
    BY <1>2, <2>1, <2>2 DEF FailureIsExplained
  <2> QED BY <1>3, <2>1, <2>3, QuietOutcome
<1>9. ASSUME Publish
      PROVE  IInv' /\ Properties'
  <2>1. /\ TypeOK' /\ PlanInv' /\ FetchInv' /\ LineageInv'
        /\ FailureIsExplained' /\ ServedMeetsPolicy' /\ outcome'.kind # "full_hit"
    BY <1>9, PublishStep
  <2> QED BY <2>1 DEF FreshHitIsFresh
<1>10. ASSUME Tick
       PROVE  IInv' /\ Properties'
  <2>1. /\ now' = now + 1 /\ UNCHANGED <<cache, lineage, completed, foreign, acq>>
        /\ outcome' = IF acq = None THEN [kind |-> "none"] ELSE outcome
    BY <1>10 DEF Tick
  <2>2. outcome'.kind = "none"
    BY <1>2, <2>1
  <2>3. FreshHitIsFresh' /\ ServedMeetsPolicy' /\ FailureIsExplained'
    BY <2>2, QuietOutcome DEF FailureIsExplained
  <2>4. TypeOK'
    BY <2>1 DEF TypeOK
  <2>5. PlanInv' /\ FetchInv'
    BY <2>1 DEF PlanInv, FetchInv, InPlanned
  <2>6. LineageInv'
    BY <2>1, SameDataKeepsLineage
  <2> QED BY <2>3, <2>4, <2>5, <2>6
<1> QED BY <1>4, <1>5, <1>6, <1>7, <1>8, <1>9, <1>10 DEF Next

\* The inductive invariant of acquire with the three properties it carries: plan,
\* log, lineage and the last outcome fit each other between any two steps.
LEMMA AcquisitionInvariant == Spec => [](IInv /\ Properties)
<1>1. Init => IInv /\ Properties
  <2> SUFFICES ASSUME Init PROVE IInv /\ Properties
    OBVIOUS
  <2>1. TypeOK
    BY DEF Init, TypeOK, NoRows
  <2>2. Present(cache) = {}
    BY DEF Init, Present, NoRows
  <2>3. PlanInv /\ FetchInv /\ LineageInv
    BY <2>2 DEF Init, PlanInv, FetchInv, LineageInv
  <2>4. Properties
    BY DEF Init, Properties, FreshHitIsFresh, FailureIsExplained, ServedMeetsPolicy
  <2> QED BY <2>1, <2>3, <2>4 DEF IInv
<1>2. IInv /\ Properties /\ [Next]_vars => (IInv /\ Properties)'
  <2> SUFFICES ASSUME IInv, Properties, [Next]_vars PROVE IInv' /\ Properties'
    OBVIOUS
  <2>1. CASE Next
    BY <2>1, InvariantStep
  <2>2. CASE UNCHANGED vars
    <3>1. /\ now' = now /\ cache' = cache /\ lineage' = lineage /\ completed' = completed
          /\ foreign' = foreign /\ acq' = acq /\ outcome' = outcome
      BY <2>2 DEF vars
    <3>2. TypeOK' /\ PlanInv' /\ FetchInv'
      BY <3>1 DEF IInv, TypeOK, PlanInv, FetchInv, InPlanned
    <3>3. LineageInv'
      BY <3>1, SameDataKeepsLineage DEF IInv
    <3>4. Present(cache)' = Present(cache) /\ \A e, d : TTL(e, d)' = TTL(e, d)
      BY <3>1 DEF Present, TTL, RecentWindow, LatestCompleted
    <3>5. FreshHitIsFresh'
      BY <3>1, <3>4 DEF Properties, FreshHitIsFresh
    <3>6. FailureIsExplained'
      BY <3>1 DEF Properties, FailureIsExplained
    <3>7. ServedMeetsPolicy'
      BY <3>1, <3>4 DEF Properties, ServedMeetsPolicy
    <3> QED BY <3>2, <3>3, <3>5, <3>6, <3>7 DEF IInv, Properties
  <2> QED BY <2>1, <2>2
<1> QED BY <1>1, <1>2, PTL DEF Spec

\* Every variable keeps its type: the cache its rows, the lineage its segments,
\* an acquisition in progress its plan, answers and log.
THEOREM AcquisitionTypeCorrect == Spec => []TypeOK
<1>1. IInv /\ Properties => TypeOK
  BY DEF IInv
<1> QED BY <1>1, AcquisitionInvariant, PTL

\* Whatever _rebuild_lineage and _rebase_lineage have written, every row a fresh
\* hit serves was received within its session's lifetime, except the days a
\* bypassing acquisition relabelled.
THEOREM FreshHitsAreFresh == Spec => []FreshHitIsFresh
<1>1. IInv /\ Properties => FreshHitIsFresh
  BY DEF Properties
<1> QED BY <1>1, AcquisitionInvariant, PTL

\* Every row of a fresh cache hit, on whatever day, is within its lifetime.
EveryHitIsFresh ==
    outcome.kind = "full_hit" =>
        \A d \in outcome.expected \cap Present(cache) :
            now - cache[d].at <= TTL(outcome.expected, d)

\* Only an acquisition that bypasses the cache is rebased, and only a rebase keeps
\* a row under a segment of another fetch (_rebase_lineage): where no caller asks
\* for a bypass, fresh hits are fresh without exception.
THEOREM HitsAreFreshWithoutBypass ==
    ASSUME \A r \in Requests : r.mode # "bypass"
    PROVE  Spec => []EveryHitIsFresh
<1> DEFINE NoneForeign == foreign = {}
<1>1. Init => NoneForeign
  BY DEF Init
<1>2. IInv /\ Properties /\ NoneForeign /\ [Next]_vars => NoneForeign'
  <2> SUFFICES ASSUME IInv, NoneForeign, [Next]_vars PROVE foreign' = {}
    OBVIOUS
  <2>1. CASE Publish
    <3>1. acq.request \in Requests
      BY <2>1 DEF Publish, Assembling, IInv, TypeOK, Acquisitions
    <3>2. ~Rebases
      BY <3>1 DEF Rebases, Bypass
    <3> QED BY <2>1, <3>2 DEF Publish
  <2>2. ASSUME NEW request \in Requests, NEW alphaFrom \in AlphaFroms, Acquire(request, alphaFrom)
        PROVE  foreign' = foreign
    BY <2>2 DEF Acquire
  <2>3. ASSUME NEW kind \in {"transient", "terminal", "quota", "entitlement"}, FetchRaises(kind)
        PROVE  foreign' = foreign
    BY <2>3 DEF FetchRaises
  <2>4. ASSUME NEW reply \in Replies, FetchReturns(reply) PROVE foreign' = foreign
    BY <2>4 DEF FetchReturns
  <2>5. CASE ProvidersExhausted
    BY <2>5 DEF ProvidersExhausted
  <2>6. CASE Widen
    BY <2>6 DEF Widen
  <2>7. CASE Tick
    BY <2>7 DEF Tick
  <2>8. CASE UNCHANGED vars
    BY <2>8 DEF vars
  <2> QED BY <2>1, <2>2, <2>3, <2>4, <2>5, <2>6, <2>7, <2>8 DEF Next
<1>3. IInv /\ Properties /\ NoneForeign => EveryHitIsFresh
  BY DEF Properties, FreshHitIsFresh, EveryHitIsFresh
<1> QED BY <1>1, <1>2, <1>3, AcquisitionInvariant, PTL DEF Spec

\* The error _fetch_range raises follows from the attempts of its providers, for
\* any number of attempts and any budget.
THEOREM FailuresAreExplained == Spec => []FailureIsExplained
<1>1. IInv /\ Properties => FailureIsExplained
  BY DEF Properties
<1> QED BY <1>1, AcquisitionInvariant, PTL

\* What acquire publishes or serves from the cache has the coverage and the gaps
\* evaluate_complete_request allows, stated on windows of the request, for any
\* calendar and any policy.
THEOREM ServedDataMeetsPolicy == Spec => []ServedMeetsPolicy
<1>1. IInv /\ Properties => ServedMeetsPolicy
  BY DEF Properties
<1> QED BY <1>1, AcquisitionInvariant, PTL

-----------------------------------------------------------------------------
(* What a publication may do to the rows already cached.                   *)

\* No row is from the future, and an accepted one is no older than the row it
\* would replace.
AgeInv ==
    \A d \in Days :
      /\ cache[d] # None => cache[d].at <= now
      /\ acq # None =>
           (acq.accepted[d] # None =>
              /\ acq.accepted[d].at <= now
              /\ cache[d] # None => cache[d].at <= acq.accepted[d].at)

\* No step loses a row or makes it older: the rows of a generation differ from
\* those of the one before only where this acquisition accepted a row, in a range
\* it planned, and that row was received no earlier than the one it replaces
\* (_merge, and _merge_canonical under a rebase).
RowsOnlyRefreshed ==
    \A d \in Days : cache'[d] # cache[d] =>
      /\ acq # None
      /\ acq.accepted[d] # None /\ InPlanned(d)
      /\ cache'[d] = Plain(acq.accepted[d])
      /\ cache[d] # None => cache[d].at <= cache'[d].at

\* The times of accepted and of cached rows.
LEMMA AcceptedAt ==
    ASSUME TypeOK, acq # None, NEW d \in Days, acq.accepted[d] # None
    PROVE  /\ acq.accepted[d].at \in Nat
           /\ Plain(acq.accepted[d]) # None
           /\ Plain(acq.accepted[d]).at = acq.accepted[d].at
<1> DEFINE fetched == [k \in Days |-> Plain(acq.accepted[k])]
<1>1. acq.accepted \in [Days -> AcceptedRow \cup {None}]
  BY DEF TypeOK, Acquisitions
<1>2. acq.accepted[d] \in AcceptedRow
  BY <1>1
<1>3. d \in Present(fetched) /\ fetched[d].at = acq.accepted[d].at
  BY FetchedFacts
<1> QED BY <1>2, <1>3 DEF AcceptedRow, Present

LEMMA CachedAt ==
    ASSUME TypeOK, NEW d \in Days, cache[d] # None
    PROVE  cache[d].at \in Nat
<1>1. cache[d] \in Row
  BY DEF TypeOK
<1> QED BY <1>1 DEF Row

\* A range whose answer is usable adds its rows to the accepted ones.
LEMMA FetchReturnsAccepts ==
    ASSUME TypeOK, NEW reply, FetchReturns(reply), acq # None,
           ~RangeIsFatal(reply, acq.fetch.range)
    PROVE  acq'.accepted = AcceptedRows(reply)
<1> DEFINE left == acq.left \ {acq.fetch.range}
           next == IF left = {} THEN None ELSE Untried(acq.request, acq.alphaFrom, First(left))
           warned == acq.warned \/ RangeWarns(reply, acq.fetch.range)
<1>1. acq' = [acq EXCEPT !.accepted = AcceptedRows(reply), !.left = left,
                         !.calls = Calls, !.warned = warned, !.fetch = next]
  BY DEF FetchReturns
<1>2. acq \in Acquisitions
  BY DEF TypeOK
<1> HIDE DEF left, next, warned
<1> QED BY <1>1, <1>2 DEF Acquisitions

\* A publication takes every row from the acquisition or leaves it as it is.
LEMMA PublishedRows ==
    ASSUME TypeOK, PlanInv, AgeInv, Publish
    PROVE  RowsOnlyRefreshed
<1> DEFINE fetched == [d \in Days |-> Plain(acq.accepted[d])]
           assembled == Merge(Base.rows, fetched)
           rows == IF Rebases THEN Merge(cache, assembled) ELSE assembled
<1>1. acq # None
  BY DEF Publish, Assembling
<1>2. CASE cache' = cache
  BY <1>2 DEF RowsOnlyRefreshed
<1>3. CASE cache' = rows
  <2> SUFFICES ASSUME NEW d \in Days, cache'[d] # cache[d]
               PROVE  /\ acq.accepted[d] # None /\ InPlanned(d)
                      /\ cache'[d] = Plain(acq.accepted[d])
                      /\ cache[d] # None => cache[d].at <= cache'[d].at
    BY <1>1 DEF RowsOnlyRefreshed
  <2>1. /\ cache \in [Days -> Row \cup {None}]
        /\ Base.rows = IF Bypass THEN NoRows ELSE cache
    BY DEF TypeOK, Base
  <2>2. rows[d] = fetched[d] \/ rows[d] = cache[d]
    <3>1. CASE ~Bypass
      BY <2>1, <3>1 DEF Rebases, Merge
    <3>2. CASE Bypass /\ Rebases
      BY <2>1, <3>2 DEF Merge, NoRows
    <3>3. CASE Bypass /\ ~Rebases
      <4>1. cache[d] = None
        BY <3>3 DEF Rebases, Present
      <4> QED BY <2>1, <3>3, <4>1 DEF Merge, NoRows
    <3> QED BY <3>1, <3>2, <3>3
  <2>3. fetched[d] # None
    <3> SUFFICES ASSUME fetched[d] = None, rows[d] # cache[d] PROVE FALSE
      BY <1>3
    <3>1. rows[d] = None /\ cache[d] # None
      BY <2>2
    <3>2. CASE ~Bypass
      BY <2>1, <3>1, <3>2 DEF Rebases, Merge
    <3>3. CASE Bypass
      <4>1. Rebases
        BY <3>1, <3>3 DEF Rebases, Present
      <4> QED BY <2>1, <3>1, <4>1 DEF Merge
    <3> QED BY <3>2, <3>3
  <2>4. rows[d] = fetched[d]
    BY <1>3, <2>2
  <2>5. acq.accepted[d] # None
    BY <2>3 DEF Plain
  <2>6. InPlanned(d)
    BY <1>1, <2>5 DEF PlanInv
  <2>7. cache'[d] = Plain(acq.accepted[d])
    BY <1>3, <2>4
  <2>8. Plain(acq.accepted[d]).at = acq.accepted[d].at
    BY <1>1, <2>5, AcceptedAt
  <2>9. cache[d] # None => cache[d].at <= acq.accepted[d].at
    BY <1>1, <2>5 DEF AgeInv
  <2> QED BY <2>5, <2>6, <2>7, <2>8, <2>9
<1> QED BY <1>2, <1>3 DEF Publish

\* Accepted rows are stamped with the clock, and nobody else writes the cache.
LEMMA AgeStep ==
    ASSUME IInv, Properties, AgeInv, Next
    PROVE  AgeInv' /\ RowsOnlyRefreshed
<1> USE DEF IInv, Properties
<1>1. now \in Nat
  BY DEF TypeOK
<1>2. ASSUME SameData, acq' = None \/ \A d \in Days : acq'.accepted[d] = None
      PROVE  AgeInv' /\ RowsOnlyRefreshed
  BY <1>2 DEF AgeInv, SameData, RowsOnlyRefreshed
<1>3. ASSUME SameData, acq # None, acq' = None \/ acq'.accepted = acq.accepted
      PROVE  AgeInv' /\ RowsOnlyRefreshed
  BY <1>3 DEF AgeInv, SameData, RowsOnlyRefreshed
<1>4. ASSUME NEW fetch, acq # None, Continue(fetch)
      PROVE  acq'.accepted = acq.accepted
  BY <1>4 DEF Continue, TypeOK, Acquisitions
<1>5. ASSUME NEW request \in Requests, NEW alphaFrom \in AlphaFroms, Acquire(request, alphaFrom)
      PROVE  AgeInv' /\ RowsOnlyRefreshed
  <2>1. SameData
    BY <1>5, AcquireStep
  <2> DEFINE expected == ExpectedSessions(request.first, request.last)
             ranges == GroupContiguous(expected, Needed(request, expected))
             u == Untried(request, alphaFrom, First(ranges))
  <2>2. \/ acq' = None
        \/ acq' = [request |-> request, alphaFrom |-> alphaFrom,
                   expected |-> expected, planned |-> ranges, left |-> ranges,
                   accepted |-> NoRows, warned |-> FALSE, calls |-> 0, fetch |-> u]
    BY <1>5 DEF Acquire
  <2> HIDE DEF expected, ranges, u
  <2>3. acq' = None \/ \A d \in Days : acq'.accepted[d] = None
    BY <2>2 DEF NoRows
  <2> QED BY <1>2, <2>1, <2>3
<1>6. ASSUME NEW kind \in {"transient", "terminal", "quota", "entitlement"}, FetchRaises(kind)
      PROVE  AgeInv' /\ RowsOnlyRefreshed
  <2>1. SameData /\ acq # None
    BY <1>6 DEF FetchRaises, Fetching, SameData
  <2>2. acq' = None \/ acq'.accepted = acq.accepted
    BY <1>4, <1>6, <2>1 DEF FetchRaises, FallBack, End
  <2> QED BY <1>3, <2>1, <2>2
<1>7. ASSUME NEW reply \in Replies, FetchReturns(reply)
      PROVE  AgeInv' /\ RowsOnlyRefreshed
  <2>1. SameData /\ acq # None
    BY <1>7 DEF FetchReturns, Fetching, SameData
  <2>2. CASE RangeIsFatal(reply, acq.fetch.range)
    <3>1. acq'.accepted = acq.accepted
      BY <1>4, <1>7, <2>1, <2>2 DEF FetchReturns, FallBack
    <3> QED BY <1>3, <2>1, <3>1
  <2>3. CASE ~RangeIsFatal(reply, acq.fetch.range)
    <3>1. acq'.accepted = AcceptedRows(reply)
      BY <1>7, <2>1, <2>3, FetchReturnsAccepts
    <3>2. ASSUME NEW d \in Days
          PROVE  \/ AcceptedRows(reply)[d] = acq.accepted[d]
                 \/ AcceptedRows(reply)[d].at = now
      BY DEF AcceptedRows
    <3> QED BY <1>1, <2>1, <3>1, <3>2, CachedAt DEF AgeInv, SameData, RowsOnlyRefreshed
  <2> QED BY <2>2, <2>3
<1>8. ASSUME ProvidersExhausted
      PROVE  AgeInv' /\ RowsOnlyRefreshed
  BY <1>2, <1>8 DEF ProvidersExhausted, End, SameData
<1>9. ASSUME Widen
      PROVE  AgeInv' /\ RowsOnlyRefreshed
  <2>1. SameData
    BY <1>9, WidenStep
  <2>2. acq # None /\ acq \in Acquisitions
    BY <1>9 DEF Widen, Assembling, TypeOK
  <2>3. \A d \in Days : acq'.accepted[d] = None
    BY <1>9, <2>2 DEF Widen, NoRows, Acquisitions
  <2> QED BY <1>2, <2>1, <2>3
<1>10. ASSUME Publish
       PROVE  AgeInv' /\ RowsOnlyRefreshed
  <2>1. RowsOnlyRefreshed
    BY <1>10, PublishedRows
  <2>2. acq # None /\ acq' = None /\ now' = now
    BY <1>10 DEF Publish, Assembling, End
  <2>3. ASSUME NEW d \in Days, cache'[d] # None PROVE cache'[d].at <= now
    <3>1. CASE cache'[d] = cache[d]
      BY <2>3, <3>1 DEF AgeInv
    <3>2. CASE cache'[d] # cache[d]
      <4>1. acq.accepted[d] # None /\ cache'[d] = Plain(acq.accepted[d])
        BY <2>1, <3>2 DEF RowsOnlyRefreshed
      <4>2. acq.accepted[d].at <= now
        BY <2>2, <4>1 DEF AgeInv
      <4> QED BY <2>2, <4>1, <4>2, AcceptedAt
    <3> QED BY <3>1, <3>2
  <2> QED BY <2>1, <2>2, <2>3 DEF AgeInv
<1>11. ASSUME Tick
       PROVE  AgeInv' /\ RowsOnlyRefreshed
  <2>1. /\ now' = now + 1 /\ cache' = cache /\ acq' = acq
    BY <1>11 DEF Tick
  <2>2. RowsOnlyRefreshed
    BY <2>1 DEF RowsOnlyRefreshed
  <2>3. ASSUME NEW d \in Days, cache[d] # None PROVE cache[d].at <= now + 1
    BY <1>1, <2>3, CachedAt DEF AgeInv
  <2>4. ASSUME NEW d \in Days, acq # None, acq.accepted[d] # None
        PROVE  acq.accepted[d].at <= now + 1
    BY <1>1, <2>4, AcceptedAt DEF AgeInv
  <2> QED BY <2>1, <2>2, <2>3, <2>4 DEF AgeInv
<1> QED BY <1>5, <1>6, <1>7, <1>8, <1>9, <1>10, <1>11 DEF Next

\* However fetches, fallbacks, partial refreshes, widenings, bypasses and rebases
\* interleave with the clock, no publication drops a cached row, replaces one by an
\* older answer, or touches a day outside the ranges it planned.
THEOREM PublicationsOnlyRefresh == Spec => [][RowsOnlyRefreshed]_vars
<1>1. Init => AgeInv
  BY DEF Init, AgeInv, NoRows
<1>2. IInv /\ Properties /\ AgeInv /\ [Next]_vars => AgeInv' /\ [RowsOnlyRefreshed]_vars
  <2> SUFFICES ASSUME IInv, Properties, AgeInv, [Next]_vars
               PROVE  AgeInv' /\ [RowsOnlyRefreshed]_vars
    OBVIOUS
  <2>1. CASE Next
    BY <2>1, AgeStep
  <2>2. CASE UNCHANGED vars
    BY <2>2 DEF vars, AgeInv
  <2> QED BY <2>1, <2>2
<1> QED BY <1>1, <1>2, AcquisitionInvariant, PTL DEF Spec
=============================================================================
