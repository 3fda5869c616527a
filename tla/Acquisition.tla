---------------------------- MODULE Acquisition ----------------------------
(***************************************************************************)
(* AcquisitionService.acquire (src/src/data/acquisition.py) for one symbol *)
(* and one caller at a time: which sessions it plans to fetch, the retry   *)
(* and fallback of each range (retry.py, providers/), what the quality     *)
(* rules accept (normalization.py, quality.py), and the lineage it writes  *)
(* and later trusts to decide what is fresh.  Concurrent publication is    *)
(* GenerationStore's subject; here a publication is one step.              *)
(*                                                                         *)
(* A day is a number; days that are not sessions are holidays.  A cached   *)
(* row is its provider, the time it was really received and its corporate  *)
(* action; prices are left out.  The time in the row is auxiliary: the     *)
(* program only has the lineage segments.                                  *)
(***************************************************************************)
EXTENDS Integers, Sequences, FiniteSets

CONSTANTS
    Days, Sessions,     \* calendar days and the exchange's sessions
    AvailableAt,        \* AvailableAt[s]: close of session s plus the availability lag
    RecentOverlap,      \* recent_overlap_sessions
    RecentTTL, HistoricalTTL,
    CoverageNum, CoverageDen,   \* minimum_coverage = CoverageNum / CoverageDen
    MaxGap,             \* max_consecutive_missing_sessions
    MaxAttempts,        \* RetryPolicy.max_attempts
    DailyBudget,        \* Alpha Vantage's local budget, per adapter
    Requests,           \* requests callers make
    AlphaFroms,         \* first days Alpha Vantage may serve: its key and output size
    Replies,            \* frames a provider may answer with
    MaxTime,            \* bound on the clock
    None

Providers == {"yfinance", "alpha_vantage"}

\* A cached row, and an accepted one with the range it was fetched for.
Row == [provider : Providers, at : Nat, action : {reply.action : reply \in Replies}]
AcceptedRow == [provider : Providers, at : Nat, action : {reply.action : reply \in Replies},
                range : Days \X Days]

ASSUME AcquisitionAssumption ==
    /\ Days \subseteq Nat /\ IsFiniteSet(Days) /\ Sessions \subseteq Days
    /\ AvailableAt \in [Sessions -> Nat]
    /\ {RecentOverlap, MaxAttempts, DailyBudget} \subseteq Nat \ {0}
    /\ {RecentTTL, HistoricalTTL, MaxGap, MaxTime, CoverageNum, CoverageDen} \subseteq Nat
    /\ AlphaFroms \subseteq Nat
    /\ \A r \in Requests : /\ r.first \in Days /\ r.last \in Days /\ r.first <= r.last
                           /\ r.mode \in {"cached", "refresh", "bypass"}
                           /\ r.source \in {"auto"} \cup Providers
    /\ None \notin Row \cup AcceptedRow

VARIABLES
    now,        \* the UTC clock
    cache,      \* the current generation: a row or None for every day
    lineage,    \* its manifest's lineage segments
    completed,  \* its manifest's completed_at
    foreign,    \* auxiliary: days whose row was kept under another fetch's segment
    acq,        \* the acquisition in progress, or None
    outcome     \* how the last one ended

vars == <<now, cache, lineage, completed, foreign, acq, outcome>>

NoRows == [d \in Days |-> None]
Present(rows) == {d \in Days : rows[d] # None}

Init ==
    /\ now = 0
    /\ cache = NoRows
    /\ lineage = {}
    /\ completed = None
    /\ foreign = {}
    /\ acq = None
    /\ outcome = [kind |-> "none"]

-----------------------------------------------------------------------------
(* Calendar and quality.                                                   *)

ExpectedSessions(first, last) == {s \in Sessions : first <= s /\ s <= last}

\* group_contiguous_sessions: runs of `needed` among adjacent expected sessions.
GroupContiguous(expected, needed) ==
    {g \in needed \X needed :
       /\ g[1] <= g[2]
       /\ \A s \in expected : g[1] <= s /\ s <= g[2] => s \in needed
       /\ \A s \in needed : s < g[1] => \E k \in expected \ needed : s < k /\ k < g[1]
       /\ \A s \in needed : g[2] < s => \E k \in expected \ needed : g[2] < k /\ k < s}

InRange(d, range) == range[1] <= d /\ d <= range[2]

\* normalize_provider_batch and evaluate_range_candidate.  For every day a
\* reply has no row, one good row, identical rows, conflicting rows or an
\* invalid row; it may also not map to the canonical schema at all.
CandidateRows(reply, range) ==
    {d \in Days : InRange(d, range) /\ reply.rows[d] \in {"good", "repeated"}}

RangeIsFatal(reply, range) ==
    \/ reply.unmappable
    \/ \E d \in Days : InRange(d, range) /\ reply.rows[d] = "conflicting"
    \/ ~ CandidateRows(reply, range) \subseteq Sessions
    \/ CandidateRows(reply, range) = {}

RangeWarns(reply, range) ==
    \E d \in Days : InRange(d, range) /\ reply.rows[d] \in {"repeated", "invalid"}

GapLength(expected, group) == Cardinality({s \in expected : InRange(s, group)})

\* Mutant: the gap rule is left out.
CompleteIsFatalNoGap(days, expected) ==
    \/ days = {}
    \/ Cardinality(days \cap expected) * CoverageDen < CoverageNum * Cardinality(expected)

\* evaluate_complete_request: coverage and gap policy on the merged request.
CompleteIsFatal(days, expected) ==
    \/ days = {}
    \/ ~ days \subseteq expected
    \/ Cardinality(days) * CoverageDen < CoverageNum * Cardinality(expected)
    \/ \E g \in GroupContiguous(expected, expected \ days) : GapLength(expected, g) > MaxGap

\* AcquisitionStatus: a warning of an accepted range or a missing session.
Status(warned, days, expected) ==
    IF warned \/ ~ expected \subseteq days THEN "partial_success" ELSE "success"

-----------------------------------------------------------------------------
(* Freshness and planning.                                                 *)

LatestCompleted(expected) ==
    LET done == {s \in expected : AvailableAt[s] <= now}
    IN  IF done = {} THEN None ELSE CHOOSE s \in done : \A k \in done : k <= s

\* The last RecentOverlap expected sessions up to the latest completed one.
RecentWindow(expected) ==
    LET latest == LatestCompleted(expected)
    IN  {s \in expected : /\ latest # None
                          /\ s <= latest
                          /\ Cardinality({k \in expected : s < k /\ k <= latest}) < RecentOverlap}

Covers(segment, d) == segment.first <= d /\ d <= segment.last

TTL(expected, d) == IF d \in RecentWindow(expected) THEN RecentTTL ELSE HistoricalTTL

\* _stale_sessions: per segment, and what no segment covers.
StaleSessions(expected) ==
    IF Present(cache) = {} THEN {}
    ELSE IF lineage = {} THEN expected
    ELSE {s \in expected :
            \/ \E g \in lineage : Covers(g, s) /\ now - g.at > TTL(expected, s)
            \/ s \in Present(cache) /\ \A g \in lineage : ~Covers(g, s)}

\* _plan_ranges: everything when bypassed or forced, else what is missing or stale.
Needed(request, expected) ==
    IF request.mode \in {"bypass", "refresh"} THEN expected
    ELSE (expected \ Present(cache)) \cup StaleSessions(expected)

ProviderOrder(source) ==
    IF source = "auto" THEN <<"yfinance", "alpha_vantage">> ELSE <<source>>

\* The providers _fetch_range does not skip as ineligible.
Candidates(request, alphaFrom, range) ==
    IF alphaFrom <= range[1] THEN ProviderOrder(request.source)
    ELSE IF request.source = "alpha_vantage" THEN <<>> ELSE <<"yfinance">>

\* One call of _fetch_range: the candidate being tried, its attempt number, the
\* errors collected and the attempts' outcomes.
Untried(request, alphaFrom, range) ==
    [range |-> range, candidates |-> Candidates(request, alphaFrom, range),
     index |-> 1, attempt |-> 1, errors |-> {}, log |-> <<>>]

First(ranges) == CHOOSE g \in ranges : \A k \in ranges : g[1] <= k[1]

Failed(error, log, candidates) ==
    [kind |-> "failed", error |-> error, log |-> log, candidates |-> candidates]

\* acquire, up to the first fetch: admitted, cache read, ranges planned.
Acquire(request, alphaFrom) ==
    /\ acq = None
    /\ LET expected == ExpectedSessions(request.first, request.last)
           ranges == GroupContiguous(expected, Needed(request, expected))
       IN  IF ranges = {}
           THEN /\ acq' = None
                /\ outcome' = IF CompleteIsFatal(Present(cache) \cap expected, expected)
                              THEN Failed("no_usable_data", <<>>, <<>>)
                              ELSE [kind |-> "full_hit", expected |-> expected,
                                    status |-> Status(FALSE, Present(cache), expected)]
           ELSE /\ outcome' = [kind |-> "none"]
                /\ acq' = [request |-> request, alphaFrom |-> alphaFrom,
                           expected |-> expected, planned |-> ranges, left |-> ranges,
                           accepted |-> NoRows, warned |-> FALSE, calls |-> 0,
                           fetch |-> Untried(request, alphaFrom, First(ranges))]
    /\ UNCHANGED <<now, cache, lineage, completed, foreign>>

-----------------------------------------------------------------------------
(* _fetch_range: RetryExecutor._execute around the adapter's fetch, then   *)
(* the quality rules, then the next provider.                              *)

Fetching == acq # None /\ acq.left # {}
CurrentProvider == acq.fetch.candidates[acq.fetch.index]
Tried == acq.fetch.index <= Len(acq.fetch.candidates)
OverBudget == CurrentProvider = "alpha_vantage" /\ acq.calls >= DailyBudget
Calls == acq.calls + (IF CurrentProvider = "alpha_vantage" /\ ~OverBudget THEN 1 ELSE 0)
Logged(kind) == Append(acq.fetch.log, [provider |-> CurrentProvider, kind |-> kind])

End(error, log, candidates) == acq' = None /\ outcome' = Failed(error, log, candidates)

Continue(fetch) == acq' = [acq EXCEPT !.fetch = fetch, !.calls = Calls] /\ UNCHANGED outcome

\* The error is kept and the next provider's turn comes.
FallBack(error, kind) ==
    Continue([acq.fetch EXCEPT !.index = @ + 1, !.attempt = 1,
                               !.errors = @ \cup {error}, !.log = Logged(kind)])

\* What each adapter can raise; "terminal" is an authentication or schema error.
Raises == IF CurrentProvider = "yfinance" THEN {"transient", "terminal"}
          ELSE IF OverBudget THEN {"quota"}
          ELSE {"transient", "terminal", "quota", "entitlement"}

\* Mutant: the retry loop allows one attempt too many.
RetriesOffByOne == acq.fetch.attempt <= MaxAttempts

\* _execute: a retryable failure that is not the last attempt is tried again.
Retries == acq.fetch.attempt < MaxAttempts

FetchRaises(kind) ==
    /\ Fetching /\ Tried
    /\ kind \in Raises
    /\ \/ /\ kind = "transient" /\ Retries
          /\ Continue([acq.fetch EXCEPT !.attempt = @ + 1, !.log = Logged(kind)])
       \/ kind = "transient" /\ ~Retries /\ FallBack("provider", kind)
       \/ kind = "terminal" /\ End("terminal", Logged(kind), acq.fetch.candidates)
       \/ kind = "quota" /\ acq.request.source # "auto" /\ End("quota", Logged(kind), acq.fetch.candidates)
       \/ kind = "quota" /\ acq.request.source = "auto" /\ FallBack("provider", kind)
       \/ kind = "entitlement" /\ FallBack("provider", kind)
    /\ UNCHANGED <<now, cache, lineage, completed, foreign>>

\* The accepted rows of one range; Alpha Vantage answers with its whole series
\* and rows outside the range are dropped.
AcceptedRows(reply) ==
    [d \in Days |-> IF d \in CandidateRows(reply, acq.fetch.range)
                    THEN [provider |-> CurrentProvider, at |-> now, action |-> reply.action,
                          range |-> acq.fetch.range]
                    ELSE acq.accepted[d]]

FetchReturns(reply) ==
    /\ Fetching /\ Tried /\ ~OverBudget
    /\ IF RangeIsFatal(reply, acq.fetch.range)
       THEN FallBack("quality", "quality")
       ELSE LET left == acq.left \ {acq.fetch.range}
            IN  /\ acq' = [acq EXCEPT !.accepted = AcceptedRows(reply), !.left = left,
                             !.calls = Calls, !.warned = @ \/ RangeWarns(reply, acq.fetch.range),
                             !.fetch = IF left = {} THEN None
                                       ELSE Untried(acq.request, acq.alphaFrom, First(left))]
                /\ UNCHANGED outcome
    /\ UNCHANGED <<now, cache, lineage, completed, foreign>>

\* Every candidate failed: only quality errors mean there is no usable data.
ProvidersExhausted ==
    /\ Fetching /\ ~Tried
    /\ End(IF acq.fetch.errors = {"quality"} THEN "no_usable_data" ELSE "exhausted",
           acq.fetch.log, acq.fetch.candidates)
    /\ UNCHANGED <<now, cache, lineage, completed, foreign>>

-----------------------------------------------------------------------------
(* The rest of acquire: actions, merge, quality, lineage and publication.  *)

Bypass == acq.request.mode = "bypass"

\* What the acquisition read: nothing when the cache is bypassed.
Base == IF Bypass THEN [rows |-> NoRows, lineage |-> {}, completed |-> None]
        ELSE [rows |-> cache, lineage |-> lineage, completed |-> completed]

\* _actions_changed compares only the days present on both sides.
ActionsChanged ==
    \E d \in acq.expected : /\ Base.rows[d] # None /\ acq.accepted[d] # None
                            /\ Base.rows[d].action # acq.accepted[d].action

WholeRange == <<CHOOSE s \in acq.expected : \A k \in acq.expected : s <= k,
                CHOOSE s \in acq.expected : \A k \in acq.expected : k <= s>>

CoversAll == acq.planned = {WholeRange}

Assembling == acq # None /\ acq.left = {}

Plain(row) == IF row = None THEN None
              ELSE [provider |-> row.provider, at |-> row.at, action |-> row.action]

\* _merge and _merge_canonical: incoming rows win.
Merge(old, incoming) == [d \in Days |-> IF incoming[d] # None THEN incoming[d] ELSE old[d]]

Segment(first, last, provider, at) ==
    [first |-> first, last |-> last, provider |-> provider, at |-> at]

\* Adjacent rows of equal provenance become one segment.
GroupByProvenance(provenance) ==
    LET days == DOMAIN provenance
        Same(a, b) == \A d \in days : a <= d /\ d <= b => provenance[d] = provenance[a]
        Following(d) == {k \in days : d < k /\ \A j \in days : d < j => k <= j}
        Starts == {d \in days : \A k \in days : Following(k) = {d} => provenance[k] # provenance[d]}
        Runs == {p \in Starts \X days :
                   /\ p[1] <= p[2] /\ Same(p[1], p[2])
                   /\ \A k \in Following(p[2]) : provenance[k] # provenance[p[1]]}
    IN  {Segment(p[1], p[2], provenance[p[1]].provider, provenance[p[1]].at) : p \in Runs}

Covering(segments, d) == {g \in segments : Covers(g, d)}
Leftmost(segments) == CHOOSE g \in segments : \A k \in segments : g.first <= k.first

\* Mutant: every day of a fetched range counts as refreshed.
RebuildLineageWholeRanges(rows) ==
    GroupByProvenance([d \in Present(rows) |->
        IF \E k \in Days : acq.accepted[k] # None /\ InRange(d, acq.accepted[k].range)
        THEN LET k == CHOOSE k \in Days : /\ acq.accepted[k] # None
                                          /\ InRange(d, acq.accepted[k].range)
                 new == acq.accepted[k]
             IN  Segment(new.range[1], new.range[2], new.provider, new.at)
        ELSE LET old == Covering(Base.lineage, d)
             IN  IF old = {} THEN Segment(d, d, rows[d].provider, now) ELSE Leftmost(old)])

\* _rebuild_lineage: a day is refreshed when its row was, and otherwise keeps
\* its cached segment of the row's provider, or stands alone.
RebuildLineage(rows) ==
    GroupByProvenance([d \in Present(rows) |->
        LET new == acq.accepted[d]
            old == {g \in Covering(Base.lineage, d) : g.provider = rows[d].provider}
        IN  IF new # None THEN Segment(new.range[1], new.range[2], new.provider, new.at)
            ELSE IF old # {} THEN Leftmost(old)
            ELSE Segment(d, d, rows[d].provider,
                         IF Base.completed = None THEN now ELSE Base.completed)])

\* publish_generation when the acquisition did not read the current generation:
\* its rows in the planned ranges go over the current ones, and _rebase_lineage
\* gives every day of those ranges an incoming segment, refreshed or not.
Rebases == Bypass /\ Present(cache) # {}

InPlanned(d) == \E g \in acq.planned : InRange(d, g)

RebaseSource(incoming, d) == Covering(IF InPlanned(d) THEN incoming ELSE lineage, d)

RebaseLineage(incoming, rows) ==
    GroupByProvenance([d \in Present(rows) |-> Leftmost(RebaseSource(incoming, d))])

\* An action changed in a partial refresh: the whole request is fetched again.
Widen ==
    /\ Assembling
    /\ ActionsChanged /\ ~CoversAll
    /\ acq' = [acq EXCEPT !.planned = {WholeRange}, !.left = {WholeRange}, !.accepted = NoRows,
                          !.warned = FALSE,
                          !.fetch = Untried(acq.request, acq.alphaFrom, WholeRange)]
    /\ UNCHANGED <<now, cache, lineage, completed, foreign, outcome>>

\* Merge, complete validation, lineage and publication; an error leaves the
\* current generation alone.
Publish ==
    /\ Assembling
    /\ ~(ActionsChanged /\ ~CoversAll)
    /\ LET fetched == [d \in Days |-> Plain(acq.accepted[d])]
           assembled == Merge(Base.rows, fetched)
           incoming == RebuildLineage(assembled)
           rows == IF Rebases THEN Merge(cache, assembled) ELSE assembled
           relabelled == {d \in Present(rows) \ Present(fetched) : Rebases /\ InPlanned(d)}
       IN  \/ /\ CompleteIsFatal(Present(assembled) \cap acq.expected, acq.expected)
              /\ End("no_usable_data", <<>>, <<>>)
              /\ UNCHANGED <<cache, lineage, completed, foreign>>
           \/ /\ ~CompleteIsFatal(Present(assembled) \cap acq.expected, acq.expected)
              /\ Rebases /\ \E d \in Present(rows) : RebaseSource(incoming, d) = {}
              /\ End("publication", <<>>, <<>>)
              /\ UNCHANGED <<cache, lineage, completed, foreign>>
           \/ /\ ~CompleteIsFatal(Present(assembled) \cap acq.expected, acq.expected)
              /\ Rebases => \A d \in Present(rows) : RebaseSource(incoming, d) # {}
              /\ cache' = rows
              /\ lineage' = IF Rebases THEN RebaseLineage(incoming, rows) ELSE incoming
              /\ completed' = now
              /\ foreign' = (foreign \ Present(fetched)) \cup relabelled
              /\ acq' = None
              /\ outcome' = [kind |-> "published", expected |-> acq.expected,
                              status |-> Status(acq.warned, Present(assembled), acq.expected)]
    /\ UNCHANGED now

\* Time passes: between acquisitions, and during fetches and retry sleeps.
Tick ==
    /\ now < MaxTime
    /\ now' = now + 1
    /\ UNCHANGED <<cache, lineage, completed, foreign, acq>>
    /\ outcome' = IF acq = None THEN [kind |-> "none"] ELSE outcome

Next ==
    \/ \E request \in Requests, alphaFrom \in AlphaFroms : Acquire(request, alphaFrom)
    \/ \E kind \in {"transient", "terminal", "quota", "entitlement"} : FetchRaises(kind)
    \/ \E reply \in Replies : FetchReturns(reply)
    \/ ProvidersExhausted
    \/ Widen
    \/ Publish
    \/ Tick

Spec == Init /\ [][Next]_vars

-----------------------------------------------------------------------------
(* Properties.                                                             *)

\* Every row a fresh cache hit serves was really received within the lifetime
\* its session has, whatever partial answers, fallbacks and refreshes wrote the
\* lineage _stale_sessions reads.  Days in `foreign` are excepted: a bypassing
\* acquisition whose answer omits a cached day puts that day's old row under
\* its own segment (_rebase_lineage ignores which rows were refreshed).
FreshHitIsFresh ==
    outcome.kind = "full_hit" =>
        \A d \in (outcome.expected \cap Present(cache)) \ foreign :
            now - cache[d].at <= TTL(outcome.expected, d)

\* The attempts of a log with one provider, the last of each, and whether the
\* provider was given up on.
AttemptsOf(log, p) == {i \in DOMAIN log : log[i].provider = p}
IsLast(log, i) == \A j \in AttemptsOf(log, log[i].provider) : j <= i
GivenUp(log, p) ==
    \E i \in AttemptsOf(log, p) :
      /\ IsLast(log, i)
      /\ \/ log[i].kind \in {"quality", "quota", "entitlement"}
         \/ log[i].kind = "transient" /\ Cardinality(AttemptsOf(log, p)) = MaxAttempts

\* The error acquire raises follows from its providers' answers: a provider is
\* tried at most MaxAttempts times and only while its failures are transient,
\* the next one only after it; "exhausted" means every eligible one was given
\* up on and not all for quality, "no usable data" from a fetch that all
\* were, a terminal error or an explicit source's quota that it came last.
FailureIsExplained ==
    outcome.kind = "failed" /\ outcome.log # <<>> =>
        LET log == outcome.log
            candidates == outcome.candidates
        IN  /\ \A p \in Providers : Cardinality(AttemptsOf(log, p)) <= MaxAttempts
            /\ \A i \in DOMAIN log : ~IsLast(log, i) => log[i].kind = "transient"
            /\ \A i \in DOMAIN candidates, j \in DOMAIN candidates :
                 i < j /\ AttemptsOf(log, candidates[j]) # {} => GivenUp(log, candidates[i])
            /\ outcome.error = "exhausted" =>
                 /\ \A i \in DOMAIN candidates : GivenUp(log, candidates[i])
                 /\ \E i \in DOMAIN log : IsLast(log, i) /\ log[i].kind # "quality"
            /\ outcome.error = "no_usable_data" =>
                 \A i \in DOMAIN log : IsLast(log, i) => log[i].kind = "quality"
            /\ outcome.error = "terminal" <=> log[Len(log)].kind = "terminal"
            /\ outcome.error = "quota" => log[Len(log)].kind = "quota" /\ Len(candidates) = 1

\* What a caller gets, published or served from the cache, has the coverage the
\* policy asks for and no run of more than MaxGap sessions missing between two
\* served ones or at an edge (stated on windows of the request, not on groups),
\* and is complete when it is called a success.
ServedMeetsPolicy ==
    outcome.kind \in {"published", "full_hit"} =>
        LET expected == outcome.expected
            served == Present(cache) \cap expected
        IN  /\ Cardinality(served) * CoverageDen >= CoverageNum * Cardinality(expected)
            /\ \A a \in expected, b \in expected :
                 LET window == {s \in expected : a <= s /\ s <= b}
                 IN  Cardinality(window) > MaxGap => window \cap served # {}
            /\ outcome.status = "success" => served = expected
=============================================================================
