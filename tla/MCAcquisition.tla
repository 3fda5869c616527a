--------------------------- MODULE MCAcquisition ---------------------------
(* Three sessions and a holiday, and answers with at most one odd row.     *)
EXTENDS Acquisition

FourDays == 1..4
ThreeSessions == {1, 2, 4}
SessionCloses == [s \in ThreeSessions |-> IF s = 4 THEN 2 ELSE 0]

MixedRequests ==
    {[first |-> 1, last |-> 4, mode |-> m, source |-> "auto"] : m \in {"cached", "bypass"}}
    \cup {[first |-> 2, last |-> 4, mode |-> "cached", source |-> "alpha_vantage"],
          [first |-> 1, last |-> 2, mode |-> "refresh", source |-> "yfinance"]}

\* Any of the sessions present, and every other kind of row once.
Full == [d \in FourDays |-> IF d = 3 THEN "none" ELSE "good"]
RowPatterns ==
    {[d \in FourDays |-> IF d \in present THEN "good" ELSE "none"] : present \in SUBSET ThreeSessions}
    \cup {[Full EXCEPT ![3] = "good"], [Full EXCEPT ![1] = "repeated"],
          [Full EXCEPT ![2] = "conflicting"], [Full EXCEPT ![4] = "invalid"]}

SmallReplies ==
    {[rows |-> f, unmappable |-> FALSE, action |-> "plain"] : f \in RowPatterns}
    \cup {[rows |-> Full, unmappable |-> u, action |-> "split"] : u \in BOOLEAN}
    \cup {[rows |-> [Full EXCEPT ![1] = "none"], unmappable |-> FALSE, action |-> "split"]}

\* Alpha Vantage's compact output reaches back to day 2.
CompactFrom == {2}
=============================================================================
